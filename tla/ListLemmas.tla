----------------------------- MODULE ListLemmas -----------------------------
(***************************************************************************)
(* Facts that several proofs rest on: induction over finite sets and       *)
(* numbers, functions defined by recursion (the folds of the models), what *)
(* appending, removing and concatenating do to the elements of a list, and *)
(* what the operators of TimerList do to the ticks that each process has   *)
(* left until its timer expires.                                           *)
(***************************************************************************)
EXTENDS TimerList, Functions, FiniteSetsExt, SequenceTheorems, FiniteSetTheorems, WellFoundedInduction, TLAPS

-----------------------------------------------------------------------------
(***************************************************************************)
(* Induction.  The property is given as the set of what has it, so that    *)
(* each use is an instance of a first-order statement.                     *)
(***************************************************************************)

(* What holds of a set when it holds of that set without any one element   *)
(* holds of all subsets of a finite set.                                   *)
LEMMA InductionOnSubsets ==
  ASSUME NEW S, IsFiniteSet(S), NEW P,
         \A T \in SUBSET S : (\A x \in T : T \ {x} \in P) => T \in P
  PROVE  \A T \in SUBSET S : T \in P
<1> DEFINE Bad == {T \in SUBSET S : T \notin P}
<1>1. SUFFICES ASSUME Bad # {} PROVE FALSE
  OBVIOUS
<1>2. IsWellFoundedOn(StrictSubsetOrdering(S), SUBSET S)
  BY FS_StrictSubsetOrderingWellFounded, FS_FiniteSubsetsOfFinite
<1>3. PICK B \in Bad : \A T \in Bad : <<T, B>> \notin StrictSubsetOrdering(S)
  <2>1. Bad \subseteq SUBSET S
    OBVIOUS
  <2> HIDE DEF Bad
  <2>2. QED
    BY <1>1, <1>2, <2>1, WFMin
<1>4. ASSUME NEW x \in B PROVE B \ {x} \in P
  <2>1. <<B \ {x}, B>> \in StrictSubsetOrdering(S)
    BY <1>3 DEF StrictSubsetOrdering
  <2>2. QED
    BY <1>3, <2>1
<1>5. QED
  BY <1>3, <1>4

(* Induction over the natural numbers.                                     *)
LEMMA InductionOnNat ==
  ASSUME NEW P, 0 \in P, \A n \in Nat : n \in P => n + 1 \in P
  PROVE  Nat \subseteq P
<1> SUFFICES ASSUME NEW n \in Nat PROVE n \in P
  OBVIOUS
<1> DEFINE Q == {T \in SUBSET (1..n) : Cardinality(T) \in P}
<1>1. IsFiniteSet(1..n) /\ Cardinality(1..n) = n
  BY FS_Interval
<1>2. ASSUME NEW T \in SUBSET (1..n), \A x \in T : T \ {x} \in Q
      PROVE  T \in Q
  <2>1. IsFiniteSet(T) /\ Cardinality(T) \in Nat
    BY <1>1, FS_Subset, FS_CardinalityType
  <2>2. CASE T = {}
    BY <2>2, FS_EmptySet
  <2>3. CASE T # {}
    <3>1. PICK x \in T : TRUE
      BY <2>3
    <3>2. Cardinality(T \ {x}) \in P /\ Cardinality(T \ {x}) = Cardinality(T) - 1
      BY <1>2, <2>1, <3>1, FS_RemoveElement
    <3>3. Cardinality(T) # 0
      BY <2>1, <2>3, FS_EmptySet
    <3>4. Cardinality(T) - 1 \in Nat /\ (Cardinality(T) - 1) + 1 = Cardinality(T)
      BY <2>1, <3>3
    <3>5. QED
      BY <3>2, <3>4
  <2>4. QED
    BY <2>2, <2>3
<1>3. 1..n \in Q
  <2>1. \A T \in SUBSET (1..n) : (\A x \in T : T \ {x} \in Q) => T \in Q
    BY <1>2
  <2> HIDE DEF Q
  <2>2. \A T \in SUBSET (1..n) : T \in Q
    BY <1>1, <2>1, InductionOnSubsets
  <2>3. QED
    BY <2>2
<1>4. QED
  BY <1>1, <1>3

(* The library's maximum of some of the first few numbers is one of them.  *)
LEMMA MaxOfFew ==
  ASSUME NEW n \in Nat, NEW T \in SUBSET (1..n), T # {}
  PROVE  Max(T) \in T /\ \A y \in T : Max(T) >= y
<1> DEFINE Q == {m \in Nat : T \cap (1..m) # {} => \E x \in T \cap (1..m) : \A y \in T \cap (1..m) : x >= y}
<1>1. 0 \in Q
  OBVIOUS
<1>2. ASSUME NEW m \in Nat, m \in Q PROVE m + 1 \in Q
  <2>1. CASE m + 1 \in T
    <3>1. \A y \in T \cap (1..(m + 1)) : m + 1 >= y
      OBVIOUS
    <3>2. QED
      BY <2>1, <3>1
  <2>2. CASE m + 1 \notin T
    <3>1. T \cap (1..(m + 1)) = T \cap (1..m)
      BY <2>2
    <3>2. QED
      BY <1>2, <3>1
  <2>3. QED
    BY <2>1, <2>2
<1>3. n \in Q
  <2> HIDE DEF Q
  <2>1. QED
    BY <1>1, <1>2, InductionOnNat
<1>4. \E x \in T : \A y \in T : x >= y
  BY <1>3
<1>5. QED
  BY <1>4 DEF Max

(* A finite set of integers has a least and a greatest element.            *)
LEMMA Extremes ==
  ASSUME NEW S \in SUBSET Int, IsFiniteSet(S), S # {}
  PROVE  /\ \E x \in S : \A y \in S : x <= y
         /\ \E x \in S : \A y \in S : y <= x
<1> DEFINE Q == {T \in SUBSET S : T # {} => /\ \E x \in T : \A y \in T : x <= y
                                            /\ \E x \in T : \A y \in T : y <= x}
<1>1. ASSUME NEW T \in SUBSET S, \A x \in T : T \ {x} \in Q
      PROVE  T \in Q
  <2> SUFFICES ASSUME T # {}
               PROVE  /\ \E x \in T : \A y \in T : x <= y
                      /\ \E x \in T : \A y \in T : y <= x
    OBVIOUS
  <2>1. PICK z \in T : TRUE
    OBVIOUS
  <2>2. CASE T \ {z} = {}
    <3>1. \A y \in T : y = z
      BY <2>2
    <3>2. z <= z
      BY <2>1
    <3>3. QED
      BY <3>1, <3>2
  <2>3. CASE T \ {z} # {}
    <3>1. PICK x1 \in T \ {z} : \A y \in T \ {z} : x1 <= y
      BY <1>1, <2>1, <2>3
    <3>2. PICK x2 \in T \ {z} : \A y \in T \ {z} : y <= x2
      BY <1>1, <2>1, <2>3
    <3>3. \A y \in T : y \in Int /\ (y = z \/ y \in T \ {z})
      OBVIOUS
    <3>4. \E x \in {z, x1} : \A y \in T : x <= y
      BY <2>1, <3>1, <3>3
    <3>5. \E x \in {z, x2} : \A y \in T : y <= x
      BY <2>1, <3>2, <3>3
    <3>6. QED
      BY <2>1, <3>1, <3>2, <3>4, <3>5
  <2>4. QED
    BY <2>2, <2>3
<1>2. S \in Q
  <2> HIDE DEF Q
  <2>1. QED
    BY <1>1, InductionOnSubsets
<1>3. QED
  BY <1>2

(* A function on the first numbers defined by recursion exists.            *)
Recursion(n, base, step, f) == f = [k \in 0..n |-> IF k = 0 THEN base ELSE step[f[k-1]]]

LEMMA RecursionExists ==
  ASSUME NEW n \in Nat, NEW W, NEW base \in W, NEW step, \A v \in W : step[v] \in W
  PROVE  \E f \in [0..n -> W] : Recursion(n, base, step, f)
<1> DEFINE Upto(m) == {f \in [0..m -> W] : f[0] = base /\ \A k \in 1..m : f[k] = step[f[k-1]]}
           Q == {m \in Nat : Upto(m) # {}}
<1>1. 0 \in Q
  <2> DEFINE f == [k \in 0..0 |-> base]
  <2>1. f \in Upto(0)
    OBVIOUS
  <2>2. QED
    BY <2>1
<1>2. ASSUME NEW m \in Nat, m \in Q PROVE m + 1 \in Q
  <2>1. PICK f \in [0..m -> W] : f[0] = base /\ \A k \in 1..m : f[k] = step[f[k-1]]
    BY <1>2
  <2> DEFINE g == [k \in 0..(m + 1) |-> IF k <= m THEN f[k] ELSE step[f[m]]]
  <2>2. g \in [0..(m + 1) -> W]
    BY <2>1
  <2>3. \A k \in 0..m : g[k] = f[k]
    OBVIOUS
  <2>4. g[m + 1] = step[f[m]] /\ (m + 1) - 1 = m /\ m \in 0..m
    OBVIOUS
  <2> HIDE DEF g
  <2>5. ASSUME NEW k \in 1..(m + 1) PROVE g[k] = step[g[k-1]]
    <3>1. CASE k = m + 1
      BY <2>3, <2>4, <3>1
    <3>2. CASE k # m + 1
      BY <2>1, <2>3, <3>2
    <3>3. QED
      BY <3>1, <3>2
  <2>6. g[0] = base
    BY <2>1, <2>3
  <2>7. g \in Upto(m + 1)
    BY <2>2, <2>5, <2>6
  <2>8. QED
    BY <2>7
<1>3. n \in Q
  <2> HIDE DEF Q
  <2>1. QED
    BY <1>1, <1>2, InductionOnNat
<1>4. PICK f \in [0..n -> W] : f[0] = base /\ \A k \in 1..n : f[k] = step[f[k-1]]
  BY <1>3
<1>5. f = [k \in 0..n |-> IF k = 0 THEN base ELSE step[f[k-1]]]
  <2>1. \A k \in 0..n : f[k] = IF k = 0 THEN base ELSE step[f[k-1]]
    BY <1>4
  <2>2. QED
    BY <2>1
<1>6. QED
  BY <1>5 DEF Recursion

(***************************************************************************)
(* The recursion of a fold has a solution: a function that takes the       *)
(* elements of a finite set one by one, in the order that pick gives.  The *)
(* folds of the library are defined as some function with this equation.   *)
(***************************************************************************)
FoldSolutions(S, W, base, pick, step) ==
  {f \in [SUBSET S -> W] :
     \A T \in SUBSET S :
       f[T] = IF T = {} THEN base ELSE step[<<pick[T], f[T \ {pick[T]}]>>]}

(* The recursion over the subsets of a finite set has a solution.          *)
LEMMA FoldExists ==
  ASSUME NEW S, IsFiniteSet(S), NEW W, NEW base \in W,
         NEW pick, \A T \in SUBSET S : T # {} => pick[T] \in T,
         NEW step, \A x \in S, v \in W : step[<<x, v>>] \in W
  PROVE  FoldSolutions(S, W, base, pick, step) # {}
<1> DEFINE Rec(f, T) == IF T = {} THEN base ELSE step[<<pick[T], f[T \ {pick[T]}]>>]
           P == {n \in Nat : \E f \in [SUBSET S -> W] :
                   \A T \in SUBSET S : Cardinality(T) <= n => f[T] = Rec(f, T)}
<1>1. \A T \in SUBSET S : IsFiniteSet(T) /\ Cardinality(T) \in Nat
  BY FS_Subset, FS_CardinalityType
<1>2. \A T \in SUBSET S : T # {} => /\ Cardinality(T \ {pick[T]}) = Cardinality(T) - 1
                                    /\ T \ {pick[T]} \in SUBSET S /\ pick[T] \in S
  BY <1>1, FS_RemoveElement
<1>3. 0 \in P
  <2> DEFINE f == [T \in SUBSET S |-> base]
  <2>1. f \in [SUBSET S -> W]
    OBVIOUS
  <2>2. \A T \in SUBSET S : Cardinality(T) <= 0 => f[T] = Rec(f, T)
    BY <1>1, FS_EmptySet
  <2> HIDE DEF f
  <2>3. QED
    BY <2>1, <2>2
<1>4. ASSUME NEW n \in Nat, n \in P PROVE n + 1 \in P
  <2>1. PICK f \in [SUBSET S -> W] : \A T \in SUBSET S : Cardinality(T) <= n => f[T] = Rec(f, T)
    BY <1>4
  <2> DEFINE g == [T \in SUBSET S |-> Rec(f, T)]
  <2>2. g \in [SUBSET S -> W]
    <3>1. ASSUME NEW T \in SUBSET S PROVE Rec(f, T) \in W
      <4>1. CASE T = {}
        BY <4>1
      <4>2. CASE T # {}
        <5>1. pick[T] \in S /\ f[T \ {pick[T]}] \in W
          BY <1>2, <4>2
        <5>2. QED
          BY <4>2, <5>1
      <4>3. QED
        BY <4>1, <4>2
    <3> HIDE DEF Rec
    <3>2. QED
      BY <3>1
  <2>3. ASSUME NEW T \in SUBSET S, Cardinality(T) <= n + 1
        PROVE  g[T] = Rec(g, T)
    <3>1. CASE T = {}
      BY <3>1
    <3>2. CASE T # {}
      <4>1. T \ {pick[T]} \in SUBSET S /\ Cardinality(T \ {pick[T]}) <= n
        BY <1>1, <1>2, <2>3, <3>2
      <4>2. f[T \ {pick[T]}] = Rec(f, T \ {pick[T]})
        BY <2>1, <4>1
      <4>3. g[T \ {pick[T]}] = Rec(f, T \ {pick[T]})
        BY <4>1
      <4>4. g[T] = Rec(f, T)
        OBVIOUS
      <4> HIDE DEF g
      <4>5. QED
        BY <3>2, <4>2, <4>3, <4>4
    <3>3. QED
      BY <3>1, <3>2
  <2> HIDE DEF g, Rec
  <2>4. QED
    BY <2>2, <2>3
<1>5. Cardinality(S) \in P
  <2> HIDE DEF P
  <2>1. QED
    BY <1>1, <1>3, <1>4, InductionOnNat
<1>6. \A T \in SUBSET S : Cardinality(T) <= Cardinality(S)
  BY FS_Subset
<1>7. QED
  BY <1>5, <1>6 DEF FoldSolutions

-----------------------------------------------------------------------------

(* Appending an element that is not in a list keeps it free of repetition. *)
LEMMA AppendList ==
  ASSUME NEW S, NEW list \in Seq(S), NEW p \in S
  PROVE  /\ Append(list, p) \in Seq(S)
         /\ Append(list, p) # <<>>
         /\ \A q : InList(q, Append(list, p)) <=> InList(q, list) \/ q = p
         /\ NoRepeat(list) /\ ~InList(p, list) => NoRepeat(Append(list, p))
<1>1. /\ Append(list, p) \in Seq(S)
      /\ Append(list, p) # <<>>
      /\ Len(Append(list, p)) = Len(list) + 1
      /\ \A i \in 1..Len(list) : Append(list, p)[i] = list[i]
      /\ Append(list, p)[Len(list) + 1] = p
  BY AppendProperties
<1>2. Len(list) \in Nat
  BY LenProperties
<1>3. ASSUME NEW q
      PROVE  InList(q, Append(list, p)) <=> InList(q, list) \/ q = p
  BY <1>1, <1>2 DEF InList
<1>4. ASSUME NoRepeat(list), ~InList(p, list)
      PROVE  NoRepeat(Append(list, p))
  BY <1>1, <1>2, <1>4 DEF InList, NoRepeat
<1>5. QED
  BY <1>1, <1>3, <1>4

(* Removing the head of a list without repetition removes just that one.   *)
LEMMA TailList ==
  ASSUME NEW S, NEW list \in Seq(S), list # <<>>, NoRepeat(list)
  PROVE  /\ Head(list) \in S
         /\ InList(Head(list), list)
         /\ Tail(list) \in Seq(S)
         /\ NoRepeat(Tail(list))
         /\ \A q : InList(q, Tail(list)) <=> InList(q, list) /\ q # Head(list)
<1>1. /\ Head(list) \in S
      /\ Tail(list) \in Seq(S)
      /\ Len(Tail(list)) = Len(list) - 1
      /\ \A i \in 1..Len(Tail(list)) : Tail(list)[i] = list[i+1]
  BY HeadTailProperties
<1>2. Len(list) \in Nat /\ Len(list) >= 1 /\ Head(list) = list[1]
  BY LenProperties, EmptySeq
<1>3. NoRepeat(Tail(list))
  BY <1>1, <1>2 DEF NoRepeat
<1>4. ASSUME NEW q
      PROVE  InList(q, Tail(list)) <=> InList(q, list) /\ q # Head(list)
  <2>1. ASSUME InList(q, Tail(list))
        PROVE  InList(q, list) /\ q # Head(list)
    BY <2>1, <1>1, <1>2 DEF InList, NoRepeat
  <2>2. ASSUME InList(q, list), q # Head(list)
        PROVE  InList(q, Tail(list))
    <3>1. PICK i \in 1..Len(list) : list[i] = q
      BY <2>2 DEF InList
    <3>2. i - 1 \in 1..Len(Tail(list)) /\ Tail(list)[i - 1] = q
      BY <3>1, <2>2, <1>1, <1>2
    <3>3. QED
      BY <3>2 DEF InList
  <2>3. QED
    BY <2>1, <2>2
<1>5. QED
  BY <1>1, <1>2, <1>3, <1>4 DEF InList

(* Lists without a common element concatenate without repetition.          *)
LEMMA ConcatLists ==
  ASSUME NEW S, NEW l1 \in Seq(S), NEW l2 \in Seq(S),
         NoRepeat(l1), NoRepeat(l2),
         \A q : ~(InList(q, l1) /\ InList(q, l2))
  PROVE  /\ l1 \o l2 \in Seq(S)
         /\ NoRepeat(l1 \o l2)
         /\ \A q : InList(q, l1 \o l2) <=> InList(q, l1) \/ InList(q, l2)
<1> DEFINE l == l1 \o l2
<1>1. /\ l \in Seq(S)
      /\ Len(l) = Len(l1) + Len(l2)
      /\ \A i \in 1..Len(l1) + Len(l2) :
            l[i] = IF i <= Len(l1) THEN l1[i] ELSE l2[i - Len(l1)]
  BY ConcatProperties
<1>2. Len(l1) \in Nat /\ Len(l2) \in Nat
  BY LenProperties
<1> HIDE DEF l
<1>3. ASSUME NEW i \in 1..Len(l), NEW j \in 1..Len(l), l[i] = l[j]
      PROVE  i = j
  <2>1. CASE i <= Len(l1) /\ j <= Len(l1)
    BY <2>1, <1>1, <1>2, <1>3 DEF NoRepeat
  <2>2. CASE i > Len(l1) /\ j > Len(l1)
    <3>1. /\ i - Len(l1) \in 1..Len(l2) /\ j - Len(l1) \in 1..Len(l2)
          /\ l2[i - Len(l1)] = l2[j - Len(l1)]
      BY <2>2, <1>1, <1>2, <1>3
    <3>2. i - Len(l1) = j - Len(l1)
      BY <3>1 DEF NoRepeat
    <3>3. QED
      BY <3>2, <1>1, <1>2
  <2>3. CASE i <= Len(l1) /\ j > Len(l1)
    <3>1. i \in 1..Len(l1) /\ j - Len(l1) \in 1..Len(l2) /\ l1[i] = l2[j - Len(l1)]
      BY <2>3, <1>1, <1>2, <1>3
    <3>2. QED
      BY <3>1 DEF InList
  <2>4. CASE i > Len(l1) /\ j <= Len(l1)
    <3>1. j \in 1..Len(l1) /\ i - Len(l1) \in 1..Len(l2) /\ l1[j] = l2[i - Len(l1)]
      BY <2>4, <1>1, <1>2, <1>3
    <3>2. QED
      BY <3>1 DEF InList
  <2>5. QED
    BY <2>1, <2>2, <2>3, <2>4, <1>1, <1>2
<1>4. ASSUME NEW q, InList(q, l)
      PROVE  InList(q, l1) \/ InList(q, l2)
  <2>1. PICK i \in 1..Len(l) : l[i] = q
    BY <1>4 DEF InList
  <2>2. \/ i \in 1..Len(l1) /\ l1[i] = q
        \/ i - Len(l1) \in 1..Len(l2) /\ l2[i - Len(l1)] = q
    BY <2>1, <1>1, <1>2
  <2>3. QED
    BY <2>2 DEF InList
<1>5. ASSUME NEW q, InList(q, l1)
      PROVE  InList(q, l)
  BY <1>1, <1>2, <1>5 DEF InList
<1>6. ASSUME NEW q, InList(q, l2)
      PROVE  InList(q, l)
  <2>1. PICK i \in 1..Len(l2) : l2[i] = q
    BY <1>6 DEF InList
  <2> DEFINE k == i + Len(l1)
  <2>2. k \in 1..Len(l) /\ k > Len(l1) /\ k - Len(l1) = i
    BY <1>1, <1>2
  <2> HIDE DEF k
  <2>3. l[k] = q
    BY <2>1, <2>2, <1>1, <1>2
  <2>4. QED
    BY <2>2, <2>3 DEF InList
<1>7. NoRepeat(l)
  BY <1>3 DEF NoRepeat
<1>8. QED
  BY <1>1, <1>4, <1>5, <1>6, <1>7 DEF l

(* A stretch of a list without repetition.                                 *)
LEMMA SliceList ==
  ASSUME NEW S, NEW list \in Seq(S), NoRepeat(list),
         NEW m \in Nat \ {0}, NEW n \in Nat, n <= Len(list)
  PROVE  /\ SubSeq(list, m, n) \in Seq(S)
         /\ NoRepeat(SubSeq(list, m, n))
         /\ \A q : InList(q, SubSeq(list, m, n)) <=> \E i \in m..n : list[i] = q
<1> DEFINE l == SubSeq(list, m, n)
<1>1. Len(list) \in Nat /\ \A i \in m..n : list[i] \in S
  BY LenProperties, ElementOfSeq
<1>2. /\ l \in Seq(S)
      /\ Len(l) = IF m <= n THEN n - m + 1 ELSE 0
      /\ \A i \in 1..(n - m + 1) : l[i] = list[m + i - 1]
  BY <1>1, SubSeqProperties
<1>3. NoRepeat(l)
  <2>1. ASSUME NEW i \in 1..Len(l), NEW j \in 1..Len(l), l[i] = l[j]
        PROVE  i = j
    <3>1. /\ i \in 1..(n - m + 1) /\ j \in 1..(n - m + 1)
          /\ m + i - 1 \in 1..Len(list) /\ m + j - 1 \in 1..Len(list)
      BY <1>1, <1>2
    <3>2. list[m + i - 1] = list[m + j - 1]
      BY <1>2, <2>1, <3>1
    <3>3. m + i - 1 = m + j - 1
      BY <3>1, <3>2 DEF NoRepeat
    <3>4. QED
      BY <3>1, <3>3
  <2>2. QED
    BY <2>1 DEF NoRepeat
<1>4. ASSUME NEW q, InList(q, l)
      PROVE  \E i \in m..n : list[i] = q
  <2>1. PICK i \in 1..Len(l) : l[i] = q
    BY <1>4 DEF InList
  <2>2. m + i - 1 \in m..n /\ list[m + i - 1] = q
    BY <2>1, <1>2
  <2>3. QED
    BY <2>2
<1>5. ASSUME NEW q, NEW i \in m..n, list[i] = q
      PROVE  InList(q, l)
  <2>1. i - m + 1 \in 1..Len(l) /\ l[i - m + 1] = q
    BY <1>5, <1>2
  <2>2. QED
    BY <2>1 DEF InList
<1>6. QED
  BY <1>2, <1>3, <1>4, <1>5 DEF l

(* Taking one element out of a list without repetition.                    *)
LEMMA CutList ==
  ASSUME NEW S, NEW list \in Seq(S), NoRepeat(list), NEW i \in 1..Len(list)
  PROVE  LET rest == SubSeq(list, 1, i - 1) \o SubSeq(list, i + 1, Len(list))
         IN  /\ rest \in Seq(S)
             /\ NoRepeat(rest)
             /\ \A q : InList(q, rest) <=> InList(q, list) /\ q # list[i]
<1> DEFINE l1 == SubSeq(list, 1, i - 1)
           l2 == SubSeq(list, i + 1, Len(list))
<1>1. Len(list) \in Nat /\ i - 1 \in Nat /\ i + 1 \in Nat \ {0} /\ i - 1 <= Len(list)
  BY LenProperties
<1>2. /\ l1 \in Seq(S) /\ NoRepeat(l1)
      /\ \A q : InList(q, l1) <=> \E j \in 1..(i - 1) : list[j] = q
  BY <1>1, SliceList
<1>3. /\ l2 \in Seq(S) /\ NoRepeat(l2)
      /\ \A q : InList(q, l2) <=> \E j \in (i + 1)..Len(list) : list[j] = q
  BY <1>1, SliceList
<1> HIDE DEF l1, l2
<1>4. \A q : ~(InList(q, l1) /\ InList(q, l2))
  BY <1>1, <1>2, <1>3 DEF NoRepeat
<1>5. /\ l1 \o l2 \in Seq(S) /\ NoRepeat(l1 \o l2)
      /\ \A q : InList(q, l1 \o l2) <=> InList(q, l1) \/ InList(q, l2)
  BY <1>2, <1>3, <1>4, ConcatLists
<1>6. \A q : InList(q, l1) \/ InList(q, l2) <=> InList(q, list) /\ q # list[i]
  <2>1. \A q : InList(q, l1) \/ InList(q, l2)
               <=> \E j \in 1..Len(list) : j # i /\ list[j] = q
    BY <1>1, <1>2, <1>3
  <2>2. \A j \in 1..Len(list) : j # i <=> list[j] # list[i]
    BY DEF NoRepeat
  <2>3. QED
    BY <2>1, <2>2 DEF InList
<1>7. QED
  BY <1>5, <1>6 DEF l1, l2

(* An ordering of a finite set lists each of its elements once.            *)
LEMMA OrderingsList ==
  ASSUME NEW T, NEW S \in SUBSET T, IsFiniteSet(S), NEW list \in Orderings(S)
  PROVE  /\ list \in Seq(T)
         /\ NoRepeat(list)
         /\ \A x : InList(x, list) <=> x \in S
<1>1. Cardinality(S) \in Nat
  BY FS_CardinalityType
<1>2. list \in [1..Cardinality(S) -> S] /\ NoRepeat(list) /\ \A x \in S : InList(x, list)
  BY DEF Orderings
<1>3. list \in Seq(S) /\ Len(list) = Cardinality(S)
  BY <1>1, <1>2
<1>4. list \in Seq(T)
  BY <1>3, SeqMonotonic
<1>5. ASSUME NEW x, InList(x, list)
      PROVE  x \in S
  BY <1>2, <1>3, <1>5 DEF InList
<1>6. QED
  BY <1>2, <1>4, <1>5

(* An empty list has no elements.                                          *)
LEMMA EmptyList ==
  ASSUME NEW x PROVE ~InList(x, <<>>) /\ NoRepeat(<<>>)
BY DEF InList, NoRepeat

(* A list of one element.                                                  *)
LEMMA SingletonList ==
  ASSUME NEW S, NEW p \in S
  PROVE  <<p>> \in Seq(S) /\ NoRepeat(<<p>>) /\ \A q : InList(q, <<p>>) <=> q = p
BY DEF NoRepeat, InList

(* The range of a list and the elements it lists are the same.             *)
LEMMA RangeList ==
  ASSUME NEW S, NEW list \in Seq(S), NEW q
  PROVE  q \in Range(list) <=> InList(q, list)
BY LenProperties DEF Range, InList

-----------------------------------------------------------------------------
(***************************************************************************)
(* Timer lists.  What a process has left until its timer expires is the    *)
(* sum of the entries up to its own.  Adding, removing and ticking change  *)
(* what the code says they change for one process or for all, and leave    *)
(* everyone else what they had.                                            *)
(***************************************************************************)

(* Lists of timers of the processes P.                                     *)
Entries(P) == [proc : P, expires : Nat]

(* What sum does: it adds the ticks of the entries up to each.             *)
Sums(list, f) ==
  /\ f \in [0..Len(list) -> Nat]
  /\ f[0] = 0
  /\ \A k \in 1..Len(list) : f[k] = f[k-1] + list[k].expires

(* A set of indices with every smaller index of each is the first few.     *)
LEMMA FirstFew ==
  ASSUME NEW n \in Nat, NEW D \in SUBSET (1..n),
         \A k \in D : \A i \in 1..k : i \in D
  PROVE  /\ Cardinality(D) \in 0..n
         /\ D = 1..Cardinality(D)
<1> DEFINE P == {m \in Nat : \E k \in 0..m : D \cap (1..m) = 1..k}
<1>1. 0 \in P
  BY Z3
<1>2. ASSUME NEW m \in Nat, m \in P PROVE m + 1 \in P
  <2>1. PICK k \in 0..m : D \cap (1..m) = 1..k
    BY <1>2
  <2>2. CASE m + 1 \in D
    <3>1. D \cap (1..(m + 1)) = 1..(m + 1)
      BY <2>2
    <3>2. QED
      BY <3>1
  <2>3. CASE m + 1 \notin D
    <3>1. D \cap (1..(m + 1)) = 1..k
      BY <2>1, <2>3
    <3>2. QED
      BY <3>1
  <2>4. QED
    BY <2>2, <2>3
<1>3. n \in P
  <2> HIDE DEF P
  <2>1. QED
    BY <1>1, <1>2, InductionOnNat
<1>4. PICK k \in 0..n : D = 1..k
  BY <1>3
<1>5. Cardinality(1..k) = k
  BY <1>4, FS_Interval
<1>6. QED
  BY <1>4, <1>5

(* The recursion of TicksUntil has this one solution.                      *)
LEMMA TicksUntilSums ==
  ASSUME NEW P, NEW list \in Seq(Entries(P))
  PROVE  Sums(list, TicksUntil(list))
<1> DEFINE Upto(n) == {f \in [0..n -> Nat] :
                         f[0] = 0 /\ \A k \in 1..n : f[k] = f[k-1] + list[k].expires}
           Q == {n \in Nat : n <= Len(list) => Upto(n) # {}}
<1>1. Len(list) \in Nat /\ \A k \in 1..Len(list) : list[k].expires \in Nat
  <2>1. Len(list) \in Nat
    BY LenProperties
  <2>2. \A k \in 1..Len(list) : list[k] \in Entries(P)
    BY ElementOfSeq
  <2>3. QED
    BY <2>1, <2>2 DEF Entries
<1>2. 0 \in Q
  <2> DEFINE f == [k \in 0..0 |-> 0]
  <2>1. f \in [0..0 -> Nat] /\ f[0] = 0 /\ \A k \in 1..0 : FALSE
    OBVIOUS
  <2> HIDE DEF f
  <2>2. f \in Upto(0)
    BY <2>1
  <2>3. QED
    BY <2>2
<1>3. ASSUME NEW n \in Nat, n \in Q PROVE n + 1 \in Q
  <2>1. ASSUME n + 1 <= Len(list)
        PROVE  Upto(n + 1) # {}
    <3>1. PICK f \in Upto(n) : TRUE
      BY <1>1, <1>3, <2>1
    <3> DEFINE g == [k \in 0..(n+1) |-> IF k <= n THEN f[k] ELSE f[n] + list[n+1].expires]
    <3>2. g \in [0..(n+1) -> Nat]
      <4>1. list[n+1].expires \in Nat
        BY <1>1, <2>1
      <4>2. QED
        BY <3>1, <4>1
    <3>3. g[0] = 0
      BY <3>1
    <3>4. ASSUME NEW k \in 1..(n+1) PROVE g[k] = g[k-1] + list[k].expires
      <4>1. CASE k <= n
        <5>1. g[k] = f[k] /\ g[k-1] = f[k-1] /\ k \in 1..n
          BY <4>1
        <5>2. QED
          BY <3>1, <5>1
      <4>2. CASE k = n + 1
        <5>1. g[k] = f[n] + list[k].expires /\ g[k-1] = f[n]
          BY <4>2
        <5>2. QED
          BY <5>1
      <4>3. QED
        BY <4>1, <4>2
    <3> HIDE DEF g
    <3>5. g \in Upto(n + 1)
      BY <3>2, <3>3, <3>4
    <3>6. QED
      BY <3>5
  <2> HIDE DEF Upto
  <2>2. QED
    BY <2>1
<1>4. Len(list) \in Q
  <2> HIDE DEF Q
  <2>1. QED
    BY <1>1, <1>2, <1>3, InductionOnNat
<1>5. PICK f \in Upto(Len(list)) : TRUE
  BY <1>1, <1>4
<1>6. f = [k \in 0..Len(list) |-> IF k = 0 THEN 0 ELSE f[k-1] + list[k].expires]
  BY <1>1, <1>5
<1> DEFINE sum == CHOOSE sum : sum = [k \in 0..Len(list) |-> IF k = 0 THEN 0 ELSE sum[k-1] + list[k].expires]
<1>7. sum = [k \in 0..Len(list) |-> IF k = 0 THEN 0 ELSE sum[k-1] + list[k].expires]
  BY <1>6
<1>8. TicksUntil(list) = sum
  BY DEF TicksUntil
<1> HIDE DEF sum
<1>9. sum[0] = 0 /\ \A k \in 1..Len(list) : sum[k] = sum[k-1] + list[k].expires
  BY <1>1, <1>7
<1>10. sum \in [0..Len(list) -> Nat]
  <2> DEFINE R == {n \in Nat : n <= Len(list) => sum[n] \in Nat}
  <2>1. 0 \in R
    BY <1>9
  <2>2. ASSUME NEW n \in Nat, n \in R PROVE n + 1 \in R
    <3>1. n + 1 <= Len(list) => n + 1 \in 1..Len(list) /\ n <= Len(list) /\ (n + 1) - 1 = n
      BY <1>1
    <3>2. ASSUME n + 1 <= Len(list) PROVE sum[n + 1] \in Nat
      <4>1. sum[n + 1] = sum[n] + list[n + 1].expires
        BY <1>9, <3>1, <3>2
      <4>2. sum[n] \in Nat /\ list[n + 1].expires \in Nat
        BY <1>1, <2>2, <3>1, <3>2
      <4>3. QED
        BY <4>1, <4>2
    <3>3. QED
      BY <3>2
  <2>3. Nat \subseteq R
    <3> HIDE DEF R
    <3>1. QED
      BY <2>1, <2>2, InductionOnNat
  <2>4. \A k \in 0..Len(list) : sum[k] \in Nat
    BY <1>1, <2>3
  <2>5. QED
    BY <1>7, <2>4
<1>11. QED
  BY <1>8, <1>9, <1>10 DEF Sums

(* A list has one function of sums.                                        *)
LEMMA SumsUnique ==
  ASSUME NEW P, NEW list \in Seq(Entries(P)), NEW f, NEW g, Sums(list, f), Sums(list, g)
  PROVE  f = g
<1> DEFINE R == {n \in Nat : n <= Len(list) => f[n] = g[n]}
<1>1. Len(list) \in Nat
  OBVIOUS
<1>2. 0 \in R
  BY DEF Sums
<1>3. ASSUME NEW n \in Nat, n \in R PROVE n + 1 \in R
  <2>1. n + 1 <= Len(list) => n + 1 \in 1..Len(list) /\ n <= Len(list) /\ (n + 1) - 1 = n
    BY <1>1
  <2>2. QED
    BY <1>3, <2>1 DEF Sums
<1>4. Nat \subseteq R
  <2> HIDE DEF R
  <2>1. QED
    BY <1>2, <1>3, InductionOnNat
<1>5. \A n \in 0..Len(list) : f[n] = g[n]
  BY <1>1, <1>4
<1>6. QED
  BY <1>5 DEF Sums

(* Later entries expire no earlier.                                        *)
LEMMA SumsGrow ==
  ASSUME NEW P, NEW list \in Seq(Entries(P)), NEW f, Sums(list, f),
         NEW i \in 0..Len(list), NEW j \in 0..Len(list), i <= j
  PROVE  f[i] <= f[j]
<1> DEFINE R == {n \in Nat : i + n <= Len(list) => f[i] <= f[i + n]}
<1>1. Len(list) \in Nat /\ i \in Nat /\ \A k \in 1..Len(list) : list[k].expires \in Nat
  <2>1. Len(list) \in Nat
    BY LenProperties
  <2>2. \A k \in 1..Len(list) : list[k] \in Entries(P)
    BY ElementOfSeq
  <2>3. QED
    BY <2>1, <2>2 DEF Entries
<1>2. 0 \in R
  BY <1>1 DEF Sums
<1>3. ASSUME NEW n \in Nat, n \in R PROVE n + 1 \in R
  <2>1. ASSUME i + (n + 1) <= Len(list)
        PROVE  f[i] <= f[i + (n + 1)]
    <3> DEFINE m == i + n
    <3>1. m + 1 \in 1..Len(list) /\ m \in 0..Len(list) /\ (m + 1) - 1 = m /\ i + (n + 1) = m + 1
      BY <1>1, <2>1
    <3>2. f[i] <= f[m] /\ f[m] \in Nat /\ f[i] \in Nat
      <4>1. f[m] \in Nat /\ f[i] \in Nat
        BY <3>1 DEF Sums
      <4>2. f[i] <= f[m]
        BY <1>1, <1>3, <3>1
      <4>3. QED
        BY <4>1, <4>2
    <3> HIDE DEF m
    <3>3. f[m + 1] = f[m] + list[m + 1].expires
      BY <3>1 DEF Sums
    <3>4. QED
      BY <1>1, <3>1, <3>2, <3>3
  <2>2. QED
    BY <2>1
<1>4. Nat \subseteq R
  <2> HIDE DEF R
  <2>1. QED
    BY <1>2, <1>3, InductionOnNat
<1>5. j - i \in Nat /\ i + (j - i) = j
  BY <1>1
<1>6. QED
  BY <1>4, <1>5

-----------------------------------------------------------------------------
Armed(list) == {list[i].proc : i \in 1..Len(list)}

OneEach(list) == \A i, j \in 1..Len(list) : list[i].proc = list[j].proc => i = j

(* A timer list between two interrupts: the head has ticks left.           *)
Ticking(list) ==
  /\ \E P : list \in Seq(Entries(P))
  /\ OneEach(list)
  /\ list # <<>> => list[1].expires > 0

(* The ticks until the timer of p expires, 0 when it has none.             *)
LeftOf(list, p) ==
  IF HasTimer(list, p)
  THEN TicksUntil(list)[CHOOSE i \in TimerIndex(list, p) : TRUE]
  ELSE 0

(* Who has a timer.                                                        *)
LEMMA ArmedHasTimer == ASSUME NEW list, NEW p PROVE HasTimer(list, p) <=> p \in Armed(list)
BY DEF HasTimer, TimerIndex, Armed

(* The sums are the ticks that the processes have left.                    *)
LEMMA LeftIsSum ==
  ASSUME NEW P, NEW list \in Seq(Entries(P)), OneEach(list), NEW f, Sums(list, f)
  PROVE  /\ \A i \in 1..Len(list) : LeftOf(list, list[i].proc) = f[i]
         /\ \A p : p \notin Armed(list) => LeftOf(list, p) = 0
<1>1. TicksUntil(list) = f
  BY TicksUntilSums, SumsUnique
<1>2. ASSUME NEW i \in 1..Len(list) PROVE LeftOf(list, list[i].proc) = f[i]
  <2>1. TimerIndex(list, list[i].proc) = {i}
    BY DEF OneEach, TimerIndex
  <2>2. QED
    BY <1>1, <2>1 DEF LeftOf, HasTimer
<1>3. ASSUME NEW p, p \notin Armed(list) PROVE LeftOf(list, p) = 0
  BY <1>3, ArmedHasTimer DEF LeftOf
<1>4. QED
  BY <1>2, <1>3

(* The entries of a list and their ticks; those of the head are the first. *)
LEMMA TickingFacts ==
  ASSUME NEW list, Ticking(list)
  PROVE  /\ Len(list) \in Nat
         /\ \A i \in 1..Len(list) : list[i].expires \in Nat
         /\ Sums(list, TicksUntil(list))
         /\ \A i \in 1..Len(list) : TicksUntil(list)[i] > 0
<1>1. PICK P : list \in Seq(Entries(P))
  BY DEF Ticking
<1>2. Len(list) \in Nat /\ \A i \in 1..Len(list) : list[i] \in Entries(P)
  BY <1>1, LenProperties, ElementOfSeq
<1>3. \A i \in 1..Len(list) : list[i].expires \in Nat
  BY <1>2 DEF Entries
<1>4. Sums(list, TicksUntil(list))
  BY <1>1, TicksUntilSums
<1> DEFINE f == TicksUntil(list)
<1>5. ASSUME NEW i \in 1..Len(list) PROVE f[i] > 0
  <2>1. 1 \in 1..Len(list) /\ list # <<>> /\ i \in 0..Len(list) /\ 1 \in 0..Len(list) /\ 1 <= i
    BY <1>2
  <2> HIDE DEF f
  <2>2. f[1] = 0 + list[1].expires /\ f[i] \in Nat
    BY <1>4, <2>1 DEF Sums, f
  <2>3. list[1].expires > 0 /\ list[1].expires \in Nat
    BY <1>3, <2>1 DEF Ticking
  <2>4. f[1] <= f[i]
    BY <1>1, <1>4, <2>1, SumsGrow DEF f
  <2>5. QED
    BY <2>2, <2>3, <2>4
<1>6. QED
  BY <1>2, <1>3, <1>4, <1>5

(* Who has a timer has ticks left, and nobody else has.                    *)
LEMMA LeftIsNat ==
  ASSUME NEW list, Ticking(list), NEW p
  PROVE  LeftOf(list, p) \in Nat /\ (LeftOf(list, p) > 0 <=> p \in Armed(list))
<1>1. PICK P : list \in Seq(Entries(P)) /\ OneEach(list)
  BY DEF Ticking
<1>2. /\ Sums(list, TicksUntil(list)) /\ Len(list) \in Nat
      /\ \A i \in 1..Len(list) : TicksUntil(list)[i] > 0
  BY TickingFacts
<1>3. /\ \A i \in 1..Len(list) : LeftOf(list, list[i].proc) = TicksUntil(list)[i]
      /\ \A q : q \notin Armed(list) => LeftOf(list, q) = 0
  BY <1>1, <1>2, LeftIsSum
<1>4. CASE p \in Armed(list)
  <2>1. PICK i \in 1..Len(list) : list[i].proc = p
    BY <1>4 DEF Armed
  <2>2. TicksUntil(list)[i] \in Nat
    BY <1>2, <2>1 DEF Sums
  <2>3. QED
    BY <1>2, <1>3, <1>4, <2>1, <2>2
<1>5. CASE p \notin Armed(list)
  BY <1>3, <1>5
<1>6. QED
  BY <1>4, <1>5

(* An entry holds no more ticks than its process has left.                 *)
LEMMA EntriesBound ==
  ASSUME NEW list, Ticking(list), NEW P, Armed(list) \subseteq P,
         NEW m \in Nat, \A p : LeftOf(list, p) <= m
  PROVE  list \in Seq([proc : P, expires : 0..m])
<1>1. PICK Q : list \in Seq(Entries(Q)) /\ OneEach(list)
  BY DEF Ticking
<1> DEFINE f == TicksUntil(list)
<1>2. /\ Sums(list, f) /\ Len(list) \in Nat
      /\ \A i \in 1..Len(list) : list[i].expires \in Nat
  BY TickingFacts
<1>3. \A i \in 1..Len(list) : LeftOf(list, list[i].proc) = f[i]
  BY <1>1, <1>2, LeftIsSum
<1> HIDE DEF f
<1>4. ASSUME NEW i \in 1..Len(list) PROVE list[i] \in [proc : P, expires : 0..m]
  <2>1. f[i] = f[i - 1] + list[i].expires /\ f[i] \in Nat /\ f[i - 1] \in Nat
    <3>1. i \in 0..Len(list) /\ i - 1 \in 0..Len(list)
      BY <1>2
    <3>2. QED
      BY <1>2, <3>1 DEF Sums
  <2>2. f[i] <= m /\ list[i].expires \in Nat
    BY <1>2, <1>3
  <2>3. list[i].expires \in 0..m
    BY <2>1, <2>2
  <2>4. list[i].proc \in P
    BY DEF Armed
  <2>5. list[i] \in Entries(Q)
    BY <1>1, ElementOfSeq
  <2>6. QED
    BY <2>3, <2>4, <2>5 DEF Entries
<1> DEFINE E == [proc : P, expires : 0..m]
<1> HIDE DEF E
<1>5. \A i \in 1..Len(list) : list[i] \in E
  BY <1>4 DEF E
<1>6. list \in Seq(E)
  BY <1>1, <1>2, <1>5
<1>7. QED
  BY <1>6 DEF E

(* An entry gets other ticks.                                              *)
WithTicks(list, i, v) == [list EXCEPT ![i].expires = v]

(* Writing the ticks of one entry.                                         *)
LEMMA ChangedTicks ==
  ASSUME NEW P, NEW list \in Seq(Entries(P)), NEW i \in 1..Len(list), NEW v \in Nat
  PROVE  /\ WithTicks(list, i, v) \in Seq(Entries(P))
         /\ Len(WithTicks(list, i, v)) = Len(list)
         /\ \A j \in 1..Len(list) :
              /\ WithTicks(list, i, v)[j].proc = list[j].proc
              /\ WithTicks(list, i, v)[j].expires = IF j = i THEN v ELSE list[j].expires
<1> DEFINE e == [list[i] EXCEPT !.expires = v]
<1>1. list[i] \in Entries(P)
  BY ElementOfSeq
<1>2. e \in Entries(P) /\ e.proc = list[i].proc /\ e.expires = v
  BY <1>1 DEF Entries
<1>3. WithTicks(list, i, v) = [list EXCEPT ![i] = e]
  BY DEF WithTicks
<1> HIDE DEF e
<1>4. /\ [list EXCEPT ![i] = e] \in Seq(Entries(P))
      /\ Len([list EXCEPT ![i] = e]) = Len(list)
      /\ \A j \in 1..Len(list) : [list EXCEPT ![i] = e][j] = IF j = i THEN e ELSE list[j]
  BY <1>2, ExceptSeq
<1>5. QED
  BY <1>2, <1>3, <1>4

(* Entries are entries of more processes too.                              *)
LEMMA Monotone ==
  ASSUME NEW P, NEW Q, P \subseteq Q, NEW list \in Seq(Entries(P))
  PROVE  list \in Seq(Entries(Q))
<1>1. Entries(P) \subseteq Entries(Q)
  BY DEF Entries
<1>2. QED
  BY <1>1, SeqMonotonic

-----------------------------------------------------------------------------
(* add_timer goes past the entries that expire no later.                   *)
LEMMA PassedFacts ==
  ASSUME NEW list, Ticking(list), NEW ticks \in Nat \ {0}
  PROVE  LET k == Passed(list, ticks)
             f == TicksUntil(list)
         IN  /\ k \in 0..Len(list)
             /\ f[k] <= ticks
             /\ k < Len(list) => f[k+1] > ticks
<1> DEFINE f == TicksUntil(list)
           D == {j \in 1..Len(list) : f[j] <= ticks}
           k == Cardinality(D)
<1>1. PICK P : list \in Seq(Entries(P))
  BY DEF Ticking
<1>2. Len(list) \in Nat /\ Sums(list, f)
  BY TickingFacts
<1>3. ASSUME NEW j \in D, NEW i \in 1..j PROVE i \in D
  <2> HIDE DEF f
  <2>1. i \in 0..Len(list) /\ j \in 0..Len(list) /\ i <= j /\ i \in 1..Len(list)
    BY <1>2
  <2>2. f[i] <= f[j]
    BY <1>1, <1>2, <2>1, SumsGrow
  <2>3. f[i] \in Nat /\ f[j] \in Nat /\ f[j] <= ticks
    BY <1>2, <2>1 DEF Sums
  <2>4. QED
    BY <2>1, <2>2, <2>3
<1>4. k \in 0..Len(list) /\ D = 1..k
  <2> HIDE DEF f
  <2>1. D \in SUBSET (1..Len(list))
    OBVIOUS
  <2> HIDE DEF D
  <2>2. QED
    BY <1>2, <1>3, <2>1, FirstFew
<1>5. k = Passed(list, ticks)
  BY DEF Passed
<1> HIDE DEF f, k
<1>6. f[k] <= ticks
  BY <1>2, <1>4 DEF Sums
<1>7. k < Len(list) => f[k+1] > ticks
  <2>1. k < Len(list) => k + 1 \in 1..Len(list) /\ k + 1 \notin D
    BY <1>2, <1>4
  <2>2. \A j \in 1..Len(list) : f[j] \in Nat
    BY <1>2 DEF Sums
  <2>3. QED
    BY <2>1, <2>2
<1>8. QED
  BY <1>4, <1>5, <1>6, <1>7 DEF f

(* add_timer puts one entry into the list, which leaves every other timer  *)
(* the ticks that it had.                                                  *)
LEMMA AddTimer ==
  ASSUME NEW list, Ticking(list), NEW p, p \notin Armed(list), NEW ticks \in Nat \ {0}
  PROVE  /\ Ticking(add_timer(list, p, ticks))
         /\ Armed(add_timer(list, p, ticks)) = Armed(list) \cup {p}
         /\ \A q : LeftOf(add_timer(list, p, ticks), q) = IF q = p THEN ticks ELSE LeftOf(list, q)
<1>1. PICK P : list \in Seq(Entries(P))
  BY DEF Ticking
<1> DEFINE n    == Len(list)
           f    == TicksUntil(list)
           k    == Passed(list, ticks)
           rest == ticks - f[k]
           entry == [proc |-> p, expires |-> rest]
           v    == list[k+1].expires - rest
           next == IF k = n THEN list ELSE [list EXCEPT ![k+1].expires = v]
           l1   == SubSeq(list, 1, k)
           l2   == SubSeq(next, k+1, n)
           new  == l1 \o <<entry>> \o l2
           R    == P \cup {p}
<1>2. /\ n \in Nat /\ \A i \in 1..n : list[i].expires \in Nat
      /\ Sums(list, f) /\ \A i \in 1..n : f[i] > 0
  BY TickingFacts
<1>3. k \in 0..n /\ f[k] <= ticks /\ (k < n => f[k+1] > ticks)
  BY PassedFacts
<1>4. add_timer(list, p, ticks) = new
  BY DEF add_timer
<1>5. \A i \in 0..n : f[i] \in Nat
  BY <1>2 DEF Sums
<1> HIDE DEF f, k, n
<1>6. rest \in Nat /\ entry \in Entries(R)
  BY <1>3, <1>5 DEF Entries
<1>7. k < n => v \in Nat /\ v > 0 /\ v = f[k+1] - ticks
  <2>1. ASSUME k < n
        PROVE  v \in Nat /\ v > 0 /\ v = f[k+1] - ticks
    <3>1. k + 1 \in 1..n /\ (k + 1) - 1 = k
      BY <1>2, <1>3, <2>1
    <3>2. f[k+1] = f[k] + list[k+1].expires
      BY <1>2, <3>1 DEF Sums, n
    <3>3. QED
      BY <1>2, <1>3, <1>5, <2>1, <3>1, <3>2
  <2>2. QED
    BY <2>1
<1>8. list \in Seq(Entries(R))
  BY <1>1, Monotone
<1>9. /\ next \in Seq(Entries(R)) /\ Len(next) = n
      /\ \A j \in 1..n : /\ next[j].proc = list[j].proc
                         /\ next[j].expires = IF j = k + 1 THEN v ELSE list[j].expires
  <2>1. CASE k = n
    <3>1. \A j \in 1..n : j # k + 1
      BY <1>2, <1>3, <2>1
    <3>2. QED
      BY <1>8, <2>1, <3>1 DEF n
  <2>2. CASE k # n
    <3>1. k + 1 \in 1..n /\ v \in Nat
      BY <1>2, <1>3, <1>7, <2>2
    <3> HIDE DEF next, v
    <3>2. next = WithTicks(list, k + 1, v)
      BY <2>2 DEF next, WithTicks
    <3>3. QED
      BY <1>8, <3>1, <3>2, ChangedTicks DEF n
  <2>3. QED
    BY <2>1, <2>2
<1> HIDE DEF next, R, entry, rest, v
<1>10. /\ l1 \in Seq(Entries(R)) /\ Len(l1) = k
       /\ \A i \in 1..k : l1[i] = list[i]
  <2>1. \A i \in 1..k : list[i] \in Entries(R)
    BY <1>2, <1>3, <1>8, ElementOfSeq DEF n
  <2>2. QED
    BY <1>3, <2>1, SubSeqProperties
<1>11. /\ l2 \in Seq(Entries(R)) /\ Len(l2) = n - k
       /\ \A i \in 1..(n - k) : l2[i] = next[k + i]
  <2>1. \A i \in (k+1)..n : next[i] \in Entries(R)
    BY <1>2, <1>3, <1>9, ElementOfSeq
  <2>2. QED
    BY <1>2, <1>3, <2>1, SubSeqProperties
<1> HIDE DEF l1, l2
<1> DEFINE e1 == <<entry>>
           e2 == l1 \o e1
<1>12. /\ e2 \in Seq(Entries(R)) /\ Len(e2) = k + 1
       /\ \A i \in 1..(k + 1) : e2[i] = IF i <= k THEN list[i] ELSE entry
  <2>1. e1 \in Seq(Entries(R)) /\ Len(e1) = 1 /\ e1[1] = entry
    BY <1>6
  <2> HIDE DEF e1
  <2>2. /\ l1 \o e1 \in Seq(Entries(R))
        /\ Len(l1 \o e1) = Len(l1) + Len(e1)
        /\ \A i \in 1..Len(l1) + Len(e1) : (l1 \o e1)[i] = IF i <= Len(l1) THEN l1[i] ELSE e1[i - Len(l1)]
    BY <1>10, <2>1, ConcatProperties
  <2>3. QED
    BY <1>3, <1>10, <2>1, <2>2
<1> HIDE DEF e1, e2
<1>13. /\ new \in Seq(Entries(R)) /\ Len(new) = n + 1
       /\ \A i \in 1..(n + 1) : new[i] = IF i <= k + 1 THEN e2[i] ELSE l2[i - (k + 1)]
  <2>1. /\ e2 \o l2 \in Seq(Entries(R))
        /\ Len(e2 \o l2) = Len(e2) + Len(l2)
        /\ \A i \in 1..Len(e2) + Len(l2) : (e2 \o l2)[i] = IF i <= Len(e2) THEN e2[i] ELSE l2[i - Len(e2)]
    BY <1>11, <1>12, ConcatProperties
  <2>2. new = e2 \o l2
    BY DEF e1, e2
  <2> HIDE DEF new
  <2>3. Len(e2) = k + 1 /\ Len(l2) = n - k /\ (k + 1) + (n - k) = n + 1
    BY <1>2, <1>3, <1>11, <1>12
  <2>4. QED
    BY <2>1, <2>2, <2>3
<1> HIDE DEF new
<1>14. ASSUME NEW i \in 1..(n + 1)
       PROVE  /\ i <= k => new[i] = list[i]
              /\ i = k + 1 => new[i].proc = p /\ new[i].expires = rest
              /\ i > k + 1 => /\ i - 1 \in 1..n
                              /\ new[i].proc = list[i - 1].proc
                              /\ new[i].expires = IF i = k + 2 THEN v ELSE list[i - 1].expires
  <2>1. CASE i <= k
    BY <1>2, <1>3, <1>12, <1>13, <2>1
  <2>2. CASE i = k + 1
    <3>1. new[i] = entry
      BY <1>2, <1>3, <1>12, <1>13, <2>2
    <3>2. QED
      BY <1>3, <2>2, <3>1 DEF entry
  <2>3. CASE i > k + 1
    <3>1. i - (k + 1) \in 1..(n - k) /\ k + (i - (k + 1)) = i - 1 /\ i - 1 \in 1..n /\ ~(i <= k + 1)
      BY <1>2, <1>3, <2>3
    <3>2. new[i] = next[i - 1]
      BY <1>11, <1>13, <3>1
    <3>3. i - 1 = k + 1 <=> i = k + 2
      BY <1>3
    <3>4. QED
      BY <1>3, <1>9, <2>3, <3>1, <3>2, <3>3
  <2>4. QED
    BY <1>2, <1>3, <2>1, <2>2, <2>3
<1> DEFINE g == [i \in 0..(n + 1) |-> IF i <= k THEN f[i] ELSE IF i = k + 1 THEN ticks ELSE f[i - 1]]
<1>15. Sums(new, g)
  <2>1. g \in [0..(n + 1) -> Nat]
    BY <1>2, <1>3, <1>5
  <2>2. g[0] = 0
    BY <1>2, <1>3 DEF Sums
  <2>3. \A i \in 1..n : f[i] = f[i-1] + list[i].expires
    BY <1>2 DEF Sums, n
  <2>4. ASSUME NEW i \in 1..(n + 1) PROVE g[i] = g[i-1] + new[i].expires
    <3>1. CASE i <= k
      <4>1. g[i] = f[i] /\ g[i-1] = f[i-1] /\ i \in 1..n
        BY <1>2, <1>3, <3>1
      <4>2. QED
        BY <1>14, <2>3, <3>1, <4>1
    <3>2. CASE i = k + 1
      <4>1. g[i] = ticks /\ g[i-1] = f[k] /\ f[k] \in Nat
        BY <1>2, <1>3, <1>5, <3>2
      <4>2. QED
        BY <1>14, <3>2, <4>1 DEF rest
    <3>3. CASE i = k + 2
      <4>1. g[i] = f[k+1] /\ g[i-1] = ticks /\ k < n /\ f[k+1] \in Nat
        BY <1>2, <1>3, <1>5, <3>3
      <4>2. new[i].expires = v /\ v = f[k+1] - ticks
        BY <1>3, <1>7, <1>14, <3>3, <4>1
      <4>3. QED
        BY <4>1, <4>2
    <3>4. CASE i > k + 2
      <4> DEFINE j == i - 1
      <4>1. j \in 1..n /\ g[i] = f[j] /\ g[i-1] = f[j - 1]
        BY <1>2, <1>3, <3>4
      <4>2. new[i].expires = list[j].expires
        BY <1>3, <1>14, <3>4
      <4>3. QED
        BY <2>3, <4>1, <4>2
    <3>5. QED
      BY <1>2, <1>3, <3>1, <3>2, <3>3, <3>4
  <2> HIDE DEF g
  <2>5. QED
    BY <1>13, <2>1, <2>2, <2>4 DEF Sums
<1>16. OneEach(new)
  <2>1. \A i \in 1..n : list[i].proc # p
    BY DEF Armed, n
  <2>2. ASSUME NEW i \in 1..Len(new), NEW j \in 1..Len(new), new[i].proc = new[j].proc
        PROVE  i = j
    <3> DEFINE I == IF i <= k THEN i ELSE i - 1
               J == IF j <= k THEN j ELSE j - 1
    <3>1. i \in 1..(n + 1) /\ j \in 1..(n + 1)
      BY <1>13
    <3>2. i # k + 1 => I \in 1..n /\ new[i].proc = list[I].proc
      BY <1>2, <1>3, <1>14, <3>1
    <3>3. j # k + 1 => J \in 1..n /\ new[j].proc = list[J].proc
      BY <1>2, <1>3, <1>14, <3>1
    <3>4. /\ i = k + 1 => new[i].proc = p
          /\ j = k + 1 => new[j].proc = p
      BY <1>14, <3>1
    <3>5. i # k + 1 /\ j # k + 1 => I = J
      BY <2>2, <3>2, <3>3 DEF Ticking, OneEach, n
    <3>6. i = k + 1 <=> j = k + 1
      BY <2>1, <2>2, <3>2, <3>3, <3>4
    <3>7. QED
      BY <1>3, <3>1, <3>5, <3>6
  <2>3. QED
    BY <2>2 DEF OneEach
<1>17. Armed(new) = Armed(list) \cup {p}
  <2>1. ASSUME NEW i \in 1..(n + 1) PROVE new[i].proc \in Armed(list) \cup {p}
    <3>1. \A j \in 1..n : list[j].proc \in Armed(list)
      BY DEF Armed, n
    <3>2. QED
      BY <1>2, <1>3, <1>14, <3>1
  <2>2. p \in Armed(new)
    <3>1. k + 1 \in 1..Len(new) /\ new[k + 1].proc = p
      BY <1>2, <1>3, <1>13, <1>14
    <3>2. QED
      BY <3>1 DEF Armed
  <2>3. ASSUME NEW i \in 1..n PROVE list[i].proc \in Armed(new)
    <3>1. CASE i <= k
      <4>1. i \in 1..Len(new) /\ new[i].proc = list[i].proc
        BY <1>2, <1>3, <1>13, <1>14, <3>1
      <4>2. QED
        BY <4>1 DEF Armed
    <3>2. CASE i > k
      <4>1. i + 1 \in 1..(n + 1) /\ i + 1 > k + 1 /\ (i + 1) - 1 = i
        BY <1>2, <1>3, <3>2
      <4>2. i + 1 \in 1..Len(new) /\ new[i + 1].proc = list[i].proc
        BY <1>13, <1>14, <4>1
      <4>3. QED
        BY <4>2 DEF Armed
    <3>3. QED
      BY <1>2, <1>3, <3>1, <3>2
  <2>4. QED
    BY <1>13, <2>1, <2>2, <2>3 DEF Armed, n
<1>18. new # <<>> => new[1].expires > 0
  <2>1. CASE k = 0
    <3>1. new[1].expires = ticks - f[0] /\ f[0] = 0
      BY <1>2, <1>14, <2>1 DEF rest, Sums
    <3>2. QED
      BY <3>1
  <2>2. CASE k # 0
    <3>1. new[1] = list[1] /\ list # <<>>
      BY <1>2, <1>3, <1>14, <2>2 DEF n
    <3>2. QED
      BY <3>1 DEF Ticking
  <2>3. QED
    BY <2>1, <2>2
<1>19. ASSUME NEW q PROVE LeftOf(new, q) = IF q = p THEN ticks ELSE LeftOf(list, q)
  <2> HIDE DEF g
  <2>1. /\ \A i \in 1..(n + 1) : LeftOf(new, new[i].proc) = g[i]
        /\ \A x : x \notin Armed(new) => LeftOf(new, x) = 0
    BY <1>13, <1>15, <1>16, LeftIsSum
  <2>2. /\ \A i \in 1..n : LeftOf(list, list[i].proc) = f[i]
        /\ \A x : x \notin Armed(list) => LeftOf(list, x) = 0
    BY <1>1, <1>2, LeftIsSum DEF Ticking, n
  <2>3. CASE q = p
    <3>1. k + 1 \in 1..(n + 1) /\ new[k+1].proc = p /\ g[k+1] = ticks
      BY <1>2, <1>3, <1>14 DEF g
    <3>2. QED
      BY <2>1, <2>3, <3>1
  <2>4. CASE q # p /\ q \in Armed(list)
    <3>1. PICK i \in 1..n : list[i].proc = q
      BY <2>4 DEF Armed, n
    <3>2. CASE i <= k
      <4>1. i \in 1..(n + 1) /\ new[i].proc = q /\ g[i] = f[i]
        BY <1>2, <1>3, <1>14, <3>1, <3>2 DEF g
      <4>2. QED
        BY <2>1, <2>2, <2>4, <3>1, <4>1
    <3>3. CASE i > k
      <4>1. i + 1 \in 1..(n + 1) /\ i + 1 > k + 1 /\ (i + 1) - 1 = i
        BY <1>2, <1>3, <3>3
      <4>2. new[i+1].proc = q /\ g[i+1] = f[i]
        BY <1>3, <1>14, <3>1, <4>1 DEF g
      <4>3. QED
        BY <2>1, <2>2, <2>4, <3>1, <4>1, <4>2
    <3>4. QED
      BY <1>2, <1>3, <3>1, <3>2, <3>3
  <2>5. CASE q # p /\ q \notin Armed(list)
    BY <1>17, <2>1, <2>2, <2>5
  <2>6. QED
    BY <2>3, <2>4, <2>5
<1>20. QED
  BY <1>4, <1>13, <1>16, <1>17, <1>18, <1>19 DEF Ticking

(* del_timer takes one entry out of the list, which leaves every other     *)
(* timer the ticks that it had.                                            *)
LEMMA DelTimer ==
  ASSUME NEW list, Ticking(list), NEW p
  PROVE  /\ Ticking(del_timer(list, p))
         /\ Armed(del_timer(list, p)) = Armed(list) \ {p}
         /\ \A q : LeftOf(del_timer(list, p), q) = IF q = p THEN 0 ELSE LeftOf(list, q)
<1>1. CASE p \notin Armed(list)
  <2>1. ~HasTimer(list, p) /\ del_timer(list, p) = list
    BY <1>1, ArmedHasTimer DEF del_timer
  <2>2. LeftOf(list, p) = 0
    BY <2>1 DEF LeftOf
  <2>3. QED
    BY <1>1, <2>1, <2>2
<1>2. CASE p \in Armed(list)
  <2>1. PICK P : list \in Seq(Entries(P))
    BY DEF Ticking
  <2> DEFINE n    == Len(list)
             f    == TicksUntil(list)
             i    == CHOOSE j \in TimerIndex(list, p) : TRUE
             v    == list[i+1].expires + list[i].expires
             next == IF i = n THEN list ELSE [list EXCEPT ![i+1].expires = v]
             l1   == SubSeq(next, 1, i-1)
             l2   == SubSeq(next, i+1, n)
             new  == l1 \o l2
  <2>2. del_timer(list, p) = new
    BY <1>2, ArmedHasTimer DEF del_timer, RemoveEntry
  <2>3. i \in 1..n /\ list[i].proc = p
    <3>1. i \in TimerIndex(list, p)
      BY <1>2, ArmedHasTimer DEF HasTimer
    <3>2. QED
      BY <3>1 DEF TimerIndex
  <2>4. /\ n \in Nat /\ \A j \in 1..n : list[j].expires \in Nat
        /\ Sums(list, f) /\ \A j \in 1..n : f[j] > 0
    BY TickingFacts
  <2>5. /\ \A j \in 0..n : f[j] \in Nat
        /\ f[0] = 0
        /\ \A j \in 1..n : f[j] = f[j-1] + list[j].expires
    BY <2>4 DEF Sums
  <2> HIDE DEF f, n, i
  <2>6. /\ next \in Seq(Entries(P)) /\ Len(next) = n
        /\ \A j \in 1..n : /\ next[j].proc = list[j].proc
                           /\ next[j].expires = IF j = i + 1 THEN v ELSE list[j].expires
    <3>1. CASE i = n
      <4>1. \A j \in 1..n : j # i + 1
        BY <2>4, <3>1
      <4>2. QED
        BY <2>1, <3>1, <4>1 DEF n
    <3>2. CASE i # n
      <4>1. i + 1 \in 1..n
        BY <2>3, <2>4, <3>2
      <4>2. v \in Nat
        BY <2>3, <2>4, <4>1
      <4> HIDE DEF next, v
      <4>3. next = WithTicks(list, i + 1, v)
        BY <3>2 DEF next, WithTicks
      <4>4. QED
        BY <2>1, <4>1, <4>2, <4>3, ChangedTicks DEF n
    <3>3. QED
      BY <3>1, <3>2
  <2> HIDE DEF next, v
  <2>7. /\ l1 \in Seq(Entries(P)) /\ Len(l1) = i - 1
        /\ \A j \in 1..(i - 1) : l1[j] = next[j]
    <3>1. \A j \in 1..(i - 1) : next[j] \in Entries(P)
      BY <2>3, <2>4, <2>6, ElementOfSeq
    <3>2. i - 1 \in Nat /\ 1 \in Nat
      BY <2>3
    <3>3. QED
      BY <3>1, <3>2, SubSeqProperties
  <2>8. /\ l2 \in Seq(Entries(P)) /\ Len(l2) = n - i
        /\ \A j \in 1..(n - i) : l2[j] = next[i + j]
    <3>1. \A j \in (i + 1)..n : next[j] \in Entries(P)
      BY <2>3, <2>4, <2>6, ElementOfSeq
    <3>2. QED
      BY <2>3, <2>4, <3>1, SubSeqProperties
  <2> HIDE DEF l1, l2
  <2>9. /\ new \in Seq(Entries(P)) /\ Len(new) = n - 1
        /\ \A j \in 1..(n - 1) : new[j] = IF j < i THEN next[j] ELSE next[j + 1]
    <3>1. /\ l1 \o l2 \in Seq(Entries(P))
          /\ Len(l1 \o l2) = Len(l1) + Len(l2)
          /\ \A j \in 1..Len(l1) + Len(l2) : (l1 \o l2)[j] = IF j <= Len(l1) THEN l1[j] ELSE l2[j - Len(l1)]
      BY <2>7, <2>8, ConcatProperties
    <3> HIDE DEF new
    <3>2. Len(l1) = i - 1 /\ Len(l2) = n - i /\ (i - 1) + (n - i) = n - 1
      BY <2>3, <2>4, <2>7, <2>8
    <3>3. ASSUME NEW j \in 1..(n - 1)
          PROVE  (l1 \o l2)[j] = IF j < i THEN next[j] ELSE next[j + 1]
      <4>1. CASE j < i
        <5>1. j \in 1..(i - 1) /\ j <= i - 1
          BY <2>3, <4>1
        <5>2. QED
          BY <2>7, <3>1, <3>2, <4>1, <5>1
      <4>2. CASE ~(j < i)
        <5>1. ~(j <= i - 1) /\ j - (i - 1) \in 1..(n - i) /\ i + (j - (i - 1)) = j + 1
          BY <2>3, <2>4, <4>2
        <5>2. (l1 \o l2)[j] = l2[j - (i - 1)]
          BY <3>1, <3>2, <5>1
        <5>3. QED
          BY <2>8, <4>2, <5>1, <5>2
      <4>3. QED
        BY <4>1, <4>2
    <3>4. QED
      BY <3>1, <3>2, <3>3 DEF new
  <2> HIDE DEF new
  <2>10. ASSUME NEW j \in 1..(n - 1)
         PROVE  /\ j < i => /\ j \in 1..n
                            /\ new[j].proc = list[j].proc
                            /\ new[j].expires = list[j].expires
                /\ ~(j < i) => /\ j + 1 \in 1..n
                               /\ new[j].proc = list[j + 1].proc
                               /\ new[j].expires = IF j = i THEN v ELSE list[j + 1].expires
    <3>1. CASE j < i
      <4>1. j \in 1..n /\ j # i + 1 /\ new[j] = next[j]
        BY <2>3, <2>4, <2>9, <3>1
      <4>2. QED
        BY <2>6, <3>1, <4>1
    <3>2. CASE ~(j < i)
      <4>1. j + 1 \in 1..n /\ (j + 1 = i + 1 <=> j = i) /\ new[j] = next[j + 1]
        BY <2>3, <2>4, <2>9, <3>2
      <4>2. QED
        BY <2>6, <3>2, <4>1
    <3>3. QED
      BY <3>1, <3>2
  <2> DEFINE g == [j \in 0..(n - 1) |-> IF j < i THEN f[j] ELSE f[j + 1]]
  <2>11. Sums(new, g)
    <3>1. g \in [0..(n - 1) -> Nat]
      BY <2>3, <2>4, <2>5
    <3>2. g[0] = 0
      BY <2>3, <2>4, <2>5
    <3>3. ASSUME NEW j \in 1..(n - 1) PROVE g[j] = g[j - 1] + new[j].expires
      <4>1. CASE j < i
        <5>1. g[j] = f[j] /\ g[j - 1] = f[j - 1] /\ j \in 1..n
          BY <2>3, <2>4, <4>1
        <5>2. QED
          BY <2>5, <2>10, <4>1, <5>1
      <4>2. CASE j = i
        <5>1. g[j] = f[i + 1] /\ g[j - 1] = f[i - 1] /\ i + 1 \in 1..n /\ (i + 1) - 1 = i
          BY <2>3, <2>4, <4>2
        <5>2. f[i + 1] = f[i] + list[i + 1].expires /\ f[i] = f[i - 1] + list[i].expires
          BY <2>3, <2>5, <5>1
        <5>3. f[i - 1] \in Nat /\ list[i].expires \in Nat /\ list[i + 1].expires \in Nat
          BY <2>3, <2>4, <2>5, <5>1
        <5>4. new[j].expires = v
          BY <2>3, <2>10, <4>2
        <5>5. QED
          BY <5>1, <5>2, <5>3, <5>4 DEF v
      <4>3. CASE j > i
        <5>1. g[j] = f[j + 1] /\ g[j - 1] = f[j] /\ j + 1 \in 1..n /\ (j + 1) - 1 = j
          BY <2>3, <2>4, <4>3
        <5>2. f[j + 1] = f[j] + list[j + 1].expires
          BY <2>5, <5>1
        <5>3. new[j].expires = list[j + 1].expires
          BY <2>3, <2>10, <4>3
        <5>4. QED
          BY <5>1, <5>2, <5>3
      <4>4. QED
        BY <2>3, <4>1, <4>2, <4>3
    <3> HIDE DEF g
    <3>4. QED
      BY <2>9, <3>1, <3>2, <3>3 DEF Sums
  <2>12. OneEach(list) /\ \A j \in 1..n : list[j].proc = p => j = i
    BY <2>3 DEF Ticking, OneEach, n
  <2>13. OneEach(new)
    <3>1. ASSUME NEW j \in 1..(n - 1), NEW m \in 1..(n - 1), new[j].proc = new[m].proc
          PROVE  j = m
      <4> DEFINE J == IF j < i THEN j ELSE j + 1
                 M == IF m < i THEN m ELSE m + 1
      <4>1. J \in 1..n /\ new[j].proc = list[J].proc
        BY <2>10
      <4>2. M \in 1..n /\ new[m].proc = list[M].proc
        BY <2>10
      <4>3. J = M
        BY <2>12, <3>1, <4>1, <4>2 DEF OneEach, n
      <4>4. QED
        BY <2>3, <4>3
    <3>2. QED
      BY <2>9, <3>1 DEF OneEach
  <2>14. Armed(new) = Armed(list) \ {p}
    <3>1. ASSUME NEW j \in 1..(n - 1) PROVE new[j].proc \in Armed(list) \ {p}
      <4> DEFINE J == IF j < i THEN j ELSE j + 1
      <4>1. J \in 1..n /\ new[j].proc = list[J].proc /\ J # i
        BY <2>3, <2>10
      <4>2. QED
        BY <2>12, <4>1 DEF Armed, n
    <3>2. ASSUME NEW j \in 1..n, list[j].proc # p PROVE list[j].proc \in Armed(new)
      <4> DEFINE m == IF j < i THEN j ELSE j - 1
      <4>1. m \in 1..(n - 1) /\ (m < i => m = j) /\ (~(m < i) => m + 1 = j)
        BY <2>3, <2>4, <3>2
      <4> HIDE DEF m
      <4>2. new[m].proc = list[j].proc
        BY <2>10, <4>1
      <4>3. QED
        BY <2>9, <4>1, <4>2 DEF Armed
    <3>3. QED
      BY <2>9, <3>1, <3>2 DEF Armed, n
  <2>15. new # <<>> => new[1].expires > 0
    <3>1. ASSUME new # <<>> PROVE new[1].expires > 0
      <4>1. n - 1 \in Nat /\ n - 1 # 0
        BY <2>3, <2>4, <2>9, <3>1, EmptySeq
      <4>2. 1 \in 1..(n - 1) /\ 1 \in 1..n /\ 2 \in 1..n /\ 1 + 1 = 2 /\ 1 - 1 = 0
        BY <2>4, <4>1
      <4>3. g[1] > 0
        BY <2>3, <2>4, <4>2
      <4> HIDE DEF g
      <4>4. g[1] = g[0] + new[1].expires /\ g[0] = 0
        BY <2>9, <2>11, <4>2 DEF Sums
      <4>5. new[1].expires \in Nat
        <5>1. new[1] \in Entries(P)
          BY <2>9, <4>2, ElementOfSeq
        <5>2. QED
          BY <5>1 DEF Entries
      <4>6. QED
        BY <4>3, <4>4, <4>5
    <3>2. QED
      BY <3>1
  <2>16. ASSUME NEW q PROVE LeftOf(new, q) = IF q = p THEN 0 ELSE LeftOf(list, q)
    <3> HIDE DEF g
    <3>1. /\ \A j \in 1..(n - 1) : LeftOf(new, new[j].proc) = g[j]
          /\ \A x : x \notin Armed(new) => LeftOf(new, x) = 0
      BY <2>9, <2>11, <2>13, LeftIsSum
    <3>2. /\ \A j \in 1..n : LeftOf(list, list[j].proc) = f[j]
          /\ \A x : x \notin Armed(list) => LeftOf(list, x) = 0
      BY <2>1, <2>4, <2>12, LeftIsSum DEF n
    <3>3. CASE q \in Armed(list) \ {p}
      <4>1. PICK j \in 1..n : list[j].proc = q
        BY <3>3 DEF Armed, n
      <4> DEFINE m == IF j < i THEN j ELSE j - 1
      <4>2. m \in 1..(n - 1) /\ (m < i => m = j) /\ (~(m < i) => m + 1 = j)
        BY <2>3, <2>4, <3>3, <4>1
      <4> HIDE DEF m
      <4>3. new[m].proc = q /\ g[m] = f[j]
        BY <2>10, <4>1, <4>2 DEF g
      <4>4. QED
        BY <3>1, <3>2, <3>3, <4>1, <4>2, <4>3
    <3>4. CASE q \notin Armed(list) \/ q = p
      BY <2>14, <3>1, <3>2, <3>4
    <3>5. QED
      BY <3>3, <3>4
  <2>17. QED
    BY <2>2, <2>9, <2>13, <2>14, <2>15, <2>16 DEF Ticking
<1>3. QED
  BY <1>1, <1>2

(* A tick takes one from what every process has left, and the timers that  *)
(* had one left are the ones that it unlinks.                              *)
LEMMA TickTimers ==
  ASSUME NEW list, Ticking(list)
  PROVE  /\ Ticking(AfterTick(list))
         /\ Range(ExpiredProcs(list)) \subseteq Armed(list)
         /\ Armed(AfterTick(list)) = Armed(list) \ Range(ExpiredProcs(list))
         /\ \A q : LeftOf(AfterTick(list), q) = IF LeftOf(list, q) > 0 THEN LeftOf(list, q) - 1 ELSE 0
<1>1. PICK P : list \in Seq(Entries(P))
  BY DEF Ticking
<1> DEFINE n    == Len(list)
           f    == TicksUntil(list)
           now  == HeadTicked(list)
           D    == {k \in 1..n : \A i \in 1..k : now[i].expires = 0}
           m    == ExpiredCount(now)
           new  == SubSeq(now, m + 1, n)
           gone == [i \in 1..m |-> now[i].proc]
           f1   == [j \in 0..n |-> IF j = 0 THEN 0 ELSE f[j] - 1]
           g    == [j \in 0..(n - m) |-> f1[m + j]]
<1>2. /\ n \in Nat /\ \A j \in 1..n : list[j].expires \in Nat
      /\ Sums(list, f) /\ \A j \in 1..n : f[j] > 0
  BY TickingFacts
<1>3. /\ \A j \in 0..n : f[j] \in Nat
      /\ f[0] = 0
      /\ \A j \in 1..n : f[j] = f[j-1] + list[j].expires
  BY <1>2 DEF Sums
<1> HIDE DEF f
(* The head loses a tick.                                                  *)
<1>4. /\ now \in Seq(Entries(P)) /\ Len(now) = n
      /\ \A j \in 1..n : /\ now[j].proc = list[j].proc
                         /\ now[j].expires = IF j = 1 THEN list[j].expires - 1 ELSE list[j].expires
  <2>1. CASE list = <<>>
    <3>1. now = list /\ \A j \in 1..n : FALSE
      BY <2>1 DEF HeadTicked
    <3>2. QED
      BY <1>1, <3>1
  <2>2. CASE list # <<>>
    <3> DEFINE v == list[1].expires - 1
    <3>1. 1 \in 1..n
      BY <1>1, <1>2, <2>2, EmptySeq
    <3>2. v \in Nat
      BY <1>2, <2>2, <3>1 DEF Ticking
    <3>3. now = [list EXCEPT ![1].expires = v]
      BY <2>2 DEF HeadTicked
    <3> HIDE DEF v, now, n
    <3>4. now = WithTicks(list, 1, v)
      BY <3>3 DEF WithTicks
    <3>5. /\ now \in Seq(Entries(P)) /\ Len(now) = n
          /\ \A j \in 1..n : /\ now[j].proc = list[j].proc
                             /\ now[j].expires = IF j = 1 THEN v ELSE list[j].expires
      BY <1>1, <3>1, <3>2, <3>4, ChangedTicks DEF n
    <3>6. QED
      BY <3>5 DEF v
  <2>3. QED
    BY <2>1, <2>2
<1>5. AfterTick(list) = new /\ ExpiredProcs(list) = gone
  BY <1>4 DEF AfterTick, ExpiredProcs
<1> HIDE DEF now, n
<1>6. Sums(now, f1)
  <2>1. f1 \in [0..n -> Nat]
    BY <1>2, <1>3
  <2>2. ASSUME NEW j \in 1..n PROVE f1[j] = f1[j - 1] + now[j].expires
    <3>1. CASE j = 1
      <4>1. f1[j] = f[1] - 1 /\ f1[j - 1] = 0 /\ f[1] = f[0] + list[1].expires
        BY <1>2, <1>3, <3>1
      <4>2. now[j].expires = list[1].expires - 1 /\ list[1].expires \in Nat
        BY <1>2, <1>4, <3>1
      <4>3. QED
        BY <1>3, <4>1, <4>2
    <3>2. CASE j # 1
      <4>1. f1[j] = f[j] - 1 /\ f1[j - 1] = f[j - 1] - 1 /\ f[j - 1] \in Nat
        BY <1>2, <1>3, <3>2
      <4>2. now[j].expires = list[j].expires /\ list[j].expires \in Nat
        BY <1>2, <1>4, <3>2
      <4>3. QED
        BY <1>3, <4>1, <4>2
    <3>3. QED
      BY <3>1, <3>2
  <2>3. f1[0] = 0
    BY <1>2
  <2> HIDE DEF f1
  <2>4. QED
    BY <1>4, <2>1, <2>2, <2>3 DEF Sums
(* The first m entries have nothing left, the next one has.                *)
<1>7. m \in 0..n /\ D = 1..m
  <2>1. D \in SUBSET (1..n) /\ \A k \in D : \A i \in 1..k : i \in D
    BY <1>2
  <2>2. m = Cardinality(D)
    BY <1>4 DEF ExpiredCount
  <2> HIDE DEF D, m
  <2>3. QED
    BY <1>2, <2>1, <2>2, FirstFew
<1> HIDE DEF m
<1>8. \A j \in 0..m : f1[j] = 0
  <2> DEFINE R == {j \in Nat : j <= m => f1[j] = 0}
  <2> HIDE DEF f1
  <2>1. 0 \in R
    BY <1>6 DEF Sums
  <2>2. ASSUME NEW j \in Nat, j \in R PROVE j + 1 \in R
    <3>1. ASSUME j + 1 <= m PROVE f1[j + 1] = 0
      <4>1. j + 1 \in D /\ j + 1 \in 1..n /\ (j + 1) - 1 = j /\ j <= m
        BY <1>2, <1>7, <3>1
      <4>2. now[j + 1].expires = 0
        BY <4>1
      <4>3. f1[j + 1] = f1[j] + now[j + 1].expires
        BY <1>4, <1>6, <4>1 DEF Sums
      <4>4. QED
        BY <2>2, <4>1, <4>2, <4>3
    <3>2. QED
      BY <3>1
  <2>3. Nat \subseteq R
    <3> HIDE DEF R
    <3>1. QED
      BY <2>1, <2>2, InductionOnNat
  <2>4. QED
    BY <1>7, <2>3
<1>9. m < n => now[m + 1].expires > 0
  <2>1. ASSUME m < n, now[m + 1].expires = 0 PROVE FALSE
    <3>1. m + 1 \in 1..n /\ m + 1 \notin 1..m
      BY <1>2, <1>7, <2>1
    <3>2. ASSUME NEW i \in 1..(m + 1) PROVE now[i].expires = 0
      <4>1. i \in 1..m => i \in D /\ i \in 1..i
        BY <1>7
      <4>2. i \in 1..m => now[i].expires = 0
        BY <4>1
      <4>3. QED
        BY <1>7, <2>1, <4>2
    <3>3. m + 1 \in D
      BY <3>1, <3>2
    <3>4. QED
      BY <1>7, <3>1, <3>3
  <2>2. m < n => m + 1 \in 1..n
    BY <1>2, <1>7
  <2>3. m < n => now[m + 1].expires \in Nat
    <3>1. m < n => now[m + 1] \in Entries(P)
      BY <1>4, <2>2, ElementOfSeq
    <3>2. QED
      BY <3>1 DEF Entries
  <2>4. QED
    BY <2>1, <2>3
<1> HIDE DEF D
<1>10. /\ new \in Seq(Entries(P)) /\ Len(new) = n - m
       /\ \A j \in 1..(n - m) : m + j \in 1..n /\ new[j] = now[m + j]
  <2>1. \A j \in (m + 1)..n : now[j] \in Entries(P)
    BY <1>2, <1>4, <1>7, ElementOfSeq
  <2>2. /\ new \in Seq(Entries(P)) /\ Len(new) = n - m
        /\ \A j \in 1..(n - m) : new[j] = now[m + j]
    BY <1>2, <1>7, <2>1, SubSeqProperties
  <2>3. \A j \in 1..(n - m) : m + j \in 1..n
    BY <1>2, <1>7
  <2>4. QED
    BY <2>2, <2>3
<1> HIDE DEF new
<1>11. Sums(new, g)
  <2>1. f1 \in [0..n -> Nat] /\ \A j \in 1..n : f1[j] = f1[j - 1] + now[j].expires
    BY <1>4, <1>6 DEF Sums
  <2> HIDE DEF f1
  <2>2. g \in [0..(n - m) -> Nat]
    BY <1>2, <1>7, <2>1
  <2>3. g[0] = 0
    BY <1>2, <1>7, <1>8
  <2>4. ASSUME NEW j \in 1..(n - m) PROVE g[j] = g[j - 1] + new[j].expires
    <3>1. g[j] = f1[m + j] /\ g[j - 1] = f1[(m + j) - 1] /\ m + j \in 1..n
      BY <1>2, <1>7
    <3>2. QED
      BY <1>10, <2>1, <3>1
  <2> HIDE DEF g
  <2>5. QED
    BY <1>10, <2>2, <2>3, <2>4 DEF Sums
<1>12. OneEach(list) /\ \A j \in 1..n : now[j].proc = list[j].proc
  BY <1>4 DEF Ticking
<1>13. OneEach(new)
  <2>1. ASSUME NEW i \in 1..(n - m), NEW j \in 1..(n - m), new[i].proc = new[j].proc
        PROVE  i = j
    <3>1. m + i = m + j
      BY <1>10, <1>12, <2>1 DEF OneEach, n
    <3>2. QED
      BY <1>7, <3>1
  <2>2. QED
    BY <1>10, <2>1 DEF OneEach
<1>14. new # <<>> => new[1].expires > 0
  <2>1. new # <<>> => n - m # 0
    BY <1>10, EmptySeq
  <2>2. new # <<>> => 1 \in 1..(n - m) /\ m < n
    BY <1>2, <1>7, <2>1
  <2>3. QED
    BY <1>9, <1>10, <2>2
<1>15. Range(gone) = {list[j].proc : j \in 1..m} /\ 1..m \subseteq 1..n
  BY <1>2, <1>7, <1>12 DEF Range
<1> HIDE DEF gone
<1>16. Range(gone) \subseteq Armed(list)
  BY <1>15 DEF Armed, n
<1>17. Armed(new) = Armed(list) \ Range(gone)
  <2>1. ASSUME NEW j \in 1..(n - m) PROVE new[j].proc \in Armed(list) \ Range(gone)
    <3>1. m + j \in 1..n /\ new[j].proc = list[m + j].proc /\ m + j \notin 1..m
      BY <1>7, <1>10, <1>12
    <3>2. \A i \in 1..m : list[i].proc # list[m + j].proc
      BY <1>12, <1>15, <3>1 DEF OneEach, n
    <3>3. QED
      BY <1>15, <3>1, <3>2 DEF Armed, n
  <2>2. ASSUME NEW j \in 1..n, list[j].proc \notin Range(gone) PROVE list[j].proc \in Armed(new)
    <3>1. j \notin 1..m
      BY <1>15, <2>2
    <3>2. j - m \in 1..(n - m) /\ m + (j - m) = j
      BY <1>2, <1>7, <3>1
    <3>3. new[j - m].proc = list[j].proc
      BY <1>10, <1>12, <3>2
    <3>4. QED
      BY <1>10, <3>2, <3>3 DEF Armed
  <2>3. /\ Armed(new) = {new[j].proc : j \in 1..(n - m)}
        /\ Armed(list) = {list[j].proc : j \in 1..n}
    BY <1>10 DEF Armed, n
  <2>4. Armed(new) \subseteq Armed(list) \ Range(gone)
    BY <2>1, <2>3
  <2>5. Armed(list) \ Range(gone) \subseteq Armed(new)
    BY <2>2, <2>3
  <2>6. QED
    BY <2>4, <2>5
<1>18. ASSUME NEW q PROVE LeftOf(new, q) = IF LeftOf(list, q) > 0 THEN LeftOf(list, q) - 1 ELSE 0
  <2> HIDE DEF g, f1
  <2>1. /\ \A j \in 1..(n - m) : LeftOf(new, new[j].proc) = g[j]
        /\ \A x : x \notin Armed(new) => LeftOf(new, x) = 0
    BY <1>10, <1>11, <1>13, LeftIsSum
  <2>2. /\ \A j \in 1..n : LeftOf(list, list[j].proc) = f[j]
        /\ \A x : x \notin Armed(list) => LeftOf(list, x) = 0
    BY <1>1, <1>2, <1>12, LeftIsSum DEF n
  <2>3. CASE q \in Range(gone)
    <3>1. PICK j \in 1..m : list[j].proc = q
      BY <1>15, <2>3
    <3>2. j \in 1..n /\ j # 0 /\ j \in 0..n
      BY <1>2, <1>7
    <3>3. f1[j] = 0 /\ f1[j] = f[j] - 1 /\ f[j] \in Nat
      <4>1. j \in 0..m
        BY <1>7
      <4>2. f1[j] = 0
        BY <1>8, <4>1
      <4>3. f1[j] = f[j] - 1
        BY <3>2 DEF f1
      <4>4. QED
        BY <1>3, <3>2, <4>2, <4>3
    <3>4. LeftOf(list, q) = 1
      BY <2>2, <3>1, <3>2, <3>3
    <3>5. LeftOf(new, q) = 0
      BY <1>17, <2>1, <2>3
    <3>6. QED
      BY <3>4, <3>5
  <2>4. CASE q \in Armed(list) \ Range(gone)
    <3>1. PICK j \in 1..n : list[j].proc = q
      BY <2>4 DEF Armed, n
    <3>2. j \notin 1..m
      BY <1>15, <2>4, <3>1
    <3>3. j - m \in 1..(n - m) /\ m + (j - m) = j /\ j # 0 /\ j \in 0..n /\ j - m \in 0..(n - m)
      BY <1>2, <1>7, <3>2
    <3>4. new[j - m].proc = q
      BY <1>10, <1>12, <3>1, <3>3
    <3>5. g[j - m] = f1[j]
      BY <3>3 DEF g
    <3>6. f1[j] = f[j] - 1 /\ f[j] > 0
      BY <1>2, <3>3 DEF f1
    <3>7. QED
      BY <2>1, <2>2, <3>1, <3>3, <3>4, <3>5, <3>6
  <2>5. CASE q \notin Armed(list)
    BY <1>17, <2>1, <2>2, <2>5
  <2>6. QED
    BY <2>3, <2>4, <2>5
<1>19. Ticking(new)
  BY <1>10, <1>13, <1>14 DEF Ticking
<1>20. QED
  BY <1>5, <1>16, <1>17, <1>18, <1>19

=============================================================================

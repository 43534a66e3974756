-------------------------------- MODULE Heap --------------------------------
(***************************************************************************)
(* kmalloc and kfree: the SLOB allocator of kern/mm/kmalloc.c, on top of   *)
(* the page allocator, which has other callers too.                        *)
(*                                                                         *)
(* Sizes and addresses are counted in units of SLOB_UNIT (8 bytes, a       *)
(* header); page p holds the units from p * PAGE_SIZE on.  Nothing in here *)
(* sleeps and no interrupt handler allocates, so a call is one step.       *)
(***************************************************************************)
EXTENDS PageAlloc

CONSTANTS
  PAGE_SIZE,    \* units of a page (512 in the kernel)
  BIGBLOCK,     \* units of a bigblock_t (2)
  Sizes         \* what the callers of kmalloc ask for

ASSUME HeapAssumption ==
  /\ PAGE_SIZE \in Nat /\ BIGBLOCK \in 2..(PAGE_SIZE - 2)
  /\ Sizes \subseteq Nat \ {0}

VARIABLES
  slob,         \* the free blocks: address to [units, next]
  slobfree,     \* the block where the next search begins
  bigblocks,    \* the list of bigblock_t, newest first: [at, order, pages]
  objects       \* what kmalloc returned and nobody freed: address to [size, units],
                \* the size asked for and the header of a small object

slobVars == <<slob, slobfree, bigblocks, objects>>
heapVars == <<pageVars, slobVars>>

NULL == -1

(* A block of one unit in the kernel's data, below all pages.              *)
arena == -3

Units(base, n) == base..(base + n - 1)

(* The function f with the value v at x.                                   *)
Put(f, x, v) == [y \in DOMAIN f \cup {x} |-> IF y = x THEN v ELSE f[y]]

-----------------------------------------------------------------------------
(* Deviant forms of the definitions below.                                 *)
RestOneEarly(cur, n) == cur + n - 1
OrderAlwaysZero(size) == 0

-----------------------------------------------------------------------------
HeapInit ==
  /\ PageInit
  /\ slob = [b \in {arena} |-> [units |-> 1, next |-> arena]]
  /\ slobfree = arena
  /\ bigblocks = <<>>
  /\ objects = <<>>

(* What a call of the allocator changes, with its result.                  *)
World == [pmm |-> pmm, used |-> used, slob |-> slob, slobfree |-> slobfree, ret |-> NULL]

Becomes(w) ==
  /\ pmm' = w.pmm
  /\ used' = w.used
  /\ slob' = w.slob
  /\ slobfree' = w.slobfree
  /\ UNCHANGED <<reserved, booted, swap_init_ok>>

(* The blocks in list order: slobfree, the one behind it, and so on.       *)
Walk(w) ==
  LET at[k \in 0..Cardinality(DOMAIN w.slob)] ==
        IF k = 0 THEN w.slobfree ELSE w.slob[at[k-1]].next
  IN  at

(***************************************************************************)
(* slob_free of the n units at b: the block goes between its neighbours in *)
(* the order of addresses, or behind the last one, and is merged with      *)
(* those it touches.                                                       *)
(***************************************************************************)
GoesBehind(w, cur, b) ==
  LET next == w.slob[cur].next
  IN  \/ b > cur /\ b < next
      \/ cur >= next /\ (b > cur \/ b < next)

Linked(w, cur, b, n) ==
  LET next  == w.slob[cur].next
      above == b + n = next
      units == IF above THEN n + w.slob[next].units ELSE n
      after == IF above THEN w.slob[next].next ELSE next
      rest  == Restrict(w.slob, DOMAIN w.slob \ (IF above THEN {next} ELSE {}))
  IN  [w EXCEPT
        !.slob = IF cur + w.slob[cur].units = b
                 THEN [rest EXCEPT ![cur] = [units |-> @.units + units, next |-> after]]
                 ELSE Put([rest EXCEPT ![cur].next = b], b, [units |-> units, next |-> after]),
        !.slobfree = cur]

slob_free(w, b, n) ==
  LET walk == Walk(w)
      k    == CHOOSE i \in DOMAIN walk :
                /\ GoesBehind(w, walk[i], b)
                /\ \A j \in 0..(i-1) : ~GoesBehind(w, walk[j], b)
  IN  Linked(w, walk[k], b, n)

(***************************************************************************)
(* slob_alloc: the first block behind slobfree with room for n units.  A   *)
(* block that is too large keeps its end.                                  *)
(***************************************************************************)
RestAt(cur, n) == cur + n

Carved(w, prev, cur, n) ==
  LET block == w.slob[cur]
      rest  == RestAt(cur, n)
      others == Restrict(w.slob, DOMAIN w.slob \ {cur})
  IN  [w EXCEPT
        !.slob = IF block.units = n
                 THEN [others EXCEPT ![prev].next = block.next]
                 ELSE Put([others EXCEPT ![prev].next = rest], rest,
                          [units |-> block.units - n, next |-> block.next]),
        !.slobfree = prev,
        !.ret = cur]

Roomy(w, n) ==
  LET walk == Walk(w)
  IN  {k \in 1..Cardinality(DOMAIN w.slob) : w.slob[walk[k]].units >= n}

Searched(w, n) ==
  LET walk  == Walk(w)
      roomy == Roomy(w, n)
      k     == CHOOSE i \in roomy : \A j \in roomy : i <= j
  IN  Carved(w, walk[k-1], walk[k], n)

(* The whole list was too small: the arena grows by a page.                *)
Grown(w) ==
  slob_free([w EXCEPT !.pmm = PagesTaken(w.pmm, 1), !.used = @ \cup {FirstFit(w.pmm, 1)}],
            FirstFit(w.pmm, 1) * PAGE_SIZE, PAGE_SIZE)

slob_alloc(w, n) ==
  IF Roomy(w, n) # {} THEN Searched(w, n)
  ELSE IF Available(w.pmm, 1) THEN Searched(Grown(w), n)
  ELSE [w EXCEPT !.ret = NULL]

SlobComesBack(n) == Roomy(World, n) # {} \/ ComesBack(pmm, 1)

(* The assertion at the head of slob_alloc, for what __kmalloc asks of it. *)
SlobAssert(n) == n + 1 < PAGE_SIZE

-----------------------------------------------------------------------------
(***************************************************************************)
(* __kmalloc of less than a page: a header and the object behind it.       *)
(***************************************************************************)
Small(size) == size < PAGE_SIZE - 1

kmalloc_small(size) ==
  /\ booted
  /\ Small(size) /\ SlobAssert(size + 1) /\ SlobComesBack(size + 1)
  /\ LET w == slob_alloc(World, size + 1)
     IN  /\ Becomes(w)
         /\ objects' = IF w.ret = NULL THEN objects
                       ELSE Put(objects, w.ret + 1, [size |-> size, units |-> size + 1])
  /\ UNCHANGED bigblocks

(***************************************************************************)
(* A larger object gets pages of its own and is known by its bigblock_t.   *)
(* Each halving of the size in find_order loses its remainder.             *)
(***************************************************************************)
find_order(size) == CHOOSE k \in 0..size :
                      /\ size \div 2^k <= PAGE_SIZE
                      /\ \A j \in 0..(k-1) : size \div 2^j > PAGE_SIZE

kmalloc_big(size) ==
  /\ booted
  /\ ~Small(size) /\ SlobComesBack(BIGBLOCK)
  /\ LET w     == slob_alloc(World, BIGBLOCK)
         order == find_order(size)
         n     == 2^order
         base  == FirstFit(w.pmm, n)
     IN  IF w.ret = NULL
         THEN Becomes(w) /\ UNCHANGED <<bigblocks, objects>>
         ELSE IF ~Available(w.pmm, n)
         THEN /\ ComesBack(w.pmm, n) /\ Becomes(slob_free(w, w.ret, BIGBLOCK))
              /\ UNCHANGED <<bigblocks, objects>>
         ELSE /\ Becomes([w EXCEPT !.pmm = PagesTaken(w.pmm, n), !.used = @ \cup Run(base, n)])
              /\ bigblocks' = <<[at |-> w.ret, order |-> order, pages |-> base * PAGE_SIZE]>>
                                \o bigblocks
              /\ objects' = Put(objects, base * PAGE_SIZE, [size |-> size, units |-> 0])

(***************************************************************************)
(* kfree looks for a block that begins a page among the big ones; a small  *)
(* object may begin a page as well.                                        *)
(***************************************************************************)
BigAt(block) == {i \in 1..Len(bigblocks) : block % PAGE_SIZE = 0 /\ bigblocks[i].pages = block}

kfree_big(block) ==
  /\ \E i \in BigAt(block) :
       LET bb == bigblocks[i]
       IN  /\ Becomes(slob_free([World EXCEPT
                        !.pmm = PagesFreed(pmm, block \div PAGE_SIZE, 2^bb.order),
                        !.used = @ \ Run(block \div PAGE_SIZE, 2^bb.order)], bb.at, BIGBLOCK))
           /\ bigblocks' = RemoveAt(bigblocks, i)

kfree_small(block) ==
  /\ BigAt(block) = {}
  /\ Becomes(slob_free(World, block - 1, objects[block].units))
  /\ UNCHANGED bigblocks

kfree(block) ==
  /\ block \in DOMAIN objects
  /\ kfree_big(block) \/ kfree_small(block)
  /\ objects' = Restrict(objects, DOMAIN objects \ {block})

-----------------------------------------------------------------------------
(* What belongs to the heap, and so not to another caller of free_pages.   *)
SmallObjects == {b \in DOMAIN objects : BigAt(b) = {}}
BigObjects == DOMAIN objects \ SmallObjects

ObjectBlocks ==
  {Units(b - 1, objects[b].size + 1) : b \in SmallObjects}
    \cup {Units(bigblocks[i].at, BIGBLOCK) : i \in 1..Len(bigblocks)}

FreeBlocks == {Units(b, slob[b].units) : b \in DOMAIN slob \ {arena}}

PagesOf(blocks) == {u \div PAGE_SIZE : u \in UNION blocks}

BigPages == UNION {Run(bigblocks[i].pages \div PAGE_SIZE, 2^bigblocks[i].order) :
                     i \in 1..Len(bigblocks)}

HeapPages == PagesOf(ObjectBlocks \cup FreeBlocks)

LentPages == used \ (HeapPages \cup BigPages)

HeapNext ==
  \/ (Booted \/ swap_init \/ \E n \in 1..NPAGE : alloc_pages(n)) /\ UNCHANGED slobVars
  \/ /\ \E n \in 1..NPAGE, base \in Page :
          base + n <= NPAGE /\ default_init_memmap(base, n)
     /\ UNCHANGED slobVars
  \/ /\ \E base \in LentPages : \E n \in 1..NPAGE :
          Run(base, n) \subseteq LentPages /\ free_pages(base, n)
     /\ UNCHANGED slobVars
  \/ \E size \in Sizes : kmalloc_small(size) \/ kmalloc_big(size)
  \/ \E block \in DOMAIN objects : kfree(block)

HeapSpec == HeapInit /\ [][HeapNext]_heapVars

-----------------------------------------------------------------------------
(***************************************************************************)
(* The free list is one cycle through all free blocks in the order of      *)
(* their addresses, and neighbours are merged.                             *)
(***************************************************************************)
SlobSorted ==
  LET n == Cardinality(DOMAIN slob)
      walk == Walk(World)
  IN  /\ {walk[k] : k \in 1..n} = DOMAIN slob /\ walk[n] = slobfree
      /\ Cardinality({b \in DOMAIN slob : slob[b].next <= b}) = 1
      /\ \A b \in DOMAIN slob : b + slob[b].units \notin DOMAIN slob

(***************************************************************************)
(* Every unit of the heap's pages is in exactly one block, free or not,    *)
(* and the heap uses no page that is not its own: nothing is lost by       *)
(* splitting, merging and growing.  The free list stays sorted and merged. *)
(***************************************************************************)
HeapExact ==
  /\ SlobSorted
  /\ LET blocks == ObjectBlocks \cup FreeBlocks
     IN  /\ \A b, c \in blocks : b # c => b \cap c = {}
         /\ UNION blocks = UNION {Units(p * PAGE_SIZE, PAGE_SIZE) : p \in HeapPages}
         /\ HeapPages \cup BigPages \subseteq used /\ HeapPages \cap BigPages = {}

(***************************************************************************)
(* Memory in use never overlaps, whoever asked for it, and an object has   *)
(* the size that was asked for.                                            *)
(***************************************************************************)
LiveBlocks ==
  {Units(b, objects[b].size) : b \in DOMAIN objects}
    \cup {Units(p * PAGE_SIZE, PAGE_SIZE) : p \in LentPages}

Memory == INSTANCE AbsHeap WITH live <- LiveBlocks

MemorySpec == Memory!Spec

=============================================================================

------------------------------ MODULE PageAlloc ------------------------------
(***************************************************************************)
(* First-fit allocation of physical pages: kern/mm/default_pmm.c behind    *)
(* alloc_pages and free_pages of kern/mm/pmm.c, which call it with         *)
(* interrupts off.  A free block is known by its first page, which is on   *)
(* free_list and holds the size of the block in its property field.        *)
(*                                                                         *)
(* The functions are operators on the record pmm, so that a caller may     *)
(* allocate more than once in a step; Heap is such a caller.               *)
(***************************************************************************)
EXTENDS Integers, FiniteSets, SequencesExt, Lists

CONSTANT NPAGE     \* pages of physical memory

ASSUME PageAssumption == NPAGE \in Nat \ {0}

Page == 0..(NPAGE - 1)

VARIABLES
  pmm,         \* free_list (first pages of the free blocks, in list order),
               \* property (what it holds elsewhere is stale), head (the pages
               \* with PG_property set), nr_free
  reserved,    \* the pages with PG_reserved set
  used,        \* pages handed out and not given back: what the callers know
  booted,      \* page_init is over
  swap_init_ok \* swap_init has run

pageVars == <<pmm, reserved, used, booted, swap_init_ok>>

PageTypeOK ==
  /\ pmm.free_list \in Seq(Page)
  /\ pmm.property \in [Page -> 0..NPAGE]
  /\ pmm.nr_free \in 0..NPAGE
  /\ pmm.head \subseteq Page /\ reserved \subseteq Page /\ used \subseteq Page
  /\ booted \in BOOLEAN /\ swap_init_ok \in BOOLEAN

(* The n pages from base on.                                               *)
Run(base, n) == base..(base + n - 1)

(* Unlinking p.                                                            *)
PlaceOf(p, list) == CHOOSE i \in 1..Len(list) : list[i] = p

list_del(list, p) == IF InList(p, list) THEN RemoveAt(list, PlaceOf(p, list)) ELSE list

-----------------------------------------------------------------------------
(* Deviant forms of the definitions below.                                 *)
MergeAboveOnly(w, p) ==
  IF w.base + w.property[w.base] = p
  THEN [w EXCEPT !.property[w.base] = @ + w.property[p],
                 !.head = @ \ {p}, !.free_list = list_del(@, p)]
  ELSE w
DropsRest(m, page, n) == list_del(m.free_list, page)

-----------------------------------------------------------------------------
(* default_init                                                            *)
PageInit ==
  /\ pmm = [free_list |-> <<>>, property |-> [p \in Page |-> 0], head |-> {}, nr_free |-> 0]
  /\ reserved = Page
  /\ used = {}
  /\ booted = FALSE /\ swap_init_ok = FALSE

(***************************************************************************)
(* page_init hands over the usable areas of the memory map.  They do not   *)
(* touch: the BIOS reports adjacent usable memory as one area.             *)
(***************************************************************************)
default_init_memmap(base, n) ==
  /\ ~booted
  /\ (base - 1)..(base + n) \cap Page \subseteq reserved
  /\ pmm' = [free_list |-> <<base>> \o pmm.free_list,
             property  |-> [p \in Page |-> IF p = base THEN n
                                           ELSE IF p \in Run(base, n) THEN 0
                                           ELSE pmm.property[p]],
             head      |-> pmm.head \cup {base},
             nr_free   |-> pmm.nr_free + n]
  /\ reserved' = reserved \ Run(base, n)
  /\ UNCHANGED <<used, booted, swap_init_ok>>

Booted ==
  /\ ~booted
  /\ booted' = TRUE
  /\ UNCHANGED <<pmm, reserved, used, swap_init_ok>>

(***************************************************************************)
(* default_alloc_pages: the first block in the list that is large enough.  *)
(* What is left of it becomes a block at the front of the list (whose      *)
(* PG_property is not set).                                                *)
(***************************************************************************)
Fits(m, n) == {i \in 1..Len(m.free_list) : m.property[m.free_list[i]] >= n}

Available(m, n) == n <= m.nr_free /\ Fits(m, n) # {}

FirstFit(m, n) == m.free_list[CHOOSE i \in Fits(m, n) : \A j \in Fits(m, n) : i <= j]

ListAfterAlloc(m, page, n) ==
  (IF m.property[page] > n THEN <<page + n>> ELSE <<>>) \o list_del(m.free_list, page)

HeadAfterAlloc(m, page) == m.head \ {page}

PagesTaken(m, n) ==
  LET page == FirstFit(m, n)
  IN  [free_list |-> ListAfterAlloc(m, page, n),
       property  |-> IF m.property[page] > n
                     THEN [m.property EXCEPT ![page + n] = m.property[page] - n]
                     ELSE m.property,
       head      |-> HeadAfterAlloc(m, page),
       nr_free   |-> m.nr_free - n]

(***************************************************************************)
(* default_free_pages: one walk over the list merges the freed block with  *)
(* the blocks on both sides; the result goes to the front.                 *)
(***************************************************************************)
Merge(w, p) ==
  IF w.base + w.property[w.base] = p
  THEN [w EXCEPT !.property[w.base] = @ + w.property[p],
                 !.head = @ \ {p}, !.free_list = list_del(@, p)]
  ELSE IF p + w.property[p] = w.base
  THEN [w EXCEPT !.property[p] = @ + w.property[w.base], !.head = @ \ {w.base},
                 !.base = p, !.free_list = list_del(@, p)]
  ELSE w

PagesFreed(m, base, n) ==
  LET freed == [base      |-> base,
                property  |-> [m.property EXCEPT ![base] = n],
                head      |-> (m.head \ Run(base, n)) \cup {base},
                free_list |-> m.free_list]
      w     == FoldLeft(Merge, freed, m.free_list)
  IN  [free_list |-> <<w.base>> \o w.free_list, property |-> w.property,
       head |-> w.head, nr_free |-> m.nr_free + n]

-----------------------------------------------------------------------------
swap_init ==
  /\ booted /\ ~swap_init_ok
  /\ swap_init_ok' = TRUE
  /\ UNCHANGED <<pmm, reserved, used, booted>>

(***************************************************************************)
(* alloc_pages returns its pages or NULL.  But for one page that cannot be *)
(* had it calls swap_out as soon as swap_init has run, with no address     *)
(* space to take a page from: the fault stops the machine.                 *)
(***************************************************************************)
ComesBack(m, n) == Available(m, n) \/ n > 1 \/ ~swap_init_ok

(* The callers of alloc_pages and free_pages; a run may be freed in parts. *)
alloc_pages(n) ==
  /\ booted
  /\ Available(pmm, n)
  /\ pmm' = PagesTaken(pmm, n)
  /\ used' = used \cup Run(FirstFit(pmm, n), n)
  /\ UNCHANGED <<reserved, booted, swap_init_ok>>

free_pages(base, n) ==
  /\ Run(base, n) \subseteq used
  /\ pmm' = PagesFreed(pmm, base, n)
  /\ used' = used \ Run(base, n)
  /\ UNCHANGED <<reserved, booted, swap_init_ok>>

PageNext ==
  \/ Booted \/ swap_init
  \/ \E n \in 1..NPAGE :
       \/ alloc_pages(n)
       \/ \E base \in 0..(NPAGE - n) : default_init_memmap(base, n) \/ free_pages(base, n)

PageSpec == PageInit /\ [][PageNext]_pageVars

-----------------------------------------------------------------------------
(***************************************************************************)
(* The free blocks are disjoint and make up just the pages that are        *)
(* neither reserved nor handed out, and nr_free counts them.  No page that *)
(* was handed out is marked as the head of a free block, as the assert of  *)
(* default_free_pages wants it.  (That each block on the list is marked,   *)
(* as the kernel's self-checks want it, is not so: see ListAfterAlloc.)    *)
(***************************************************************************)
Block(i) == Run(pmm.free_list[i], pmm.property[pmm.free_list[i]])

FreePages == UNION {Block(i) : i \in 1..Len(pmm.free_list)}

FreeExact ==
  /\ PageTypeOK
  /\ \A i, j \in 1..Len(pmm.free_list) : i # j => Block(i) \cap Block(j) = {}
  /\ FreePages = Page \ (used \cup reserved)
  /\ pmm.nr_free = Cardinality(FreePages)
  /\ used \cap pmm.head = {}

(***************************************************************************)
(* An allocation fails only if there is no run of so many free pages:      *)
(* neighbouring blocks are always merged, in whatever order they are       *)
(* split and freed.                                                        *)
(***************************************************************************)
EveryRunIsFound ==
  \A n \in 1..NPAGE, base \in Page :
    Run(base, n) \subseteq Page \ (used \cup reserved) => Available(pmm, n)

=============================================================================

------------------------------ MODULE AddrSpace ------------------------------
(***************************************************************************)
(* Address spaces: the list of areas with its cache (kern/mm/vmm.c), page  *)
(* tables and the frames they take (kern/mm/pmm.c), and the four places    *)
(* that make, copy and take apart an address space: load_icode, copy_mm,   *)
(* do_execve and do_exit (kern/process/proc.c).                            *)
(*                                                                         *)
(* None of them gives up the CPU once it has the lock of the address space *)
(* (MmLock), so each is one step.  An address is a number of WORD_SIZE     *)
(* values; what pages hold is left out.  A page that a process maps is     *)
(* mapped once, so its page_ref is 1 as long as the entry is there.        *)
(***************************************************************************)
EXTENDS Integers, FiniteSets, SequencesExt

CONSTANTS
  Proc, InitProc,     \* processes; the first one is a kernel thread that calls execve
  NFRAME,             \* frames that are free before that
  PGSIZE, NPT,        \* bytes in a page, pages that one page table maps
  WORD_SIZE,          \* the number of addresses
  USERBASE, USERTOP, USTACKSIZE,
  StackPages,         \* pages of the stack that load_icode allocates (4 in the code)
  MaxCalls,           \* calls of fork and execve (bound)
  MaxKmalloc,         \* an operation runs out of kernel memory after so many calls of kmalloc
                      \* at most (bound: those of one that succeeds)
  Program             \* program headers of the files that may be executed: sequences
                      \* of [va, filesz, memsz, flags] (bound)

ASSUME AddrSpaceAssumption ==
  /\ InitProc \in Proc /\ {MaxCalls, MaxKmalloc} \subseteq Nat /\ IsFiniteSet(Proc)
  /\ {NFRAME, PGSIZE, NPT, WORD_SIZE, USERBASE, USERTOP, USTACKSIZE, StackPages} \subseteq Nat \ {0}
  /\ \A n \in {WORD_SIZE, USERBASE, USERTOP, USTACKSIZE} : n % PGSIZE = 0
  /\ USERTOP % (PGSIZE * NPT) = 0 /\ USERTOP < WORD_SIZE
  /\ StackPages * PGSIZE <= USTACKSIZE /\ USERBASE + USTACKSIZE <= USERTOP

(* A file may ask for any addresses, but not for more than there are.      *)
ASSUME ProgramAssumption ==
  \A prog \in Program :
    /\ prog \in Seq([va : 0..(WORD_SIZE - 1), filesz : Nat, memsz : Nat,
                     flags : SUBSET {"READ", "WRITE", "EXEC"}])
    /\ \A i \in 1..Len(prog) : prog[i].memsz + (prog[i].va % PGSIZE) <= WORD_SIZE

VARIABLES
  free,       \* the free frames
  state,      \* "none", "kthread" (no address space) or "user"
  mm,         \* the address space of each process: an mm_struct and its page directory
  swap_init_ok,  \* swap_init went well; if not, kern_init goes on without swapping
  panicked,   \* an assertion failed, or there was no page for alloc_page
  calls       \* calls of fork and execve so far

mmVars == <<free, state, mm, swap_init_ok, panicked, calls>>

Frame == 1..NFRAME
Table == 0..(WORD_SIZE \div (PGSIZE * NPT) - 1)
Page == 0..(WORD_SIZE \div PGSIZE - 1)
None == 0                                    \* no frame, or NULL
Unmapped == [frame |-> None, w |-> FALSE]    \* an entry without PTE_P
Area == [vm_start : 0..(WORD_SIZE - 1), vm_end : 0..(WORD_SIZE - 1),
         vm_flags : SUBSET {"READ", "WRITE", "EXEC", "STACK"}]
NoArea == [vm_start |-> 0, vm_end |-> 0, vm_flags |-> {}]

NoMm == [mmap_list |-> <<>>, mmap_cache |-> NoArea, pgdir |-> None,
         table |-> [t \in Table |-> None], pte |-> [la \in Page |-> Unmapped]]

PageOf(addr) == addr \div PGSIZE
TableOf(la) == la \div NPT
ROUNDDOWN(a, n) == (a \div n) * n
ROUNDUP(a, n) == ROUNDDOWN(a + n - 1, n) % WORD_SIZE
USER_ACCESS(start, end) == USERBASE <= start /\ start < end /\ end <= USERTOP

MmTypeOK ==
  /\ free \subseteq Frame /\ panicked \in BOOLEAN /\ swap_init_ok \in BOOLEAN /\ calls \in 0..MaxCalls
  /\ state \in [Proc -> {"none", "kthread", "user"}]
  /\ \A p \in Proc :
       /\ mm[p].mmap_list \in Seq(Area) /\ mm[p].mmap_cache \in Area \cup {NoArea}
       /\ mm[p].pgdir \in Frame \cup {None} /\ mm[p].table \in [Table -> Frame \cup {None}]
       /\ mm[p].pte \in [Page -> [frame : Frame \cup {None}, w : BOOLEAN]]

-----------------------------------------------------------------------------
(* Deviant forms of the definitions below.                                 *)
SkipOneTable(la) == la + NPT
NoGuardPage(v, start, write) ==
  v = NoArea \/ (IF write THEN "WRITE" ELSE "READ") \notin v.vm_flags
FirstLeftOut(list) == Reverse(Tail(list))
UserPages(ph) == TRUE

-----------------------------------------------------------------------------
(***************************************************************************)
(* A world is what an operation works on: free, mm and panicked, the value *)
(* ret it returns, and how many calls of kmalloc will still succeed.       *)
(***************************************************************************)
World(n) == [free |-> free, mm |-> mm, panicked |-> panicked, ret |-> "0", kmallocs |-> n]

Fails(w, err) == [w EXCEPT !.ret = err]
Panics(w) == [w EXCEPT !.panicked = TRUE]
Stopped(w) == w.panicked \/ w.ret # "0"

(***************************************************************************)
(* alloc_page finds no page, or kmalloc no room: with swapping on it calls *)
(* swap_out without an address space, whose fault stops the machine.       *)
(***************************************************************************)
NoMemory(w) == IF swap_init_ok THEN Panics(w) ELSE Fails(w, "-E_NO_MEM")

Lowest(S) == CHOOSE i \in S : \A j \in S : i <= j

(* Of single frames the allocator gives out the lowest.                    *)
FreeFrame(w) == IF w.free = {} THEN None ELSE Lowest(w.free)

-----------------------------------------------------------------------------
(* Areas.                                                                  *)
InArea(v, addr) == v.vm_start <= addr /\ addr < v.vm_end

find_vma(as, addr) ==
  LET hits == {i \in 1..Len(as.mmap_list) : InArea(as.mmap_list[i], addr)}
  IN  IF InArea(as.mmap_cache, addr) THEN as.mmap_cache
      ELSE IF hits = {} THEN NoArea ELSE as.mmap_list[Lowest(hits)]

WithCache(as, v) == [as EXCEPT !.mmap_cache = v]

Cached(as, v) == IF v = NoArea THEN as ELSE WithCache(as, v)

(* The number of areas in front of the place of vma.                       *)
PlaceOf(list, vma) ==
  LET above == {i \in 1..Len(list) : list[i].vm_start > vma.vm_start}
  IN  IF above = {} THEN Len(list) ELSE Lowest(above) - 1

(* insert_vma_struct, whose check_vma_overlap is made of assertions.       *)
insert_vma_struct(w, p, vma) ==
  LET list == w.mm[p].mmap_list
      i == PlaceOf(list, vma)
  IN  IF \/ i > 0 /\ list[i].vm_end > vma.vm_start
         \/ i < Len(list) /\ vma.vm_end > list[i + 1].vm_start
      THEN Panics(w)
      ELSE [w EXCEPT !.mm[p].mmap_list = InsertAt(list, i + 1, vma)]

(* vma_create and insert_vma_struct.                                       *)
AddsArea(w, p, vma) ==
  IF w.kmallocs = 0 THEN NoMemory(w)
  ELSE insert_vma_struct([w EXCEPT !.kmallocs = @ - 1], p, vma)

mm_map(w, p, addr, len, flags) ==
  LET start == ROUNDDOWN(addr, PGSIZE)
      end == ROUNDUP(addr + len, PGSIZE)
      v == find_vma(w.mm[p], start)
  IN  IF ~USER_ACCESS(start, end) THEN Fails(w, "-E_INVAL")
      ELSE IF v # NoArea THEN Fails([w EXCEPT !.mm[p] = Cached(@, v)], "-E_INVAL")
      ELSE AddsArea(w, p, [vm_start |-> start, vm_end |-> end, vm_flags |-> flags])

(***************************************************************************)
(* user_mem_check goes from area to area; the first page of a stack may    *)
(* not be written.  go[at] is the loop from at on: a start and a cache.    *)
(***************************************************************************)
Refused(v, start, write) ==
  \/ v = NoArea
  \/ (IF write THEN "WRITE" ELSE "READ") \notin v.vm_flags
  \/ write /\ "STACK" \in v.vm_flags /\ start < v.vm_start + PGSIZE

user_mem_check(as, addr, len, write) ==
  LET end == (addr + len) % WORD_SIZE
      go[at \in (0..(WORD_SIZE - 1)) \X (ToSet(as.mmap_list) \cup {NoArea})] ==
        LET v == find_vma(WithCache(as, at[2]), at[1])
        IN  IF at[1] >= end THEN [ok |-> TRUE, cache |-> at[2]]
            ELSE IF Refused(v, at[1], write)
                 THEN [ok |-> FALSE, cache |-> IF v = NoArea THEN at[2] ELSE v]
                 ELSE go[<<v.vm_end, v>>]
  IN  IF USER_ACCESS(addr, end) THEN go[<<addr, as.mmap_cache>>]
      ELSE [ok |-> FALSE, cache |-> as.mmap_cache]

-----------------------------------------------------------------------------
(* Page tables.  get_pte with create = 1:                                  *)
get_pte(w, p, la) ==
  LET t == TableOf(la)
  IN  IF w.mm[p].table[t] # None THEN w
      ELSE IF w.free = {} THEN NoMemory(w)
      ELSE [w EXCEPT !.mm[p].table[t] = FreeFrame(w), !.free = @ \ {FreeFrame(w)}]

(* page_insert of a frame nobody else has.                                 *)
page_insert(w, p, frame, la, write) ==
  LET w1 == get_pte(w, p, la)
      old == w1.mm[p].pte[la].frame
  IN  IF Stopped(w1) THEN w1
      ELSE [w1 EXCEPT !.mm[p].pte[la] = [frame |-> frame, w |-> write],
                      !.free = IF old = None THEN @ ELSE @ \cup {old}]

pgdir_alloc_page(w, p, la, write) ==
  LET f == FreeFrame(w)
      w1 == page_insert([w EXCEPT !.free = @ \ {f}], p, f, la, write)
  IN  IF f = None THEN NoMemory(w)
      ELSE IF Stopped(w1) THEN [w1 EXCEPT !.free = @ \cup {f}] ELSE w1

(***************************************************************************)
(* The pages of an area that unmap_range and copy_range look at: where     *)
(* there is no page table they go on with the first page of the next one.  *)
(***************************************************************************)
NextTable(la) == ROUNDDOWN(la + NPT, NPT)

Walked(as, v) ==
  LET from[la \in 0..(2 * WORD_SIZE)] ==
        IF la >= PageOf(v.vm_end) THEN <<>>
        ELSE IF as.table[TableOf(la)] = None THEN from[NextTable(la)]
        ELSE <<la>> \o from[la + 1]
  IN  from[PageOf(v.vm_start)]

Present(as, la) == as.pte[la] # Unmapped

unmap_range(w, p, v) ==
  LET as == w.mm[p]
      gone == {la \in ToSet(Walked(as, v)) : Present(as, la)}
  IN  [w EXCEPT !.free = @ \cup {as.pte[la].frame : la \in gone},
                !.mm[p].pte = [la \in Page |-> IF la \in gone THEN Unmapped ELSE as.pte[la]]]

TablesOf(v) == TableOf(PageOf(v.vm_start))..TableOf(PageOf(v.vm_end) - 1)

exit_range(w, p, v) ==
  LET as == w.mm[p]
      gone == {t \in TablesOf(v) : as.table[t] # None}
  IN  [w EXCEPT !.free = @ \cup {as.table[t] : t \in gone},
                !.mm[p].table = [t \in Table |-> IF t \in gone THEN None ELSE as.table[t]]]

(* Whoever calls copy_range is ready for -E_NO_MEM; it asserts the frame.  *)
CopyPage(w, from, to, la) ==
  LET w1 == get_pte(w, to, la)
      f == FreeFrame(w1)
  IN  IF Stopped(w1) THEN w1
      ELSE IF f = None THEN Panics(w1)
      ELSE page_insert([w1 EXCEPT !.free = @ \ {f}], to, f, la, w1.mm[from].pte[la].w)

copy_range(w, from, to, v) ==
  LET step(u, la) ==
        IF Stopped(u) \/ ~Present(u.mm[from], la) THEN u ELSE CopyPage(u, from, to, la)
  IN  FoldLeft(step, w, Walked(w.mm[from], v))

-----------------------------------------------------------------------------
(* The life of an address space.                                           *)
mm_create(w, p) ==
  IF w.kmallocs = 0 THEN NoMemory(w)
  ELSE [w EXCEPT !.kmallocs = @ - 1, !.mm[p] = NoMm]

setup_pgdir(w, p) ==
  IF Stopped(w) THEN w
  ELSE IF w.free = {} THEN NoMemory(w)
  ELSE [w EXCEPT !.mm[p].pgdir = FreeFrame(w), !.free = @ \ {FreeFrame(w)}]

(* First the pages of every area, then the page tables of every area.      *)
exit_mmap(w, p) ==
  LET list == w.mm[p].mmap_list
      unmap(u, v) == unmap_range(u, p, v)
      exit(u, v) == exit_range(u, p, v)
  IN  FoldLeft(exit, FoldLeft(unmap, w, list), list)

(* exit_mmap, put_pgdir, mm_destroy, from as far as it had come.           *)
TakesApart(w, p) ==
  LET w1 == exit_mmap(w, p)
  IN  [w1 EXCEPT !.mm[p] = NoMm, !.free = @ \cup ({w1.mm[p].pgdir} \ {None})]

ListToCopy(list) == Reverse(list)

dup_mmap(w, to, from) ==
  LET step(u, v) ==
        IF Stopped(u) THEN u
        ELSE LET u1 == AddsArea(u, to, v)
             IN  IF Stopped(u1) THEN u1 ELSE copy_range(u1, from, to, v)
  IN  IF Stopped(w) THEN w ELSE FoldLeft(step, w, ListToCopy(w.mm[from].mmap_list))

CleansUp(w, p) == IF w.ret = "0" \/ w.panicked THEN w ELSE TakesApart(w, p)

copy_mm(w, to, from) == CleansUp(dup_mmap(setup_pgdir(mm_create(w, to), to), to, from), to)

MapsPages(w, p, pages, write) ==
  LET step(u, la) == IF Stopped(u) THEN u ELSE pgdir_alloc_page(u, p, la, write)
  IN  FoldLeft(step, w, pages)

SegmentPages(ph) ==
  [i \in 1..(PageOf(ph.va + ph.memsz - 1) - PageOf(ph.va) + 1) |-> PageOf(ph.va) + i - 1]

Writable(ph) == "WRITE" \in ph.flags

StackTop == [i \in 1..StackPages |-> PageOf(USERTOP) - i]

(* One program header: TEXT, DATA and BSS get their pages at once.         *)
LoadsSegment(w, p, ph) ==
  LET w1 == mm_map(w, p, ph.va, ph.memsz, ph.flags)
  IN  IF Stopped(w) THEN w
      ELSE IF ph.filesz > ph.memsz THEN Fails(w, "-E_INVAL_ELF")
      ELSE IF ph.filesz = 0 THEN w
      ELSE IF Stopped(w1) THEN w1
      ELSE MapsPages(w1, p, SegmentPages(ph), Writable(ph))

(* The stack, of which the top StackPages pages are asserted to be there.  *)
LoadsStack(w, p) ==
  LET w1 == mm_map(w, p, USERTOP - USTACKSIZE, USTACKSIZE, {"READ", "WRITE", "STACK"})
      w2 == MapsPages(w1, p, StackTop, TRUE)
  IN  IF Stopped(w) THEN w
      ELSE IF Stopped(w1) THEN w1
      ELSE IF w2.ret # "0" THEN Panics(w2)
      ELSE w2

load_icode(w, p, prog) ==
  LET segment(u, ph) == LoadsSegment(u, p, ph)
  IN  CleansUp(LoadsStack(FoldLeft(segment, setup_pgdir(mm_create(w, p), p), prog), p), p)

-----------------------------------------------------------------------------
Becomes(w) ==
  /\ free' = w.free /\ mm' = w.mm /\ panicked' = w.panicked
  /\ UNCHANGED swap_init_ok

MmInit ==
  /\ free = Frame
  /\ state = [p \in Proc |-> IF p = InitProc THEN "kthread" ELSE "none"]
  /\ mm = [p \in Proc |-> NoMm]
  /\ swap_init_ok \in BOOLEAN /\ panicked = FALSE /\ calls = 0

(* do_fork; n calls of kmalloc succeed.                                    *)
do_fork(p, q, n) ==
  LET w == copy_mm(World(n), q, p)
  IN  /\ ~panicked /\ state[p] = "user" /\ state[q] = "none"
      /\ calls < MaxCalls /\ calls' = calls + 1
      /\ Becomes(w)
      /\ state' = IF w.ret = "0" THEN [state EXCEPT ![q] = "user"] ELSE state

(* do_execve once the arguments are copied and the file is open: the old   *)
(* address space is gone before the new one is made.                       *)
do_execve(p, prog, n) ==
  LET w == load_icode(TakesApart(World(n), p), p, prog)
  IN  /\ ~panicked /\ state[p] # "none"
      /\ calls < MaxCalls /\ calls' = calls + 1
      /\ Becomes(w)
      /\ state' = [state EXCEPT ![p] = IF w.ret = "0" THEN "user" ELSE "none"]

do_exit(p) ==
  /\ ~panicked /\ state[p] # "none"
  /\ Becomes(TakesApart(World(0), p))
  /\ state' = [state EXCEPT ![p] = "none"] /\ UNCHANGED calls

(***************************************************************************)
(* do_pgfault, and what trap_dispatch makes of its failure.  The processor *)
(* faults on an entry that is not there, or that may not be written.       *)
(***************************************************************************)
Faults(as, addr, write) ==
  LET e == as.pte[PageOf(addr)] IN e = Unmapped \/ (write /\ ~e.w)

FaultRefused(v, write) ==
  v = NoArea \/ (IF write THEN {"WRITE"} ELSE {"READ", "EXEC"}) \cap v.vm_flags = {}

(* The rest of do_pgfault: a page that is not there is made.               *)
GivesPage(w, p, la, write) ==
  IF Present(w.mm[p], la) THEN w ELSE pgdir_alloc_page(w, p, la, write)

do_pgfault(p, addr, write) ==
  LET v == find_vma(mm[p], addr)
      w == [World(0) EXCEPT !.mm[p] = Cached(@, v)]
      w1 == GivesPage(w, p, PageOf(addr), "WRITE" \in v.vm_flags)
  IN  /\ ~panicked /\ state[p] = "user" /\ Faults(mm[p], addr, write)
      /\ Becomes(IF FaultRefused(v, write) THEN Panics(w)
                 ELSE IF w1.ret # "0" THEN Panics(w1) ELSE w1)
      /\ UNCHANGED <<state, calls>>

(* A system call looks at memory of the process (copy_from_user and so on).*)
UserMemory(p, addr, len, write) ==
  /\ ~panicked /\ state[p] = "user"
  /\ mm' = [mm EXCEPT ![p].mmap_cache = user_mem_check(mm[p], addr, len, write).cache]
  /\ UNCHANGED <<free, state, swap_init_ok, panicked, calls>>

Addr == 0..(WORD_SIZE - 1)

MmNext == \E p \in Proc :
  \/ \E q \in Proc \ {p}, n \in 0..MaxKmalloc : do_fork(p, q, n)
  \/ \E prog \in Program, n \in 0..MaxKmalloc : do_execve(p, prog, n)
  \/ do_exit(p)
  \/ \E addr \in Addr, write \in BOOLEAN : do_pgfault(p, addr, write)
  \/ \E addr \in Addr, write \in BOOLEAN : UserMemory(p, addr, 1, write)

MmSpec == MmInit /\ [][MmNext]_mmVars

-----------------------------------------------------------------------------
(***************************************************************************)
(* No frame is lost and none is used twice: each that was free at the      *)
(* start is free, or the page directory, a page table or a page of one     *)
(* process.  A fork or an exec that fails half way, and an exit, give      *)
(* everything back, whatever page tables the areas share.                  *)
(***************************************************************************)
HeldBy(as) ==
  ({as.pgdir} \cup {as.table[t] : t \in Table} \cup {as.pte[la].frame : la \in Page}) \ {None}

TimesHeld(as, f) ==
  Cardinality({t \in Table : as.table[t] = f}) + Cardinality({la \in Page : as.pte[la].frame = f})
  + IF as.pgdir = f THEN 1 ELSE 0

MemoryExact ==
  ~panicked =>
    /\ free \cup UNION {HeldBy(mm[p]) : p \in Proc} = Frame
    /\ \A p \in Proc :
         /\ \A f \in HeldBy(mm[p]) : f \notin free /\ TimesHeld(mm[p], f) = 1
         /\ \A q \in Proc \ {p} : HeldBy(mm[p]) \cap HeldBy(mm[q]) = {}
         /\ state[p] # "user" => mm[p] = NoMm

(***************************************************************************)
(* The areas of a process are in order and apart, the cache is one of      *)
(* them, and its page tables never give it more than its areas do: a page  *)
(* that is there lies in an area, and may be written only if the area may. *)
(***************************************************************************)
AreasCoverPages ==
  /\ MmTypeOK
  /\ ~panicked => \A p \in Proc :
       LET as == mm[p]
       IN  /\ \A i \in 1..(Len(as.mmap_list) - 1) :
                as.mmap_list[i].vm_end <= as.mmap_list[i + 1].vm_start
           /\ as.mmap_cache \in ToSet(as.mmap_list) \cup {NoArea}
           /\ \A la \in Page : Present(as, la) =>
                \E v \in ToSet(as.mmap_list) :
                  la \in PageOf(v.vm_start)..(PageOf(v.vm_end) - 1) /\ (as.pte[la].w => "WRITE" \in v.vm_flags)

(***************************************************************************)
(* user_mem_check, which asks find_vma and its cache once for each area,   *)
(* says yes to a range just if each byte of it may be read, or written:    *)
(* also across areas, at their ends, and where addr + len overflows.       *)
(***************************************************************************)
MayAccess(as, addr, write) ==
  \E v \in ToSet(as.mmap_list) :
    /\ v.vm_start <= addr /\ addr < v.vm_end
    /\ (IF write THEN "WRITE" ELSE "READ") \in v.vm_flags
    /\ write /\ "STACK" \in v.vm_flags => addr >= v.vm_start + PGSIZE

InUserSpace(addr, len) == USERBASE <= addr /\ len > 0 /\ addr + len <= USERTOP

UserMemExact ==
  ~panicked => \A p \in Proc, addr \in Addr, len \in Addr, write \in BOOLEAN :
    user_mem_check(mm[p], addr, len, write).ok
      <=> InUserSpace(addr, len) /\ \A a \in addr..(addr + len - 1) : MayAccess(mm[p], a, write)

(***************************************************************************)
(* A fork that succeeds gives the child the areas and the pages of its     *)
(* parent, with their permissions, and leaves the parent as it was.        *)
(***************************************************************************)
SameSpace(as, bs) ==
  /\ as.mmap_list = bs.mmap_list
  /\ \A la \in Page : Present(as, la) <=> Present(bs, la)
  /\ \A la \in Page : as.pte[la].w = bs.pte[la].w

ForkCopies ==
  [][\A q \in Proc : ~panicked' /\ state[q] = "none" /\ state'[q] = "user" =>
       \E p \in Proc : state[p] = "user" /\ mm'[p] = mm[p] /\ SameSpace(mm[p], mm'[q])]_mmVars

=============================================================================

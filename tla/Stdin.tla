-------------------------------- MODULE Stdin --------------------------------
(***************************************************************************)
(* Typed characters on their way to a process: the keyboard and serial     *)
(* interrupt (kern/trap/trap.c), the console's ring (kern/driver/          *)
(* console.c), the ring and the wait queue of stdin (kern/fs/devs/         *)
(* dev_stdin.c), and do_kill of a reader.                                  *)
(*                                                                         *)
(* Readers give up the CPU only in schedule(), and both rings are touched  *)
(* with interrupts off.  In which order woken readers run is left open.    *)
(* Characters are numbered in the order in which they are typed, at the    *)
(* keyboard or at the terminal on the serial line.                         *)
(***************************************************************************)
EXTENDS Integers, FiniteSets, SequencesExt, Lists

CONSTANTS
  Reader,          \* processes that read the terminal
  STDIN_BUFSIZE, CONSBUFSIZE,
  MaxLen,          \* the longest read (bound)
  MaxTyped,        \* characters typed in a behaviour (bound)
  MaxHeld          \* characters a device holds between two interrupts (bound)

ASSUME StdinAssumption ==
  /\ IsFiniteSet(Reader)
  /\ STDIN_BUFSIZE \in Nat \ {0} /\ CONSBUFSIZE \in Nat \ {0}
  /\ MaxLen \in Nat /\ MaxTyped \in Nat /\ MaxHeld \in Nat \ {0}

VARIABLES
  kbd, uart,       \* characters in the registers of the keyboard and of the UART
  irq,             \* an interrupt of either is pending; later ones coalesce with it
  cons,            \* the console's ring: buf, rpos, wpos
  stdin_buffer, p_rpos, p_wpos,
  wait_queue,      \* readers linked in the wait queue, first one first
  wakeup_flags,    \* the wait_t of each reader
  wait_state,      \* proc_struct.wait_state: "WT_KBD" or "0"
  exiting,         \* PF_EXITING
  left,            \* characters the read still wants
  pc,              \* "user", "read" (in dev_stdin_read's call of schedule) or "dead"
  typed, taken, lost, \* history: characters typed, read, and overwritten,
  keys                \* and those that came from the keyboard

ringVars == <<stdin_buffer, p_rpos, p_wpos>>
lineVars == <<kbd, uart, irq, cons>>
procVars == <<wait_queue, wakeup_flags, wait_state, exiting, left, pc>>
vars == <<lineVars, ringVars, procVars, typed, taken, lost, keys>>

Char == 1..MaxTyped
Empty == 0

TypeOK ==
  /\ kbd \in Seq(Char) /\ uart \in Seq(Char) /\ irq \in BOOLEAN
  /\ cons \in [buf : [0..(CONSBUFSIZE-1) -> Char \cup {Empty}],
               rpos : 0..(CONSBUFSIZE-1), wpos : 0..(CONSBUFSIZE-1)]
  /\ stdin_buffer \in [0..(STDIN_BUFSIZE-1) -> Char \cup {Empty}]
  /\ p_rpos \in 0..MaxTyped /\ p_wpos \in p_rpos..(p_rpos + STDIN_BUFSIZE)
  /\ wait_queue \in Seq(Reader)
  /\ wakeup_flags \in [Reader -> {"WT_KBD", "WT_INTERRUPTED"}]
  /\ wait_state \in [Reader -> {"WT_KBD", "0"}]
  /\ exiting \in [Reader -> BOOLEAN]
  /\ left \in [Reader -> 0..MaxLen]
  /\ pc \in [Reader -> {"user", "read", "dead"}]

-----------------------------------------------------------------------------
(* Deviant forms of the definitions below.                                 *)
FirstOnly == IF wait_queue = <<>> THEN 0 ELSE 1
RoomForOneMore == p_wpos - p_rpos <= STDIN_BUFSIZE
FirstCharOnly == IF p_rpos = p_wpos THEN FirstOnly ELSE 0

-----------------------------------------------------------------------------
Init ==
  /\ kbd = <<>> /\ uart = <<>> /\ irq = FALSE
  /\ cons = [buf |-> [i \in 0..(CONSBUFSIZE-1) |-> Empty], rpos |-> 0, wpos |-> 0]
  /\ stdin_buffer = [i \in 0..(STDIN_BUFSIZE-1) |-> Empty]
  /\ p_rpos = 0 /\ p_wpos = 0
  /\ wait_queue = <<>>
  /\ wakeup_flags = [r \in Reader |-> "WT_INTERRUPTED"]
  /\ wait_state = [r \in Reader |-> "0"]
  /\ exiting = [r \in Reader |-> FALSE]
  /\ left = [r \in Reader |-> 0]
  /\ pc = [r \in Reader |-> "user"]
  /\ typed = 0 /\ taken = <<>> /\ lost = {} /\ keys = {}

(* What the rings hold, oldest first.                                      *)
StdinChars == [k \in 1..(p_wpos - p_rpos) |-> stdin_buffer[(p_rpos + k - 1) % STDIN_BUFSIZE]]

Held(ring) ==
  [k \in 1..((ring.wpos - ring.rpos) % CONSBUFSIZE) |-> ring.buf[(ring.rpos + k - 1) % CONSBUFSIZE]]

ConsChars == Held(cons)

-----------------------------------------------------------------------------
(* A key is pressed, or a byte arrives on the serial line.                 *)
KeyPressed ==
  /\ typed < MaxTyped /\ Len(kbd) < MaxHeld
  /\ typed' = typed + 1
  /\ kbd' = Append(kbd, typed') /\ keys' = keys \cup {typed'}
  /\ irq' = TRUE
  /\ UNCHANGED <<uart, cons, ringVars, procVars, taken, lost>>

SerialByte ==
  /\ typed < MaxTyped /\ Len(uart) < MaxHeld
  /\ typed' = typed + 1
  /\ uart' = Append(uart, typed')
  /\ irq' = TRUE
  /\ UNCHANGED <<kbd, cons, ringVars, procVars, taken, lost, keys>>

(* A key is released, a byte is 0, or the other device's interrupt finds   *)
(* both drained: that too interrupts, with nothing to say.                 *)
NothingTyped ==
  /\ ~irq /\ irq' = TRUE
  /\ UNCHANGED <<kbd, uart, cons, ringVars, procVars, typed, taken, lost, keys>>

(* A character goes into the console's ring.                               *)
cons_intr(ring, c) ==
  [ring EXCEPT !.buf[ring.wpos] = c, !.wpos = (@ + 1) % CONSBUFSIZE]

(* A deviant form of the definition below.                                 *)
KeyboardFirst == FoldLeft(cons_intr, cons, kbd \o uart)

(***************************************************************************)
(* cons_getc puts everything that the devices have into the ring, what the *)
(* UART has first, and takes one character out of it.                      *)
(***************************************************************************)
Drained == FoldLeft(cons_intr, cons, uart \o kbd)

(* wpos that catches up with rpos leaves the ring empty.                   *)
Overrun == ToSet(ConsChars \o (uart \o kbd)) \ ToSet(Held(Drained))

GetsChar(ring) == ring.rpos # ring.wpos

NextRead(ring) == [ring EXCEPT !.rpos = (@ + 1) % CONSBUFSIZE]

(***************************************************************************)
(* dev_stdin_write: when the buffer is full the character overwrites the   *)
(* oldest one.  wakeup_queue takes all that wait out of the queue and wakes*)
(* those who are still asleep.                                             *)
(***************************************************************************)
HasRoom == p_wpos - p_rpos < STDIN_BUFSIZE

WokenCount == Len(wait_queue)

Woken == {wait_queue[i] : i \in 1..WokenCount}

dev_stdin_write(c) ==
  LET slot == p_wpos % STDIN_BUFSIZE
  IN  /\ stdin_buffer' = [stdin_buffer EXCEPT ![slot] = c]
      /\ p_wpos' = IF HasRoom THEN p_wpos + 1 ELSE p_wpos
      /\ lost' = lost \cup Overrun \cup IF HasRoom THEN {} ELSE {stdin_buffer[slot]}
      /\ wait_queue' = SubSeq(wait_queue, WokenCount + 1, Len(wait_queue))
      /\ wakeup_flags' = [r \in Reader |-> IF r \in Woken THEN "WT_KBD" ELSE wakeup_flags[r]]
      /\ wait_state' = [r \in Reader |-> IF r \in Woken THEN "0" ELSE wait_state[r]]
      /\ UNCHANGED p_rpos

kbd_interrupt ==
  /\ irq /\ irq' = FALSE
  /\ kbd' = <<>> /\ uart' = <<>>
  /\ IF GetsChar(Drained)
     THEN cons' = NextRead(Drained) /\ dev_stdin_write(Drained.buf[Drained.rpos])
     ELSE /\ cons' = Drained /\ lost' = lost \cup Overrun
          /\ UNCHANGED <<ringVars, wait_queue, wakeup_flags, wait_state>>
  /\ UNCHANGED <<exiting, left, pc, typed, taken, keys>>

-----------------------------------------------------------------------------
(***************************************************************************)
(* dev_stdin_read up to its return or its next call of schedule(), for     *)
(* reader r who wants n more characters.  A read does not end with the     *)
(* line: it waits until it has all of them.                                *)
(***************************************************************************)
(* wait_current_del, which asks wait_in_queue first.                       *)
PlaceOf(r) == CHOOSE i \in 1..Len(wait_queue) : wait_queue[i] = r

Unlinked(r) == IF InList(r, wait_queue) THEN RemoveAt(wait_queue, PlaceOf(r)) ELSE wait_queue

AfterRead(r) == IF exiting[r] THEN "dead" ELSE "user"

dev_stdin_read(r, n) ==
  LET k == IF n <= p_wpos - p_rpos THEN n ELSE p_wpos - p_rpos
  IN  /\ p_rpos' = p_rpos + k
      /\ taken' = taken \o SubSeq(StdinChars, 1, k)
      /\ left' = [left EXCEPT ![r] = n - k]
      /\ IF k = n
         THEN /\ pc' = [pc EXCEPT ![r] = AfterRead(r)]
              /\ UNCHANGED <<wait_state, wakeup_flags>>
              /\ wait_queue' = Unlinked(r)
         ELSE /\ pc' = [pc EXCEPT ![r] = "read"]
              /\ wait_state' = [wait_state EXCEPT ![r] = "WT_KBD"]
              /\ wakeup_flags' = [wakeup_flags EXCEPT ![r] = "WT_INTERRUPTED"]
              /\ wait_queue' = Append(wait_queue, r)
      /\ UNCHANGED <<lineVars, stdin_buffer, p_wpos, exiting, typed, lost, keys>>

(* A process that was killed before it came back from a trap may still make*)
(* one call.                                                               *)
sys_read(r) ==
  /\ pc[r] = "user"
  /\ \E n \in 1..MaxLen : dev_stdin_read(r, n)

(* It has the CPU again: a key arrived, and nobody else may have read it.  *)
Runs(r) == pc[r] = "read" /\ wait_state[r] = "0"

read_on(r) ==
  /\ Runs(r) /\ wakeup_flags[r] = "WT_KBD"
  /\ dev_stdin_read(r, left[r])

(* Or it was killed in its sleep, and returns with what it has.            *)
read_interrupted(r) ==
  /\ Runs(r) /\ wakeup_flags[r] = "WT_INTERRUPTED"
  /\ wait_queue' = Unlinked(r)
  /\ left' = [left EXCEPT ![r] = 0]
  /\ pc' = [pc EXCEPT ![r] = AfterRead(r)]
  /\ UNCHANGED <<lineVars, ringVars, wakeup_flags, wait_state, exiting, typed, taken, lost, keys>>

-----------------------------------------------------------------------------
(***************************************************************************)
(* do_kill by another process.  A sleeper stays linked until it runs.      *)
(***************************************************************************)
do_kill(r) ==
  /\ pc[r] # "dead" /\ ~exiting[r]
  /\ exiting' = [exiting EXCEPT ![r] = TRUE]
  /\ wait_state' = [wait_state EXCEPT ![r] = "0"]
  /\ UNCHANGED <<lineVars, ringVars, wait_queue, wakeup_flags, left, pc, typed, taken, lost, keys>>

(* The end of the next trap from user mode.                                *)
trap_exit(r) ==
  /\ pc[r] = "user" /\ exiting[r]
  /\ pc' = [pc EXCEPT ![r] = "dead"]
  /\ UNCHANGED <<lineVars, ringVars, wait_queue, wakeup_flags, wait_state, exiting, left, typed, taken, lost, keys>>

ReaderStep(r) == read_on(r) \/ read_interrupted(r) \/ trap_exit(r)

Next ==
  \/ kbd_interrupt
  \/ KeyPressed \/ SerialByte \/ NothingTyped
  \/ \E r \in Reader : ReaderStep(r) \/ sys_read(r) \/ do_kill(r)

(* A pending interrupt is taken, and a process that can run gets the CPU   *)
(* (Sched: NoStarvation); nobody has to type, to call read or to kill.     *)
Fairness ==
  /\ WF_vars(kbd_interrupt)
  /\ \A r \in Reader : WF_vars(ReaderStep(r))

Spec == Init /\ [][Next]_vars /\ Fairness

-----------------------------------------------------------------------------
(***************************************************************************)
(* The frame of a wait_t: only a process inside dev_stdin_read is linked,  *)
(* and once, whether a key, a kill or both ended its sleep.                *)
(***************************************************************************)
LinkedInFrame ==
  /\ NoRepeat(wait_queue)
  /\ \A r \in Reader :
       InList(r, wait_queue) => pc[r] = "read" /\ wakeup_flags[r] = "WT_INTERRUPTED"

(***************************************************************************)
(* No lost wakeup: nobody sleeps on the terminal while stdin has a         *)
(* character, and whoever sleeps is linked, in the frame of its read.      *)
(***************************************************************************)
NobodySleepsOnInput ==
  /\ LinkedInFrame
  /\ \A r \in Reader :
       wait_state[r] = "WT_KBD" => p_rpos = p_wpos /\ InList(r, wait_queue)

(***************************************************************************)
(* Each character typed is in one place and once: it was read by one read, *)
(* or is under way, or was overwritten, in either ring.  As long as none   *)
(* was overwritten, characters are read in the order in which they were    *)
(* typed, but for bytes of the serial line, which may overtake keys.       *)
(***************************************************************************)
UnderWay == StdinChars \o ConsChars \o (uart \o kbd)

InOrder(s) ==
  \A i, j \in 1..Len(s) :
    i < j /\ s[i] > s[j] => s[i] \notin keys /\ s[j] \in keys

TypedOnce ==
  LET line == taken \o UnderWay
  IN  /\ TypeOK
      /\ ToSet(line) \cup lost = 1..typed /\ ToSet(line) \cap lost = {}
      /\ NoRepeat(line)
      /\ lost = {} => InOrder(line)

(***************************************************************************)
(* The ring with its ever growing positions is a bounded queue.            *)
(***************************************************************************)
Input == INSTANCE AbsInput WITH Size <- STDIN_BUFSIZE, input <- StdinChars

InputSpec == Input!Spec

(***************************************************************************)
(* A character in the buffer does not stay there while somebody waits in   *)
(* a read: whoever was woken for it takes it, or another reader did.       *)
(***************************************************************************)
SomeoneWaits == \E r \in Reader : pc[r] = "read"

InputIsRead == SomeoneWaits /\ StdinChars # <<>> ~> ~SomeoneWaits \/ StdinChars = <<>>

=============================================================================

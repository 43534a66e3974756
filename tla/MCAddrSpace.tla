---------------------------- MODULE MCAddrSpace ----------------------------
(* Program headers for AddrSpace: segments in one or in two page tables,   *)
(* aligned or not, in either order, on the same page, one on the other, on *)
(* the stack, below the user's memory, longer than the address space, and  *)
(* with more bytes in the file than in memory.                             *)
EXTENDS AddrSpace

Text(va, len) == [va |-> va, filesz |-> len, memsz |-> len, flags |-> {"READ", "EXEC"}]
Data(va, len) == [va |-> va, filesz |-> 1, memsz |-> len, flags |-> {"READ", "WRITE"}]

MCProgram ==
  {<<Text(2, 2)>>, <<Data(3, 2)>>, <<Text(4, 1), Text(2, 2)>>, <<Text(2, 2), Data(3, 2)>>,
   <<Text(4, 1), Data(3, 2)>>, <<Data(7, 2)>>, <<Text(0, 2)>>, <<Text(4, 13)>>,
   <<Text(2, 2), [Data(4, 1) EXCEPT !.filesz = 2]>>}
=============================================================================

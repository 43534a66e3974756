--------------------------------- MODULE Files ---------------------------------
(***************************************************************************)
(* Descriptor tables and the inodes behind them: kern/fs/file.c, fs.c, the *)
(* reference and open counts of vfs/inode.c, vfs_open, vfs_lookup and      *)
(* vfs_chdir, and the part of sfs/sfs_inode.c that brings an inode into    *)
(* memory and drops it.                                                    *)
(*                                                                         *)
(* A file system call runs to its end without a switch: the kernel is not  *)
(* preempted and the disk driver polls.  Only a read of the terminal       *)
(* sleeps, and then its process keeps its table: no caller of do_fork      *)
(* passes CLONE_FS, so no table is shared.  A call is therefore one step,  *)
(* and what can go wrong is the book-keeping over long sequences of calls, *)
(* failing ones included, of several processes.                            *)
(*                                                                         *)
(* An operator below maps one state of the inodes, a record, to the next:  *)
(*   ref, open : ref_count and open_count                                  *)
(*   memory    : the inodes of the disk that are in memory (hash_list)     *)
(*   dirty     : those whose in-memory copy is ahead of the disk           *)
(***************************************************************************)
EXTENDS Integers, FiniteSets, FiniteSetsExt

CONSTANTS
  Proc, initproc,  \* processes; initproc never opens a file
  File, Dir, root, \* inodes of the disk; root is its root directory
  Dev,             \* inodes of devices, opened for reading only
  NFD,             \* FILES_STRUCT_NENTRY
  Flag             \* the open flags that programs use

ASSUME FilesAssumption ==
  /\ initproc \in Proc /\ root \in Dir
  /\ File \cap Dir = {} /\ Dev \cap (File \cup Dir) = {}
  /\ {"FD_NONE", "FD_INIT"} \cap (File \cup Dir \cup Dev) = {}
  /\ NFD \in Nat /\ NFD > 2
  /\ Flag \subseteq {"write", "O_TRUNC", "O_CREAT", "O_EXCL"}

VARIABLES
  alive,     \* the processes that have a files_struct
  pwd,       \* filesp->pwd
  fd_array,  \* per process: what each descriptor is
  inode      \* the state of the inodes

vars == <<alive, pwd, fd_array, inode>>

OnDisk == File \cup Dir
Node == OnDisk \cup Dev
Fd == 0..(NFD - 1)

(* A descriptor is unused, being opened (within a call only), or the inode *)
(* that it has open.                                                       *)
TypeOK ==
  /\ alive \subseteq Proc
  /\ pwd \in [Proc -> Dir]
  /\ fd_array \in [Proc -> [Fd -> Node \cup {"FD_NONE", "FD_INIT"}]]
  /\ inode \in [ref : [Node -> Nat], open : [Node -> Nat],
                memory : SUBSET OnDisk, dirty : SUBSET OnDisk]

-----------------------------------------------------------------------------
(* Deviant forms of the definitions below.                                 *)
LeavesUnsaved(w, n) == w
DupUncounted(w, n) == [w EXCEPT !.open[n] = @ + 1]
ReloadAlways(w, n) == [w EXCEPT !.ref[n] = 1, !.memory = @ \cup {n}]

-----------------------------------------------------------------------------
(* Inodes.                                                                 *)
sfs_fsync(w, n) == [w EXCEPT !.dirty = @ \ {n}]

(* The last reference is gone.  Devices are never reclaimed: the device    *)
(* table keeps one reference.                                              *)
sfs_reclaim(w, n) == [sfs_fsync(w, n) EXCEPT !.memory = @ \ {n}]

inode_ref_inc(w, n) == [w EXCEPT !.ref[n] = @ + 1]

inode_ref_dec(w, n) ==
  LET v == [w EXCEPT !.ref[n] = @ - 1]
  IN  IF v.ref[n] = 0 THEN sfs_reclaim(v, n) ELSE v

inode_open_inc(w, n) == [w EXCEPT !.open[n] = @ + 1]

inode_open_dec(w, n) ==
  LET v == [w EXCEPT !.open[n] = @ - 1]
  IN  IF v.open[n] = 0 THEN sfs_fsync(v, n) ELSE v

(* One more reference to an inode in memory, or the first to one that is   *)
(* read from the disk.                                                     *)
sfs_load_inode(w, n) ==
  IF n \in w.memory THEN inode_ref_inc(w, n)
                    ELSE [w EXCEPT !.ref[n] = 1, !.memory = @ \cup {n}]

-----------------------------------------------------------------------------
(* Paths.  A path names a device, or starts at the root or the current     *)
(* directory (dir) and names that directory itself or an entry of it.      *)
Known(p, dir, n) ==
  \/ n \in Dev
  \/ dir \in {root, pwd[p]} /\ n \in OnDisk

vfs_lookup(w, dir, n) ==
  LET start == inode_ref_inc(w, dir)
      found == sfs_load_inode(inode_ref_inc(start, dir), n)
  IN  IF n \in Dev THEN inode_ref_inc(w, n)
      ELSE IF n = dir THEN start
      ELSE inode_ref_dec(inode_ref_dec(found, dir), dir)

(* vop_open: a directory is opened for reading only, a device without any  *)
(* flag.                                                                   *)
MayOpen(n, flags) ==
  \/ n \in File
  \/ n \in Dir /\ "write" \notin flags
  \/ n \in Dev /\ flags = {}

vfs_close(w, n) == inode_ref_dec(inode_open_dec(w, n), n)

(* sfs_truncfile(node, 0), which changes a file that was not empty.        *)
Truncated(w, n, wasEmpty) ==
  IF wasEmpty THEN w ELSE [w EXCEPT !.dirty = @ \cup {n}]

(* The inodes after vfs_open, and whether it succeeded.  O_CREAT of a file *)
(* that is not there and of a directory are left out: they call            *)
(* operations that are NULL and stop the machine.                          *)
vfs_open(w, dir, n, flags, wasEmpty) ==
  LET found  == vfs_lookup(w, dir, n)
      opened == inode_open_inc(found, n)
  IN  IF "O_TRUNC" \in flags /\ "write" \notin flags THEN [ok |-> FALSE, inode |-> w]
      ELSE IF {"O_CREAT", "O_EXCL"} \subseteq flags THEN [ok |-> FALSE, inode |-> found]
      ELSE IF ~MayOpen(n, flags) THEN [ok |-> FALSE, inode |-> inode_ref_dec(found, n)]
      ELSE [ok |-> TRUE,
            inode |-> IF {"O_TRUNC", "O_CREAT"} \cap flags = {} THEN opened
                      ELSE Truncated(opened, n, wasEmpty)]

-----------------------------------------------------------------------------
(* Descriptors.                                                            *)
Opened(p) == {fd \in Fd : fd_array[p][fd] \in Node}
Unused(p) == {fd \in Fd : fd_array[p][fd] = "FD_NONE"}

fd_array_dup(w, n) == inode_open_inc(inode_ref_inc(w, n), n)

(* Close a set of descriptors, one after the other.                        *)
Closed(w, p, fds) ==
  FoldSet(LAMBDA fd, v : vfs_close(v, fd_array[p][fd]), w, fds)

(* A descriptor more for each one of p.                                    *)
dup_files(w, p) ==
  FoldSet(LAMBDA fd, v : fd_array_dup(v, fd_array[p][fd]), w, Opened(p))

-----------------------------------------------------------------------------
(* vfs_set_bootfs: bootfs_node and initproc's pwd hold the root.           *)
Init ==
  /\ alive = {initproc}
  /\ pwd = [p \in Proc |-> root]
  /\ fd_array = [p \in Proc |-> [fd \in Fd |-> "FD_NONE"]]
  /\ inode = [ref    |-> [n \in Node |-> IF n = root THEN 2 ELSE IF n \in Dev THEN 1 ELSE 0],
              open   |-> [n \in Node |-> 0],
              memory |-> {root},
              dirty  |-> {}]

(* A program makes a call.                                                 *)
Calls(p) == p \in alive \ {initproc}

(* The first unused descriptor is taken, and given back if vfs_open fails. *)
file_open(p, dir, n, flags, wasEmpty) ==
  /\ Calls(p)
  /\ Unused(p) # {}
  /\ ~("O_CREAT" \in flags /\ "write" \notin flags /\ n \in Dir)
  /\ Known(p, dir, n)
  /\ LET fd     == Min(Unused(p))
         result == vfs_open(inode, dir, n, flags, wasEmpty)
     IN  /\ inode' = result.inode
         /\ fd_array' = [fd_array EXCEPT ![p][fd] = IF result.ok THEN n ELSE "FD_NONE"]
  /\ UNCHANGED <<alive, pwd>>

file_close(p, fd) ==
  /\ Calls(p)
  /\ fd \in Opened(p)
  /\ inode' = vfs_close(inode, fd_array[p][fd])
  /\ fd_array' = [fd_array EXCEPT ![p][fd] = "FD_NONE"]
  /\ UNCHANGED <<alive, pwd>>

(* To the descriptor asked for, if it is unused, or to the first unused    *)
(* one (NO_FD).                                                            *)
file_dup(p, from, to) ==
  /\ Calls(p)
  /\ from \in Opened(p)
  /\ to \in Unused(p)
  /\ inode' = fd_array_dup(inode, fd_array[p][from])
  /\ fd_array' = [fd_array EXCEPT ![p][to] = fd_array[p][from]]
  /\ UNCHANGED <<alive, pwd>>

(* file_write, and file_seek beyond the end (which does not ask whether    *)
(* the descriptor is writable): the file grows.                            *)
file_grow(p, fd) ==
  /\ Calls(p)
  /\ fd \in Opened(p) /\ fd_array[p][fd] \in File
  /\ inode' = [inode EXCEPT !.dirty = @ \cup {fd_array[p][fd]}]
  /\ UNCHANGED <<alive, pwd, fd_array>>

file_fsync(p, fd) ==
  /\ Calls(p)
  /\ fd \in Opened(p) /\ fd_array[p][fd] \in OnDisk
  /\ inode' = sfs_fsync(inode, fd_array[p][fd])
  /\ UNCHANGED <<alive, pwd, fd_array>>

(* vfs_set_curdir refuses what is not a directory.                         *)
vfs_chdir(p, dir, n) ==
  /\ Calls(p)
  /\ Known(p, dir, n)
  /\ LET found  == vfs_lookup(inode, dir, n)
         change == n \in Dir /\ n # pwd[p]
         set    == IF change THEN inode_ref_dec(inode_ref_inc(found, n), pwd[p]) ELSE found
     IN  /\ pwd' = IF change THEN [pwd EXCEPT ![p] = n] ELSE pwd
         /\ inode' = inode_ref_dec(set, n)
  /\ UNCHANGED <<alive, fd_array>>

(* do_fork, which calls copy_files: the current directory and dup_files.   *)
copy_files(p, child) ==
  /\ p \in alive /\ child \notin alive
  /\ alive' = alive \cup {child}
  /\ pwd' = [pwd EXCEPT ![child] = pwd[p]]
  /\ fd_array' = [fd_array EXCEPT ![child] = fd_array[p]]
  /\ inode' = dup_files(inode_ref_inc(inode, pwd[p]), p)

(* do_exit, which calls put_files, which calls files_destroy.              *)
files_destroy(p) ==
  /\ Calls(p)
  /\ alive' = alive \ {p}
  /\ pwd' = [pwd EXCEPT ![p] = root]
  /\ fd_array' = [fd_array EXCEPT ![p] = [fd \in Fd |-> "FD_NONE"]]
  /\ inode' = Closed(inode_ref_dec(inode, pwd[p]), p, Opened(p))

(* do_execve: descriptors above 1 are closed and the program is opened.    *)
(* It gets the lowest descriptor; load_icode closes it.  If it cannot be   *)
(* opened or loaded the process exits.                                     *)
do_execve(p, dir, n) ==
  /\ Calls(p)
  /\ Known(p, dir, n)
  /\ LET above  == {fd \in Opened(p) : fd > 1}
         opened == vfs_open(Closed(inode, p, above), dir, n, {}, TRUE)
     IN  inode' = vfs_close(opened.inode, n)
  /\ fd_array' = [fd_array EXCEPT ![p] = [fd \in Fd |-> IF fd > 1 THEN "FD_NONE" ELSE @[fd]]]
  /\ UNCHANGED <<alive, pwd>>

Next ==
  \E p \in Proc :
    \/ \E dir \in Dir, n \in Node :
         \/ \E flags \in SUBSET Flag, wasEmpty \in BOOLEAN :
              file_open(p, dir, n, flags, wasEmpty)
         \/ vfs_chdir(p, dir, n)
         \/ do_execve(p, dir, n)
    \/ \E fd \in Fd :
         \/ file_close(p, fd)
         \/ file_grow(p, fd)
         \/ file_fsync(p, fd)
         \/ \E to \in Fd : file_dup(p, fd, to)
    \/ files_destroy(p)
    \/ \E child \in Proc : copy_files(p, child)

Spec == Init /\ [][Next]_vars

-----------------------------------------------------------------------------
Holders(n) == {p \in alive : pwd[p] = n}
Descriptors(n) == {d \in alive \X Fd : fd_array[d[1]][d[2]] = n}
InUse(n) == Descriptors(n) # {} \/ Holders(n) # {} \/ n = root

(***************************************************************************)
(* After every call, failed ones included, an inode's counts are exact:    *)
(* open_count is the number of descriptors on it, and ref_count adds the   *)
(* current directories, the boot directory and the device table.  No       *)
(* descriptor is left half open.                                           *)
(***************************************************************************)
RefsExact ==
  /\ TypeOK
  /\ \A n \in Node :
       /\ inode.open[n] = Cardinality(Descriptors(n))
       /\ inode.ref[n] = inode.open[n] + Cardinality(Holders(n))
                           + IF n \in Dev \cup {root} THEN 1 ELSE 0
  /\ \A p \in alive, fd \in Fd : fd_array[p][fd] # "FD_INIT"

(***************************************************************************)
(* An inode is in memory just as long as it is in use: a descriptor never  *)
(* refers to an inode that was reclaimed, and none is kept for ever.       *)
(***************************************************************************)
InMemoryExact == \A n \in OnDisk : n \in inode.memory <=> InUse(n)

(***************************************************************************)
(* What a file's processes wrote to its inode is on the disk once the last *)
(* of them has closed it, also when it exits without closing it.           *)
(***************************************************************************)
SavedWhenClosed == \A n \in inode.dirty : Descriptors(n) # {}

=============================================================================

---------------------------------- MODULE Sfs ----------------------------------
(***************************************************************************)
(* Block allocation and the block maps of files in kern/fs/sfs/sfs_inode.c *)
(* and bitmap.c: growing a file by a seek beyond its end, emptying it by   *)
(* open(O_TRUNC), the way of inodes, free map and superblock between       *)
(* memory and disk, and shutdown and mount (sfs_fs.c).                     *)
(*                                                                         *)
(* The disk driver stops the machine on an error, so the only call that    *)
(* fails is an allocation on a full disk.  The blocks here are those that  *)
(* hold data or an indirect table; the others are taken once and for all.  *)
(***************************************************************************)
EXTENDS Integers, FiniteSets, FiniteSetsExt

CONSTANTS
  File,     \* regular files
  NBLOCK,   \* blocks for data and indirect tables
  NDIRECT,  \* SFS_NDIRECT
  NENTRY,   \* SFS_BLK_NENTRY
  BLKSIZE,  \* SFS_BLKSIZE
  MAXLEN,   \* SFS_MAX_FILE_SIZE
  Position  \* the positions that programs seek to

ASSUME SfsAssumption ==
  /\ NBLOCK \in Nat /\ MAXLEN \in Nat /\ BLKSIZE \in Nat \ {0}
  /\ Position \subseteq Nat
  /\ NDIRECT \in Nat \ {0} /\ NENTRY \in Nat \ {0}

VARIABLES
  freemap,  \* the blocks whose bit is set, that is, free
  unused,   \* super.unused_blocks
  din,      \* per file: the inode in memory
  disk,     \* per file: the inode on the disk
  entry,    \* per block: its contents, read as an indirect table
  dirty,    \* the files with sin->dirty set
  super_dirty,
  image,    \* the free map and unused_blocks on the disk
  halted    \* why the machine stopped, if it has

sfsVars == <<freemap, unused, din, disk, entry, dirty, super_dirty, image, halted>>

Block == 1..NBLOCK
BlockOrNone == 0..NBLOCK
Direct == 0..(NDIRECT - 1)
Entry == 0..(NENTRY - 1)

Inode == [size : 0..MAXLEN, blocks : 0..(NDIRECT + NENTRY),
          direct : [Direct -> BlockOrNone], indirect : BlockOrNone]

SfsTypeOK ==
  /\ freemap \subseteq Block
  /\ unused \in 0..NBLOCK
  /\ din \in [File -> Inode]
  /\ disk \in [File -> Inode]
  /\ entry \in [Block -> [Entry -> BlockOrNone]]
  /\ dirty \subseteq File /\ super_dirty \in BOOLEAN
  /\ image \in [freemap : SUBSET Block, unused : 0..NBLOCK]
  /\ halted \in {"no", "assert", "range", "mount"}

-----------------------------------------------------------------------------
(***************************************************************************)
(* The operators below work on a record of the first variables and, as     *)
(* ret and got, what the last call returned and the block it returned.     *)
(***************************************************************************)
Now == [freemap |-> freemap, unused |-> unused, din |-> din, entry |-> entry,
        dirty |-> dirty, super_dirty |-> super_dirty, ret |-> "ok", got |-> 0]

Failed(w, why) == [w EXCEPT !.ret = why]
Dirtied(w, f) == [w EXCEPT !.dirty = @ \cup {f}]

(* Deviant forms of the definitions below.                                 *)
KeepsTable(w, table, f) == Failed(table, "E_NO_MEM")
NotDirtied(w, b) == [w EXCEPT !.freemap = @ \cup {b}, !.unused = @ + 1]
CountsAnyway(w, v, f) == [v EXCEPT !.din[f].blocks = @ + 1]

(* The lowest free block is taken and cleared.                             *)
sfs_block_alloc(w) ==
  IF w.freemap = {} THEN Failed(w, "E_NO_MEM")
  ELSE LET b == Min(w.freemap)
       IN  [w EXCEPT !.freemap = @ \ {b}, !.unused = @ - 1, !.super_dirty = TRUE,
                     !.got = b, !.entry[b] = [i \in Entry |-> 0]]

sfs_block_free(w, b) ==
  [w EXCEPT !.freemap = @ \cup {b}, !.unused = @ + 1, !.super_dirty = TRUE]

(* There is no block for an entry: a table allocated for it is given back. *)
GiveBack(w, table, f) ==
  Failed(IF w.din[f].indirect = 0 THEN sfs_block_free(table, table.got) ELSE w, "E_NO_MEM")

(* sfs_bmap_get_sub_nolock with create: entry i of the indirect table.     *)
sfs_bmap_get_sub(w, f, i) ==
  LET new   == w.din[f].indirect = 0
      table == IF new THEN sfs_block_alloc(w) ELSE [w EXCEPT !.got = w.din[f].indirect]
      ent   == table.got
      leaf  == sfs_block_alloc(table)
      mapped == [leaf EXCEPT !.entry[ent][i] = leaf.got, !.din[f].indirect = ent]
  IN  CASE table.ret # "ok" -> table
        [] table.ret = "ok" /\ table.entry[ent][i] # 0 -> table
        [] table.ret = "ok" /\ table.entry[ent][i] = 0 /\ leaf.ret # "ok" ->
             GiveBack(w, table, f)
        [] OTHER -> IF new THEN Dirtied(mapped, f) ELSE mapped

(* sfs_bmap_get_nolock with create: block index of the file.               *)
sfs_bmap_get(w, f, index) ==
  IF index \in Direct THEN
    LET a == sfs_block_alloc(w)
    IN  IF w.din[f].direct[index] # 0 \/ a.ret # "ok"
        THEN [w EXCEPT !.ret = IF w.din[f].direct[index] # 0 THEN "ok" ELSE a.ret]
        ELSE Dirtied([a EXCEPT !.din[f].direct[index] = a.got], f)
  ELSE IF index - NDIRECT \in Entry THEN sfs_bmap_get_sub(w, f, index - NDIRECT)
  ELSE Failed(w, "range")

(* The file has one more block, if v, what sfs_bmap_get returned, says so. *)
Counted(w, v, f) == IF v.ret = "ok" THEN [v EXCEPT !.din[f].blocks = @ + 1] ELSE v

sfs_bmap_load(w, f) == Counted(w, sfs_bmap_get(w, f, w.din[f].blocks), f)

(* sfs_bmap_truncate_nolock: the last block is freed.  The table stays.    *)
sfs_bmap_truncate(w, f) ==
  LET index == w.din[f].blocks - 1
      i     == index - NDIRECT
      ent   == w.din[f].indirect
      freed == IF index \in Direct
               THEN [sfs_block_free(w, w.din[f].direct[index]) EXCEPT !.din[f].direct[index] = 0]
               ELSE [sfs_block_free(w, w.entry[ent][i]) EXCEPT !.entry[ent][i] = 0]
      none  == IF index \in Direct THEN w.din[f].direct[index] = 0
                                   ELSE ent = 0 \/ w.entry[ent][i] = 0
  IN  Dirtied([(IF none THEN w ELSE freed) EXCEPT !.din[f].blocks = @ - 1], f)

-----------------------------------------------------------------------------
EmptyFile == [size |-> 0, blocks |-> 0, direct |-> [i \in Direct |-> 0], indirect |-> 0]

(* A disk with empty files.                                                *)
SfsInit ==
  /\ freemap = Block
  /\ unused = NBLOCK
  /\ din = [f \in File |-> EmptyFile]
  /\ disk = din
  /\ entry = [b \in Block |-> [i \in Entry |-> 0]]
  /\ dirty = {} /\ super_dirty = FALSE
  /\ image = [freemap |-> freemap, unused |-> unused]
  /\ halted = "no"

Blocks(len) == (len + BLKSIZE - 1) \div BLKSIZE

(* Blocks are added, or freed, one by one; the length is set only if all   *)
(* went well.                                                              *)
Resized(f, len) ==
  LET more   == Blocks(len) - din[f].blocks
      grown  == FoldSet(LAMBDA k, w : IF w.ret = "ok" THEN sfs_bmap_load(w, f) ELSE w,
                        Now, 1..more)
      w      == FoldSet(LAMBDA k, v : sfs_bmap_truncate(v, f), grown, 1..(-more))
  IN  IF w.ret = "ok" THEN Dirtied([w EXCEPT !.din[f].size = len], f) ELSE w

Running == halted = "no"

(* A file that has the length already is asserted to have the blocks too.  *)
sfs_truncfile(f, len) ==
  /\ Running
  /\ IF din[f].size = len
     THEN /\ halted' = IF Blocks(len) = din[f].blocks THEN "no" ELSE "assert"
          /\ UNCHANGED <<freemap, unused, din, entry, dirty, super_dirty>>
     ELSE LET w == Resized(f, len)
          IN  /\ halted' = IF w.ret = "range" THEN "range" ELSE "no"
              /\ freemap' = w.freemap
              /\ unused' = w.unused
              /\ din' = w.din
              /\ entry' = w.entry
              /\ dirty' = w.dirty
              /\ super_dirty' = w.super_dirty
  /\ UNCHANGED <<disk, image>>

(* file_seek; a position of MAXLEN or more is refused.                     *)
sfs_tryseek(f, pos) ==
  /\ din[f].size < pos /\ pos < MAXLEN
  /\ sfs_truncfile(f, pos)

sfs_fsync(f) ==
  /\ Running
  /\ f \in dirty
  /\ dirty' = dirty \ {f}
  /\ disk' = [disk EXCEPT ![f] = din[f]]
  /\ UNCHANGED <<freemap, unused, din, entry, super_dirty, image, halted>>

(* The last reference is gone, and the next one reads the inode again.     *)
sfs_reclaim(f) ==
  /\ Running
  /\ dirty' = dirty \ {f}
  /\ disk' = IF f \in dirty THEN [disk EXCEPT ![f] = din[f]] ELSE disk
  /\ din' = [din EXCEPT ![f] = disk'[f]]
  /\ UNCHANGED <<freemap, unused, entry, super_dirty, image, halted>>

(***************************************************************************)
(* sfs_sync, which fs_cleanup calls when init has ended.                   *)
(***************************************************************************)
ImageAfterSync ==
  IF super_dirty THEN [freemap |-> freemap, unused |-> unused] ELSE image

sfs_sync ==
  /\ Running
  /\ dirty' = {} /\ super_dirty' = FALSE
  /\ disk' = [f \in File |-> IF f \in dirty THEN din[f] ELSE disk[f]]
  /\ image' = ImageAfterSync
  /\ UNCHANGED <<freemap, unused, din, entry, halted>>

(***************************************************************************)
(* The machine is started again after a sfs_sync, with nothing changed     *)
(* since: sfs_do_mount asserts that the free map has as many free blocks   *)
(* as the superblock says, and inodes are read when they are asked for.    *)
(***************************************************************************)
sfs_do_mount ==
  /\ Running
  /\ dirty = {} /\ ~super_dirty
  /\ freemap' = image.freemap /\ unused' = image.unused
  /\ din' = disk
  /\ halted' = IF Cardinality(image.freemap) = image.unused THEN "no" ELSE "mount"
  /\ UNCHANGED <<disk, entry, dirty, super_dirty, image>>

SfsNext ==
  \/ sfs_sync \/ sfs_do_mount
  \/ \E f \in File :
       \/ sfs_truncfile(f, 0)
       \/ \E pos \in Position : sfs_tryseek(f, pos)
       \/ sfs_fsync(f)
       \/ sfs_reclaim(f)

SfsSpec == SfsInit /\ [][SfsNext]_sfsVars

-----------------------------------------------------------------------------
(* Where the number of a block is kept, and the one that is kept there.    *)
Place == (File \X {"direct"} \X Direct) \cup (File \X {"indirect"} \X {0})
           \cup (File \X {"entry"} \X Entry)

At(place) ==
  LET f == place[1]
  IN  CASE place[2] = "direct" -> din[f].direct[place[3]]
        [] place[2] = "indirect" -> din[f].indirect
        [] OTHER -> IF din[f].indirect = 0 THEN 0 ELSE entry[din[f].indirect][place[3]]

(***************************************************************************)
(* Every block is either free or held in exactly one place of one file,    *)
(* and the superblock's count is right, whatever calls failed on a full    *)
(* disk and whichever inodes were dropped and read again.                  *)
(***************************************************************************)
BlocksExact ==
  /\ SfsTypeOK
  /\ freemap = Block \ {At(p) : p \in Place}
  /\ Cardinality({p \in Place : At(p) # 0}) = Cardinality(Block \ freemap)
  /\ unused = Cardinality(freemap)

(***************************************************************************)
(* The disk by itself is right whenever nothing is dirty: every block that *)
(* a file on the disk holds is in use in the free map on the disk, no      *)
(* other is, and the superblock on the disk counts the free ones.  Files   *)
(* grow and shrink through the inode, its table, the free map and the      *)
(* superblock, which reach the disk at four different times.               *)
(***************************************************************************)
OnDisk(f) ==
  {disk[f].direct[i] : i \in Direct} \cup {disk[f].indirect}
    \cup (IF disk[f].indirect = 0 THEN {} ELSE {entry[disk[f].indirect][i] : i \in Entry})

DiskExact ==
  dirty = {} /\ ~super_dirty =>
    /\ image.freemap = Block \ UNION {OnDisk(f) : f \in File}
    /\ image.unused = Cardinality(image.freemap)
    /\ halted # "mount"

(***************************************************************************)
(* Every block of a file is there: the assert of sfs_bmap_load_nolock      *)
(* holds for a read of any of them, and they cover the file's length.      *)
(***************************************************************************)
NoHoles ==
  \A f \in File :
    /\ \A index \in 0..(din[f].blocks - 1) :
         \E p \in {<<f, "direct", index>>, <<f, "entry", index - NDIRECT>>} \cap Place :
           At(p) # 0
    /\ Blocks(din[f].size) <= din[f].blocks

(***************************************************************************)
(* sfs_truncfile's assertion that a file that already has the length asked *)
(* for has the blocks for it, and no others, never fails.                  *)
(***************************************************************************)
TruncAsserts == halted # "assert"

=============================================================================

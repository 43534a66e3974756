------------------------------ MODULE FilesProof ------------------------------
(***************************************************************************)
(* Proofs about Files: for any number of processes, inodes and descriptors *)
(* the counts of every inode are exact after every call, an inode is in    *)
(* memory just as long as it is in use, and what was written is saved when *)
(* the last descriptor is closed.                                          *)
(*                                                                         *)
(* What a step does to the inodes is stated once per operator, as a change *)
(* of two functions: how many descriptors each inode has (o) and how many  *)
(* other references are held on it (h).  A call borrows a reference on its *)
(* way (vfs_lookup, vfs_open) and has given it back, or turned it into a   *)
(* descriptor, when it returns.                                            *)
(***************************************************************************)
EXTENDS Files, ListLemmas

(* The inodes, with counts that might have been decremented too often.     *)
World == [ref : [Node -> Int], open : [Node -> Int],
          memory : SUBSET OnDisk, dirty : SUBSET OnDisk]

(* The inodes are what o descriptors and h other references make them.     *)
Good(w, o, h) ==
  /\ w \in World
  /\ o \in [Node -> Nat] /\ h \in [Node -> Nat]
  /\ \A n \in Node : w.open[n] = o[n] /\ w.ref[n] = o[n] + h[n]
  /\ \A n \in OnDisk : n \in w.memory <=> o[n] + h[n] > 0
  /\ \A n \in w.dirty : o[n] > 0

Plus(f, n) == [f EXCEPT ![n] = @ + 1]
Less(f, n) == [f EXCEPT ![n] = @ - 1]

-----------------------------------------------------------------------------
(* Reference counts are integers whatever is done to them.                 *)
LEMMA WorldClosed ==
  ASSUME NEW w \in World, NEW n \in Node
  PROVE  /\ inode_ref_inc(w, n) \in World
         /\ inode_ref_dec(w, n) \in World
         /\ inode_open_inc(w, n) \in World
         /\ inode_open_dec(w, n) \in World
         /\ [w EXCEPT !.ref[n] = 1] \in World
<1>1. ASSUME NEW v \in World
      PROVE  sfs_fsync(v, n) \in World /\ sfs_reclaim(v, n) \in World
  <2>1. sfs_fsync(v, n) \in World
    BY DEF sfs_fsync, World
  <2>2. QED
    BY <2>1 DEF sfs_reclaim, World
<1>2. inode_ref_inc(w, n) \in World
  BY DEF inode_ref_inc, World
<1>3. inode_ref_dec(w, n) \in World
  <2>1. [w EXCEPT !.ref[n] = @ - 1] \in World
    BY DEF World
  <2>2. QED
    BY <1>1, <2>1 DEF inode_ref_dec
<1>4. inode_open_inc(w, n) \in World
  BY DEF inode_open_inc, World
<1>5. inode_open_dec(w, n) \in World
  <2>1. [w EXCEPT !.open[n] = @ - 1] \in World
    BY DEF World
  <2>2. QED
    BY <1>1, <2>1 DEF inode_open_dec
<1>6. [w EXCEPT !.ref[n] = 1] \in World
  BY DEF World
<1>7. QED
  BY <1>2, <1>3, <1>4, <1>5, <1>6

(* inode_ref_inc of an inode that is in use.                               *)
LEMMA RefInc ==
  ASSUME NEW w, NEW o, NEW h, Good(w, o, h), NEW n \in Node, o[n] + h[n] > 0 \/ n \in Dev
  PROVE  Good(inode_ref_inc(w, n), o, Plus(h, n))
<1>1. inode_ref_inc(w, n) \in World
  BY WorldClosed DEF Good
<1>2. Plus(h, n) \in [Node -> Nat]
  BY DEF Good, Plus
<1> DEFINE v == inode_ref_inc(w, n)
<1>3. /\ v.open = w.open /\ v.memory = w.memory /\ v.dirty = w.dirty
      /\ v.ref = [w.ref EXCEPT ![n] = @ + 1]
  BY DEF inode_ref_inc, World, Good
<1>4. n \notin OnDisk \/ o[n] + h[n] > 0
  BY FilesAssumption DEF OnDisk
<1> HIDE DEF v
<1>5. \A m \in Node : v.open[m] = o[m] /\ v.ref[m] = o[m] + Plus(h, n)[m]
  BY <1>3 DEF Good, Plus, World
<1>6. \A m \in OnDisk : m \in v.memory <=> o[m] + Plus(h, n)[m] > 0
  BY <1>3, <1>4 DEF Good, Plus, World, Node
<1>7. QED
  BY <1>1, <1>2, <1>3, <1>5, <1>6 DEF Good, v

(* inode_ref_dec of an inode on which a reference is held.                 *)
LEMMA RefDec ==
  ASSUME NEW w, NEW o, NEW h, Good(w, o, h), NEW n \in Node, h[n] > 0
  PROVE  Good(inode_ref_dec(w, n), o, Less(h, n))
<1>1. inode_ref_dec(w, n) \in World
  BY WorldClosed DEF Good
<1>2. Less(h, n) \in [Node -> Nat]
  BY DEF Good, Less
<1> DEFINE v == inode_ref_dec(w, n)
<1>3. /\ v.open = w.open
      /\ v.ref = [w.ref EXCEPT ![n] = @ - 1]
      /\ v.ref[n] = 0 => v.memory = w.memory \ {n} /\ v.dirty = w.dirty \ {n}
      /\ v.ref[n] # 0 => v.memory = w.memory /\ v.dirty = w.dirty
  BY DEF inode_ref_dec, sfs_reclaim, sfs_fsync, World, Good
<1> HIDE DEF v
<1>4. \A m \in Node : v.open[m] = o[m] /\ v.ref[m] = o[m] + Less(h, n)[m]
  BY <1>3 DEF Good, Less, World
<1>5. \A m \in OnDisk : m \in v.memory <=> o[m] + Less(h, n)[m] > 0
  BY <1>3, <1>4 DEF Good, Less, World, Node
<1>6. QED
  BY <1>1, <1>2, <1>3, <1>4, <1>5 DEF Good, v

(* inode_open_inc by the holder of a reference, which becomes that of the  *)
(* descriptor.                                                             *)
LEMMA OpenInc ==
  ASSUME NEW w, NEW o, NEW h, Good(w, o, h), NEW n \in Node, h[n] > 0
  PROVE  Good(inode_open_inc(w, n), Plus(o, n), Less(h, n))
<1>1. inode_open_inc(w, n) \in World
  BY WorldClosed DEF Good
<1>2. Less(h, n) \in [Node -> Nat] /\ Plus(o, n) \in [Node -> Nat]
  BY DEF Good, Less, Plus
<1> DEFINE v == inode_open_inc(w, n)
<1>3. /\ v.open = [w.open EXCEPT ![n] = @ + 1]
      /\ v.ref = w.ref /\ v.memory = w.memory /\ v.dirty = w.dirty
  BY DEF inode_open_inc, World, Good
<1> HIDE DEF v
<1>4. \A m \in Node : v.open[m] = Plus(o, n)[m] /\ v.ref[m] = Plus(o, n)[m] + Less(h, n)[m]
  <2>1. ASSUME NEW m \in Node
        PROVE  v.open[m] = Plus(o, n)[m] /\ v.ref[m] = Plus(o, n)[m] + Less(h, n)[m]
    <3>1. /\ w.open \in [Node -> Nat] /\ o \in [Node -> Nat] /\ h \in [Node -> Nat]
          /\ w.open[m] = o[m] /\ w.ref[m] = o[m] + h[m]
      BY DEF Good, World
    <3>2. v.open[m] = Plus(o, n)[m]
      BY <1>3, <3>1 DEF Plus
    <3>3. w.ref[m] = Plus(o, n)[m] + Less(h, n)[m]
      BY <3>1 DEF Plus, Less
    <3>4. QED
      BY <1>3, <3>2, <3>3
  <2>2. QED
    BY <2>1
<1>5. \A m \in OnDisk : m \in v.memory <=> Plus(o, n)[m] + Less(h, n)[m] > 0
  BY <1>3, <1>4 DEF Good, Less, Plus, World, Node
<1>6. \A m \in v.dirty : Plus(o, n)[m] > 0
  BY <1>3 DEF Good, Plus, World, Node
<1>7. QED
  BY <1>1, <1>2, <1>3, <1>4, <1>5, <1>6 DEF Good, v

(* inode_open_dec, which saves the inode with its last descriptor.         *)
LEMMA OpenDec ==
  ASSUME NEW w, NEW o, NEW h, Good(w, o, h), NEW n \in Node, o[n] > 0
  PROVE  Good(inode_open_dec(w, n), Less(o, n), Plus(h, n))
<1>1. inode_open_dec(w, n) \in World
  BY WorldClosed DEF Good
<1>2. Plus(h, n) \in [Node -> Nat] /\ Less(o, n) \in [Node -> Nat]
  BY DEF Good, Less, Plus
<1> DEFINE v == inode_open_dec(w, n)
<1>3. /\ v.open = [w.open EXCEPT ![n] = @ - 1]
      /\ v.ref = w.ref /\ v.memory = w.memory
      /\ v.dirty = IF v.open[n] = 0 THEN w.dirty \ {n} ELSE w.dirty
  BY DEF inode_open_dec, sfs_fsync, World, Good
<1> HIDE DEF v
<1>4. \A m \in Node : v.open[m] = Less(o, n)[m] /\ v.ref[m] = Less(o, n)[m] + Plus(h, n)[m]
  BY <1>3 DEF Good, Less, Plus, World
<1>5. \A m \in OnDisk : m \in v.memory <=> Less(o, n)[m] + Plus(h, n)[m] > 0
  BY <1>3, <1>4 DEF Good, Less, Plus, World, Node
<1>6. \A m \in v.dirty : Less(o, n)[m] > 0
  BY <1>2, <1>3, <1>4 DEF Good, Less, World, Node
<1>7. QED
  BY <1>1, <1>2, <1>3, <1>4, <1>5, <1>6 DEF Good, v

(* sfs_load_inode: one more reference, in memory or read from the disk.    *)
LEMMA LoadInode ==
  ASSUME NEW w, NEW o, NEW h, Good(w, o, h), NEW n \in OnDisk
  PROVE  Good(sfs_load_inode(w, n), o, Plus(h, n))
<1>1. n \in Node
  BY DEF Node
<1>2. CASE n \in w.memory
  <2>1. o[n] + h[n] > 0
    BY <1>2 DEF Good
  <2>2. QED
    BY <1>1, <1>2, <2>1, RefInc DEF sfs_load_inode
<1>3. CASE n \notin w.memory
  <2>1. o[n] = 0 /\ h[n] = 0
    BY <1>1, <1>3 DEF Good
  <2> DEFINE v == [w EXCEPT !.ref[n] = 1, !.memory = @ \cup {n}]
  <2>2. /\ v.open = w.open /\ v.dirty = w.dirty
        /\ v.ref = [w.ref EXCEPT ![n] = 1]
        /\ v.memory = w.memory \cup {n}
    BY DEF World, Good
  <2>3. v \in World
    <3>1. w \in World
      BY DEF Good
    <3>2. [w EXCEPT !.ref[n] = 1] \in World
      BY <1>1, <3>1, WorldClosed
    <3>3. QED
      BY <3>2 DEF World
  <2>4. Plus(h, n) \in [Node -> Nat]
    BY <1>1 DEF Good, Plus
  <2> HIDE DEF v
  <2>5. \A m \in Node : v.open[m] = o[m] /\ v.ref[m] = o[m] + Plus(h, n)[m]
    BY <1>1, <2>1, <2>2 DEF Good, Plus, World
  <2>6. \A m \in OnDisk : m \in v.memory <=> o[m] + Plus(h, n)[m] > 0
    BY <1>1, <2>1, <2>2 DEF Good, Plus, World, Node
  <2>7. Good(v, o, Plus(h, n))
    BY <2>2, <2>3, <2>4, <2>5, <2>6 DEF Good
  <2>8. QED
    BY <1>3, <2>7 DEF sfs_load_inode, v
<1>4. QED
  BY <1>2, <1>3

-----------------------------------------------------------------------------
(* Writing to an inode that has a descriptor, and sfs_fsync.               *)
LEMMA Write ==
  ASSUME NEW w, NEW o, NEW h, Good(w, o, h), NEW n \in OnDisk
  PROVE  /\ o[n] > 0 => Good([w EXCEPT !.dirty = @ \cup {n}], o, h)
         /\ Good(sfs_fsync(w, n), o, h)
<1> DEFINE grown == [w EXCEPT !.dirty = @ \cup {n}]
           saved == [w EXCEPT !.dirty = @ \ {n}]
<1>1. /\ grown \in World /\ grown.dirty = w.dirty \cup {n} /\ grown.ref = w.ref
      /\ grown.open = w.open /\ grown.memory = w.memory
  BY DEF Good, World
<1>2. /\ saved \in World /\ saved.dirty = w.dirty \ {n} /\ saved.ref = w.ref
      /\ saved.open = w.open /\ saved.memory = w.memory
  BY DEF Good, World
<1> HIDE DEF grown, saved
<1>3. o[n] > 0 => Good(grown, o, h)
  BY <1>1 DEF Good
<1>4. Good(saved, o, h)
  BY <1>2 DEF Good
<1>5. QED
  BY <1>3, <1>4 DEF grown, saved, sfs_fsync

(* A count that goes up and down again is what it was.                     *)
LEMMA PlusLess ==
  ASSUME NEW f \in [Node -> Nat], NEW n \in Node
  PROVE  /\ Plus(f, n) \in [Node -> Nat] /\ Plus(f, n)[n] > 0
         /\ Less(Plus(f, n), n) = f
         /\ \A m \in Node : Plus(f, n)[m] >= f[m]
<1>1. Plus(f, n) \in [Node -> Nat] /\ \A m \in Node : Plus(f, n)[m] >= f[m]
  BY DEF Plus
<1>2. Plus(f, n)[n] = f[n] + 1
  BY DEF Plus
<1>3. Less(Plus(f, n), n) = f
  <2> DEFINE g == Plus(f, n)
  <2>1. \A m \in Node : g[m] = IF m = n THEN f[m] + 1 ELSE f[m]
    BY DEF Plus
  <2>2. g \in [Node -> Nat]
    BY <1>1
  <2> HIDE DEF g
  <2>3. Less(g, n) \in [Node -> Int] /\ \A m \in Node : Less(g, n)[m] = f[m]
    BY <2>1, <2>2 DEF Less
  <2>4. Less(g, n) = f
    BY <2>3
  <2>5. QED
    BY <2>4 DEF g
<1>4. QED
  BY <1>1, <1>2, <1>3

(* vfs_close gives up a descriptor and the reference behind it.            *)
LEMMA Close ==
  ASSUME NEW w, NEW o, NEW h, Good(w, o, h), NEW n \in Node, o[n] > 0
  PROVE  Good(vfs_close(w, n), Less(o, n), h)
<1>1. Good(inode_open_dec(w, n), Less(o, n), Plus(h, n))
  BY OpenDec
<1>2. h \in [Node -> Nat]
  BY DEF Good
<1>3. Plus(h, n)[n] > 0 /\ Less(Plus(h, n), n) = h
  BY <1>2, PlusLess
<1>4. QED
  BY <1>1, <1>3, RefDec DEF vfs_close

(* fd_array_dup takes both for one more descriptor.                        *)
LEMMA Dup ==
  ASSUME NEW w, NEW o, NEW h, Good(w, o, h), NEW n \in Node, o[n] > 0
  PROVE  Good(fd_array_dup(w, n), Plus(o, n), h)
<1>1. h \in [Node -> Nat] /\ o \in [Node -> Nat]
  BY DEF Good
<1>2. Good(inode_ref_inc(w, n), o, Plus(h, n))
  BY <1>1, RefInc
<1>3. Plus(h, n)[n] > 0 /\ Less(Plus(h, n), n) = h
  BY <1>1, PlusLess
<1>4. QED
  BY <1>2, <1>3, OpenInc DEF fd_array_dup

(* vfs_lookup returns a reference to what it found and keeps none of those *)
(* that it took on the way.                                                *)
LEMMA Lookup ==
  ASSUME NEW w, NEW o, NEW h, Good(w, o, h), NEW dir \in OnDisk, NEW n \in Node,
         n \in Dev \/ o[dir] + h[dir] > 0
  PROVE  Good(vfs_lookup(w, dir, n), o, Plus(h, n))
<1>1. dir \in Node /\ o \in [Node -> Nat] /\ h \in [Node -> Nat]
  BY DEF Node, Good
<1>2. CASE n \in Dev
  BY <1>2, RefInc DEF vfs_lookup
<1>3. CASE n \notin Dev /\ n = dir
  BY <1>1, <1>3, RefInc DEF vfs_lookup
<1>4. CASE n \notin Dev /\ n # dir
  <2> DEFINE h1 == Plus(h, dir)
             h2 == Plus(h1, dir)
             h3 == Plus(h2, n)
             start == inode_ref_inc(w, dir)
             found == sfs_load_inode(inode_ref_inc(start, dir), n)
  <2>1. n \in OnDisk
    BY <1>4 DEF Node
  <2>2. h1 \in [Node -> Nat] /\ h2 \in [Node -> Nat] /\ h3 \in [Node -> Nat]
    BY <1>1, PlusLess
  <2>3. o[dir] + h1[dir] > 0
    BY <1>1, <2>2, PlusLess
  <2>4. Good(start, o, h1)
    BY <1>1, <1>4, RefInc
  <2> HIDE DEF start, h1
  <2>5. Good(inode_ref_inc(start, dir), o, h2)
    BY <1>1, <2>3, <2>4, RefInc
  <2> HIDE DEF h2
  <2>6. Good(found, o, h3)
    BY <2>1, <2>5, LoadInode
  <2>7. /\ h3[dir] > 0
        /\ Less(h3, dir) = Plus(h1, n)
        /\ Plus(h1, n)[dir] > 0
        /\ Less(Plus(h1, n), dir) = Plus(h, n)
    BY <1>1, <1>4 DEF h1, h2, Plus, Less
  <2> HIDE DEF found, h3
  <2>8. Good(inode_ref_dec(found, dir), o, Plus(h1, n))
    BY <1>1, <2>6, <2>7, RefDec
  <2>9. Good(inode_ref_dec(inode_ref_dec(found, dir), dir), o, Plus(h, n))
    BY <1>1, <2>7, <2>8, RefDec
  <2>10. QED
    BY <1>4, <2>9 DEF vfs_lookup, found, start
<1>5. QED
  BY <1>2, <1>3, <1>4

(* vfs_open leaves the counts as they were when it fails, and one more     *)
(* descriptor when it succeeds.                                            *)
LEMMA Open ==
  ASSUME NEW w, NEW o, NEW h, Good(w, o, h), NEW dir \in OnDisk, NEW n \in Node,
         n \in Dev \/ o[dir] + h[dir] > 0,
         NEW flags, "O_EXCL" \notin flags, NEW wasEmpty \in BOOLEAN
  PROVE  LET result == vfs_open(w, dir, n, flags, wasEmpty)
         IN  \/ result.ok /\ Good(result.inode, Plus(o, n), h)
             \/ ~result.ok /\ flags # {} /\ Good(result.inode, o, h)
<1> DEFINE found  == vfs_lookup(w, dir, n)
           opened == inode_open_inc(found, n)
           result == vfs_open(w, dir, n, flags, wasEmpty)
           refuses == "O_TRUNC" \in flags /\ "write" \notin flags
           empties == ~({"O_TRUNC", "O_CREAT"} \cap flags = {})
           failed(v) == [ok |-> FALSE, inode |-> v]
           done(v) == [ok |-> TRUE, inode |-> v]
<1>1. o \in [Node -> Nat] /\ h \in [Node -> Nat]
  BY DEF Good
<1>2. Good(found, o, Plus(h, n))
  BY Lookup
<1>3. Plus(h, n)[n] > 0 /\ Less(Plus(h, n), n) = h /\ Plus(o, n)[n] > 0
  BY <1>1, PlusLess
<1>4. Good(opened, Plus(o, n), h)
  BY <1>2, <1>3, OpenInc
<1>5. Good(inode_ref_dec(found, n), o, h)
  BY <1>2, <1>3, RefDec
<1>6. ~({"O_CREAT", "O_EXCL"} \subseteq flags)
  OBVIOUS
<1>7. result = IF refuses THEN failed(w)
               ELSE IF {"O_CREAT", "O_EXCL"} \subseteq flags THEN failed(found)
               ELSE IF ~MayOpen(n, flags) THEN failed(inode_ref_dec(found, n))
               ELSE done(IF ~empties THEN opened ELSE Truncated(opened, n, wasEmpty))
  BY Zenon DEF vfs_open
<1>8. refuses => flags # {}
  OBVIOUS
<1>9. ~MayOpen(n, flags) => flags # {}
  BY DEF MayOpen, Node, OnDisk
<1>10. MayOpen(n, flags) /\ empties => n \in OnDisk
  BY DEF MayOpen, OnDisk
<1> HIDE DEF found, opened, result, refuses, empties, failed, done
<1>11. CASE refuses
  <2>1. result = failed(w)
    BY <1>6, <1>7, <1>11
  <2>2. ~result.ok /\ result.inode = w
    BY <2>1 DEF failed
  <2>3. QED
    BY <1>8, <1>11, <2>2 DEF result
<1>12. CASE ~refuses /\ ~MayOpen(n, flags)
  <2>1. result = failed(inode_ref_dec(found, n))
    BY <1>6, <1>7, <1>12
  <2>2. ~result.ok /\ result.inode = inode_ref_dec(found, n)
    BY <2>1 DEF failed
  <2>3. QED
    BY <1>5, <1>9, <1>12, <2>2 DEF result
<1>13. CASE ~refuses /\ MayOpen(n, flags) /\ empties
  <2>1. result = done(Truncated(opened, n, wasEmpty))
    BY <1>6, <1>7, <1>13
  <2>2. Good(Truncated(opened, n, wasEmpty), Plus(o, n), h)
    BY <1>3, <1>4, <1>10, <1>13, Write DEF Truncated
  <2>3. QED
    BY <2>1, <2>2 DEF result, done
<1>14. CASE ~refuses /\ MayOpen(n, flags) /\ ~empties
  BY <1>4, <1>6, <1>7, <1>14 DEF result, done
<1>15. QED
  BY <1>11, <1>12, <1>13, <1>14

-----------------------------------------------------------------------------
(* There are finitely many descriptors.                                    *)
LEMMA FdFinite == IsFiniteSet(Fd)
BY FilesAssumption, FS_Interval DEF Fd

(* The descriptors of a set that are on an inode.                          *)
On(p, fds, n) == {fd \in fds : fd_array[p][fd] = n}

(* One more descriptor in the set is one more on its inode.                *)
LEMMA OnAdd ==
  ASSUME NEW p, NEW T \in SUBSET Fd, NEW fd \in T
  PROVE  \A n : /\ Cardinality(On(p, T, n)) \in Nat
                /\ Cardinality(On(p, T \ {fd}, n)) \in Nat
                /\ Cardinality(On(p, T, n)) = Cardinality(On(p, T \ {fd}, n))
                                                + IF n = fd_array[p][fd] THEN 1 ELSE 0
<1> SUFFICES ASSUME NEW n
             PROVE  /\ Cardinality(On(p, T, n)) \in Nat
                    /\ Cardinality(On(p, T \ {fd}, n)) \in Nat
                    /\ Cardinality(On(p, T, n)) = Cardinality(On(p, T \ {fd}, n))
                                                    + IF n = fd_array[p][fd] THEN 1 ELSE 0
  OBVIOUS
<1>1. IsFiniteSet(Fd)
  BY FdFinite
<1>2. On(p, T, n) \subseteq Fd /\ On(p, T \ {fd}, n) \subseteq Fd
  BY DEF On
<1>3. IsFiniteSet(On(p, T, n)) /\ IsFiniteSet(On(p, T \ {fd}, n))
  BY <1>1, <1>2, FS_Subset
<1>4. Cardinality(On(p, T, n)) \in Nat /\ Cardinality(On(p, T \ {fd}, n)) \in Nat
  BY <1>3, FS_CardinalityType
<1>5. CASE n = fd_array[p][fd]
  <2>1. On(p, T \ {fd}, n) = On(p, T, n) \ {fd} /\ fd \in On(p, T, n)
    BY <1>5 DEF On
  <2>2. Cardinality(On(p, T, n) \ {fd}) = Cardinality(On(p, T, n)) - 1
    BY <1>3, <2>1, FS_RemoveElement
  <2>3. Cardinality(On(p, T \ {fd}, n)) = Cardinality(On(p, T, n)) - 1
    BY <2>1, <2>2
  <2>4. QED
    BY <1>4, <1>5, <2>3
<1>6. CASE n # fd_array[p][fd]
  <2>1. On(p, T \ {fd}, n) = On(p, T, n)
    BY <1>6 DEF On
  <2>2. QED
    BY <1>4, <1>6, <2>1
<1>7. QED
  BY <1>5, <1>6

(* The folds that close and duplicate descriptors treat them one by one.   *)
ClosedInTurn(c, w, p, fds) ==
  /\ c[{}] = w
  /\ \A T \in SUBSET fds : T # {} =>
        \E fd \in T : c[T] = vfs_close(c[T \ {fd}], fd_array[p][fd])

(* vfs_close is called for the descriptors in some order.                  *)
LEMMA ClosedOneByOne ==
  ASSUME NEW w \in World, NEW p, NEW fds \in SUBSET Opened(p)
  PROVE  \E c : c[fds] = Closed(w, p, fds) /\ ClosedInTurn(c, w, p, fds)
<1> DEFINE pick == [T \in SUBSET fds |-> CHOOSE fd \in T : TRUE]
           step == [x \in fds \X World |-> vfs_close(x[2], fd_array[p][x[1]])]
           c == CHOOSE iter : iter = [s \in SUBSET fds |->
                  IF s = {} THEN w
                  ELSE LET x == CHOOSE x \in s : TRUE
                       IN  vfs_close(iter[s \ {x}], fd_array[p][x])]
<1>1. IsFiniteSet(fds) /\ \A fd \in fds : fd_array[p][fd] \in Node
  <2>1. IsFiniteSet(Fd) /\ fds \subseteq Fd
    BY FdFinite DEF Opened
  <2>2. QED
    BY <2>1, FS_Subset DEF Opened
<1>2. \A fd \in fds, v \in World : step[<<fd, v>>] \in World
  BY <1>1, WorldClosed DEF vfs_close
<1>3. \A T \in SUBSET fds : T # {} => pick[T] \in T
  OBVIOUS
<1>4. PICK f \in [SUBSET fds -> World] :
        \A T \in SUBSET fds :
          f[T] = IF T = {} THEN w ELSE step[<<pick[T], f[T \ {pick[T]}]>>]
  <2> HIDE DEF pick, step
  <2>1. FoldSolutions(fds, World, w, pick, step) # {}
    BY <1>1, <1>2, <1>3, FoldExists
  <2>2. QED
    BY <2>1 DEF FoldSolutions
<1>5. f = [s \in SUBSET fds |->
             IF s = {} THEN w
             ELSE LET x == CHOOSE x \in s : TRUE
                  IN  vfs_close(f[s \ {x}], fd_array[p][x])]
  <2>1. ASSUME NEW s \in SUBSET fds, s # {}
        PROVE  f[s] = vfs_close(f[s \ {CHOOSE x \in s : TRUE}], fd_array[p][CHOOSE x \in s : TRUE])
    BY <1>3, <1>4, <2>1
  <2> DEFINE next(s) == LET x == CHOOSE x \in s : TRUE
                        IN  vfs_close(f[s \ {x}], fd_array[p][x])
  <2>2. \A s \in SUBSET fds : s # {} => f[s] = next(s)
    BY <2>1
  <2> HIDE DEF next
  <2>3. f = [s \in SUBSET fds |-> IF s = {} THEN w ELSE next(s)]
    BY <1>4, <2>2
  <2>4. QED
    BY <2>3 DEF next
<1>6. c = [s \in SUBSET fds |->
             IF s = {} THEN w
             ELSE LET x == CHOOSE x \in s : TRUE
                  IN  vfs_close(c[s \ {x}], fd_array[p][x])]
  <2> DEFINE Rec(iter) == iter = [s \in SUBSET fds |->
             IF s = {} THEN w
             ELSE LET x == CHOOSE x \in s : TRUE
                  IN  vfs_close(iter[s \ {x}], fd_array[p][x])]
  <2>1. Rec(f)
    BY <1>5
  <2>2. c = CHOOSE iter : Rec(iter)
    OBVIOUS
  <2> HIDE DEF Rec, c
  <2>3. Rec(c)
    BY <2>1, <2>2
  <2>4. QED
    BY <2>3 DEF Rec
<1>7. c[fds] = Closed(w, p, fds)
  BY DEF Closed, FoldSet, MapThenFoldSet
<1> HIDE DEF c
<1>8. c[{}] = w
  BY <1>6
<1>9. ASSUME NEW T \in SUBSET fds, T # {}
      PROVE  \E fd \in T : c[T] = vfs_close(c[T \ {fd}], fd_array[p][fd])
  <2> DEFINE x == CHOOSE x \in T : TRUE
  <2>1. x \in T
    BY <1>9
  <2>2. c[T] = vfs_close(c[T \ {x}], fd_array[p][x])
    BY <1>6, <1>9
  <2>3. QED
    BY <2>1, <2>2
<1>10. QED
  BY <1>7, <1>8, <1>9 DEF ClosedInTurn

DuplicatedInTurn(c, w, p, fds) ==
  /\ c[{}] = w
  /\ \A T \in SUBSET fds : T # {} =>
        \E fd \in T : c[T] = fd_array_dup(c[T \ {fd}], fd_array[p][fd])

(* fd_array_dup is called for the open descriptors in some order.          *)
LEMMA DuplicatedOneByOne ==
  ASSUME NEW w \in World, NEW p, NEW fds, fds = Opened(p)
  PROVE  \E c : c[fds] = dup_files(w, p) /\ DuplicatedInTurn(c, w, p, fds)
<1> DEFINE pick == [T \in SUBSET fds |-> CHOOSE fd \in T : TRUE]
           step == [x \in fds \X World |-> fd_array_dup(x[2], fd_array[p][x[1]])]
           c == CHOOSE iter : iter = [s \in SUBSET fds |->
                  IF s = {} THEN w
                  ELSE LET x == CHOOSE x \in s : TRUE
                       IN  fd_array_dup(iter[s \ {x}], fd_array[p][x])]
<1>1. IsFiniteSet(fds) /\ \A fd \in fds : fd_array[p][fd] \in Node
  <2>1. IsFiniteSet(Fd) /\ fds \subseteq Fd
    BY FdFinite DEF Opened
  <2>2. QED
    BY <2>1, FS_Subset DEF Opened
<1>2. \A fd \in fds, v \in World : step[<<fd, v>>] \in World
  BY <1>1, WorldClosed DEF fd_array_dup
<1>3. \A T \in SUBSET fds : T # {} => pick[T] \in T
  OBVIOUS
<1>4. PICK f \in [SUBSET fds -> World] :
        \A T \in SUBSET fds :
          f[T] = IF T = {} THEN w ELSE step[<<pick[T], f[T \ {pick[T]}]>>]
  <2> HIDE DEF pick, step
  <2>1. FoldSolutions(fds, World, w, pick, step) # {}
    BY <1>1, <1>2, <1>3, FoldExists
  <2>2. QED
    BY <2>1 DEF FoldSolutions
<1>5. f = [s \in SUBSET fds |->
             IF s = {} THEN w
             ELSE LET x == CHOOSE x \in s : TRUE
                  IN  fd_array_dup(f[s \ {x}], fd_array[p][x])]
  <2>1. ASSUME NEW s \in SUBSET fds, s # {}
        PROVE  f[s] = fd_array_dup(f[s \ {CHOOSE x \in s : TRUE}], fd_array[p][CHOOSE x \in s : TRUE])
    BY <1>3, <1>4, <2>1
  <2> DEFINE next(s) == LET x == CHOOSE x \in s : TRUE
                        IN  fd_array_dup(f[s \ {x}], fd_array[p][x])
  <2>2. \A s \in SUBSET fds : s # {} => f[s] = next(s)
    BY <2>1
  <2> HIDE DEF next
  <2>3. f = [s \in SUBSET fds |-> IF s = {} THEN w ELSE next(s)]
    BY <1>4, <2>2
  <2>4. QED
    BY <2>3 DEF next
<1>6. c = [s \in SUBSET fds |->
             IF s = {} THEN w
             ELSE LET x == CHOOSE x \in s : TRUE
                  IN  fd_array_dup(c[s \ {x}], fd_array[p][x])]
  <2> DEFINE Rec(iter) == iter = [s \in SUBSET fds |->
                IF s = {} THEN w
                ELSE LET x == CHOOSE x \in s : TRUE
                     IN  fd_array_dup(iter[s \ {x}], fd_array[p][x])]
  <2>1. Rec(f)
    BY <1>5
  <2>2. c = CHOOSE iter : Rec(iter)
    OBVIOUS
  <2> HIDE DEF Rec, c
  <2>3. Rec(c)
    BY <2>1, <2>2
  <2>4. QED
    BY <2>3 DEF Rec
<1>7. c[fds] = dup_files(w, p)
  BY DEF dup_files, FoldSet, MapThenFoldSet
<1> HIDE DEF c
<1>8. c[{}] = w
  BY <1>6
<1>9. ASSUME NEW T \in SUBSET fds, T # {}
      PROVE  \E fd \in T : c[T] = fd_array_dup(c[T \ {fd}], fd_array[p][fd])
  <2> DEFINE x == CHOOSE x \in T : TRUE
  <2>1. x \in T
    BY <1>9
  <2>2. c[T] = fd_array_dup(c[T \ {x}], fd_array[p][x])
    BY <1>6, <1>9
  <2>3. QED
    BY <2>1, <2>2
<1>10. QED
  BY <1>7, <1>8, <1>9 DEF DuplicatedInTurn

(* Closing descriptors takes each of them off its inode's count.           *)
LEMMA CloseAll ==
  ASSUME NEW w, NEW o, NEW h, Good(w, o, h), NEW p, NEW fds \in SUBSET Opened(p),
         \A n \in Node : Cardinality(On(p, fds, n)) <= o[n]
  PROVE  Good(Closed(w, p, fds), [n \in Node |-> o[n] - Cardinality(On(p, fds, n))], h)
<1> DEFINE left(T) == [n \in Node |-> o[n] - Cardinality(On(p, T, n))]
<1>1. PICK c : c[fds] = Closed(w, p, fds) /\ ClosedInTurn(c, w, p, fds)
  BY ClosedOneByOne DEF Good
<1>2. fds \subseteq Fd /\ IsFiniteSet(fds) /\ o \in [Node -> Nat]
  <2>1. IsFiniteSet(Fd) /\ fds \subseteq Fd
    BY FdFinite DEF Opened
  <2>2. QED
    BY <2>1, FS_Subset DEF Good
<1> DEFINE P == {T \in SUBSET fds : Good(c[T], left(T), h)}
<1>3. ASSUME NEW T \in SUBSET fds, \A fd \in T : T \ {fd} \in P
      PROVE  T \in P
  <2>1. CASE T = {}
    <3>1. \A n : Cardinality(On(p, T, n)) = 0
      <4>1. \A n : On(p, T, n) = {}
        BY <2>1 DEF On
      <4>2. QED
        BY <4>1, FS_EmptySet
    <3>2. left(T) = o
      BY <1>2, <3>1
    <3>3. QED
      BY <1>1, <2>1, <3>2 DEF ClosedInTurn
  <2>2. CASE T # {}
    <3>1. PICK fd \in T : c[T] = vfs_close(c[T \ {fd}], fd_array[p][fd])
      BY <1>1, <2>2 DEF ClosedInTurn
    <3> DEFINE n == fd_array[p][fd]
               o1 == left(T \ {fd})
    <3>2. n \in Node /\ T \in SUBSET Fd
      BY <1>2 DEF Opened
    <3>3. \A m : /\ Cardinality(On(p, T, m)) \in Nat
                 /\ Cardinality(On(p, T \ {fd}, m)) \in Nat
                 /\ Cardinality(On(p, T, m)) = Cardinality(On(p, T \ {fd}, m))
                                                 + IF m = n THEN 1 ELSE 0
      BY <3>2, OnAdd
    <3>4. Good(c[T \ {fd}], o1, h)
      BY <1>3
    <3>5. Cardinality(On(p, T, n)) <= Cardinality(On(p, fds, n))
      <4>1. On(p, T, n) \subseteq On(p, fds, n) /\ On(p, fds, n) \subseteq fds
        BY DEF On
      <4>2. QED
        BY <1>2, <4>1, FS_Subset
    <3>6. Cardinality(On(p, fds, n)) \in Nat /\ Cardinality(On(p, fds, n)) <= o[n]
      <4>1. On(p, fds, n) \subseteq fds
        BY DEF On
      <4>2. QED
        BY <1>2, <3>2, <4>1, FS_Subset, FS_CardinalityType
    <3>7. o1[n] > 0
      <4>1. o[n] \in Nat
        BY <1>2, <3>2
      <4>2. o1[n] = o[n] - Cardinality(On(p, T \ {fd}, n))
        BY <3>2
      <4>3. Cardinality(On(p, T, n)) = Cardinality(On(p, T \ {fd}, n)) + 1
        BY <3>3
      <4> HIDE DEF o1, n
      <4>4. QED
        BY <3>3, <3>5, <3>6, <4>1, <4>2, <4>3
    <3>8. Less(o1, n) = left(T)
      <4>1. ASSUME NEW m \in Node
            PROVE  Less(o1, n)[m] = left(T)[m]
        <5>1. o[m] \in Nat
          BY <1>2
        <5>2. o1[m] = o[m] - Cardinality(On(p, T \ {fd}, m))
          OBVIOUS
        <5>3. left(T)[m] = o[m] - Cardinality(On(p, T, m))
          OBVIOUS
        <5>4. Less(o1, n)[m] = IF m = n THEN o1[m] - 1 ELSE o1[m]
          BY <3>2 DEF Less
        <5> DEFINE a == Cardinality(On(p, T \ {fd}, m))
                   b == Cardinality(On(p, T, m))
        <5>5. a \in Nat /\ b = a + IF m = n THEN 1 ELSE 0
          BY <3>3
        <5>6. o1[m] = o[m] - a /\ left(T)[m] = o[m] - b
          BY <5>2, <5>3
        <5> HIDE DEF left, n, o1, a, b
        <5>7. QED
          BY <5>1, <5>4, <5>5, <5>6
      <4>2. DOMAIN Less(o1, n) = Node /\ DOMAIN left(T) = Node
        BY DEF Less
      <4>3. QED
        BY <4>1 DEF Less
    <3> HIDE DEF left, n
    <3>9. Good(vfs_close(c[T \ {fd}], n), Less(o1, n), h)
      BY <3>2, <3>4, <3>7, Close
    <3>10. QED
      BY <3>1, <3>8, <3>9 DEF n
  <2>3. QED
    BY <2>1, <2>2
<1> HIDE DEF P
<1>4. fds \in P
  BY <1>2, <1>3, InductionOnSubsets
<1>5. QED
  BY <1>1, <1>4 DEF P

(* dup_files adds each descriptor of the parent to its inode's count.      *)
LEMMA DuplicateAll ==
  ASSUME NEW w, NEW o, NEW h, Good(w, o, h), NEW p, NEW fds, fds = Opened(p),
         \A fd \in fds : o[fd_array[p][fd]] > 0
  PROVE  Good(dup_files(w, p), [n \in Node |-> o[n] + Cardinality(On(p, fds, n))], h)
<1> DEFINE more(T) == [n \in Node |-> o[n] + Cardinality(On(p, T, n))]
<1>1. PICK c : c[fds] = dup_files(w, p) /\ DuplicatedInTurn(c, w, p, fds)
  BY DuplicatedOneByOne DEF Good
<1>2. fds \subseteq Fd /\ IsFiniteSet(fds) /\ o \in [Node -> Nat]
  <2>1. IsFiniteSet(Fd) /\ fds \subseteq Fd
    BY FdFinite DEF Opened
  <2>2. QED
    BY <2>1, FS_Subset DEF Good
<1> DEFINE P == {T \in SUBSET fds : Good(c[T], more(T), h)}
<1>3. ASSUME NEW T \in SUBSET fds, \A fd \in T : T \ {fd} \in P
      PROVE  T \in P
  <2>1. CASE T = {}
    <3>1. \A n : Cardinality(On(p, T, n)) = 0
      <4>1. \A n : On(p, T, n) = {}
        BY <2>1 DEF On
      <4>2. QED
        BY <4>1, FS_EmptySet
    <3>2. more(T) = o
      BY <1>2, <3>1
    <3>3. QED
      BY <1>1, <2>1, <3>2 DEF DuplicatedInTurn
  <2>2. CASE T # {}
    <3>1. PICK fd \in T : c[T] = fd_array_dup(c[T \ {fd}], fd_array[p][fd])
      BY <1>1, <2>2 DEF DuplicatedInTurn
    <3> DEFINE n == fd_array[p][fd]
               o1 == more(T \ {fd})
    <3>2. n \in Node /\ T \in SUBSET Fd /\ o[n] > 0
      BY <1>2 DEF Opened
    <3>3. \A m : /\ Cardinality(On(p, T, m)) \in Nat
                 /\ Cardinality(On(p, T \ {fd}, m)) \in Nat
                 /\ Cardinality(On(p, T, m)) = Cardinality(On(p, T \ {fd}, m))
                                                 + IF m = n THEN 1 ELSE 0
      BY <3>2, OnAdd
    <3>4. Good(c[T \ {fd}], o1, h)
      BY <1>3
    <3>5. o1[n] > 0
      <4>1. o[n] \in Nat
        BY <1>2, <3>2
      <4>2. o1[n] = o[n] + Cardinality(On(p, T \ {fd}, n))
        BY <3>2
      <4> HIDE DEF o1, n
      <4>3. QED
        BY <3>2, <3>3, <4>1, <4>2
    <3>6. Plus(o1, n) = more(T)
      <4>1. ASSUME NEW m \in Node
            PROVE  Plus(o1, n)[m] = more(T)[m]
        <5>1. o[m] \in Nat
          BY <1>2
        <5>2. o1[m] = o[m] + Cardinality(On(p, T \ {fd}, m))
          OBVIOUS
        <5>3. more(T)[m] = o[m] + Cardinality(On(p, T, m))
          OBVIOUS
        <5>4. Plus(o1, n)[m] = IF m = n THEN o1[m] + 1 ELSE o1[m]
          BY <3>2 DEF Plus
        <5> DEFINE a == Cardinality(On(p, T \ {fd}, m))
                   b == Cardinality(On(p, T, m))
        <5>5. a \in Nat /\ b = a + IF m = n THEN 1 ELSE 0
          BY <3>3
        <5>6. o1[m] = o[m] + a /\ more(T)[m] = o[m] + b
          BY <5>2, <5>3
        <5> HIDE DEF more, n, o1, a, b
        <5>7. QED
          BY <5>1, <5>4, <5>5, <5>6
      <4>2. QED
        BY <4>1 DEF Plus
    <3> HIDE DEF more, n, o1
    <3>7. Good(fd_array_dup(c[T \ {fd}], n), Plus(o1, n), h)
      BY <3>2, <3>4, <3>5, Dup
    <3>8. QED
      BY <3>1, <3>6, <3>7 DEF n
  <2>3. QED
    BY <2>1, <2>2
<1> HIDE DEF P
<1>4. \A T \in SUBSET fds : T \in P
  <2>1. \A T \in SUBSET fds : (\A fd \in T : T \ {fd} \in P) => T \in P
    BY <1>3
  <2>2. QED
    BY <1>2, <2>1, InductionOnSubsets
<1>5. QED
  BY <1>1, <1>4 DEF P

-----------------------------------------------------------------------------
(* How many descriptors each inode has, and how many other references: a   *)
(* current directory each, the boot directory and the device table.        *)
OpenCount == [n \in Node |-> Cardinality(Descriptors(n))]
HoldCount == [n \in Node |-> Cardinality(Holders(n)) + IF n \in Dev \cup {root} THEN 1 ELSE 0]

(* The counts are exact between calls; initproc has no descriptor.         *)
IInv ==
  /\ alive \subseteq Proc /\ IsFiniteSet(alive)
  /\ pwd \in [Proc -> Dir]
  /\ fd_array \in [Proc -> [Fd -> Node \cup {"FD_NONE"}]]
  /\ Good(inode, OpenCount, HoldCount)

(* The sets that are counted are finite.                                   *)
LEMMA Counted ==
  ASSUME IsFiniteSet(alive)
  PROVE  \A n : /\ IsFiniteSet(Descriptors(n)) /\ Cardinality(Descriptors(n)) \in Nat
                /\ IsFiniteSet(Holders(n)) /\ Cardinality(Holders(n)) \in Nat
                /\ Cardinality(Descriptors(n)) > 0 <=> Descriptors(n) # {}
                /\ Cardinality(Holders(n)) > 0 <=> Holders(n) # {}
<1> SUFFICES ASSUME NEW n
             PROVE  /\ IsFiniteSet(Descriptors(n)) /\ Cardinality(Descriptors(n)) \in Nat
                    /\ IsFiniteSet(Holders(n)) /\ Cardinality(Holders(n)) \in Nat
                    /\ Cardinality(Descriptors(n)) > 0 <=> Descriptors(n) # {}
                    /\ Cardinality(Holders(n)) > 0 <=> Holders(n) # {}
  OBVIOUS
<1>1. IsFiniteSet(alive \X Fd)
  <2>1. IsFiniteSet(Fd)
    BY FilesAssumption, FS_Interval DEF Fd
  <2>2. QED
    BY <2>1, FS_Product
<1>2. Descriptors(n) \subseteq alive \X Fd /\ Holders(n) \subseteq alive
  BY DEF Descriptors, Holders
<1>3. IsFiniteSet(Descriptors(n)) /\ IsFiniteSet(Holders(n))
  BY <1>1, <1>2, FS_Subset
<1>4. Cardinality(Descriptors(n)) \in Nat /\ Cardinality(Holders(n)) \in Nat
  BY <1>3, FS_CardinalityType
<1>5. QED
  BY <1>3, <1>4, FS_EmptySet

(* The strengthening implies what the run checks.                          *)
LEMMA IInvImplies ==
  ASSUME IInv
  PROVE  RefsExact /\ InMemoryExact /\ SavedWhenClosed
<1>1. \A n : /\ Cardinality(Descriptors(n)) \in Nat /\ Cardinality(Holders(n)) \in Nat
             /\ Cardinality(Descriptors(n)) > 0 <=> Descriptors(n) # {}
             /\ Cardinality(Holders(n)) > 0 <=> Holders(n) # {}
  BY Counted DEF IInv
<1>2. \A n \in Node :
        /\ OpenCount[n] = Cardinality(Descriptors(n))
        /\ HoldCount[n] = Cardinality(Holders(n)) + IF n \in Dev \cup {root} THEN 1 ELSE 0
  BY DEF OpenCount, HoldCount
<1>3. Good(inode, OpenCount, HoldCount)
  BY DEF IInv
<1>4. TypeOK
  <2>1. inode \in World /\ \A n \in Node : inode.ref[n] \in Nat /\ inode.open[n] \in Nat
    BY <1>3 DEF Good
  <2>2. inode \in [ref : [Node -> Nat], open : [Node -> Nat],
                   memory : SUBSET OnDisk, dirty : SUBSET OnDisk]
    BY <2>1 DEF World
  <2>3. QED
    BY <2>2 DEF IInv, TypeOK
<1>5. RefsExact
  <2>1. \A p \in alive, fd \in Fd : fd_array[p][fd] # "FD_INIT"
    BY FilesAssumption DEF IInv, Node, OnDisk
  <2>2. QED
    BY <1>1, <1>2, <1>3, <1>4, <2>1 DEF RefsExact, Good
<1>6. InMemoryExact
  <2>1. ASSUME NEW n \in OnDisk
        PROVE  n \in inode.memory <=> InUse(n)
    <3>1. n \in Node /\ n \notin Dev
      BY FilesAssumption DEF Node, OnDisk
    <3>2. n \in inode.memory <=> OpenCount[n] + HoldCount[n] > 0
      BY <1>3 DEF Good
    <3>3. OpenCount[n] + HoldCount[n] > 0 <=> InUse(n)
      BY <1>1, <1>2, <3>1 DEF InUse
    <3>4. QED
      BY <3>2, <3>3
  <2>2. QED
    BY <2>1 DEF InMemoryExact
<1>7. SavedWhenClosed
  BY <1>1, <1>2, <1>3 DEF SavedWhenClosed, Good, World, Node
<1>8. QED
  BY <1>5, <1>6, <1>7

(* The boot directory is the first reference.                              *)
LEMMA InitIInv ==
  ASSUME Init PROVE IInv
<1>1. alive = {initproc} /\ IsFiniteSet(alive) /\ alive \subseteq Proc
  BY FilesAssumption, FS_Singleton DEF Init
<1>2. pwd \in [Proc -> Dir] /\ fd_array \in [Proc -> [Fd -> Node \cup {"FD_NONE"}]]
  BY FilesAssumption DEF Init
<1>3. inode \in World
  BY FilesAssumption DEF Init, World, OnDisk
<1>4. \A n \in Node : OpenCount[n] = 0
  <2>1. ASSUME NEW n \in Node PROVE Descriptors(n) = {}
    BY <1>1, FilesAssumption DEF Init, Descriptors, Node, OnDisk
  <2>2. QED
    BY <2>1, FS_EmptySet DEF OpenCount
<1>5. \A n \in Node : HoldCount[n] = IF n = root THEN 2 ELSE IF n \in Dev THEN 1 ELSE 0
  <2>1. ASSUME NEW n \in Node
        PROVE  Cardinality(Holders(n)) = IF n = root THEN 1 ELSE 0
    <3>1. Holders(n) = IF n = root THEN {initproc} ELSE {}
      BY <1>1, FilesAssumption DEF Init, Holders
    <3>2. QED
      BY <3>1, FS_EmptySet, FS_Singleton
  <2>2. root \notin Dev
    BY FilesAssumption
  <2>3. QED
    BY <2>1, <2>2 DEF HoldCount
<1>6. OpenCount \in [Node -> Nat] /\ HoldCount \in [Node -> Nat]
  BY <1>4, <1>5 DEF OpenCount, HoldCount
<1>7. \A n \in Node : inode.open[n] = OpenCount[n] /\ inode.ref[n] = OpenCount[n] + HoldCount[n]
  BY <1>4, <1>5 DEF Init
<1>8. \A n \in OnDisk : n \in inode.memory <=> OpenCount[n] + HoldCount[n] > 0
  <2>1. inode.memory = {root} /\ \A n \in OnDisk : n \in Node /\ n \notin Dev
    BY FilesAssumption DEF Init, Node, OnDisk
  <2>2. QED
    BY <1>4, <1>5, <2>1
<1>9. inode.dirty = {}
  BY DEF Init
<1>10. QED
  BY <1>1, <1>2, <1>3, <1>6, <1>7, <1>8, <1>9 DEF IInv, Good

-----------------------------------------------------------------------------
(* How a step changes the counts.  A descriptor that becomes used.         *)
LEMMA TakeDescriptor ==
  ASSUME IInv, NEW p \in alive, NEW fd \in Unused(p), NEW n \in Node,
         alive' = alive, fd_array' = [fd_array EXCEPT ![p][fd] = n]
  PROVE  /\ OpenCount' = Plus(OpenCount, n)
         /\ fd_array' \in [Proc -> [Fd -> Node \cup {"FD_NONE"}]]
<1>1. /\ p \in Proc /\ fd \in Fd /\ fd_array[p][fd] = "FD_NONE" /\ "FD_NONE" \notin Node
      /\ fd_array \in [Proc -> [Fd -> Node \cup {"FD_NONE"}]] /\ alive \subseteq Proc
  BY FilesAssumption DEF Unused, Node, OnDisk, IInv
<1>2. fd_array' \in [Proc -> [Fd -> Node \cup {"FD_NONE"}]]
  BY <1>1
<1>3. \A q \in Proc, e \in Fd :
        fd_array'[q][e] = IF q = p /\ e = fd THEN n ELSE fd_array[q][e]
  BY <1>1
<1>4. ASSUME NEW m \in Node
      PROVE  OpenCount'[m] = IF m = n THEN OpenCount[m] + 1 ELSE OpenCount[m]
  <2>1. IsFiniteSet(Descriptors(m)) /\ Cardinality(Descriptors(m)) \in Nat
    BY Counted DEF IInv
  <2>2. OpenCount'[m] = Cardinality(Descriptors(m)') /\ OpenCount[m] = Cardinality(Descriptors(m))
    BY DEF OpenCount
  <2>3. CASE m = n
    <3>1. Descriptors(m)' = Descriptors(m) \cup {<<p, fd>>}
      BY <1>1, <1>3, <2>3 DEF Descriptors
    <3>2. <<p, fd>> \notin Descriptors(m)
      BY <1>1, <2>3 DEF Descriptors
    <3>3. Cardinality(Descriptors(m) \cup {<<p, fd>>}) = Cardinality(Descriptors(m)) + 1
      BY <2>1, <3>2, FS_AddElement
    <3>4. QED
      BY <2>2, <2>3, <3>1, <3>3
  <2>4. CASE m # n
    <3>1. Descriptors(m)' = Descriptors(m)
      BY <1>1, <1>3, <2>4 DEF Descriptors
    <3>2. QED
      BY <2>2, <2>4, <3>1
  <2>5. QED
    BY <2>3, <2>4
<1>5. OpenCount' = Plus(OpenCount, n)
  <2>1. \A m \in Node : Plus(OpenCount, n)[m] = IF m = n THEN OpenCount[m] + 1 ELSE OpenCount[m]
    BY DEF Plus, OpenCount
  <2>2. DOMAIN OpenCount' = Node /\ DOMAIN Plus(OpenCount, n) = Node
    BY DEF Plus, OpenCount
  <2>3. OpenCount' = [m \in Node |-> OpenCount'[m]]
    BY DEF OpenCount
  <2>4. Plus(OpenCount, n) = [m \in Node |-> Plus(OpenCount, n)[m]]
    BY DEF Plus, OpenCount
  <2>5. QED
    BY <1>4, <2>1, <2>3, <2>4
<1>6. QED
  BY <1>2, <1>5

(* One that is given back.                                                 *)
LEMMA FreeDescriptor ==
  ASSUME IInv, NEW p \in alive, NEW fd \in Opened(p), NEW n, n = fd_array[p][fd],
         alive' = alive, fd_array' = [fd_array EXCEPT ![p][fd] = "FD_NONE"]
  PROVE  /\ OpenCount[n] > 0
         /\ OpenCount' = Less(OpenCount, n)
         /\ fd_array' \in [Proc -> [Fd -> Node \cup {"FD_NONE"}]]
<1>1. /\ p \in Proc /\ fd \in Fd /\ n \in Node /\ "FD_NONE" \notin Node
      /\ fd_array \in [Proc -> [Fd -> Node \cup {"FD_NONE"}]] /\ alive \subseteq Proc
  BY FilesAssumption DEF Opened, Node, OnDisk, IInv
<1>2. fd_array' \in [Proc -> [Fd -> Node \cup {"FD_NONE"}]]
  BY <1>1
<1>3. \A q \in Proc, e \in Fd :
        fd_array'[q][e] = IF q = p /\ e = fd THEN "FD_NONE" ELSE fd_array[q][e]
  BY <1>1
<1>4. \A m \in Node : IsFiniteSet(Descriptors(m)) /\ Cardinality(Descriptors(m)) \in Nat
  BY Counted DEF IInv
<1>5. <<p, fd>> \in Descriptors(n)
  BY <1>1 DEF Descriptors
<1>6. OpenCount[n] > 0
  <2>1. Cardinality(Descriptors(n)) > 0
    BY <1>5, Counted DEF IInv
  <2>2. QED
    BY <1>1, <2>1 DEF OpenCount
<1>7. ASSUME NEW m \in Node
      PROVE  OpenCount'[m] = IF m = n THEN OpenCount[m] - 1 ELSE OpenCount[m]
  <2>1. OpenCount'[m] = Cardinality(Descriptors(m)') /\ OpenCount[m] = Cardinality(Descriptors(m))
    BY DEF OpenCount
  <2>2. CASE m = n
    <3>1. Descriptors(m)' = Descriptors(m) \ {<<p, fd>>}
      BY <1>1, <1>3, <2>2 DEF Descriptors
    <3>2. QED
      BY <1>4, <1>5, <2>1, <2>2, <3>1, FS_RemoveElement
  <2>3. CASE m # n
    <3>1. Descriptors(m)' = Descriptors(m)
      BY <1>1, <1>3, <2>3 DEF Descriptors
    <3>2. QED
      BY <2>1, <2>3, <3>1
  <2>4. QED
    BY <2>2, <2>3
<1>8. OpenCount' = Less(OpenCount, n)
  <2>1. \A m \in Node : Less(OpenCount, n)[m] = IF m = n THEN OpenCount[m] - 1 ELSE OpenCount[m]
    BY DEF Less, OpenCount
  <2>2. OpenCount' = [m \in Node |-> OpenCount'[m]]
    BY DEF OpenCount
  <2>3. Less(OpenCount, n) = [m \in Node |-> Less(OpenCount, n)[m]]
    BY DEF Less, OpenCount
  <2>4. QED
    BY <1>7, <2>1, <2>2, <2>3
<1>9. QED
  BY <1>2, <1>6, <1>8

(* Other references do not depend on the descriptors.                      *)
LEMMA HoldCountSame ==
  ASSUME alive' = alive, pwd' = pwd
  PROVE  HoldCount' = HoldCount
<1>1. \A n : Holders(n)' = Holders(n)
  BY DEF Holders
<1>2. QED
  BY <1>1 DEF HoldCount

(* The directory from which a path starts is in use.                       *)
LEMMA StartInUse ==
  ASSUME IInv, NEW p \in alive, NEW dir \in Dir, NEW n \in Node, Known(p, dir, n)
  PROVE  /\ dir \in OnDisk
         /\ n \in Dev \/ HoldCount[dir] > 0
         /\ n \in Dev \/ OpenCount[dir] + HoldCount[dir] > 0
<1>1. \A m \in Node : /\ OpenCount[m] \in Nat /\ HoldCount[m] \in Nat
                      /\ HoldCount[m] = Cardinality(Holders(m)) + IF m \in Dev \cup {root} THEN 1 ELSE 0
                      /\ Cardinality(Holders(m)) \in Nat
                      /\ Cardinality(Holders(m)) > 0 <=> Holders(m) # {}
  BY Counted DEF HoldCount, IInv, Good
<1>2. dir \in OnDisk /\ dir \in Node /\ root \in Node /\ pwd[p] \in Node
  BY FilesAssumption DEF OnDisk, Node, IInv
<1>3. p \in Holders(pwd[p])
  BY DEF Holders
<1>4. HoldCount[pwd[p]] > 0
  BY <1>1, <1>2, <1>3
<1>5. HoldCount[root] > 0
  BY <1>1, <1>2
<1>6. n \notin Dev => dir = root \/ dir = pwd[p]
  BY DEF Known
<1>7. QED
  BY <1>1, <1>2, <1>4, <1>5, <1>6

-----------------------------------------------------------------------------
(* Each call keeps the invariant.                                          *)

(* A set of descriptors has a lowest one.                                  *)
LEMMA LowestUnused ==
  ASSUME NEW p, Unused(p) # {}
  PROVE  Min(Unused(p)) \in Unused(p)
<1> DEFINE T == Unused(p)
           P == {n \in Nat : (\E x \in T : x <= n) => \E x \in T : \A y \in T : x <= y}
<1>1. T \subseteq Nat /\ T # {}
  BY FilesAssumption DEF Unused, Fd
<1> HIDE DEF T
<1>2. 0 \in P
  <2>1. ASSUME NEW x \in T, x <= 0 PROVE \A y \in T : x <= y
    BY <1>1, <2>1
  <2>2. QED
    BY <2>1
<1>3. ASSUME NEW n \in Nat, n \in P PROVE n + 1 \in P
  <2>1. ASSUME NEW x \in T, x <= n + 1 PROVE \E z \in T : \A y \in T : z <= y
    <3>1. CASE \E z \in T : z <= n
      BY <1>3, <3>1
    <3>2. CASE ~\E z \in T : z <= n
      <4>1. \A y \in T : x <= y
        BY <1>1, <2>1, <3>2
      <4>2. QED
        BY <4>1
    <3>3. QED
      BY <3>1, <3>2
  <2>2. QED
    BY <2>1
<1>4. Nat \subseteq P
  <2> HIDE DEF P
  <2>1. QED
    BY <1>2, <1>3, InductionOnNat
<1>5. PICK n \in T : TRUE
  BY <1>1
<1>6. \E x \in T : \A y \in T : x <= y
  BY <1>1, <1>4, <1>5
<1>7. QED
  BY <1>6 DEF T, Min

(* file_open: a failed vfs_open has left nothing behind.                   *)
LEMMA OpenIInv ==
  ASSUME IInv, "O_EXCL" \notin Flag,
         NEW p \in Proc, NEW dir \in Dir, NEW n \in Node,
         NEW flags \in SUBSET Flag, NEW wasEmpty \in BOOLEAN,
         file_open(p, dir, n, flags, wasEmpty)
  PROVE  IInv'
<1> DEFINE fd     == Min(Unused(p))
           result == vfs_open(inode, dir, n, flags, wasEmpty)
<1>1. /\ p \in alive /\ fd \in Unused(p) /\ Known(p, dir, n)
      /\ alive' = alive /\ pwd' = pwd /\ inode' = result.inode
      /\ fd_array' = [fd_array EXCEPT ![p][fd] = IF result.ok THEN n ELSE "FD_NONE"]
  BY LowestUnused DEF file_open, Calls
<1>2. \/ result.ok /\ Good(result.inode, Plus(OpenCount, n), HoldCount)
      \/ ~result.ok /\ Good(result.inode, OpenCount, HoldCount)
  <2>1. Good(inode, OpenCount, HoldCount) /\ "O_EXCL" \notin flags
    BY DEF IInv
  <2>2. dir \in OnDisk /\ (n \in Dev \/ OpenCount[dir] + HoldCount[dir] > 0)
    BY <1>1, StartInUse
  <2>3. QED
    BY <2>1, <2>2, Open
<1>3. HoldCount' = HoldCount
  BY <1>1, HoldCountSame
<1> HIDE DEF fd, result
<1>4. CASE result.ok
  <2>1. fd_array' = [fd_array EXCEPT ![p][fd] = n]
    BY <1>1, <1>4
  <2>2. /\ OpenCount' = Plus(OpenCount, n)
        /\ fd_array' \in [Proc -> [Fd -> Node \cup {"FD_NONE"}]]
    BY <1>1, <2>1, TakeDescriptor
  <2>3. Good(inode', OpenCount', HoldCount')
    BY <1>1, <1>2, <1>3, <1>4, <2>2
  <2>4. QED
    BY <1>1, <2>2, <2>3 DEF IInv
<1>5. CASE ~result.ok
  <2>1. fd_array' = fd_array
    BY <1>1, <1>5 DEF Unused, IInv
  <2>2. OpenCount' = OpenCount
    BY <1>1, <2>1 DEF OpenCount, Descriptors
  <2>3. Good(inode', OpenCount', HoldCount')
    BY <1>1, <1>2, <1>3, <1>5, <2>2
  <2>4. QED
    BY <1>1, <2>1, <2>3 DEF IInv
<1>6. QED
  BY <1>4, <1>5

(* file_close.                                                             *)
LEMMA CloseIInv ==
  ASSUME IInv, NEW p \in Proc, NEW fd \in Fd, file_close(p, fd)
  PROVE  IInv'
<1> DEFINE n == fd_array[p][fd]
<1>1. /\ p \in alive /\ fd \in Opened(p) /\ alive' = alive /\ pwd' = pwd
      /\ inode' = vfs_close(inode, n)
      /\ fd_array' = [fd_array EXCEPT ![p][fd] = "FD_NONE"]
  BY DEF file_close, Calls
<1>2. n \in Node
  BY <1>1 DEF Opened
<1>3. /\ OpenCount[n] > 0 /\ OpenCount' = Less(OpenCount, n)
      /\ fd_array' \in [Proc -> [Fd -> Node \cup {"FD_NONE"}]]
  BY <1>1, FreeDescriptor
<1>4. HoldCount' = HoldCount
  BY <1>1, HoldCountSame
<1> HIDE DEF n
<1>5. Good(vfs_close(inode, n), Less(OpenCount, n), HoldCount)
  BY <1>2, <1>3, Close DEF IInv
<1>6. QED
  BY <1>1, <1>3, <1>4, <1>5 DEF IInv

(* A descriptor in use counts for its inode.                               *)
LEMMA OpenedCounts ==
  ASSUME IInv, NEW p \in alive, NEW fd \in Opened(p)
  PROVE  fd_array[p][fd] \in Node /\ OpenCount[fd_array[p][fd]] > 0
<1> DEFINE n == fd_array[p][fd]
<1>1. n \in Node /\ fd \in Fd
  BY DEF Opened
<1>2. <<p, fd>> \in Descriptors(n)
  BY <1>1 DEF Descriptors
<1>3. Cardinality(Descriptors(n)) > 0
  BY <1>2, Counted DEF IInv
<1>4. QED
  BY <1>1, <1>3 DEF OpenCount

(* file_dup.                                                               *)
LEMMA DupIInv ==
  ASSUME IInv, NEW p \in Proc, NEW from \in Fd, NEW to \in Fd, file_dup(p, from, to)
  PROVE  IInv'
<1> DEFINE n == fd_array[p][from]
<1>1. /\ p \in alive /\ from \in Opened(p) /\ to \in Unused(p)
      /\ alive' = alive /\ pwd' = pwd
      /\ inode' = fd_array_dup(inode, n)
      /\ fd_array' = [fd_array EXCEPT ![p][to] = n]
  BY DEF file_dup, Calls
<1>2. n \in Node /\ OpenCount[n] > 0
  BY <1>1, OpenedCounts
<1> HIDE DEF n
<1>3. /\ OpenCount' = Plus(OpenCount, n)
      /\ fd_array' \in [Proc -> [Fd -> Node \cup {"FD_NONE"}]]
  BY <1>1, <1>2, TakeDescriptor
<1>4. HoldCount' = HoldCount
  BY <1>1, HoldCountSame
<1>5. Good(fd_array_dup(inode, n), Plus(OpenCount, n), HoldCount)
  BY <1>2, Dup DEF IInv
<1>6. QED
  BY <1>1, <1>3, <1>4, <1>5 DEF IInv

(* file_grow and file_fsync: the inode has a descriptor.                   *)
LEMMA WriteIInv ==
  ASSUME IInv, NEW p \in Proc, NEW fd \in Fd, file_grow(p, fd) \/ file_fsync(p, fd)
  PROVE  IInv'
<1> DEFINE n == fd_array[p][fd]
<1>1. /\ p \in alive /\ fd \in Opened(p) /\ n \in OnDisk
      /\ alive' = alive /\ pwd' = pwd /\ fd_array' = fd_array
      /\ \/ inode' = [inode EXCEPT !.dirty = @ \cup {n}]
         \/ inode' = sfs_fsync(inode, n)
  BY DEF file_grow, file_fsync, Calls, OnDisk
<1>2. OpenCount[n] > 0
  BY <1>1, OpenedCounts
<1> HIDE DEF n
<1>3. Good(inode', OpenCount, HoldCount)
  <2>1. Good(inode, OpenCount, HoldCount)
    BY DEF IInv
  <2>2. /\ Good([inode EXCEPT !.dirty = @ \cup {n}], OpenCount, HoldCount)
        /\ Good(sfs_fsync(inode, n), OpenCount, HoldCount)
    BY <1>1, <1>2, <2>1, Write
  <2>3. QED
    BY <1>1, <2>2
<1>4. OpenCount' = OpenCount /\ HoldCount' = HoldCount
  BY <1>1, HoldCountSame DEF OpenCount, Descriptors
<1>5. QED
  BY <1>1, <1>3, <1>4 DEF IInv

(* vfs_chdir: the new directory is held and the old one let go.            *)
LEMMA ChdirIInv ==
  ASSUME IInv, NEW p \in Proc, NEW dir \in Dir, NEW n \in Node, vfs_chdir(p, dir, n)
  PROVE  IInv'
<1> DEFINE old   == pwd[p]
           found == vfs_lookup(inode, dir, n)
           change == n \in Dir /\ n # old
           h == HoldCount
           h1 == Plus(h, n)
<1>1. /\ p \in alive /\ Known(p, dir, n) /\ alive' = alive /\ fd_array' = fd_array
      /\ pwd' = IF change THEN [pwd EXCEPT ![p] = n] ELSE pwd
      /\ inode' = inode_ref_dec(IF change THEN inode_ref_dec(inode_ref_inc(found, n), old)
                                ELSE found, n)
  BY DEF vfs_chdir, Calls
<1>2. OpenCount' = OpenCount
  BY <1>1 DEF OpenCount, Descriptors
<1>3. /\ h \in [Node -> Nat] /\ OpenCount \in [Node -> Nat]
      /\ Good(inode, OpenCount, h)
  BY DEF IInv, Good
<1>4. Good(found, OpenCount, h1)
  <2>1. dir \in OnDisk /\ (n \in Dev \/ OpenCount[dir] + h[dir] > 0)
    BY <1>1, StartInUse
  <2>2. QED
    BY <1>3, <2>1, Lookup
<1>5. h1 \in [Node -> Nat] /\ h1[n] > 0 /\ Less(h1, n) = h
  BY <1>3, PlusLess
<1>6. CASE ~change
  <2>1. HoldCount' = h
    BY <1>1, <1>6, HoldCountSame
  <2>2. inode' = inode_ref_dec(found, n)
    BY <1>1, <1>6
  <2> HIDE DEF found, h1, h
  <2>3. Good(inode_ref_dec(found, n), OpenCount, h)
    BY <1>4, <1>5, RefDec
  <2>4. QED
    BY <1>1, <1>2, <1>6, <2>1, <2>2, <2>3 DEF IInv
<1>7. CASE change
  <2> DEFINE h2 == Plus(h1, n)
             h3 == Less(h2, old)
             h4 == Less(h3, n)
  <2>1. old \in Dir /\ old \in Node /\ n # old
    BY <1>7 DEF IInv, Node, OnDisk
  <2>2. h[old] > 0
    <3>1. p \in Holders(old)
      BY <1>1 DEF Holders
    <3>2. Cardinality(Holders(old)) \in Nat /\ Cardinality(Holders(old)) > 0
      BY <3>1, Counted DEF IInv
    <3>3. QED
      BY <2>1, <3>2 DEF HoldCount
  <2>3. \A m \in Node : h4[m] = IF m = n THEN h[m] + 1 ELSE IF m = old THEN h[m] - 1 ELSE h[m]
    BY <1>3, <2>1 DEF Plus, Less
  <2>4. h4 \in [Node -> Int] /\ h2 \in [Node -> Nat] /\ h2[old] > 0 /\ h3[n] > 0
    BY <1>3, <2>1, <2>2 DEF Plus, Less
  <2>5. HoldCount' = h4
    <3>1. ASSUME NEW m \in Node
          PROVE  HoldCount'[m] = IF m = n THEN h[m] + 1 ELSE IF m = old THEN h[m] - 1 ELSE h[m]
      <4>1. IsFiniteSet(Holders(m)) /\ Cardinality(Holders(m)) \in Nat
        BY Counted DEF IInv
      <4>2. \A q \in alive : pwd'[q] = IF q = p THEN n ELSE pwd[q]
        BY <1>1, <1>7 DEF IInv
      <4>3. Holders(m)' = IF m = n THEN Holders(m) \cup {p}
                          ELSE IF m = old THEN Holders(m) \ {p} ELSE Holders(m)
        BY <1>1, <2>1, <4>2 DEF Holders
      <4>4. (p \in Holders(m)) <=> m = old
        BY <1>1 DEF Holders
      <4>5. Cardinality(Holders(m)') = IF m = n THEN Cardinality(Holders(m)) + 1
                                       ELSE IF m = old THEN Cardinality(Holders(m)) - 1
                                       ELSE Cardinality(Holders(m))
        <5>1. /\ m # old => Cardinality(Holders(m) \cup {p}) = Cardinality(Holders(m)) + 1
              /\ m = old => Cardinality(Holders(m) \ {p}) = Cardinality(Holders(m)) - 1
          BY <4>1, <4>4, FS_AddElement, FS_RemoveElement
        <5> HIDE DEF old
        <5>2. QED
          BY <2>1, <4>3, <5>1
      <4>6. /\ HoldCount'[m] = Cardinality(Holders(m)') + IF m \in Dev \cup {root} THEN 1 ELSE 0
            /\ h[m] = Cardinality(Holders(m)) + IF m \in Dev \cup {root} THEN 1 ELSE 0
        BY DEF HoldCount
      <4> HIDE DEF h, old
      <4>7. QED
        BY <4>1, <4>5, <4>6
    <3>2. HoldCount' = [m \in Node |-> HoldCount'[m]] /\ h4 = [m \in Node |-> h4[m]]
      BY <2>4 DEF HoldCount
    <3> HIDE DEF h4, h, old
    <3>3. QED
      BY <2>3, <3>1, <3>2
  <2>6. inode' = inode_ref_dec(inode_ref_dec(inode_ref_inc(found, n), old), n)
    BY <1>1, <1>7
  <2>7. pwd' \in [Proc -> Dir]
    BY <1>1, <1>7 DEF IInv
  <2> HIDE DEF found, h1, h, change, old
  <2>8. Good(inode_ref_inc(found, n), OpenCount, h2)
    BY <1>3, <1>4, <1>5, RefInc
  <2> HIDE DEF h2
  <2>9. Good(inode_ref_dec(inode_ref_inc(found, n), old), OpenCount, h3)
    BY <2>1, <2>4, <2>8, RefDec
  <2> HIDE DEF h3
  <2>10. Good(inode', OpenCount, h4)
    BY <2>4, <2>6, <2>9, RefDec
  <2> HIDE DEF h4
  <2>11. QED
    BY <1>1, <1>2, <2>5, <2>7, <2>10 DEF IInv
<1>8. QED
  BY <1>6, <1>7

(* Copies of a set of descriptors, in another process, are as many.        *)
LEMMA OnCopied ==
  ASSUME NEW p, NEW fds \in SUBSET Fd, NEW q, NEW n
  PROVE  LET S == {q} \X On(p, fds, n)
         IN  IsFiniteSet(S) /\ Cardinality(S) = Cardinality(On(p, fds, n)) /\ Cardinality(S) \in Nat
<1>1. IsFiniteSet(Fd) /\ On(p, fds, n) \subseteq Fd
  <2>1. On(p, fds, n) \subseteq Fd
    BY DEF On
  <2>2. QED
    BY <2>1, FilesAssumption, FS_Interval DEF Fd
<1>2. IsFiniteSet(On(p, fds, n)) /\ Cardinality(On(p, fds, n)) \in Nat
  BY <1>1, FS_Subset, FS_CardinalityType
<1>3. IsFiniteSet({q}) /\ Cardinality({q}) = 1
  BY FS_Singleton
<1>4. /\ IsFiniteSet({q} \X On(p, fds, n))
      /\ Cardinality({q} \X On(p, fds, n)) = 1 * Cardinality(On(p, fds, n))
  BY <1>2, <1>3, FS_Product
<1>5. QED
  BY <1>2, <1>4

(* do_fork: the child has the parent's directory and its descriptors.      *)
LEMMA ForkIInv ==
  ASSUME IInv, NEW p \in Proc, NEW child \in Proc, copy_files(p, child)
  PROVE  IInv'
<1> DEFINE dir == pwd[p]
           fds == Opened(p)
           held == inode_ref_inc(inode, dir)
           o1 == [n \in Node |-> OpenCount[n] + Cardinality(On(p, fds, n))]
<1>1. /\ p \in alive /\ child \notin alive /\ alive' = alive \cup {child}
      /\ pwd' = [pwd EXCEPT ![child] = dir]
      /\ fd_array' = [fd_array EXCEPT ![child] = fd_array[p]]
      /\ inode' = dup_files(held, p)
  BY DEF copy_files
<1>2. /\ alive' \subseteq Proc /\ IsFiniteSet(alive')
      /\ pwd' \in [Proc -> Dir]
      /\ fd_array' \in [Proc -> [Fd -> Node \cup {"FD_NONE"}]]
  BY <1>1, FS_AddElement DEF IInv
<1>3. dir \in Node /\ HoldCount[dir] > 0 /\ HoldCount \in [Node -> Nat] /\ OpenCount \in [Node -> Nat]
  <2>1. dir \in Dir
    BY DEF IInv
  <2>2. p \in Holders(dir)
    BY <1>1 DEF Holders
  <2>3. Cardinality(Holders(dir)) \in Nat /\ Cardinality(Holders(dir)) > 0
    BY <2>2, Counted DEF IInv
  <2>4. QED
    BY <2>1, <2>3 DEF HoldCount, Node, OnDisk, IInv, Good
<1>4. fds \subseteq Fd /\ \A fd \in fds : OpenCount[fd_array[p][fd]] > 0
  BY <1>1, OpenedCounts DEF Opened
<1>5. HoldCount' = Plus(HoldCount, dir)
  <2>1. ASSUME NEW m \in Node
        PROVE  HoldCount'[m] = IF m = dir THEN HoldCount[m] + 1 ELSE HoldCount[m]
    <3>1. IsFiniteSet(Holders(m)) /\ Cardinality(Holders(m)) \in Nat
      BY Counted DEF IInv
    <3>2. \A q \in Proc : pwd'[q] = IF q = child THEN dir ELSE pwd[q]
      BY <1>1 DEF IInv
    <3>3. Holders(m)' = IF m = dir THEN Holders(m) \cup {child} ELSE Holders(m)
      BY <1>1, <3>2 DEF Holders, IInv
    <3>4. child \notin Holders(m)
      BY <1>1 DEF Holders
    <3>5. Cardinality(Holders(m)') = IF m = dir THEN Cardinality(Holders(m)) + 1
                                     ELSE Cardinality(Holders(m))
      BY <3>1, <3>3, <3>4, FS_AddElement
    <3>6. /\ HoldCount'[m] = Cardinality(Holders(m)') + IF m \in Dev \cup {root} THEN 1 ELSE 0
          /\ HoldCount[m] = Cardinality(Holders(m)) + IF m \in Dev \cup {root} THEN 1 ELSE 0
      BY DEF HoldCount
    <3>7. QED
      BY <3>1, <3>5, <3>6
  <2>2. \A m \in Node : Plus(HoldCount, dir)[m] = IF m = dir THEN HoldCount[m] + 1 ELSE HoldCount[m]
    BY <1>3 DEF Plus
  <2>3. /\ HoldCount' = [m \in Node |-> HoldCount'[m]]
        /\ Plus(HoldCount, dir) = [m \in Node |-> Plus(HoldCount, dir)[m]]
    BY DEF HoldCount, Plus
  <2>4. QED
    BY <2>1, <2>2, <2>3
<1>6. OpenCount' = o1
  <2>1. ASSUME NEW m \in Node
        PROVE  Cardinality(Descriptors(m)') = Cardinality(Descriptors(m)) + Cardinality(On(p, fds, m))
    <3> DEFINE new == {child} \X On(p, fds, m)
    <3>1. IsFiniteSet(Descriptors(m)) /\ Cardinality(Descriptors(m)) \in Nat
      BY Counted DEF IInv
    <3>2. /\ IsFiniteSet(new) /\ Cardinality(new) = Cardinality(On(p, fds, m))
          /\ Cardinality(new) \in Nat
      BY <1>4, OnCopied
    <3>3. \A q \in Proc, e \in Fd : fd_array'[q][e] = IF q = child THEN fd_array[p][e] ELSE fd_array[q][e]
      BY <1>1 DEF IInv
    <3>4. Descriptors(m)' = Descriptors(m) \cup new
      BY <1>1, <3>3 DEF Descriptors, On, Opened, IInv
    <3>5. Descriptors(m) \cap new = {}
      BY <1>1 DEF Descriptors
    <3>6. Cardinality(Descriptors(m) \cup new) = Cardinality(Descriptors(m)) + Cardinality(new) - 0
      BY <3>1, <3>2, <3>5, FS_Union, FS_EmptySet
    <3>7. QED
      BY <3>1, <3>2, <3>4, <3>6
  <2>2. QED
    BY <2>1 DEF OpenCount
<1> HIDE DEF held, o1, fds, dir
<1>7. Good(held, OpenCount, Plus(HoldCount, dir))
  <2>1. OpenCount[dir] + HoldCount[dir] > 0
    BY <1>3
  <2>2. Good(inode, OpenCount, HoldCount)
    BY DEF IInv
  <2>3. QED
    BY <1>3, <2>1, <2>2, RefInc DEF held
<1>8. Good(dup_files(held, p), o1, Plus(HoldCount, dir))
  <2>1. fds = Opened(p)
    BY DEF fds
  <2>2. QED
    BY <1>4, <1>7, <2>1, DuplicateAll DEF o1
<1>9. QED
  BY <1>1, <1>2, <1>5, <1>6, <1>8 DEF IInv

(* What a process closes is counted on the inodes.                         *)
LEMMA Counts ==
  ASSUME IInv, NEW p \in alive, NEW fds \in SUBSET Opened(p), NEW n \in Node
  PROVE  /\ OpenCount[n] \in Nat /\ Cardinality(On(p, fds, n)) \in Nat
         /\ Cardinality(On(p, fds, n)) <= OpenCount[n]
         /\ Cardinality(Descriptors(n) \ ({p} \X On(p, fds, n)))
              = OpenCount[n] - Cardinality(On(p, fds, n))
<1> DEFINE gone == {p} \X On(p, fds, n)
<1>1. IsFiniteSet(Descriptors(n)) /\ Cardinality(Descriptors(n)) \in Nat
  BY Counted DEF IInv
<1>2. fds \in SUBSET Fd
  BY DEF Opened
<1>3. IsFiniteSet(gone) /\ Cardinality(gone) = Cardinality(On(p, fds, n)) /\ Cardinality(gone) \in Nat
  BY <1>2, OnCopied
<1>4. gone \subseteq Descriptors(n)
  BY <1>2 DEF Descriptors, On
<1> HIDE DEF gone
<1>5. Cardinality(gone) <= Cardinality(Descriptors(n))
  BY <1>1, <1>4, FS_Subset
<1>6. Cardinality(Descriptors(n) \ gone) = Cardinality(Descriptors(n)) - Cardinality(gone)
  <2>1. Descriptors(n) \cap gone = gone
    BY <1>4
  <2>2. QED
    BY <1>1, <2>1, FS_Difference
<1>7. OpenCount[n] = Cardinality(Descriptors(n))
  BY DEF OpenCount
<1>8. QED
  BY <1>1, <1>3, <1>5, <1>6, <1>7 DEF gone

(* do_exit gives up the directory and every descriptor.                    *)
LEMMA ExitIInv ==
  ASSUME IInv, NEW p \in Proc, files_destroy(p)
  PROVE  IInv'
<1> DEFINE dir == pwd[p]
           fds == Opened(p)
           let_go == inode_ref_dec(inode, dir)
           o1 == [n \in Node |-> OpenCount[n] - Cardinality(On(p, fds, n))]
<1>1. /\ p \in alive /\ alive' = alive \ {p}
      /\ pwd' = [pwd EXCEPT ![p] = root]
      /\ fd_array' = [fd_array EXCEPT ![p] = [fd \in Fd |-> "FD_NONE"]]
      /\ inode' = Closed(let_go, p, fds)
  BY DEF files_destroy, Calls
<1>2. /\ alive' \subseteq Proc /\ IsFiniteSet(alive')
      /\ pwd' \in [Proc -> Dir]
      /\ fd_array' \in [Proc -> [Fd -> Node \cup {"FD_NONE"}]]
  BY <1>1, FS_RemoveElement, FilesAssumption DEF IInv
<1>3. dir \in Node /\ HoldCount[dir] > 0 /\ HoldCount \in [Node -> Nat]
  <2>1. dir \in Dir
    BY DEF IInv
  <2>2. p \in Holders(dir)
    BY <1>1 DEF Holders
  <2>3. Cardinality(Holders(dir)) \in Nat /\ Cardinality(Holders(dir)) > 0
    BY <2>2, Counted DEF IInv
  <2>4. QED
    BY <2>1, <2>3 DEF HoldCount, Node, OnDisk, IInv, Good
<1>4. HoldCount' = Less(HoldCount, dir)
  <2>1. ASSUME NEW m \in Node
        PROVE  HoldCount'[m] = IF m = dir THEN HoldCount[m] - 1 ELSE HoldCount[m]
    <3>1. IsFiniteSet(Holders(m)) /\ Cardinality(Holders(m)) \in Nat
      BY Counted DEF IInv
    <3>2. Holders(m)' = Holders(m) \ {p}
      BY <1>1 DEF Holders, IInv
    <3>3. p \in Holders(m) <=> m = dir
      BY <1>1 DEF Holders
    <3>4. Cardinality(Holders(m)') = IF m = dir THEN Cardinality(Holders(m)) - 1
                                     ELSE Cardinality(Holders(m))
      BY <3>1, <3>2, <3>3, FS_RemoveElement
    <3>5. /\ HoldCount'[m] = Cardinality(Holders(m)') + IF m \in Dev \cup {root} THEN 1 ELSE 0
          /\ HoldCount[m] = Cardinality(Holders(m)) + IF m \in Dev \cup {root} THEN 1 ELSE 0
      BY DEF HoldCount
    <3>6. QED
      BY <3>1, <3>4, <3>5
  <2>2. \A m \in Node : Less(HoldCount, dir)[m] = IF m = dir THEN HoldCount[m] - 1 ELSE HoldCount[m]
    BY <1>3 DEF Less
  <2>3. /\ HoldCount' = [m \in Node |-> HoldCount'[m]]
        /\ Less(HoldCount, dir) = [m \in Node |-> Less(HoldCount, dir)[m]]
    BY DEF HoldCount, Less
  <2>4. QED
    BY <2>1, <2>2, <2>3
<1>5. OpenCount' = o1
  <2>1. ASSUME NEW m \in Node
        PROVE  Descriptors(m)' = Descriptors(m) \ ({p} \X On(p, fds, m))
    <3>1. \A q \in alive', e \in Fd : fd_array'[q][e] = fd_array[q][e]
      BY <1>1 DEF IInv
    <3>2. Descriptors(m)' = {d \in alive \X Fd : d[1] # p /\ fd_array[d[1]][d[2]] = m}
      BY <1>1, <3>1 DEF Descriptors
    <3>3. QED
      BY <3>2 DEF Descriptors, On, Opened
  <2>2. \A m \in Node : Cardinality(Descriptors(m)') = OpenCount[m] - Cardinality(On(p, fds, m))
    BY <1>1, <2>1, Counts
  <2>3. QED
    BY <2>2 DEF OpenCount
<1>6. \A m \in Node : Cardinality(On(p, fds, m)) <= OpenCount[m]
  BY <1>1, Counts
<1> HIDE DEF let_go, o1, dir
<1>7. Good(let_go, OpenCount, Less(HoldCount, dir))
  BY <1>3, RefDec DEF IInv, let_go
<1>8. Good(Closed(let_go, p, fds), o1, Less(HoldCount, dir))
  BY <1>6, <1>7, CloseAll DEF o1
<1>9. QED
  BY <1>1, <1>2, <1>4, <1>5, <1>8 DEF IInv

(* do_execve closes what the new program does not inherit and has closed   *)
(* the program's file when it returns.                                     *)
LEMMA ExecIInv ==
  ASSUME IInv, NEW p \in Proc, NEW dir \in Dir, NEW n \in Node, do_execve(p, dir, n)
  PROVE  IInv'
<1> DEFINE above  == {fd \in Opened(p) : fd > 1}
           closed == Closed(inode, p, above)
           opened == vfs_open(closed, dir, n, {}, TRUE)
           o1 == [m \in Node |-> OpenCount[m] - Cardinality(On(p, above, m))]
<1>1. /\ p \in alive /\ alive' = alive /\ pwd' = pwd /\ Known(p, dir, n)
      /\ fd_array' = [fd_array EXCEPT ![p] =
                        [fd \in Fd |-> IF fd > 1 THEN "FD_NONE" ELSE fd_array[p][fd]]]
      /\ inode' = vfs_close(opened.inode, n)
  BY DEF do_execve, Calls
<1>2. fd_array' \in [Proc -> [Fd -> Node \cup {"FD_NONE"}]]
  BY <1>1 DEF IInv
<1>3. above \in SUBSET Opened(p)
  OBVIOUS
<1>4. OpenCount' = o1
  <2>1. ASSUME NEW m \in Node
        PROVE  Descriptors(m)' = Descriptors(m) \ ({p} \X On(p, above, m))
    <3>1. \A q \in alive, e \in Fd :
            fd_array'[q][e] = IF q = p /\ e > 1 THEN "FD_NONE" ELSE fd_array[q][e]
      BY <1>1 DEF IInv
    <3>2. "FD_NONE" # m
      BY FilesAssumption DEF Node, OnDisk
    <3>3. Descriptors(m)' = {d \in alive \X Fd : ~(d[1] = p /\ d[2] > 1) /\ fd_array[d[1]][d[2]] = m}
      BY <1>1, <3>1, <3>2 DEF Descriptors
    <3>4. QED
      BY <3>3 DEF Descriptors, On, Opened
  <2>2. \A m \in Node : Cardinality(Descriptors(m)') = OpenCount[m] - Cardinality(On(p, above, m))
    BY <1>1, <1>3, <2>1, Counts
  <2>3. QED
    BY <2>2 DEF OpenCount
<1>5. HoldCount' = HoldCount
  BY <1>1, HoldCountSame
<1>6. Good(closed, o1, HoldCount)
  <2>1. \A m \in Node : Cardinality(On(p, above, m)) <= OpenCount[m]
    BY <1>1, <1>3, Counts
  <2>2. Good(inode, OpenCount, HoldCount)
    BY DEF IInv
  <2> HIDE DEF above
  <2>3. QED
    BY <1>3, <2>1, <2>2, CloseAll
<1>7. dir \in OnDisk /\ (n \in Dev \/ o1[dir] + HoldCount[dir] > 0)
  <2>1. dir \in OnDisk /\ dir \in Node /\ (n \in Dev \/ HoldCount[dir] > 0)
    BY <1>1, StartInUse DEF Node
  <2> HIDE DEF closed, o1
  <2>2. o1 \in [Node -> Nat] /\ HoldCount \in [Node -> Nat]
    BY <1>6 DEF Good
  <2>3. QED
    BY <2>1, <2>2
<1> HIDE DEF closed, o1
<1>8. Good(opened.inode, Plus(o1, n), HoldCount)
  BY <1>6, <1>7, Open
<1>9. o1 \in [Node -> Nat]
  BY <1>6 DEF Good
<1>10. Plus(o1, n)[n] > 0 /\ Less(Plus(o1, n), n) = o1
  BY <1>9, PlusLess
<1> HIDE DEF opened
<1>11. Good(vfs_close(opened.inode, n), o1, HoldCount)
  BY <1>8, <1>10, Close
<1>12. QED
  BY <1>1, <1>2, <1>4, <1>5, <1>11 DEF IInv

-----------------------------------------------------------------------------
(* A step that is no call leaves the counts alone.                         *)
LEMMA NextIInv ==
  ASSUME IInv, "O_EXCL" \notin Flag, [Next]_vars
  PROVE  IInv'
<1>1. CASE Next
  BY <1>1, OpenIInv, CloseIInv, DupIInv, WriteIInv, ChdirIInv, ForkIInv, ExitIInv, ExecIInv
     DEF Next
<1>2. CASE UNCHANGED vars
  <2>1. alive' = alive /\ pwd' = pwd /\ fd_array' = fd_array /\ inode' = inode
    BY <1>2 DEF vars
  <2>2. OpenCount' = OpenCount /\ HoldCount' = HoldCount
    BY <2>1, HoldCountSame DEF OpenCount, Descriptors
  <2>3. QED
    BY <2>1, <2>2 DEF IInv
<1>3. QED
  BY <1>1, <1>2

(* The counts of the inodes are right in every reachable state.            *)
THEOREM Invariance ==
  ASSUME "O_EXCL" \notin Flag PROVE Spec => []IInv
<1>1. Init => IInv
  BY InitIInv
<1>2. IInv /\ [Next]_vars => IInv'
  BY NextIInv
<1>3. QED
  BY <1>1, <1>2, PTL DEF Spec

(***************************************************************************)
(* For any number of processes, inodes and descriptors, and for every open *)
(* flag but O_EXCL: file.c and inode.c count exactly, whatever calls fail  *)
(* and in whatever order processes fork, execute, exit and close.          *)
(***************************************************************************)
THEOREM FilesRefsExact ==
  ASSUME "O_EXCL" \notin Flag PROVE Spec => []RefsExact
<1>1. IInv => RefsExact
  BY IInvImplies
<1>2. QED
  BY <1>1, Invariance, PTL

(***************************************************************************)
(* An inode is in memory exactly while a descriptor, a current directory   *)
(* or the boot directory refers to it.                                     *)
(***************************************************************************)
THEOREM FilesInMemoryExact ==
  ASSUME "O_EXCL" \notin Flag PROVE Spec => []InMemoryExact
<1>1. IInv => InMemoryExact
  BY IInvImplies
<1>2. QED
  BY <1>1, Invariance, PTL

(***************************************************************************)
(* An inode whose last descriptor is closed has been written to the disk.  *)
(***************************************************************************)
THEOREM FilesSavedWhenClosed ==
  ASSUME "O_EXCL" \notin Flag PROVE Spec => []SavedWhenClosed
<1>1. IInv => SavedWhenClosed
  BY IInvImplies
<1>2. QED
  BY <1>1, Invariance, PTL

=============================================================================

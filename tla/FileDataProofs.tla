--------------------------- MODULE FileDataProofs ---------------------------
(***************************************************************************)
(* Proofs about FileData, for every size of block, disk and file: no two   *)
(* pointers lead to one block, the bitmap marks exactly the blocks that    *)
(* are reached, and the superblock stays while blocks last.                *)
(***************************************************************************)
EXTENDS FileData, WellFoundedInduction, TLAPS

-----------------------------------------------------------------------------
(* The lowest free block *)

\* A set of natural numbers has a least one.
LEMMA HasMin ==
    ASSUME NEW T \in SUBSET Nat, T # {}
    PROVE  Min(T) \in T /\ \A y \in T : Min(T) <= y
<1> DEFINE R == OpToRel(<, Nat)
<1>1. IsWellFoundedOn(R, Nat)
  BY NatLessThanWellFounded
<1>2. R = {ss \in Nat \X Nat : ss[1] < ss[2]}
  BY DEF OpToRel
<1> HIDE DEF R
<1>3. PICK x \in T : \A y \in T : ~(<<y, x>> \in R)
  BY <1>1, WFMin, Zenon
<1>4. ASSUME NEW y \in T PROVE x <= y
  <2>1. <<y, x>> \in Nat \X Nat /\ x \in Nat /\ y \in Nat
    OBVIOUS
  <2>2. ~(y < x)
    BY <1>2, <1>3, <2>1
  <2>3. QED
    BY <2>1, <2>2
<1>5. QED
  BY <1>4, Zenon DEF Min

\* allocate_block gives a block that is not marked, and none only if all are.
LEMMA Allocates ==
    ASSUME ndataBlocks \in Nat, NEW used, used \subseteq Area
    PROVE  \/ allocate_block(used) = 0 /\ Area \subseteq used /\ Marked(used) = used
           \/ /\ allocate_block(used) \in Area \ used /\ allocate_block(used) # 0
              /\ Marked(used) = used \cup {allocate_block(used)}
<1>1. CASE Area \subseteq used
  BY <1>1 DEF allocate_block, Marked
<1>2. CASE ~(Area \subseteq used)
  <2>1. Area \ used \in SUBSET Nat /\ Area \ used # {}
    BY <1>2 DEF Area
  <2>2. Min(Area \ used) \in Area \ used
    BY <2>1, HasMin, Zenon
  <2>3. allocate_block(used) = Min(Area \ used)
    BY <1>2 DEF allocate_block
  <2>4. allocate_block(used) # 0
    BY <2>2, <2>3 DEF Area
  <2>5. QED
    BY <2>2, <2>3, <2>4, Zenon DEF Marked
<1>3. QED
  BY <1>1, <1>2

-----------------------------------------------------------------------------
(* The block map as a graph: ii stands for the inodes, st for the blocks    *)

Block == 1..ndataBlocks
Value == Byte \cup 0..ndataBlocks
Inode == [size : Nat, blocks : Nat, addrs : [Addrs -> 0..ndataBlocks]]

\* What points to other blocks: the index blocks of the inodes, and those the
\* double indirect ones point to.
IsDouble(ii, b)    == \E f \in Files : b = ii[f].addrs[NDIRECT + 2]
IsTop(ii, b)       == \E f \in Files, n \in NDIRECT .. NDIRECT + 2 : b = ii[f].addrs[n]
IsSub(ii, st, b)   == \E c \in Block, i \in Cells : IsDouble(ii, c) /\ b = st[c][i]
IsIndex(ii, st, b) == b \in Block /\ (IsTop(ii, b) \/ IsSub(ii, st, b))

\* Block a is reached from an inode, or from an index block.
FromInode(ii, a)     == \E f \in Files, n \in Addrs : a = ii[f].addrs[n]
FromIndex(ii, st, a) == \E b \in Block, i \in Cells : IsIndex(ii, st, b) /\ a = st[b][i]

Typed(ii, st, us) ==
    /\ ndataBlocks \in Nat /\ us \subseteq Block
    /\ ii \in [Files -> Inode]
    /\ st \in [0..ndataBlocks -> [Cells -> Value]]
    /\ \A b \in Block : IsIndex(ii, st, b) => st[b] \in [Cells -> 0..ndataBlocks]

Exclusive(ii, st) ==
    /\ \A f, g \in Files : \A m, n \in Addrs :
          ii[f].addrs[m] = ii[g].addrs[n] /\ ii[f].addrs[m] # 0 => f = g /\ m = n
    /\ \A b, c \in Block : \A i, j \in Cells :
          /\ IsIndex(ii, st, b) /\ IsIndex(ii, st, c)
          /\ st[b][i] = st[c][j] /\ st[b][i] # 0
          => b = c /\ i = j
    /\ \A a \in Block : ~(FromInode(ii, a) /\ FromIndex(ii, st, a))

Exact(ii, st, us) ==
    \A a \in Block : a \in us <=> FromInode(ii, a) \/ FromIndex(ii, st, a)

Good(ii, st, us) == Typed(ii, st, us) /\ Exclusive(ii, st) /\ Exact(ii, st, us)

\* What the assumptions say of the sizes.
LEMMA Sizes == /\ NDIRECT \in Nat \ {0} /\ BSIZE \in Nat \ {0} /\ IPTRS = BSIZE
               /\ NDIRECT + 2 \in Addrs /\ NDIRECT .. NDIRECT + 2 \subseteq Addrs
  BY FileAssumption DEF IPTRS, Addrs

\* A double indirect block is an index block, and no other pointer leads to it.
LEMMA Levels ==
    ASSUME NEW ii, NEW st, NEW us, Good(ii, st, us)
    PROVE  /\ \A b \in Block : IsDouble(ii, b) => IsIndex(ii, st, b) /\ ~IsSub(ii, st, b)
           /\ \A f \in Files, n \in NDIRECT .. NDIRECT + 1 :
                 ii[f].addrs[n] # 0 => ~IsDouble(ii, ii[f].addrs[n])
<1>1. ASSUME NEW b \in Block, IsDouble(ii, b) PROVE IsIndex(ii, st, b)
  BY <1>1, Sizes DEF IsDouble, IsIndex, IsTop
<1>2. ASSUME NEW b \in Block, IsDouble(ii, b), IsSub(ii, st, b) PROVE FALSE
  <2>1. FromInode(ii, b)
    BY <1>2, Sizes DEF IsDouble, FromInode
  <2>2. FromIndex(ii, st, b)
    BY <1>1, <1>2 DEF IsSub, FromIndex
  <2>3. QED
    BY <2>1, <2>2 DEF Good, Exclusive
<1>3. ASSUME NEW f \in Files, NEW n \in NDIRECT .. NDIRECT + 1, ii[f].addrs[n] # 0,
             IsDouble(ii, ii[f].addrs[n])
      PROVE  FALSE
  <2>1. PICK g \in Files : ii[f].addrs[n] = ii[g].addrs[NDIRECT + 2]
    BY <1>3 DEF IsDouble
  <2>2. n \in Addrs /\ NDIRECT + 2 \in Addrs /\ n # NDIRECT + 2
    BY Sizes
  <2>3. \A m, k \in Addrs : ii[f].addrs[m] = ii[g].addrs[k] /\ ii[f].addrs[m] # 0
                           => f = g /\ m = k
    BY DEF Good, Exclusive
  <2>4. QED
    BY <1>3, <2>1, <2>2, <2>3, Zenon
<1>4. QED
  BY <1>1, <1>2, <1>3

-----------------------------------------------------------------------------
(* What the steps of bmap do to the graph.  In the names below, a is a free *)
(* block, ii2 and st2 are the inodes and blocks after the step.             *)

\* A block the bitmap does not mark is reached by no pointer.
LEMMA Free ==
    ASSUME NEW ii, NEW st, NEW us, Good(ii, st, us), NEW a \in Block \ us
    PROVE  /\ ~FromInode(ii, a) /\ ~FromIndex(ii, st, a) /\ ~IsIndex(ii, st, a)
           /\ ~IsDouble(ii, a)
<1>1. ~FromInode(ii, a) /\ ~FromIndex(ii, st, a)
  BY DEF Good, Exact
<1>2. ~IsDouble(ii, a) /\ ~IsTop(ii, a)
  BY <1>1, Sizes DEF FromInode, IsDouble, IsTop
<1>3. ~IsSub(ii, st, a)
  BY <1>1, Levels DEF FromIndex, IsSub
<1>4. QED
  BY <1>1, <1>2, <1>3 DEF IsIndex

\* Blocks that hold no pointers can be written without harm.
LEMMA WriteOther ==
    ASSUME NEW ii, NEW st, NEW us, Good(ii, st, us),
           NEW st2 \in [0..ndataBlocks -> [Cells -> Value]],
           \A b \in Block : IsIndex(ii, st, b) => st2[b] = st[b]
    PROVE  Good(ii, st2, us)
<1>1. \A b \in Block : IsDouble(ii, b) => IsIndex(ii, st, b)
  BY Levels
<1>2. \A b : IsSub(ii, st2, b) <=> IsSub(ii, st, b)
  BY <1>1 DEF IsSub
<1>3. \A b : IsIndex(ii, st2, b) <=> IsIndex(ii, st, b)
  BY <1>2 DEF IsIndex
<1>4. \A b : FromIndex(ii, st2, b) <=> FromIndex(ii, st, b)
  BY <1>3 DEF FromIndex
<1>5. Typed(ii, st2, us)
  BY <1>3 DEF Good, Typed
<1>6. Exclusive(ii, st2)
  <2>1. \A b, c \in Block : \A i, j \in Cells :
          /\ IsIndex(ii, st2, b) /\ IsIndex(ii, st2, c)
          /\ st2[b][i] = st2[c][j] /\ st2[b][i] # 0
          => b = c /\ i = j
    BY <1>3 DEF Good, Exclusive
  <2>2. QED
    BY <1>4, <2>1 DEF Good, Exclusive
<1>7. Exact(ii, st2, us)
  BY <1>4 DEF Good, Exact
<1>8. QED
  BY <1>5, <1>6, <1>7 DEF Good

\* A new direct or index pointer of an inode: a at place n of file f.  A new
\* index block is cleared.
AddsAddr(ii, st, us, f, n, a, ii2, st2) ==
    /\ a \in Block \ us /\ f \in Files /\ n \in Addrs
    /\ ii2 \in [Files -> Inode] /\ st2 \in [0..ndataBlocks -> [Cells -> Value]]
    /\ ii[f].addrs[n] = 0 /\ ii2[f].addrs[n] = a
    /\ \A g \in Files, m \in Addrs :
          ~(g = f /\ m = n) => ii2[g].addrs[m] = ii[g].addrs[m]
    /\ \A b \in Block : b # a => st2[b] = st[b]
    /\ n >= NDIRECT => \A i \in Cells : st2[a][i] = 0

\* A new address leaves the graph as it should be, block a now marked.
LEMMA AddAddr ==
    ASSUME NEW ii, NEW st, NEW us, NEW f, NEW n, NEW a, NEW ii2, NEW st2,
           Good(ii, st, us), AddsAddr(ii, st, us, f, n, a, ii2, st2)
    PROVE  Good(ii2, st2, us \cup {a})
<1> /\ a \in Block \ us /\ f \in Files /\ n \in Addrs
    /\ ii2 \in [Files -> Inode] /\ st2 \in [0..ndataBlocks -> [Cells -> Value]]
  BY DEF AddsAddr
<1> /\ ii[f].addrs[n] = 0 /\ ii2[f].addrs[n] = a
    /\ \A g \in Files, m \in Addrs :
          ~(g = f /\ m = n) => ii2[g].addrs[m] = ii[g].addrs[m]
  BY DEF AddsAddr
<1> /\ \A b \in Block : b # a => st2[b] = st[b]
    /\ n >= NDIRECT => \A i \in Cells : st2[a][i] = 0
  BY DEF AddsAddr
<1>1. /\ ~FromInode(ii, a) /\ ~FromIndex(ii, st, a) /\ ~IsIndex(ii, st, a)
      /\ ~IsDouble(ii, a)
  BY Free
<1>2. ASSUME NEW b \in Block
      PROVE  /\ IsDouble(ii2, b) <=> IsDouble(ii, b) \/ (n = NDIRECT + 2 /\ b = a)
             /\ IsTop(ii2, b) <=> IsTop(ii, b) \/ (n >= NDIRECT /\ b = a)
             /\ FromInode(ii2, b) <=> FromInode(ii, b) \/ b = a
  <2>1. IsDouble(ii2, b) <=> IsDouble(ii, b) \/ (n = NDIRECT + 2 /\ b = a)
    BY Sizes DEF IsDouble, Block
  <2>2. IsTop(ii2, b) <=> IsTop(ii, b) \/ (n >= NDIRECT /\ b = a)
    BY Sizes DEF IsTop, Block, Addrs
  <2>3. FromInode(ii2, b) <=> FromInode(ii, b) \/ b = a
    BY DEF FromInode, Block
  <2>4. QED
    BY <2>1, <2>2, <2>3
<1>3. ASSUME NEW b \in Block PROVE IsSub(ii2, st2, b) <=> IsSub(ii, st, b)
  <2>1. ASSUME NEW c \in Block, NEW i \in Cells, IsDouble(ii2, c), b = st2[c][i]
        PROVE  IsDouble(ii, c) /\ b = st[c][i]
    <3>1. IsDouble(ii, c) \/ (n = NDIRECT + 2 /\ c = a)
      BY <1>2, <2>1
    <3>2. c # a
      <4>1. SUFFICES ASSUME c = a PROVE FALSE
        OBVIOUS
      <4>2. n >= NDIRECT
        BY <1>1, <3>1, <4>1, Sizes
      <4>3. st2[c][i] = 0
        BY <4>1, <4>2
      <4>4. QED
        BY <2>1, <4>3 DEF Block
    <3>3. QED
      BY <2>1, <3>1, <3>2
  <2>2. ASSUME NEW c \in Block, NEW i \in Cells, IsDouble(ii, c), b = st[c][i]
        PROVE  IsDouble(ii2, c) /\ b = st2[c][i]
    BY <1>1, <1>2, <2>2
  <2>3. QED
    BY <2>1, <2>2 DEF IsSub
<1>4. ASSUME NEW b \in Block
      PROVE  IsIndex(ii2, st2, b) <=> IsIndex(ii, st, b) \/ (n >= NDIRECT /\ b = a)
  BY <1>2, <1>3 DEF IsIndex
<1>5. ASSUME NEW b \in Block, IsIndex(ii2, st2, b), NEW i \in Cells, st2[b][i] # 0
      PROVE  b # a /\ IsIndex(ii, st, b) /\ st2[b] = st[b]
  BY <1>1, <1>4, <1>5
<1>6. ASSUME NEW b \in Block PROVE FromIndex(ii2, st2, b) <=> FromIndex(ii, st, b)
  <2>1. ASSUME NEW c \in Block, NEW i \in Cells, IsIndex(ii2, st2, c), b = st2[c][i]
        PROVE  IsIndex(ii, st, c) /\ b = st[c][i]
    BY <1>5, <2>1 DEF Block
  <2>2. ASSUME NEW c \in Block, NEW i \in Cells, IsIndex(ii, st, c), b = st[c][i]
        PROVE  IsIndex(ii2, st2, c) /\ b = st2[c][i]
    BY <1>1, <1>4, <2>2
  <2>3. QED
    BY <2>1, <2>2 DEF FromIndex
<1>7. Typed(ii2, st2, us \cup {a})
  <2>1. ASSUME NEW b \in Block, IsIndex(ii2, st2, b)
        PROVE  st2[b] \in [Cells -> 0..ndataBlocks]
    <3>1. CASE b # a
      BY <1>4, <2>1, <3>1 DEF Good, Typed
    <3>2. CASE b = a
      <4>1. n >= NDIRECT
        BY <1>1, <1>4, <2>1, <3>2
      <4>2. st2[b] \in [Cells -> Value] /\ ndataBlocks \in Nat
        BY DEF Block, Good, Typed
      <4>3. QED
        BY <3>2, <4>1, <4>2
    <3>3. QED
      BY <3>1, <3>2
  <2>2. QED
    BY <2>1 DEF Good, Typed
<1>8. Exclusive(ii2, st2)
  <2>1. ASSUME NEW g \in Files, NEW h \in Files, NEW m \in Addrs, NEW k \in Addrs,
               ii2[g].addrs[m] = ii2[h].addrs[k], ii2[g].addrs[m] # 0
        PROVE  g = h /\ m = k
    <3>1. /\ ii[g].addrs[m] # a /\ ii[h].addrs[k] # a
      BY <1>1 DEF FromInode
    <3>2. ii[g].addrs[m] = ii[h].addrs[k] /\ ii[g].addrs[m] # 0 => g = h /\ m = k
      BY DEF Good, Exclusive
    <3>3. QED
      BY <2>1, <3>1, <3>2
  <2>2. ASSUME NEW b \in Block, NEW c \in Block, NEW i \in Cells, NEW j \in Cells,
               IsIndex(ii2, st2, b), IsIndex(ii2, st2, c),
               st2[b][i] = st2[c][j], st2[b][i] # 0
        PROVE  b = c /\ i = j
    BY <1>5, <2>2 DEF Good, Exclusive
  <2>3. ASSUME NEW b \in Block PROVE ~(FromInode(ii2, b) /\ FromIndex(ii2, st2, b))
    BY <1>1, <1>2, <1>6 DEF Good, Exclusive
  <2>4. QED
    BY <2>1, <2>2, <2>3 DEF Exclusive
<1>9. Exact(ii2, st2, us \cup {a})
  BY <1>2, <1>6 DEF Good, Exact
<1>10. QED
  BY <1>7, <1>8, <1>9 DEF Good

\* A new pointer a at place k of index block p: to a data block or, if p is a
\* double indirect block, to an index block, which is cleared.
AddsPtr(ii, st, us, p, k, a, st2) ==
    /\ a \in Block \ us /\ p \in Block /\ k \in Cells
    /\ st2 \in [0..ndataBlocks -> [Cells -> Value]]
    /\ IsIndex(ii, st, p) /\ st[p][k] = 0 /\ st2[p][k] = a
    /\ \A i \in Cells \ {k} : st2[p][i] = st[p][i]
    /\ \A b \in Block : b # a /\ b # p => st2[b] = st[b]
    /\ IsDouble(ii, p) => \A i \in Cells : st2[a][i] = 0

\* So does a new pointer in an index block.
LEMMA AddPtr ==
    ASSUME NEW ii, NEW st, NEW us, NEW p, NEW k, NEW a, NEW st2,
           Good(ii, st, us), AddsPtr(ii, st, us, p, k, a, st2)
    PROVE  Good(ii, st2, us \cup {a})
<1> /\ a \in Block \ us /\ p \in Block /\ k \in Cells
    /\ st2 \in [0..ndataBlocks -> [Cells -> Value]]
  BY DEF AddsPtr
<1> /\ IsIndex(ii, st, p) /\ st[p][k] = 0 /\ st2[p][k] = a
    /\ \A i \in Cells \ {k} : st2[p][i] = st[p][i]
  BY DEF AddsPtr
<1> /\ \A b \in Block : b # a /\ b # p => st2[b] = st[b]
    /\ IsDouble(ii, p) => \A i \in Cells : st2[a][i] = 0
  BY DEF AddsPtr
<1>1. /\ ~FromInode(ii, a) /\ ~FromIndex(ii, st, a) /\ ~IsIndex(ii, st, a)
      /\ ~IsDouble(ii, a) /\ ~IsTop(ii, a)
  BY Free DEF IsIndex
<1>2. p # a
  BY <1>1
<1>3. ASSUME NEW b \in Block
      PROVE  IsSub(ii, st2, b) <=> IsSub(ii, st, b) \/ (IsDouble(ii, p) /\ b = a)
  <2>1. ASSUME NEW c \in Block, NEW i \in Cells, IsDouble(ii, c), b = st2[c][i]
        PROVE  b = st[c][i] \/ (IsDouble(ii, p) /\ b = a)
    BY <1>1, <2>1
  <2>2. ASSUME NEW c \in Block, NEW i \in Cells, IsDouble(ii, c), b = st[c][i]
        PROVE  b = st2[c][i]
    BY <1>1, <2>2 DEF Block
  <2>3. a = st2[p][k]
    OBVIOUS
  <2>4. QED
    BY <2>1, <2>2, <2>3 DEF IsSub
<1>4. ASSUME NEW b \in Block
      PROVE  IsIndex(ii, st2, b) <=> IsIndex(ii, st, b) \/ (IsDouble(ii, p) /\ b = a)
  BY <1>3 DEF IsIndex
<1>5. ASSUME NEW b \in Block, IsIndex(ii, st2, b), NEW i \in Cells, st2[b][i] # 0
      PROVE  /\ b # a /\ IsIndex(ii, st, b)
             /\ (b = p /\ i = k) \/ st2[b][i] = st[b][i]
  BY <1>1, <1>4, <1>5
<1>6. ASSUME NEW b \in Block
      PROVE  FromIndex(ii, st2, b) <=> FromIndex(ii, st, b) \/ b = a
  <2>1. ASSUME NEW c \in Block, NEW i \in Cells, IsIndex(ii, st2, c), b = st2[c][i]
        PROVE  b = a \/ (IsIndex(ii, st, c) /\ b = st[c][i])
    <3>1. st2[c][i] # 0
      BY <2>1 DEF Block
    <3>2. IsIndex(ii, st, c) /\ ((c = p /\ i = k) \/ st2[c][i] = st[c][i])
      BY <1>5, <2>1, <3>1
    <3>3. st2[p][k] = a
      OBVIOUS
    <3>4. QED
      BY <2>1, <3>2, <3>3
  <2>2. ASSUME NEW c \in Block, NEW i \in Cells, IsIndex(ii, st, c), b = st[c][i]
        PROVE  IsIndex(ii, st2, c) /\ b = st2[c][i]
    BY <1>1, <1>4, <2>2 DEF Block
  <2>3. a = st2[p][k] /\ IsIndex(ii, st2, p)
    BY <1>4
  <2>4. QED
    BY <2>1, <2>2, <2>3 DEF FromIndex
<1>7. Typed(ii, st2, us \cup {a})
  <2>1. ASSUME NEW b \in Block, IsIndex(ii, st2, b)
        PROVE  st2[b] \in [Cells -> 0..ndataBlocks]
    <3>1. st2[b] \in [Cells -> Value] /\ ndataBlocks \in Nat
      BY DEF Block, Good, Typed
    <3>2. CASE b # a /\ b # p
      BY <1>4, <2>1, <3>2 DEF Good, Typed
    <3>3. CASE b = p
      <4>1. st[p] \in [Cells -> 0..ndataBlocks]
        BY DEF Good, Typed
      <4>2. QED
        BY <3>1, <3>3, <4>1 DEF Block
    <3>4. CASE b = a
      BY <1>1, <1>4, <2>1, <3>1, <3>4
    <3>5. QED
      BY <3>2, <3>3, <3>4
  <2>2. QED
    BY <2>1 DEF Good, Typed
<1>8. Exclusive(ii, st2)
  <2>1. ASSUME NEW b \in Block, NEW c \in Block, NEW i \in Cells, NEW j \in Cells,
               IsIndex(ii, st2, b), IsIndex(ii, st2, c),
               st2[b][i] = st2[c][j], st2[b][i] # 0
        PROVE  b = c /\ i = j
    <3>1. /\ IsIndex(ii, st, b) /\ IsIndex(ii, st, c)
          /\ (b = p /\ i = k) \/ st2[b][i] = st[b][i]
          /\ (c = p /\ j = k) \/ st2[c][j] = st[c][j]
      BY <1>5, <2>1
    <3>2. st[b][i] # a /\ st[c][j] # a
      BY <1>1, <3>1 DEF FromIndex
    <3>3. st[b][i] = st[c][j] /\ st[b][i] # 0 => b = c /\ i = j
      BY <3>1 DEF Good, Exclusive
    <3>4. QED
      BY <2>1, <3>1, <3>2, <3>3
  <2>2. ASSUME NEW b \in Block PROVE ~(FromInode(ii, b) /\ FromIndex(ii, st2, b))
    BY <1>1, <1>6 DEF Good, Exclusive
  <2>3. QED
    BY <2>1, <2>2 DEF Exclusive, Good
<1>9. Exact(ii, st2, us \cup {a})
  BY <1>6 DEF Good, Exact
<1>10. QED
  BY <1>7, <1>8, <1>9 DEF Good

-----------------------------------------------------------------------------
(* The steps of bmap, on file f: what they leave is Good if the inode they  *)
(* work on is put in its place.                                             *)

\* While a block is free no write has been made to block 0.
Kept(s) == Block \ s.used # {} => s.store[0] = Superblock

Stage(ii, f, s) ==
    /\ ii \in [Files -> Inode]
    /\ s \in [ip : Inode, store : [0..ndataBlocks -> [Cells -> Value]], used : SUBSET Block]
    /\ Good([ii EXCEPT ![f] = s.ip], s.store, s.used)
    /\ Kept(s)

\* Sizes and counts of blocks do not matter.
LEMMA SameAddrs ==
    ASSUME NEW ii, NEW st, NEW us, Good(ii, st, us), NEW ii2 \in [Files -> Inode],
           \A g \in Files, m \in Addrs : ii2[g].addrs[m] = ii[g].addrs[m]
    PROVE  /\ Good(ii2, st, us)
           /\ \A b : IsDouble(ii2, b) <=> IsDouble(ii, b)
           /\ \A b : IsIndex(ii2, st, b) <=> IsIndex(ii, st, b)
<1>1. \A b : IsDouble(ii2, b) <=> IsDouble(ii, b)
  BY Sizes DEF IsDouble
<1>2. \A b : IsTop(ii2, b) <=> IsTop(ii, b)
  BY Sizes DEF IsTop
<1>3. \A b : IsIndex(ii2, st, b) <=> IsIndex(ii, st, b)
  BY <1>1, <1>2 DEF IsIndex, IsSub
<1>4. \A b : FromInode(ii2, b) <=> FromInode(ii, b)
  BY DEF FromInode
<1>5. \A b : FromIndex(ii2, st, b) <=> FromIndex(ii, st, b)
  BY <1>3 DEF FromIndex
<1>6. Typed(ii2, st, us)
  BY <1>3 DEF Good, Typed
<1>7. Exclusive(ii2, st)
  <2>1. \A f, g \in Files : \A m, n \in Addrs :
          ii2[f].addrs[m] = ii2[g].addrs[n] /\ ii2[f].addrs[m] # 0 => f = g /\ m = n
    BY DEF Good, Exclusive
  <2>2. \A b, c \in Block : \A i, j \in Cells :
          /\ IsIndex(ii2, st, b) /\ IsIndex(ii2, st, c)
          /\ st[b][i] = st[c][j] /\ st[b][i] # 0
          => b = c /\ i = j
    BY <1>3 DEF Good, Exclusive
  <2>3. \A a \in Block : ~(FromInode(ii2, a) /\ FromIndex(ii2, st, a))
    BY <1>4, <1>5 DEF Good, Exclusive
  <2>4. QED
    BY <2>1, <2>2, <2>3 DEF Exclusive
<1>8. Exact(ii2, st, us)
  BY <1>4, <1>5 DEF Good, Exact
<1>9. QED
  BY <1>1, <1>3, <1>6, <1>7, <1>8 DEF Good

\* What allocate_block returns at a stage.
LEMMA StageAllocates ==
    ASSUME NEW ii, NEW f \in Files, NEW s, Stage(ii, f, s)
    PROVE  /\ ndataBlocks \in Nat /\ allocate_block(s.used) \in 0..ndataBlocks
           /\ \/ /\ allocate_block(s.used) = 0 /\ Marked(s.used) = s.used
                 /\ Block \subseteq s.used
              \/ /\ allocate_block(s.used) \in Block \ s.used
                 /\ allocate_block(s.used) \in 0..ndataBlocks
                 /\ allocate_block(s.used) # 0
                 /\ Marked(s.used) = s.used \cup {allocate_block(s.used)}
<1>1. ndataBlocks \in Nat /\ s.used \subseteq Area /\ Area = Block
  BY DEF Stage, Good, Typed, Area, Block
<1>2. Block \subseteq 0..ndataBlocks
  BY <1>1 DEF Block
<1>3. \/ /\ allocate_block(s.used) = 0 /\ Marked(s.used) = s.used
         /\ Area \subseteq s.used
      \/ /\ allocate_block(s.used) \in Area \ s.used /\ allocate_block(s.used) # 0
         /\ Marked(s.used) = s.used \cup {allocate_block(s.used)}
  BY <1>1, Allocates
<1>4. 0 \in 0..ndataBlocks
  BY <1>1
<1>5. allocate_block(s.used) \in 0..ndataBlocks
  BY <1>1, <1>2, <1>3, <1>4
<1>6. QED
  BY <1>1, <1>3, <1>5

\* ii2 and st2 have the pointers of ii and st.
SamePtrs(ii, st, ii2, st2) ==
    /\ ii2 \in [Files -> Inode] /\ st2 \in [0..ndataBlocks -> [Cells -> Value]]
    /\ \A g \in Files, m \in Addrs : ii2[g].addrs[m] = ii[g].addrs[m]
    /\ \A b \in Block : IsIndex(ii, st, b) => st2[b] = st[b]

\* Then the graph is as it should be.
LEMMA SameGood ==
    ASSUME NEW ii, NEW st, NEW us, NEW ii2, NEW st2, Good(ii, st, us),
           SamePtrs(ii, st, ii2, st2)
    PROVE  Good(ii2, st2, us)
<1>1. /\ ii2 \in [Files -> Inode] /\ st2 \in [0..ndataBlocks -> [Cells -> Value]]
      /\ \A g \in Files, m \in Addrs : ii2[g].addrs[m] = ii[g].addrs[m]
      /\ \A b \in Block : IsIndex(ii, st, b) => st2[b] = st[b]
  BY DEF SamePtrs
<1>2. Good(ii2, st, us) /\ \A b : IsIndex(ii2, st, b) <=> IsIndex(ii, st, b)
  BY <1>1, SameAddrs
<1>3. \A b \in Block : IsIndex(ii2, st, b) => st2[b] = st[b]
  BY <1>1, <1>2
<1>4. QED
  BY <1>1, <1>2, <1>3, WriteOther

\* The inode with a new address.
LEMMA NewAddr ==
    ASSUME NEW s, s.ip \in Inode, NEW n \in Addrs, ndataBlocks \in Nat,
           NEW a \in 0..ndataBlocks, a = allocate_block(s.used)
    PROVE  /\ AllocAddr(s, n).ip \in Inode /\ AllocAddr(s, n).ip.size = s.ip.size
           /\ AllocAddr(s, n).ip.addrs[n] = a
           /\ \A m \in Addrs : m # n => AllocAddr(s, n).ip.addrs[m] = s.ip.addrs[m]
<1> DEFINE t == AllocAddr(s, n).ip
<1>1. t = [size |-> s.ip.size, blocks |-> s.ip.blocks + 1,
           addrs |-> [s.ip.addrs EXCEPT ![n] = a]]
  BY DEF AllocAddr
<1>2. t \in Inode /\ t.size = s.ip.size
  BY <1>1 DEF Inode
<1>3. s.ip.addrs \in [Addrs -> 0..ndataBlocks]
  BY DEF Inode
<1>4. t.addrs = [s.ip.addrs EXCEPT ![n] = a]
  BY <1>1
<1> HIDE DEF t
<1>5. t.addrs[n] = a /\ \A m \in Addrs : m # n => t.addrs[m] = s.ip.addrs[m]
  BY <1>3, <1>4
<1>6. QED
  BY <1>2, <1>5 DEF t

\* allocate_block for an address of the inode adds it to the graph, or leaves
\* the graph alone when no block is free.
LEMMA AllocAddrAdds ==
    ASSUME NEW ii, NEW f \in Files, NEW s, Stage(ii, f, s), NEW n \in Addrs,
           s.ip.addrs[n] = 0, NEW st2 \in [0..ndataBlocks -> [Cells -> Value]],
           NEW a, a = allocate_block(s.used),
           \A b \in 0..ndataBlocks : b # a => st2[b] = s.store[b],
           a # 0 /\ n >= NDIRECT => \A i \in Cells : st2[a][i] = 0,
           NEW t \in Inode, t.addrs[n] = a,
           \A m \in Addrs : m # n => t.addrs[m] = s.ip.addrs[m]
    PROVE  \/ a = 0 /\ SamePtrs([ii EXCEPT ![f] = s.ip], s.store, [ii EXCEPT ![f] = t], st2)
           \/ /\ a # 0
              /\ AddsAddr([ii EXCEPT ![f] = s.ip], s.store, s.used, f, n, a,
                          [ii EXCEPT ![f] = t], st2)
<1> DEFINE ii1 == [ii EXCEPT ![f] = s.ip]
           ii2 == [ii EXCEPT ![f] = t]
<1>1. /\ ndataBlocks \in Nat
      /\ \/ a = 0 /\ Marked(s.used) = s.used /\ Block \subseteq s.used
         \/ /\ a \in Block \ s.used /\ a \in 0..ndataBlocks /\ a # 0
            /\ Marked(s.used) = s.used \cup {a}
  BY StageAllocates
<1>2. ii \in [Files -> Inode] /\ s.ip \in Inode
  BY DEF Stage
<1>3. ii2 \in [Files -> Inode]
  BY <1>2
<1>4. /\ ii1[f].addrs[n] = 0 /\ ii2[f].addrs[n] = a
      /\ \A g \in Files, m \in Addrs :
           ~(g = f /\ m = n) => ii2[g].addrs[m] = ii1[g].addrs[m]
  BY <1>2
<1> HIDE DEF ii1, ii2
<1>5. CASE a = 0
  <2>1. \A g \in Files, m \in Addrs : ii2[g].addrs[m] = ii1[g].addrs[m]
    BY <1>4, <1>5
  <2>2. \A b \in Block : st2[b] = s.store[b]
    BY <1>1, <1>5 DEF Block
  <2>3. SamePtrs(ii1, s.store, ii2, st2)
    BY <1>3, <2>1, <2>2 DEF SamePtrs
  <2>4. QED
    BY <1>5, <2>3 DEF ii1, ii2
<1>6. CASE a # 0
  <2>1. a \in Block \ s.used
    BY <1>1, <1>6
  <2>2. \A b \in Block : b # a => st2[b] = s.store[b]
    BY <1>1 DEF Block
  <2>3. n >= NDIRECT => \A i \in Cells : st2[a][i] = 0
    BY <1>6
  <2>4. AddsAddr(ii1, s.store, s.used, f, n, a, ii2, st2)
    BY <1>3, <1>4, <2>1, <2>2, <2>3 DEF AddsAddr
  <2>5. QED
    BY <1>6, <2>4 DEF ii1, ii2
<1>7. QED
  BY <1>5, <1>6

\* It leaves a stage, whether it finds a block or not.
LEMMA AllocAddrStage ==
    ASSUME NEW ii, NEW f \in Files, NEW s, Stage(ii, f, s), NEW n \in Addrs,
           s.ip.addrs[n] = 0, NEW st2 \in [0..ndataBlocks -> [Cells -> Value]],
           NEW a, a = allocate_block(s.used),
           \A b \in 0..ndataBlocks : b # a => st2[b] = s.store[b],
           a # 0 /\ n >= NDIRECT => \A i \in Cells : st2[a][i] = 0
    PROVE  Stage(ii, f, [ip |-> AllocAddr(s, n).ip, store |-> st2, used |-> Marked(s.used)])
<1> DEFINE t   == AllocAddr(s, n).ip
           ii1 == [ii EXCEPT ![f] = s.ip]
           ii2 == [ii EXCEPT ![f] = t]
           r   == [ip |-> t, store |-> st2, used |-> Marked(s.used)]
<1>1. /\ ndataBlocks \in Nat
      /\ \/ a = 0 /\ Marked(s.used) = s.used /\ Block \subseteq s.used
         \/ /\ a \in Block \ s.used /\ a \in 0..ndataBlocks /\ a # 0
            /\ Marked(s.used) = s.used \cup {a}
  BY StageAllocates
<1>2. /\ ii \in [Files -> Inode] /\ s.used \in SUBSET Block
      /\ Good(ii1, s.store, s.used) /\ Kept(s)
  BY DEF Stage
<1>3. /\ t \in Inode /\ t.size = s.ip.size /\ t.addrs[n] = a
      /\ \A m \in Addrs : m # n => t.addrs[m] = s.ip.addrs[m]
  <2>1. a \in 0..ndataBlocks /\ s.ip \in Inode
    BY <1>1 DEF Stage
  <2>2. QED
    BY <1>1, <2>1, NewAddr
<1> HIDE DEF t
<1>4. \/ a = 0 /\ SamePtrs(ii1, s.store, ii2, st2)
      \/ a # 0 /\ AddsAddr(ii1, s.store, s.used, f, n, a, ii2, st2)
  BY <1>3, AllocAddrAdds, Zenon
<1>5. Good(ii2, st2, Marked(s.used))
  <2> HIDE DEF ii1, ii2
  <2>1. CASE a = 0
    BY <1>1, <1>2, <1>4, <2>1, SameGood
  <2>2. CASE a # 0
    <3>1. Good(ii2, st2, s.used \cup {a})
      BY <1>2, <1>4, <2>2, AddAddr
    <3>2. QED
      BY <1>1, <2>2, <3>1
  <2>3. QED
    BY <2>1, <2>2
<1>6. Kept(r)
  BY <1>1, <1>2 DEF Kept
<1>7. QED
  BY <1>1, <1>2, <1>3, <1>5, <1>6 DEF Stage, t

\* Counting a block changes nothing else.
LEMMA CountUp ==
    ASSUME NEW x \in Inode
    PROVE  /\ [x EXCEPT !.blocks = x.blocks + 1] \in Inode
           /\ [x EXCEPT !.blocks = x.blocks + 1].addrs = x.addrs
           /\ [x EXCEPT !.blocks = x.blocks + 1].size = x.size
  BY DEF Inode

\* The blocks st2 are those of the stage but for a at place k of block p, and,
\* if p is a double indirect block, the new block a, which is cleared.
PointsTo(ii, f, s, p, k, a, st2) ==
    /\ st2 \in [0..ndataBlocks -> [Cells -> Value]]
    /\ \A b \in 0..ndataBlocks : b # a /\ b # p => st2[b] = s.store[b]
    /\ st2[p][k] = a /\ \A i \in Cells \ {k} : st2[p][i] = s.store[p][i]
    /\ a # 0 /\ IsDouble([ii EXCEPT ![f] = s.ip], p) => \A i \in Cells : st2[a][i] = 0

\* allocate_block for a pointer of an index block, likewise.
LEMMA AllocPtrAdds ==
    ASSUME NEW ii, NEW f \in Files, NEW s, Stage(ii, f, s),
           NEW p \in Block, NEW k \in Cells, s.store[p][k] = 0,
           IsIndex([ii EXCEPT ![f] = s.ip], s.store, p),
           NEW st2, NEW a, a = allocate_block(s.used), PointsTo(ii, f, s, p, k, a, st2),
           NEW t \in Inode, t.addrs = s.ip.addrs
    PROVE  /\ SamePtrs([ii EXCEPT ![f] = s.ip], s.store, [ii EXCEPT ![f] = t], s.store)
           /\ \/ /\ a = 0
                 /\ SamePtrs([ii EXCEPT ![f] = t], s.store, [ii EXCEPT ![f] = t], st2)
              \/ a # 0 /\ AddsPtr([ii EXCEPT ![f] = t], s.store, s.used, p, k, a, st2)
<1> /\ st2 \in [0..ndataBlocks -> [Cells -> Value]]
    /\ \A b \in 0..ndataBlocks : b # a /\ b # p => st2[b] = s.store[b]
    /\ st2[p][k] = a /\ \A i \in Cells \ {k} : st2[p][i] = s.store[p][i]
    /\ a # 0 /\ IsDouble([ii EXCEPT ![f] = s.ip], p) => \A i \in Cells : st2[a][i] = 0
  BY DEF PointsTo
<1> DEFINE ii1 == [ii EXCEPT ![f] = s.ip]
           ii2 == [ii EXCEPT ![f] = t]
<1>1. ndataBlocks \in Nat /\ (a = 0 \/ a \in Block \ s.used)
  BY StageAllocates, Zenon
<1>2. /\ ii \in [Files -> Inode] /\ s.ip \in Inode
      /\ Good(ii1, s.store, s.used)
      /\ s.store \in [0..ndataBlocks -> [Cells -> Value]]
  BY DEF Stage
<1>3. ii2 \in [Files -> Inode]
  BY <1>2
<1>4. \A g \in Files, m \in Addrs : ii2[g].addrs[m] = ii1[g].addrs[m]
  BY <1>2
<1>5. IsIndex(ii1, s.store, p) /\ (a # 0 /\ IsDouble(ii1, p) => \A i \in Cells : st2[a][i] = 0)
  OBVIOUS
<1> HIDE DEF ii1, ii2
<1>6. SamePtrs(ii1, s.store, ii2, s.store)
  BY <1>2, <1>3, <1>4 DEF SamePtrs
<1>7. CASE a = 0
  <2>1. \A b \in Block : b # p => st2[b] = s.store[b]
    BY <1>1, <1>7 DEF Block
  <2>2. p \in 0..ndataBlocks
    BY <1>1 DEF Block
  <2>3. st2[p] = s.store[p]
    <3>1. st2[p] \in [Cells -> Value] /\ s.store[p] \in [Cells -> Value]
      BY <1>2, <2>2
    <3>2. \A i \in Cells : st2[p][i] = s.store[p][i]
      BY <1>7
    <3>3. QED
      BY <3>1, <3>2
  <2>4. SamePtrs(ii2, s.store, ii2, st2)
    BY <1>3, <2>1, <2>3 DEF SamePtrs
  <2>5. QED
    BY <1>6, <1>7, <2>4 DEF ii1, ii2
<1>8. CASE a # 0
  <2>1. (IsDouble(ii2, p) <=> IsDouble(ii1, p)) /\ IsIndex(ii2, s.store, p)
    BY <1>2, <1>3, <1>4, <1>5, SameAddrs
  <2>2. a \in Block \ s.used
    BY <1>1, <1>8
  <2>3. \A b \in Block : b # a /\ b # p => st2[b] = s.store[b]
    BY <1>1 DEF Block
  <2>4. IsDouble(ii2, p) => \A i \in Cells : st2[a][i] = 0
    BY <1>5, <1>8, <2>1
  <2>5. AddsPtr(ii2, s.store, s.used, p, k, a, st2)
    BY <2>1, <2>2, <2>3, <2>4 DEF AddsPtr
  <2>6. QED
    BY <1>6, <1>8, <2>5 DEF ii1, ii2
<1>9. QED
  BY <1>7, <1>8

\* And it leaves a stage.
LEMMA AllocPtrStage ==
    ASSUME NEW ii, NEW f \in Files, NEW s, Stage(ii, f, s),
           NEW p \in Block, NEW k \in Cells, s.store[p][k] = 0,
           IsIndex([ii EXCEPT ![f] = s.ip], s.store, p),
           NEW st2, NEW a, a = allocate_block(s.used), PointsTo(ii, f, s, p, k, a, st2)
    PROVE  Stage(ii, f, [ip    |-> [s.ip EXCEPT !.blocks = s.ip.blocks + 1],
                         store |-> st2,
                         used  |-> Marked(s.used)])
<1> DEFINE t   == [s.ip EXCEPT !.blocks = s.ip.blocks + 1]
           ii1 == [ii EXCEPT ![f] = s.ip]
           ii2 == [ii EXCEPT ![f] = t]
           r   == [ip |-> t, store |-> st2, used |-> Marked(s.used)]
<1>1. /\ ndataBlocks \in Nat
      /\ \/ a = 0 /\ Marked(s.used) = s.used /\ Block \subseteq s.used
         \/ /\ a \in Block \ s.used /\ a # 0
            /\ Marked(s.used) = s.used \cup {a}
  BY StageAllocates, Zenon
<1>2. /\ ii \in [Files -> Inode] /\ s.used \in SUBSET Block
      /\ Good(ii1, s.store, s.used) /\ Kept(s)
  BY DEF Stage
<1>3. st2 \in [0..ndataBlocks -> [Cells -> Value]] /\ p \in Block /\ p # 0
      /\ \A b \in 0..ndataBlocks : b # a /\ b # p => st2[b] = s.store[b]
  BY DEF PointsTo, Block
<1>4. t \in Inode /\ t.addrs = s.ip.addrs
  BY CountUp DEF Stage
<1> HIDE DEF t
<1>5. /\ SamePtrs(ii1, s.store, ii2, s.store)
      /\ \/ a = 0 /\ SamePtrs(ii2, s.store, ii2, st2)
         \/ a # 0 /\ AddsPtr(ii2, s.store, s.used, p, k, a, st2)
  BY <1>4, AllocPtrAdds, Zenon
<1>6. Good(ii2, st2, Marked(s.used))
  <2> HIDE DEF ii1, ii2
  <2>1. Good(ii2, s.store, s.used)
    BY <1>2, <1>5, SameGood
  <2>2. CASE a = 0
    BY <1>1, <1>5, <2>1, <2>2, SameGood
  <2>3. CASE a # 0
    <3>1. Good(ii2, st2, s.used \cup {a})
      BY <1>5, <2>1, <2>3, AddPtr
    <3>2. QED
      BY <1>1, <2>3, <3>1
  <2>4. QED
    BY <2>2, <2>3
<1>7. Kept(r)
  BY <1>1, <1>2, <1>3 DEF Kept, Block
<1>8. QED
  BY <1>1, <1>2, <1>3, <1>6, <1>7, <1>4 DEF Stage, t

\* The block of a stage an address in the inode leads to.
LEMMA AddrBlock ==
    ASSUME NEW ii, NEW f \in Files, NEW s, Stage(ii, f, s), NEW n \in Addrs
    PROVE  /\ s.ip.addrs[n] \in 0..ndataBlocks
           /\ s.ip.addrs[n] # 0 => s.ip.addrs[n] \in Block
           /\ [ii EXCEPT ![f] = s.ip][f].addrs[n] = s.ip.addrs[n]
           /\ [ii EXCEPT ![f] = s.ip] \in [Files -> Inode]
<1>1. s.ip \in Inode /\ ii \in [Files -> Inode] /\ ndataBlocks \in Nat
  BY DEF Stage, Good, Typed
<1>2. s.ip.addrs \in [Addrs -> 0..ndataBlocks]
  BY <1>1 DEF Inode
<1>3. s.ip.addrs[n] \in 0..ndataBlocks
  BY <1>2
<1>4. s.ip.addrs[n] # 0 => s.ip.addrs[n] \in Block
  BY <1>1, <1>3 DEF Block
<1>5. QED
  BY <1>1, <1>3, <1>4

\* An address behind the direct ones leads to an index block.
LEMMA IndexAddr ==
    ASSUME NEW ii, NEW f \in Files, NEW s, Stage(ii, f, s),
           NEW n \in NDIRECT .. NDIRECT + 2, s.ip.addrs[n] # 0
    PROVE  /\ s.ip.addrs[n] \in Block
           /\ IsIndex([ii EXCEPT ![f] = s.ip], s.store, s.ip.addrs[n])
           /\ IsDouble([ii EXCEPT ![f] = s.ip], s.ip.addrs[n]) <=> n = NDIRECT + 2
<1> DEFINE ii1 == [ii EXCEPT ![f] = s.ip]
<1>1. n \in Addrs
  BY Sizes
<1>2. s.ip.addrs[n] \in Block /\ ii1[f].addrs[n] = s.ip.addrs[n]
  BY <1>1, AddrBlock
<1>3. Good(ii1, s.store, s.used)
  BY DEF Stage
<1> HIDE DEF ii1
<1>4. IsIndex(ii1, s.store, s.ip.addrs[n])
  BY <1>2 DEF IsIndex, IsTop
<1>5. n = NDIRECT + 2 => IsDouble(ii1, s.ip.addrs[n])
  BY <1>2 DEF IsDouble
<1>6. n # NDIRECT + 2 => n \in NDIRECT .. NDIRECT + 1
  BY Sizes
<1>7. n # NDIRECT + 2 => ~IsDouble(ii1, s.ip.addrs[n])
  <2>1. \A g \in Files, m \in NDIRECT .. NDIRECT + 1 :
           ii1[g].addrs[m] # 0 => ~IsDouble(ii1, ii1[g].addrs[m])
    BY <1>3, Levels, Zenon
  <2>2. QED
    BY <1>2, <1>6, <2>1
<1>8. QED
  BY <1>2, <1>4, <1>5, <1>7 DEF ii1

\* A pointer in an index block of a stage.
LEMMA IndexPtr ==
    ASSUME NEW ii, NEW f \in Files, NEW s, Stage(ii, f, s), NEW p \in Block, NEW k \in Cells,
           IsIndex([ii EXCEPT ![f] = s.ip], s.store, p)
    PROVE  /\ s.store[p][k] \in 0..ndataBlocks
           /\ s.store[p][k] # 0 => s.store[p][k] \in Block
           /\ IsDouble([ii EXCEPT ![f] = s.ip], p) /\ s.store[p][k] # 0
                 => /\ IsIndex([ii EXCEPT ![f] = s.ip], s.store, s.store[p][k])
                    /\ ~IsDouble([ii EXCEPT ![f] = s.ip], s.store[p][k])
<1> DEFINE ii1 == [ii EXCEPT ![f] = s.ip]
<1>1. Good(ii1, s.store, s.used) /\ IsIndex(ii1, s.store, p)
  BY DEF Stage
<1> HIDE DEF ii1
<1>2. s.store[p] \in [Cells -> 0..ndataBlocks] /\ ndataBlocks \in Nat
  BY <1>1 DEF Good, Typed
<1>3. s.store[p][k] \in 0..ndataBlocks /\ (s.store[p][k] # 0 => s.store[p][k] \in Block)
  BY <1>2 DEF Block
<1>4. ASSUME IsDouble(ii1, p), s.store[p][k] # 0
      PROVE  IsIndex(ii1, s.store, s.store[p][k]) /\ ~IsDouble(ii1, s.store[p][k])
  <2>1. IsSub(ii1, s.store, s.store[p][k])
    BY <1>4 DEF IsSub
  <2>2. QED
    BY <1>1, <1>3, <1>4, <2>1, Levels DEF IsIndex
<1>5. QED
  BY <1>3, <1>4 DEF ii1

\* An address of the inode is allocated, t is what is left: a new index block
\* is cleared, no other block changes but perhaps block 0.
GetsAddr(s, n, t) ==
    LET a == allocate_block(s.used)
    IN  /\ s.ip.addrs[n] = 0
        /\ t = [ip |-> AllocAddr(s, n).ip, store |-> t.store, used |-> Marked(s.used)]
        /\ t.store \in [0..ndataBlocks -> [Cells -> Value]]
        /\ \A b \in 0..ndataBlocks : b # a => t.store[b] = s.store[b]
        /\ a # 0 /\ n >= NDIRECT => \A i \in Cells : t.store[a][i] = 0

\* A pointer of an index block is allocated likewise.
GetsPtr(ii, f, s, p, k, t) ==
    /\ s.store[p][k] = 0
    /\ t = [ip    |-> [s.ip EXCEPT !.blocks = s.ip.blocks + 1], store |-> t.store,
            used  |-> Marked(s.used)]
    /\ PointsTo(ii, f, s, p, k, allocate_block(s.used), t.store)

\* Both leave a stage.
LEMMA GetsStage ==
    ASSUME NEW ii, NEW f \in Files, NEW s, Stage(ii, f, s), NEW t
    PROVE  /\ \A n \in Addrs : GetsAddr(s, n, t) => Stage(ii, f, t) /\ s.used \subseteq t.used
           /\ \A p \in Block, k \in Cells :
                 IsIndex([ii EXCEPT ![f] = s.ip], s.store, p) /\ GetsPtr(ii, f, s, p, k, t)
                 => Stage(ii, f, t) /\ s.used \subseteq t.used
<1>1. s.used \subseteq Marked(s.used)
  BY DEF Marked
<1>2. ASSUME NEW n \in Addrs, GetsAddr(s, n, t) PROVE Stage(ii, f, t) /\ s.used \subseteq t.used
  <2> DEFINE r == [ip |-> AllocAddr(s, n).ip, store |-> t.store, used |-> Marked(s.used)]
  <2>1. t = r
    BY <1>2 DEF GetsAddr
  <2>2. Stage(ii, f, r)
    BY <1>2, AllocAddrStage DEF GetsAddr
  <2>3. QED
    BY <1>1, <2>1, <2>2
<1>3. ASSUME NEW p \in Block, NEW k \in Cells, IsIndex([ii EXCEPT ![f] = s.ip], s.store, p),
             GetsPtr(ii, f, s, p, k, t)
      PROVE  Stage(ii, f, t) /\ s.used \subseteq t.used
  <2> DEFINE r == [ip    |-> [s.ip EXCEPT !.blocks = s.ip.blocks + 1], store |-> t.store,
                   used  |-> Marked(s.used)]
  <2>1. t = r
    BY <1>3 DEF GetsPtr
  <2>2. Stage(ii, f, r)
    BY <1>3, AllocPtrStage DEF GetsPtr
  <2>3. QED
    BY <1>1, <2>1, <2>2
<1>4. QED
  BY <1>2, <1>3

\* A new direct block.
LEMMA EnsureDirectGets ==
    ASSUME NEW ii, NEW f \in Files, NEW s, Stage(ii, f, s), NEW n \in 0 .. NDIRECT - 1
    PROVE  \/ s.ip.addrs[n] # 0 /\ EnsureDirect(s, n) = s
           \/ GetsAddr(s, n, EnsureDirect(s, n))
<1>1. CASE s.ip.addrs[n] # 0
  BY <1>1 DEF EnsureDirect
<1>2. CASE s.ip.addrs[n] = 0
  <2>1. n \in Addrs /\ ~(n >= NDIRECT)
    BY Sizes DEF Addrs
  <2>2. s.store \in [0..ndataBlocks -> [Cells -> Value]]
    BY DEF Stage
  <2> DEFINE t == EnsureDirect(s, n)
  <2>3. t = [ip |-> AllocAddr(s, n).ip, store |-> s.store, used |-> Marked(s.used)]
    BY <1>2 DEF EnsureDirect, AllocAddr
  <2> HIDE DEF t
  <2>4. t.store = s.store
    BY <2>3
  <2>5. GetsAddr(s, n, t)
    BY <1>2, <2>1, <2>2, <2>3, <2>4 DEF GetsAddr
  <2>6. QED
    BY <2>5 DEF t
<1>3. QED
  BY <1>1, <1>2

\* A new index block of the inode, cleared.
LEMMA EnsureIndexGets ==
    ASSUME NEW ii, NEW f \in Files, NEW s, Stage(ii, f, s),
           NEW n \in NDIRECT .. NDIRECT + 2
    PROVE  \/ s.ip.addrs[n] # 0 /\ EnsureIndex(s, n) = s
           \/ GetsAddr(s, n, EnsureIndex(s, n))
<1>1. CASE s.ip.addrs[n] # 0
  BY <1>1 DEF EnsureIndex
<1>2. CASE s.ip.addrs[n] = 0
  <2> DEFINE a   == allocate_block(s.used)
             st2 == [s.store EXCEPT ![a] = Zeros]
             t   == EnsureIndex(s, n)
  <2>1. n \in Addrs
    BY Sizes
  <2>2. s.store \in [0..ndataBlocks -> [Cells -> Value]] /\ ndataBlocks \in Nat
        /\ s.ip.addrs \in [Addrs -> 0..ndataBlocks]
    BY DEF Stage, Good, Typed, Inode
  <2>3. a \in 0..ndataBlocks
    BY StageAllocates
  <2>4. Zeros \in [Cells -> Value] /\ \A i \in Cells : Zeros[i] = 0
    BY <2>2 DEF Zeros, Value
  <2>5. t = [ip |-> AllocAddr(s, n).ip, store |-> st2, used |-> Marked(s.used)]
    <3>1. AllocAddr(s, n).ip.addrs[n] = a
      BY <2>1, <2>2 DEF AllocAddr
    <3>2. EnsureIndex(s, n) = Cleared(AllocAddr(s, n), a)
      BY <1>2, <3>1 DEF EnsureIndex
    <3>3. Cleared(AllocAddr(s, n), a)
            = [ip |-> AllocAddr(s, n).ip, store |-> st2, used |-> Marked(s.used)]
      BY DEF Cleared, AllocAddr
    <3>4. QED
      BY <3>2, <3>3
  <2> HIDE DEF a, t
  <2>6. /\ st2 \in [0..ndataBlocks -> [Cells -> Value]]
        /\ \A b \in 0..ndataBlocks : b # a => st2[b] = s.store[b]
        /\ \A i \in Cells : st2[a][i] = 0
    BY <2>2, <2>3, <2>4
  <2>7. a = allocate_block(s.used)
    BY DEF a
  <2> HIDE DEF st2
  <2>8. t.store = st2
    BY <2>5
  <2>9. GetsAddr(s, n, t)
    BY <1>2, <2>5, <2>6, <2>7, <2>8 DEF GetsAddr
  <2>10. QED
    BY <2>9 DEF t
<1>3. QED
  BY <1>1, <1>2

\* A new data block, its pointer in an index block.
LEMMA EnsurePtrGets ==
    ASSUME NEW ii, NEW f \in Files, NEW s, Stage(ii, f, s), NEW p \in Block, NEW k \in Cells,
           IsIndex([ii EXCEPT ![f] = s.ip], s.store, p),
           ~IsDouble([ii EXCEPT ![f] = s.ip], p)
    PROVE  \/ s.store[p][k] # 0 /\ EnsurePtr(s, p, k) = s
           \/ GetsPtr(ii, f, s, p, k, EnsurePtr(s, p, k))
<1>1. CASE s.store[p][k] # 0
  BY <1>1 DEF EnsurePtr
<1>2. CASE s.store[p][k] = 0
  <2> DEFINE a   == allocate_block(s.used)
             r   == EnsurePtr(s, p, k)
             st2 == [s.store EXCEPT ![p][k] = a]
  <2>1. s.store \in [0..ndataBlocks -> [Cells -> Value]] /\ ndataBlocks \in Nat
    BY DEF Stage, Good, Typed
  <2>2. p \in 0..ndataBlocks
    BY <2>1 DEF Block
  <2>3. a \in 0..ndataBlocks
    BY <2>1, StageAllocates, Zenon
  <2>4. r = [ip |-> [s.ip EXCEPT !.blocks = s.ip.blocks + 1], store |-> st2,
             used |-> Marked(s.used)]
    BY <1>2 DEF EnsurePtr, AllocPtr
  <2>5. a = allocate_block(s.used)
    OBVIOUS
  <2> HIDE DEF a, r
  <2>6. st2[p] = [s.store[p] EXCEPT ![k] = a]
        /\ \A b \in 0..ndataBlocks : b # p => st2[b] = s.store[b]
    BY <2>1, <2>2
  <2>7. s.store[p] \in [Cells -> Value] /\ DOMAIN st2 = 0..ndataBlocks
    BY <2>1, <2>2
  <2>8. /\ st2 \in [0..ndataBlocks -> [Cells -> Value]]
        /\ st2[p][k] = a /\ \A i \in Cells \ {k} : st2[p][i] = s.store[p][i]
    BY <2>1, <2>2, <2>3, <2>6, <2>7 DEF Value
  <2> HIDE DEF st2
  <2>9. PointsTo(ii, f, s, p, k, a, st2)
    BY <2>6, <2>8 DEF PointsTo
  <2>10. r.store = st2
    BY <2>4
  <2>11. GetsPtr(ii, f, s, p, k, r)
    BY <1>2, <2>4, <2>5, <2>9, <2>10 DEF GetsPtr
  <2>12. QED
    BY <2>11 DEF r
<1>3. QED
  BY <1>1, <1>2

\* A new index block below a double indirect one, cleared.
LEMMA EnsureSubIndexGets ==
    ASSUME NEW ii, NEW f \in Files, NEW s, Stage(ii, f, s), NEW p \in Block, NEW k \in Cells,
           IsIndex([ii EXCEPT ![f] = s.ip], s.store, p)
    PROVE  /\ \/ s.store[p][k] # 0 /\ EnsureSubIndex(s, p, k) = s
              \/ GetsPtr(ii, f, s, p, k, EnsureSubIndex(s, p, k))
           /\ EnsureSubIndex(s, p, k).ip.addrs = s.ip.addrs
<1>1. CASE s.store[p][k] # 0
  BY <1>1 DEF EnsureSubIndex
<1>2. CASE s.store[p][k] = 0
  <2> DEFINE a   == allocate_block(s.used)
             t   == [s.ip EXCEPT !.blocks = s.ip.blocks + 1]
             st1 == [s.store EXCEPT ![p][k] = a]
             st2 == [st1 EXCEPT ![a] = Zeros]
             r   == EnsureSubIndex(s, p, k)
  <2>1. s.store \in [0..ndataBlocks -> [Cells -> Value]] /\ ndataBlocks \in Nat
    BY DEF Stage, Good, Typed
  <2>2. p \in 0..ndataBlocks
    BY <2>1 DEF Block
  <2>3. a \in 0..ndataBlocks
    BY <2>1, StageAllocates, Zenon
  <2>4. p # a
    <3>1. a = 0 \/ a \in Block \ s.used
      BY StageAllocates
    <3>2. Good([ii EXCEPT ![f] = s.ip], s.store, s.used)
      BY DEF Stage
    <3>3. \A x \in Block \ s.used : ~IsIndex([ii EXCEPT ![f] = s.ip], s.store, x)
      BY <3>2, Free, Zenon
    <3>4. p # 0
      BY DEF Block
    <3>5. QED
      BY <3>1, <3>3, <3>4, Zenon
  <2>5. Zeros \in [Cells -> Value] /\ \A i \in Cells : Zeros[i] = 0
    BY <2>1 DEF Zeros, Value
  <2>6. t.addrs = s.ip.addrs
    BY CountUp DEF Stage
  <2>7. st1[p][k] = a
    BY <2>1, <2>2
  <2>8. r = [ip |-> t, store |-> st2, used |-> Marked(s.used)]
    <3>1. AllocPtr(s, p, k) = [ip |-> t, store |-> st1, used |-> Marked(s.used)]
      BY DEF AllocPtr
    <3>2. EnsureSubIndex(s, p, k) = Cleared(AllocPtr(s, p, k), a)
      BY <1>2, <2>7, <3>1 DEF EnsureSubIndex
    <3> HIDE DEF a, t, st1
    <3>3. QED
      BY <3>1, <3>2 DEF Cleared
  <2>9. a = allocate_block(s.used)
    OBVIOUS
  <2> HIDE DEF a, t, r
  <2>10. st1[p] = [s.store[p] EXCEPT ![k] = a]
         /\ \A b \in 0..ndataBlocks : b # p => st1[b] = s.store[b]
    BY <2>1, <2>2
  <2>11. s.store[p] \in [Cells -> Value] /\ DOMAIN st1 = 0..ndataBlocks
    BY <2>1, <2>2
  <2>12. st1 \in [0..ndataBlocks -> [Cells -> Value]]
         /\ st1[p][k] = a /\ \A i \in Cells \ {k} : st1[p][i] = s.store[p][i]
    BY <2>1, <2>2, <2>3, <2>10, <2>11 DEF Value
  <2> HIDE DEF st1
  <2>13. /\ st2 \in [0..ndataBlocks -> [Cells -> Value]] /\ st2[a] = Zeros
         /\ \A b \in 0..ndataBlocks : b # a => st2[b] = st1[b]
    BY <2>3, <2>5, <2>12
  <2> HIDE DEF st2
  <2>14. PointsTo(ii, f, s, p, k, a, st2)
    BY <2>2, <2>4, <2>5, <2>10, <2>12, <2>13 DEF PointsTo
  <2>15. r.store = st2 /\ r.ip = t
    BY <2>8
  <2>16. GetsPtr(ii, f, s, p, k, r)
    BY <1>2, <2>8, <2>9, <2>14, <2>15 DEF GetsPtr, t
  <2>17. QED
    BY <2>6, <2>15, <2>16 DEF r
<1>3. QED
  BY <1>1, <1>2

\* So all four leave a stage.
LEMMA EnsureDirectStage ==
    ASSUME NEW ii, NEW f \in Files, NEW s, Stage(ii, f, s), NEW n \in 0 .. NDIRECT - 1
    PROVE  Stage(ii, f, EnsureDirect(s, n)) /\ s.used \subseteq EnsureDirect(s, n).used
<1> DEFINE t == EnsureDirect(s, n)
<1>1. n \in Addrs
  BY Sizes DEF Addrs
<1>2. t = s \/ GetsAddr(s, n, t)
  BY EnsureDirectGets
<1> HIDE DEF t
<1>3. Stage(ii, f, t) /\ s.used \subseteq t.used
  BY <1>1, <1>2, GetsStage
<1>4. QED
  BY <1>3 DEF t

\* An index block of the inode.
LEMMA EnsureIndexStage ==
    ASSUME NEW ii, NEW f \in Files, NEW s, Stage(ii, f, s),
           NEW n \in NDIRECT .. NDIRECT + 2
    PROVE  Stage(ii, f, EnsureIndex(s, n)) /\ s.used \subseteq EnsureIndex(s, n).used
<1> DEFINE t == EnsureIndex(s, n)
<1>1. n \in Addrs
  BY Sizes
<1>2. t = s \/ GetsAddr(s, n, t)
  BY EnsureIndexGets
<1> HIDE DEF t
<1>3. Stage(ii, f, t) /\ s.used \subseteq t.used
  BY <1>1, <1>2, GetsStage
<1>4. QED
  BY <1>3 DEF t

\* A data block below an index block.
LEMMA EnsurePtrStage ==
    ASSUME NEW ii, NEW f \in Files, NEW s, Stage(ii, f, s), NEW p \in Block, NEW k \in Cells,
           IsIndex([ii EXCEPT ![f] = s.ip], s.store, p),
           ~IsDouble([ii EXCEPT ![f] = s.ip], p)
    PROVE  /\ Stage(ii, f, EnsurePtr(s, p, k)) /\ s.used \subseteq EnsurePtr(s, p, k).used
<1> DEFINE t == EnsurePtr(s, p, k)
<1>1. t = s \/ GetsPtr(ii, f, s, p, k, t)
  BY EnsurePtrGets
<1> HIDE DEF t
<1>2. Stage(ii, f, t) /\ s.used \subseteq t.used
  BY <1>1, GetsStage
<1>3. QED
  BY <1>2 DEF t

\* An index block below a double indirect one.
LEMMA EnsureSubIndexStage ==
    ASSUME NEW ii, NEW f \in Files, NEW s, Stage(ii, f, s), NEW p \in Block, NEW k \in Cells,
           IsIndex([ii EXCEPT ![f] = s.ip], s.store, p)
    PROVE  /\ Stage(ii, f, EnsureSubIndex(s, p, k))
           /\ s.used \subseteq EnsureSubIndex(s, p, k).used
           /\ EnsureSubIndex(s, p, k).ip.addrs = s.ip.addrs
<1> DEFINE t == EnsureSubIndex(s, p, k)
<1>1. (t = s \/ GetsPtr(ii, f, s, p, k, t)) /\ t.ip.addrs = s.ip.addrs
  BY EnsureSubIndexGets
<1> HIDE DEF t
<1>2. Stage(ii, f, t) /\ s.used \subseteq t.used
  BY <1>1, GetsStage
<1>3. QED
  BY <1>1, <1>2 DEF t

\* The places Path names are places of an inode and of an index block.
LEMMA PathRange ==
    ASSUME NEW n \in Nat, n < MaxFileBlocks
    PROVE  \/ n \in 0 .. NDIRECT - 1 /\ Path(n) = <<n>>
           \/ \E m \in NDIRECT .. NDIRECT + 1, i \in Cells : Path(n) = <<m, i>>
           \/ \E i, j \in Cells : Path(n) = <<NDIRECT + 2, i, j>>
<1> DEFINE n1 == n - NDIRECT
           n2 == n1 - IPTRS
           n3 == n2 - IPTRS
<1>1. /\ NDIRECT \in Nat \ {0} /\ BSIZE \in Nat \ {0} /\ IPTRS = BSIZE
      /\ n < NDIRECT + 2 * BSIZE + BSIZE * BSIZE
  BY Sizes DEF MaxFileBlocks, DPTRS
<1>2. CASE n < NDIRECT
  BY <1>1, <1>2 DEF Path
<1>3. CASE n >= NDIRECT /\ n1 < IPTRS
  <2>1. Path(n) = <<NDIRECT, n1>>
    BY <1>1, <1>3 DEF Path
  <2>2. n1 \in Cells /\ NDIRECT \in NDIRECT .. NDIRECT + 1
    BY <1>1, <1>3 DEF Cells
  <2>3. QED
    BY <2>1, <2>2
<1>4. CASE n >= NDIRECT /\ n1 >= IPTRS /\ n2 < IPTRS
  <2>1. Path(n) = <<NDIRECT + 1, n2>>
    BY <1>1, <1>4 DEF Path
  <2>2. n2 \in Cells /\ NDIRECT + 1 \in NDIRECT .. NDIRECT + 1
    BY <1>1, <1>4 DEF Cells
  <2>3. QED
    BY <2>1, <2>2
<1>5. CASE n >= NDIRECT /\ n1 >= IPTRS /\ n2 >= IPTRS
  <2>1. Path(n) = <<NDIRECT + 2, n3 \div IPTRS, n3 % IPTRS>>
    BY <1>1, <1>5 DEF Path
  <2>2. n3 \in Nat /\ n3 < BSIZE * BSIZE
    BY <1>1, <1>5
  <2> HIDE DEF n3
  <2> DEFINE q == n3 \div BSIZE
             r == n3 % BSIZE
  <2>3. q \in Int /\ r \in 0 .. BSIZE - 1 /\ n3 = BSIZE * q + r
    BY <1>1, <2>2
  <2> HIDE DEF q, r
  <2>4. q >= 0
    BY <1>1, <2>2, <2>3
  <2>5. q < BSIZE
    BY <1>1, <2>2, <2>3
  <2>6. q \in Cells /\ r \in Cells
    BY <1>1, <2>3, <2>4, <2>5 DEF Cells
  <2>7. Path(n) = <<NDIRECT + 2, q, r>>
    BY <1>1, <2>1 DEF q, r
  <2>8. QED
    BY <2>6, <2>7
<1>6. QED
  <2>1. n < NDIRECT \/ n >= NDIRECT
    BY <1>1
  <2>2. (n1 < IPTRS \/ n1 >= IPTRS) /\ (n2 < IPTRS \/ n2 >= IPTRS)
    BY <1>1
  <2>3. QED
    BY <1>2, <1>3, <1>4, <1>5, <2>1, <2>2

\* A pointer in an index block that is not a double indirect one leads to a
\* block without pointers.
LEMMA LeafPtr ==
    ASSUME NEW ii, NEW st, NEW us, Good(ii, st, us), NEW c \in Block, NEW i \in Cells,
           IsIndex(ii, st, c), ~IsDouble(ii, c), st[c][i] \in Block
    PROVE  ~IsIndex(ii, st, st[c][i])
<1> DEFINE b == st[c][i]
<1>1. b # 0
  BY DEF Block
<1>2. FromIndex(ii, st, b)
  BY DEF FromIndex
<1>3. ~FromInode(ii, b)
  BY <1>2 DEF Good, Exclusive
<1>4. ~IsTop(ii, b)
  BY <1>3, Sizes DEF IsTop, FromInode
<1>5. ASSUME NEW d \in Block, NEW j \in Cells, IsDouble(ii, d), b = st[d][j] PROVE FALSE
  <2>1. IsIndex(ii, st, d)
    BY <1>5, Levels
  <2>2. d = c
    BY <1>1, <1>5, <2>1 DEF Good, Exclusive
  <2>3. QED
    BY <1>5, <2>2
<1>6. QED
  BY <1>4, <1>5 DEF IsIndex, IsSub

\* The entry k of index block p, where there is such a block.
Entry(st, p, k) == IF p = 0 THEN 0 ELSE st[p][k]

\* What bmap finds by a direct address,
LEMMA BmapDirect ==
    ASSUME NEW ip, NEW st, NEW n, ~(n >= MaxFileBlocks), NEW m, Path(n) = <<m>>
    PROVE  bmap(ip, st, n) = ip.addrs[m]
  BY DEF bmap

\* through an index block,
LEMMA BmapIndirect ==
    ASSUME NEW ip, NEW st, NEW n, ~(n >= MaxFileBlocks), NEW m, NEW i, Path(n) = <<m, i>>
    PROVE  bmap(ip, st, n) = Entry(st, ip.addrs[m], i)
  BY DEF bmap, Entry

\* and through two.
LEMMA BmapDouble ==
    ASSUME NEW ip, NEW st, NEW n, ~(n >= MaxFileBlocks),
           NEW m, NEW i, NEW j, Path(n) = <<m, i, j>>
    PROVE  bmap(ip, st, n) = Entry(st, Entry(st, ip.addrs[m], i), j)
<1> DEFINE p  == Path(n)
           b1 == ip.addrs[p[1]]
           b2 == IF b1 = 0 THEN 0 ELSE st[b1][p[2]]
<1>1. p[1] = m /\ p[2] = i /\ p[3] = j /\ Len(p) = 3
  OBVIOUS
<1>2. bmap(ip, st, n) = IF b2 = 0 THEN 0 ELSE st[b2][p[3]]
  BY <1>1 DEF bmap
<1>3. b2 = Entry(st, ip.addrs[m], i)
  BY <1>1 DEF Entry
<1> HIDE DEF b2, p
<1>4. QED
  BY <1>1, <1>2, <1>3 DEF Entry

\* The block bmap finds holds no pointers.
LEMMA DataBlock ==
    ASSUME NEW ii, NEW f \in Files, NEW s, Stage(ii, f, s), NEW n \in Nat
    PROVE  /\ bmap(s.ip, s.store, n) \in 0..ndataBlocks
           /\ ~IsIndex([ii EXCEPT ![f] = s.ip], s.store, bmap(s.ip, s.store, n))
<1> DEFINE ii1 == [ii EXCEPT ![f] = s.ip]
           b == bmap(s.ip, s.store, n)
<1>1. /\ Good(ii1, s.store, s.used) /\ ndataBlocks \in Nat
      /\ ii \in [Files -> Inode] /\ s.ip \in Inode
  BY DEF Stage, Good, Typed
<1>2. ~IsIndex(ii1, s.store, 0)
  BY DEF IsIndex, Block
<1>3. CASE b = 0
  BY <1>1, <1>2, <1>3
<1>4. CASE n >= MaxFileBlocks
  <2>1. b = 0
    BY <1>4 DEF bmap
  <2>2. QED
    BY <1>3, <2>1
<1>5. CASE n < MaxFileBlocks /\ b # 0
  <2>1. n \in 0 .. NDIRECT - 1 /\ Path(n) = <<n>> => b \in Block /\ ~IsIndex(ii1, s.store, b)
    <3> SUFFICES ASSUME n \in 0 .. NDIRECT - 1, Path(n) = <<n>>
                 PROVE  b \in Block /\ ~IsIndex(ii1, s.store, b)
      OBVIOUS
    <3>1. n \in Addrs /\ ~(n >= MaxFileBlocks)
      BY <1>5, Sizes DEF Addrs, MaxFileBlocks, DPTRS
    <3>2. b = s.ip.addrs[n]
      BY <3>1, BmapDirect
    <3>3. b \in Block /\ b = ii1[f].addrs[n]
      <4>1. /\ s.ip.addrs[n] # 0 => s.ip.addrs[n] \in Block
            /\ ii1[f].addrs[n] = s.ip.addrs[n]
        BY <3>1, AddrBlock, Zenon
      <4> HIDE DEF b, ii1
      <4>2. QED
        BY <1>5, <3>2, <4>1
    <3>4. FromInode(ii1, b)
      BY <3>1, <3>3 DEF FromInode
    <3> HIDE DEF ii1, b
    <3>5. ~IsTop(ii1, b)
      <4>1. \A g \in Files : \A m \in Addrs : ii1[f].addrs[n] = ii1[g].addrs[m] => n = m
        BY <1>1, <1>5, <3>1, <3>3 DEF Good, Exclusive
      <4>2. \A m \in NDIRECT .. NDIRECT + 2 : m # n
        BY Sizes
      <4>3. QED
        BY <3>3, <4>1, <4>2, Sizes DEF IsTop
    <3>6. ~IsSub(ii1, s.store, b)
      <4>1. ~FromIndex(ii1, s.store, b)
        BY <1>1, <3>3, <3>4 DEF Good, Exclusive
      <4>2. QED
        BY <1>1, <4>1, Levels DEF IsSub, FromIndex
    <3>7. QED
      BY <3>3, <3>5, <3>6 DEF IsIndex
  <2>2. ASSUME NEW m \in NDIRECT .. NDIRECT + 1, NEW i \in Cells, Path(n) = <<m, i>>
        PROVE  b \in Block /\ ~IsIndex(ii1, s.store, b)
    <3> DEFINE c == s.ip.addrs[m]
    <3>1. m \in NDIRECT .. NDIRECT + 2 /\ m # NDIRECT + 2 /\ ~(n >= MaxFileBlocks)
      BY <1>5, Sizes DEF MaxFileBlocks, DPTRS
    <3>2. c # 0 /\ b = s.store[c][i]
      BY <1>5, <2>2, <3>1, BmapIndirect DEF Entry
    <3>3. c \in Block /\ IsIndex(ii1, s.store, c) /\ ~IsDouble(ii1, c)
      BY <3>1, <3>2, IndexAddr
    <3>4. b \in Block
      BY <1>5, <3>2, <3>3, IndexPtr
    <3>5. QED
      BY <1>1, <1>5, <3>2, <3>3, <3>4, LeafPtr
  <2>3. ASSUME NEW i \in Cells, NEW j \in Cells, Path(n) = <<NDIRECT + 2, i, j>>
        PROVE  b \in Block /\ ~IsIndex(ii1, s.store, b)
    <3> DEFINE c == s.ip.addrs[NDIRECT + 2]
               d == s.store[c][i]
    <3>1. NDIRECT + 2 \in NDIRECT .. NDIRECT + 2 /\ ~(n >= MaxFileBlocks)
      BY <1>5, Sizes DEF MaxFileBlocks, DPTRS
    <3>2. c # 0 /\ d # 0 /\ b = s.store[d][j]
      BY <1>5, <2>3, <3>1, BmapDouble DEF Entry
    <3>3. c \in Block /\ IsIndex(ii1, s.store, c) /\ IsDouble(ii1, c)
      BY <3>1, <3>2, IndexAddr
    <3>4. d \in Block /\ IsIndex(ii1, s.store, d) /\ ~IsDouble(ii1, d)
      BY <3>2, <3>3, IndexPtr
    <3>5. b \in Block
      BY <1>5, <3>2, <3>4, IndexPtr
    <3>6. QED
      BY <1>1, <1>5, <3>2, <3>4, <3>5, LeafPtr
  <2>4. b \in Block /\ ~IsIndex(ii1, s.store, b)
    BY <1>5, <2>1, <2>2, <2>3, PathRange
  <2>5. b \in 0..ndataBlocks
    BY <1>1, <2>4 DEF Block
  <2>6. QED
    BY <2>4, <2>5
<1>6. QED
  <2>1. NDIRECT + 2 * BSIZE + BSIZE * BSIZE \in Nat
    BY Sizes
  <2>2. MaxFileBlocks \in Nat
    BY <2>1, Sizes DEF MaxFileBlocks, DPTRS
  <2>3. n < MaxFileBlocks \/ n >= MaxFileBlocks
    BY <2>2
  <2>4. QED
    BY <1>3, <1>4, <1>5, <2>3

\* The whole of bmap with alloc = 1, whether or not blocks run out on the way.
LEMMA BmapAllocStage ==
    ASSUME NEW ii, NEW f \in Files, NEW s, Stage(ii, f, s), NEW n \in Nat
    PROVE  Stage(ii, f, bmap_alloc(s, n)) /\ s.used \subseteq bmap_alloc(s, n).used
<1>1. MaxFileBlocks \in Nat
  <2>1. NDIRECT + 2 * BSIZE + BSIZE * BSIZE \in Nat
    BY Sizes
  <2>2. QED
    BY <2>1, Sizes DEF MaxFileBlocks, DPTRS
<1>2. CASE n >= MaxFileBlocks
  BY <1>2 DEF bmap_alloc
<1>3. CASE n < MaxFileBlocks
  <2>1. ~(n >= MaxFileBlocks)
    BY <1>1, <1>3
  <2>2. ASSUME n \in 0 .. NDIRECT - 1, Path(n) = <<n>>
        PROVE  Stage(ii, f, bmap_alloc(s, n)) /\ s.used \subseteq bmap_alloc(s, n).used
    <3>1. bmap_alloc(s, n) = EnsureDirect(s, n)
      BY <2>1, <2>2 DEF bmap_alloc
    <3>2. QED
      BY <2>2, <3>1, EnsureDirectStage
  <2>3. ASSUME NEW m \in NDIRECT .. NDIRECT + 1, NEW i \in Cells, Path(n) = <<m, i>>
        PROVE  Stage(ii, f, bmap_alloc(s, n)) /\ s.used \subseteq bmap_alloc(s, n).used
    <3> DEFINE s1 == EnsureIndex(s, m)
               b1 == s1.ip.addrs[m]
    <3>1. bmap_alloc(s, n) = IF b1 = 0 THEN s1 ELSE EnsurePtr(s1, b1, i)
      BY <2>1, <2>3 DEF bmap_alloc
    <3>2. m \in NDIRECT .. NDIRECT + 2 /\ m # NDIRECT + 2
      BY Sizes
    <3>3. Stage(ii, f, s1) /\ s.used \subseteq s1.used
      BY <3>2, EnsureIndexStage
    <3> HIDE DEF s1
    <3>4. CASE b1 = 0
      BY <3>1, <3>3, <3>4
    <3>5. CASE b1 # 0
      <4>1. /\ b1 \in Block /\ IsIndex([ii EXCEPT ![f] = s1.ip], s1.store, b1)
            /\ ~IsDouble([ii EXCEPT ![f] = s1.ip], b1)
        BY <3>2, <3>3, <3>5, IndexAddr
      <4> HIDE DEF b1
      <4>2. Stage(ii, f, EnsurePtr(s1, b1, i)) /\ s1.used \subseteq EnsurePtr(s1, b1, i).used
        BY <3>3, <4>1, EnsurePtrStage
      <4>3. QED
        BY <3>1, <3>3, <3>5, <4>2
    <3>6. QED
      BY <3>4, <3>5
  <2>4. ASSUME NEW i \in Cells, NEW j \in Cells, Path(n) = <<NDIRECT + 2, i, j>>
        PROVE  Stage(ii, f, bmap_alloc(s, n)) /\ s.used \subseteq bmap_alloc(s, n).used
    <3> DEFINE m  == NDIRECT + 2
               s1 == EnsureIndex(s, m)
               b1 == s1.ip.addrs[m]
               s2 == EnsureSubIndex(s1, b1, i)
               b2 == s2.store[b1][i]
    <3>1. bmap_alloc(s, n) = IF b1 = 0 THEN s1
                             ELSE IF b2 = 0 THEN s2 ELSE EnsurePtr(s2, b2, j)
      BY <2>1, <2>4 DEF bmap_alloc
    <3>2. m \in NDIRECT .. NDIRECT + 2 /\ m \in Addrs
      BY Sizes
    <3>3. Stage(ii, f, s1) /\ s.used \subseteq s1.used
      BY <3>2, EnsureIndexStage
    <3> HIDE DEF s1
    <3>4. CASE b1 = 0
      BY <3>1, <3>3, <3>4
    <3>5. CASE b1 # 0
      <4>1. b1 \in Block /\ IsIndex([ii EXCEPT ![f] = s1.ip], s1.store, b1)
        BY <3>2, <3>3, <3>5, IndexAddr
      <4>2. /\ Stage(ii, f, s2) /\ s1.used \subseteq s2.used
            /\ s2.ip.addrs = s1.ip.addrs
        BY <3>3, <4>1, EnsureSubIndexStage
      <4> HIDE DEF s2
      <4>3. s2.ip.addrs[m] = b1
        BY <4>2
      <4>4. /\ IsIndex([ii EXCEPT ![f] = s2.ip], s2.store, b1)
            /\ IsDouble([ii EXCEPT ![f] = s2.ip], b1)
        BY <3>2, <3>5, <4>2, <4>3, IndexAddr
      <4>5. CASE b2 = 0
        BY <3>1, <3>3, <3>5, <4>2, <4>5
      <4>6. CASE b2 # 0
        <5>1. /\ b2 \in Block /\ IsIndex([ii EXCEPT ![f] = s2.ip], s2.store, b2)
              /\ ~IsDouble([ii EXCEPT ![f] = s2.ip], b2)
          BY <4>1, <4>2, <4>4, <4>6, IndexPtr
        <5> HIDE DEF b1, b2
        <5>2. /\ Stage(ii, f, EnsurePtr(s2, b2, j))
              /\ s2.used \subseteq EnsurePtr(s2, b2, j).used
          BY <4>2, <5>1, EnsurePtrStage
        <5>3. QED
          BY <3>1, <3>3, <3>5, <4>2, <4>6, <5>2
      <4>7. QED
        BY <4>5, <4>6
    <3>6. QED
      BY <3>4, <3>5
  <2>5. QED
    BY <1>3, <2>2, <2>3, <2>4, PathRange
<1>4. QED
  BY <1>1, <1>2, <1>3

-----------------------------------------------------------------------------
(* The invariant *)

Calls == [off : Nat, src : Seq(Value)]

\* A command in progress works on a file, and its calls of writei carry values
\* a block can hold.
Jobs(intent) ==
    [op : {"none", "w", "i", "d"}, f : Files \cup {"none"}, todo : Seq(Calls), tot : Nat,
     trunc : Nat \cup {-1}, reply : {"Yes", "No"}, intent : {intent}]

JobOK ==
    /\ job \in Jobs(job.intent)
    /\ job # Idle => job.f \in Files

IInv ==
    /\ Good(ino, store, bitmap)
    /\ JobOK
    /\ Block \ bitmap # {} => store[0] = Superblock

\* Primed, the graph is the one of the primed inodes, blocks and bitmap.
LEMMA GoodPrimed ==
    ASSUME ndataBlocks' = ndataBlocks, Good(ino', store', bitmap')
    PROVE  Good(ino, store, bitmap)'
<1>1. Block' = Block /\ Value' = Value /\ Inode' = Inode
  BY DEF Block, Value, Inode
<1>2. \A b : IsDouble(ino, b)' <=> IsDouble(ino', b)
  BY DEF IsDouble
<1>3. \A b : IsIndex(ino, store, b)' <=> IsIndex(ino', store', b)
  BY <1>1 DEF IsIndex, IsTop, IsSub, IsDouble
<1>4. Typed(ino, store, bitmap)'
  BY <1>1, <1>3 DEF Good, Typed
<1>5. (\A b : FromInode(ino, b)' <=> FromInode(ino', b))
      /\ \A b : FromIndex(ino, store, b)' <=> FromIndex(ino', store', b)
  BY <1>1, <1>3 DEF FromInode, FromIndex
<1>6. Exclusive(ino, store)'
  BY <1>1, <1>3, <1>5 DEF Good, Exclusive
<1>7. Exact(ino, store, bitmap)'
  BY <1>1, <1>5 DEF Good, Exact
<1>8. QED
  BY <1>4, <1>6, <1>7 DEF Good

\* A job with the fields of a job makes the invariant hold again.
LEMMA JobPrimed ==
    ASSUME ndataBlocks' = ndataBlocks, NEW intent, job' \in Jobs(intent),
           job' = Idle \/ job'.f \in Files
    PROVE  JobOK'
<1>1. Calls' = Calls
  BY DEF Calls, Value
<1>2. Idle' = Idle
  BY DEF Idle
<1>3. job'.intent = intent
  BY DEF Jobs
<1>4. (Jobs(job.intent))' = Jobs(job'.intent)
  BY <1>1 DEF Jobs
<1>5. QED
  BY <1>2, <1>3, <1>4 DEF JobOK

\* The state between two steps is a stage.
LEMMA IsStage ==
    ASSUME IInv, NEW f \in Files
    PROVE  Stage(ino, f, [ip |-> ino[f], store |-> store, used |-> bitmap])
<1>1. /\ ino \in [Files -> Inode] /\ bitmap \in SUBSET Block
      /\ store \in [0..ndataBlocks -> [Cells -> Value]]
  BY DEF IInv, Good, Typed
<1>2. [ino EXCEPT ![f] = ino[f]] = ino /\ ino[f] \in Inode
  BY <1>1
<1>3. QED
  BY <1>1, <1>2 DEF IInv, Stage, Kept

\* Every offset in a file has a block and a place in it.
LEMMA CellOf ==
    ASSUME NEW i \in Nat
    PROVE  i \div BSIZE \in Nat /\ i % BSIZE \in Cells
<1> DEFINE q == i \div BSIZE
           r == i % BSIZE
<1>1. BSIZE \in Nat \ {0}
  BY Sizes
<1>2. q \in Int /\ r \in 0 .. BSIZE - 1 /\ i = BSIZE * q + r
  BY <1>1
<1> HIDE DEF q, r
<1>3. q >= 0
  BY <1>1, <1>2
<1>4. QED
  BY <1>2, <1>3 DEF Cells, q, r

\* Arithmetic of 32 bits.
LEMMA Word == \A x \in Nat : x % WORD \in Nat
  BY FileAssumption

\* What readi returns are values of blocks.
LEMMA ReadiType ==
    ASSUME IInv, NEW f \in Files, NEW off \in Nat, off <= ino[f].size
    PROVE  readi(ino[f], store, off, ino[f].size - off) \in Seq(Value)
<1> DEFINE ip   == ino[f]
           n    == ip.size - off
           m    == IF (off + n) % WORD > ip.size THEN ip.size - off ELSE n
           hole == {k \in 0 .. m - 1 : bmap(ip, store, (off + k) \div BSIZE) = 0}
           r    == IF hole = {} THEN m ELSE Min(hole)
<1>1. ip.size \in Nat /\ n \in Nat
  BY DEF IInv, Good, Typed, Inode
<1>2. m \in Nat
  BY <1>1
<1>3. readi(ino[f], store, off, n) = [k \in 1..r |-> ByteAt(ino[f], store, off + k - 1)]
  BY <1>1 DEF readi
<1>4. hole \subseteq Nat /\ hole \subseteq 0 .. m - 1
  BY <1>2
<1> HIDE DEF hole
<1>5. r \in Nat
  <2>1. CASE hole = {}
    BY <1>2, <2>1
  <2>2. CASE hole # {}
    BY <1>4, <2>2, HasMin
  <2>3. QED
    BY <2>1, <2>2
<1> HIDE DEF r
<1>6. ASSUME NEW k \in 1..r PROVE ByteAt(ino[f], store, off + k - 1) \in Value
  <2>1. off + k - 1 \in Nat
    BY <1>5
  <2> DEFINE i == off + k - 1
             s == [ip |-> ino[f], store |-> store, used |-> bitmap]
  <2> HIDE DEF i
  <2>2. i \div BSIZE \in Nat /\ i % BSIZE \in Cells
    BY <2>1, CellOf DEF i
  <2>3. bmap(s.ip, s.store, i \div BSIZE) \in 0..ndataBlocks
    <3>1. Stage(ino, f, s)
      BY IsStage
    <3> HIDE DEF s
    <3>2. QED
      BY <2>2, <3>1, DataBlock
  <2>4. store \in [0..ndataBlocks -> [Cells -> Value]]
    BY DEF IInv, Good, Typed
  <2>5. ByteAt(ino[f], store, i) \in Value
    BY <2>2, <2>3, <2>4 DEF ByteAt
  <2>6. QED
    BY <2>5 DEF i
<1> DEFINE g == [k \in 1..r |-> ByteAt(ino[f], store, off + k - 1)]
<1>7. g \in [1..r -> Value]
  BY <1>6
<1> HIDE DEF g
<1>8. g \in Seq(Value)
  BY <1>5, <1>7
<1>9. QED
  BY <1>3, <1>8 DEF g

\* The start of a command keeps the addresses.
LEMMA StartStep ==
    ASSUME IInv, NEW op \in {"w", "i", "d"}, NEW f \in Files, NEW inode \in Inode,
           inode.addrs = ino[f].addrs, NEW calls \in Seq(Calls),
           NEW trunc \in Nat \cup {-1}, NEW intent, Start(op, f, inode, calls, trunc, intent)
    PROVE  IInv'
<1>1. ino' = [ino EXCEPT ![f] = inode] /\ UNCHANGED <<ndataBlocks, store, bitmap>>
  BY DEF Start
<1>2. Good(ino, store, bitmap) /\ ino \in [Files -> Inode]
  BY DEF IInv, Good, Typed
<1>3. ino' \in [Files -> Inode]
      /\ \A g \in Files, m \in Addrs : ino'[g].addrs[m] = ino[g].addrs[m]
  BY <1>1, <1>2
<1>4. Good(ino', store', bitmap')
  BY <1>1, <1>2, <1>3, SameAddrs
<1>5. Good(ino, store, bitmap)'
  BY <1>1, <1>4, GoodPrimed
<1>6. JobOK'
  <2>1. Calls' = Calls
    BY <1>1 DEF Calls, Value
  <2>2. job' = [op |-> op, f |-> f, todo |-> calls, tot |-> 0, trunc |-> trunc,
                reply |-> "Yes", intent |-> intent]
    BY DEF Start
  <2>3. job' \in Jobs(intent)
    BY <2>2 DEF Jobs
  <2>4. job'.f \in Files
    BY <2>2
  <2>5. QED
    BY <1>1, <2>3, <2>4, JobPrimed
<1>7. (Block \ bitmap # {} => store[0] = Superblock)'
  BY <1>1 DEF IInv, Block, Superblock
<1>8. QED
  BY <1>5, <1>6, <1>7 DEF IInv

\* Values of commands are values of blocks.
LEMMA CallOK ==
    ASSUME NEW off \in Nat, NEW src, src \in Seq(Byte) \/ src \in Seq(Value)
    PROVE  Call(off, src) \in Calls
<1>1. src \in Seq(Value)
  BY DEF Value
<1>2. QED
  BY <1>1 DEF Call, Calls

\* w starts.
LEMMA StepW ==
    ASSUME IInv, NEW f \in Files, NEW d \in Strings, cmd_w(f, d)
    PROVE  IInv'
<1>1. ino[f] \in Inode
  BY DEF IInv, Good, Typed
<1> DEFINE inode == [ino[f] EXCEPT !.size = 0, !.blocks = 0]
<1>2. inode \in Inode /\ inode.addrs = ino[f].addrs
  BY <1>1 DEF Inode
<1>3. Call(0, d) \in Calls
  BY CallOK, FileAssumption
<1>4. Start("w", f, inode, <<Call(0, d)>>, -1, d)
  BY DEF cmd_w
<1> HIDE DEF inode
<1>5. <<Call(0, d)>> \in Seq(Calls)
  BY <1>3
<1>6. QED
  BY <1>2, <1>4, <1>5, StartStep

\* i starts.
LEMMA StepI ==
    ASSUME IInv, NEW f \in Files, NEW p \in Positions, NEW d \in Strings, cmd_i(f, p, d)
    PROVE  IInv'
<1> DEFINE size   == ino[f].size
           pos    == IF p > size THEN size ELSE p
           tail   == readi(ino[f], store, pos, size - pos)
           old    == content[f]
           calls  == <<Call(pos, d), Call((pos + Len(d)) % WORD, tail)>>
           intent == SubSeq(old, 1, pos) \o d \o SubSeq(old, pos + 1, Len(old))
<1>1. ino[f] \in Inode /\ size \in Nat
  BY DEF IInv, Good, Typed, Inode
<1>2. p \in Nat
  BY FileAssumption
<1>3. pos \in Nat /\ pos <= size
  BY <1>1, <1>2
<1>4. d \in Seq(Byte) /\ Len(d) \in Nat
  BY FileAssumption
<1>5. Start("i", f, ino[f], calls, -1, intent)
  BY DEF cmd_i
<1> HIDE DEF pos, intent
<1>6. tail \in Seq(Value)
  BY <1>3, ReadiType
<1> HIDE DEF tail
<1>7. (pos + Len(d)) % WORD \in Nat
  BY <1>3, <1>4, Word
<1>8. Call(pos, d) \in Calls /\ Call((pos + Len(d)) % WORD, tail) \in Calls
  BY <1>3, <1>4, <1>6, <1>7, CallOK
<1>9. calls \in Seq(Calls)
  BY <1>8
<1> HIDE DEF calls
<1>10. QED
  BY <1>1, <1>5, <1>9, StartStep

\* d starts.
LEMMA StepD ==
    ASSUME IInv, NEW f \in Files, NEW p \in Positions, NEW n \in Lengths, cmd_d(f, p, n)
    PROVE  IInv'
<1> DEFINE size     == ino[f].size
           end      == (p + n) % WORD
           tail_pos == IF end > size THEN size ELSE end
           tail     == readi(ino[f], store, tail_pos, size - tail_pos)
           old      == content[f]
           calls    == <<Call(p, tail)>>
           trunc    == (p + (size - tail_pos)) % WORD
           intent   == SubSeq(old, 1, p) \o SubSeq(old, p + n + 1, Len(old))
<1>1. ino[f] \in Inode /\ size \in Nat
  BY DEF IInv, Good, Typed, Inode
<1>2. p \in Nat /\ n \in Nat
  BY FileAssumption
<1>3. end \in Nat
  BY <1>2, Word
<1>4. Start("d", f, ino[f], calls, trunc, intent)
  BY DEF cmd_d
<1> HIDE DEF end, intent
<1>5. tail_pos \in Nat /\ tail_pos <= size
  BY <1>1, <1>3
<1> HIDE DEF tail_pos
<1>6. tail \in Seq(Value)
  BY <1>5, ReadiType
<1> HIDE DEF tail
<1>7. trunc \in Nat
  <2>1. p + (size - tail_pos) \in Nat
    BY <1>1, <1>2, <1>5
  <2>2. QED
    BY <2>1, Word
<1>8. Call(p, tail) \in Calls
  BY <1>2, <1>6, CallOK
<1>9. calls \in Seq(Calls)
  BY <1>8
<1> HIDE DEF calls, trunc
<1>10. QED
  BY <1>1, <1>4, <1>7, <1>9, StartStep

\* A command with a call to make works on a file; the calls behind are kept.
LEMMA Pending ==
    ASSUME IInv, job.todo # <<>>
    PROVE  /\ job.f \in Files /\ Cur \in Calls
           /\ NextCall \in Jobs(job.intent) /\ NextCall.f = job.f
<1>1. job \in Jobs(job.intent) /\ job # Idle
  BY DEF IInv, JobOK, Idle
<1>2. job.todo \in Seq(Calls)
  BY <1>1 DEF Jobs
<1>3. Cur \in Calls /\ Tail(job.todo) \in Seq(Calls)
  BY <1>2 DEF Cur
<1>4. NextCall \in Jobs(job.intent) /\ NextCall.f = job.f
  BY <1>1, <1>3 DEF Jobs, NextCall
<1>5. QED
  BY <1>1, <1>3, <1>4 DEF IInv, JobOK

\* A call of writei that does nothing.
LEMMA StepRefused ==
    ASSUME IInv, writei_refused
    PROVE  IInv'
<1>1. job.todo # <<>> /\ UNCHANGED <<ndataBlocks, store, bitmap, ino>>
  BY DEF writei_refused
<1>2. job.f \in Files /\ NextCall \in Jobs(job.intent) /\ NextCall.f = job.f
  BY <1>1, Pending
<1>3. job.reply \in {"Yes", "No"}
  BY DEF IInv, JobOK, Jobs
<1>4. job' \in Jobs(job.intent) /\ job'.f = job.f
  BY <1>2, <1>3 DEF writei_refused, Jobs
<1>5. JobOK'
  BY <1>1, <1>2, <1>4, JobPrimed
<1>6. Good(ino, store, bitmap)'
  BY <1>1, GoodPrimed DEF IInv
<1>7. (Block \ bitmap # {} => store[0] = Superblock)'
  BY <1>1 DEF IInv, Block, Superblock
<1>8. QED
  BY <1>5, <1>6, <1>7 DEF IInv

\* One iteration of writei maps a block and writes to it, or leaves what bmap
\* left when blocks ran out.
LEMMA StepBlock ==
    ASSUME IInv, writei_block
    PROVE  IInv'
<1> DEFINE f   == job.f
           c   == Cur
           n   == (c.off + job.tot) \div BSIZE
           s0  == [ip |-> ino[f], store |-> store, used |-> bitmap]
           s   == bmap_alloc(s0, n)
           b   == bmap(s.ip, s.store, n)
           o   == (c.off + job.tot) % BSIZE
           m   == Min({BSIZE - o, Len(c.src) - job.tot})
           new == [i \in Cells |-> IF i \in o .. o + m - 1
                                   THEN c.src[job.tot + i - o + 1] ELSE s.store[b][i]]
<1>1. /\ job.todo # <<>> /\ job.tot < Len(c.src) /\ ndataBlocks' = ndataBlocks
      /\ bitmap' = s.used /\ ino' = [ino EXCEPT ![f] = s.ip]
      /\ \/ b = 0 /\ store' = s.store /\ job' = NextCall
         \/ /\ b # 0 /\ store' = [s.store EXCEPT ![b] = new]
            /\ job' = [job EXCEPT !.tot = job.tot + m]
  BY DEF writei_block, Iteration
<1>2. /\ f \in Files /\ c \in Calls
      /\ NextCall \in Jobs(job.intent) /\ NextCall.f = f
  BY <1>1, Pending
<1>3. c.off \in Nat /\ c.src \in Seq(Value) /\ job.tot \in Nat
  BY <1>2 DEF Calls, IInv, JobOK, Jobs
<1>4. n \in Nat /\ o \in Cells
  <2>1. c.off + job.tot \in Nat
    BY <1>3
  <2>2. QED
    BY <2>1, CellOf
<1>5. Stage(ino, f, s0)
  BY <1>2, IsStage
<1> HIDE DEF f, c, n, o, s0
<1>6. Stage(ino, f, s)
  BY <1>2, <1>4, <1>5, BmapAllocStage
<1> HIDE DEF s
<1>7. b \in 0..ndataBlocks /\ ~IsIndex([ino EXCEPT ![f] = s.ip], s.store, b)
  BY <1>2, <1>4, <1>6, DataBlock
<1> HIDE DEF b
<1>8. /\ Good(ino', s.store, s.used) /\ Kept(s)
      /\ s.store \in [0..ndataBlocks -> [Cells -> Value]]
  BY <1>1, <1>6 DEF Stage
<1>9. m \in Nat /\ m <= Len(c.src) - job.tot
  <2> DEFINE T == {BSIZE - o, Len(c.src) - job.tot}
  <2>1. T \in SUBSET Nat /\ T # {}
    BY <1>1, <1>3, <1>4, Sizes DEF Cells
  <2>2. Min(T) \in T /\ \A y \in T : Min(T) <= y
    BY <2>1, HasMin, Zenon
  <2>3. QED
    BY <2>1, <2>2
<1> HIDE DEF m
<1>10. CASE b = 0
  <2>1. store' = s.store /\ job' = NextCall
    BY <1>1, <1>10
  <2>2. Good(ino', store', bitmap')
    BY <1>1, <1>8, <2>1
  <2>3. Good(ino, store, bitmap)'
    BY <1>1, <2>2, GoodPrimed
  <2>4. JobOK'
    BY <1>1, <1>2, <2>1, JobPrimed
  <2>5. (Block \ bitmap # {} => store[0] = Superblock)'
    BY <1>1, <1>8, <2>1 DEF Kept, Block, Superblock
  <2>6. QED
    BY <2>3, <2>4, <2>5 DEF IInv
<1>11. CASE b # 0
  <2>1. store' = [s.store EXCEPT ![b] = new] /\ job' = [job EXCEPT !.tot = job.tot + m]
    BY <1>1, <1>11
  <2>2. new \in [Cells -> Value]
    <3>1. ASSUME NEW i \in Cells, i \in o .. o + m - 1
          PROVE  c.src[job.tot + i - o + 1] \in Value
      <4>1. job.tot + i - o + 1 \in 1 .. Len(c.src)
        BY <1>3, <1>4, <1>9, <3>1 DEF Cells
      <4>2. QED
        BY <1>3, <4>1
    <3>2. ASSUME NEW i \in Cells PROVE s.store[b][i] \in Value
      BY <1>7, <1>8
    <3>3. QED
      BY <3>1, <3>2
  <2> HIDE DEF new
  <2>3. store' \in [0..ndataBlocks -> [Cells -> Value]]
    BY <1>7, <1>8, <2>1, <2>2
  <2>4. \A x \in 0..ndataBlocks : x # b => store'[x] = s.store[x]
    BY <1>8, <2>1
  <2>5. ~IsIndex(ino', s.store, b)
    BY <1>1, <1>7
  <2>6. \A x \in Block : IsIndex(ino', s.store, x) => store'[x] = s.store[x]
    BY <2>4, <2>5 DEF Block
  <2>7. Good(ino', store', bitmap')
    BY <1>1, <1>8, <2>3, <2>6, WriteOther
  <2>8. Good(ino, store, bitmap)'
    BY <1>1, <2>7, GoodPrimed
  <2>9. JobOK'
    <3>1. job \in Jobs(job.intent) /\ job.tot + m \in Nat
      BY <1>3, <1>9 DEF IInv, JobOK
    <3>2. job' \in Jobs(job.intent) /\ job'.f = f
      BY <2>1, <3>1 DEF Jobs, f
    <3>3. QED
      BY <1>1, <1>2, <3>2, JobPrimed
  <2>10. (Block \ bitmap # {} => store[0] = Superblock)'
    <3>1. 0 \in 0..ndataBlocks
      BY DEF IInv, Good, Typed
    <3>2. store'[0] = s.store[0]
      BY <1>11, <2>4, <3>1
    <3>3. QED
      BY <1>1, <1>8, <3>2 DEF Kept, Block, Superblock
  <2>11. QED
    BY <2>8, <2>9, <2>10 DEF IInv
<1>12. QED
  BY <1>10, <1>11

\* Setting the size of a file.
LEMMA SizeSet ==
    ASSUME IInv, NEW f \in Files, NEW k \in Nat, ndataBlocks' = ndataBlocks,
           ino' = [ino EXCEPT ![f] = [ino[f] EXCEPT !.size = k]],
           UNCHANGED <<store, bitmap>>
    PROVE  Good(ino, store, bitmap)' /\ (Block \ bitmap # {} => store[0] = Superblock)'
<1>1. Good(ino, store, bitmap) /\ ino \in [Files -> Inode]
  BY DEF IInv, Good, Typed
<1> DEFINE x == [ino[f] EXCEPT !.size = k]
<1>2. x \in Inode /\ x.addrs = ino[f].addrs
  BY <1>1 DEF Inode
<1> HIDE DEF x
<1> DEFINE y == [ino EXCEPT ![f] = x]
<1>3. ino' = y
  BY DEF x
<1>4. y \in [Files -> Inode] /\ \A g \in Files, m \in Addrs : y[g].addrs[m] = ino[g].addrs[m]
  BY <1>1, <1>2
<1> HIDE DEF y
<1>5. Good(ino', store', bitmap')
  <2>1. Good(y, store, bitmap)
    BY <1>1, <1>4, SameAddrs
  <2>2. QED
    BY <1>3, <2>1
<1>6. Good(ino, store, bitmap)'
  BY <1>5, GoodPrimed
<1>7. (Block \ bitmap # {} => store[0] = Superblock)'
  BY DEF IInv, Block, Superblock
<1>8. QED
  BY <1>6, <1>7

\* The end of a call of writei.
LEMMA StepDone ==
    ASSUME IInv, writei_done
    PROVE  IInv'
<1> DEFINE end == (Cur.off + Len(Cur.src)) % WORD
           k   == IF end > ino[job.f].size THEN end ELSE ino[job.f].size
<1>1. /\ job.todo # <<>> /\ job' = NextCall /\ UNCHANGED <<ndataBlocks, store, bitmap>>
      /\ ino' = [ino EXCEPT ![job.f] = [ino[job.f] EXCEPT !.size = k]]
  BY DEF writei_done
<1>2. /\ job.f \in Files /\ Cur \in Calls
      /\ NextCall \in Jobs(job.intent) /\ NextCall.f = job.f
  BY <1>1, Pending
<1>3. end \in Nat
  <2>1. Cur.off + Len(Cur.src) \in Nat
    BY <1>2 DEF Calls
  <2>2. QED
    BY <2>1, Word
<1>4. ino[job.f].size \in Nat
  BY <1>2 DEF IInv, Good, Typed, Inode
<1>5. k \in Nat
  BY <1>3, <1>4
<1> HIDE DEF k
<1>6. Good(ino, store, bitmap)' /\ (Block \ bitmap # {} => store[0] = Superblock)'
  BY <1>1, <1>2, <1>5, SizeSet
<1>7. JobOK'
  BY <1>1, <1>2, JobPrimed
<1>8. QED
  BY <1>6, <1>7 DEF IInv

\* The end of a command.
LEMMA StepFinish ==
    ASSUME IInv, Finish
    PROVE  IInv'
<1>1. /\ job.f \in Files /\ job.trunc \in Nat \cup {-1}
      /\ job' = Idle /\ UNCHANGED <<ndataBlocks, store, bitmap>>
  BY DEF Finish, IInv, JobOK, Jobs
<1>2. Good(ino, store, bitmap)' /\ (Block \ bitmap # {} => store[0] = Superblock)'
  <2>1. CASE job.trunc = -1
    <3>1. UNCHANGED <<ndataBlocks, store, bitmap, ino>>
      BY <1>1, <2>1 DEF Finish
    <3>2. Good(ino, store, bitmap)'
      BY <3>1, GoodPrimed DEF IInv
    <3>3. QED
      BY <3>1, <3>2 DEF IInv, Block, Superblock
  <2>2. CASE job.trunc # -1
    <3>1. ino' = [ino EXCEPT ![job.f] = [ino[job.f] EXCEPT !.size = job.trunc]]
      BY <2>2 DEF Finish
    <3>2. QED
      BY <1>1, <2>2, <3>1, SizeSet
  <2>3. QED
    BY <2>1, <2>2
<1>3. Idle \in Jobs(<<>>)
  BY DEF Idle, Jobs
<1>4. JobOK'
  BY <1>1, <1>3, JobPrimed
<1>5. QED
  BY <1>2, <1>4 DEF IInv

\* The invariant holds of a freshly formatted disk.
LEMMA InitInv == Init => IInv
<1> SUFFICES ASSUME Init PROVE IInv
  OBVIOUS
<1>1. ndataBlocks \in Nat /\ Old \in Value /\ SbByte \in Value
  BY FileAssumption DEF Init, Value
<1>2. EmptyInode \in Inode /\ ino \in [Files -> Inode]
  BY <1>1 DEF Init, EmptyInode, Inode
<1>3. \A f \in Files, n \in Addrs : ino[f].addrs[n] = 0
  BY DEF Init, EmptyInode
<1>4. store \in [0..ndataBlocks -> [Cells -> Value]]
  BY <1>1 DEF Init, Superblock
<1>5. \A b \in Block : ~FromInode(ino, b) /\ ~IsTop(ino, b) /\ ~IsDouble(ino, b) /\ b # 0
  BY <1>3, Sizes DEF FromInode, IsTop, IsDouble, Block
<1>6. \A b : ~IsIndex(ino, store, b)
  BY <1>5 DEF IsIndex, IsSub
<1>7. \A b : ~FromIndex(ino, store, b)
  BY <1>6 DEF FromIndex
<1>8. bitmap = {}
  BY DEF Init
<1>9. Good(ino, store, bitmap)
  <2>1. Typed(ino, store, bitmap)
    BY <1>1, <1>2, <1>4, <1>6, <1>8 DEF Typed
  <2>2. Exclusive(ino, store)
    BY <1>3, <1>6, <1>7 DEF Exclusive
  <2>3. Exact(ino, store, bitmap)
    BY <1>5, <1>7, <1>8 DEF Exact
  <2>4. QED
    BY <2>1, <2>2, <2>3 DEF Good
<1>10. JobOK
  BY DEF Init, Idle, JobOK, Jobs
<1>11. store[0] = Superblock
  BY <1>1 DEF Init
<1>12. QED
  BY <1>9, <1>10, <1>11 DEF IInv

\* Every action preserves the invariant.
LEMMA Inductive == IInv /\ [Next]_vars => IInv'
<1> SUFFICES ASSUME IInv, [Next]_vars PROVE IInv'
  OBVIOUS
<1>1. ASSUME NEW f \in Files, NEW d \in Strings, cmd_w(f, d) PROVE IInv'
  BY <1>1, StepW
<1>2. ASSUME NEW f \in Files, NEW p \in Positions, NEW d \in Strings, cmd_i(f, p, d) PROVE IInv'
  BY <1>2, StepI
<1>3. ASSUME NEW f \in Files, NEW p \in Positions, NEW n \in Lengths, cmd_d(f, p, n) PROVE IInv'
  BY <1>3, StepD
<1>4. CASE writei_refused
  BY <1>4, StepRefused
<1>5. CASE writei_block
  BY <1>5, StepBlock
<1>6. CASE writei_done
  BY <1>6, StepDone
<1>7. CASE Finish
  BY <1>7, StepFinish
<1>8. CASE UNCHANGED vars
  <2>1. UNCHANGED <<ndataBlocks, store, bitmap, ino, job>>
    BY <1>8 DEF vars
  <2>2. Good(ino, store, bitmap)'
    BY <2>1, GoodPrimed DEF IInv
  <2>3. JobOK'
    <3>1. job' \in Jobs(job.intent) /\ (job' = Idle \/ job'.f \in Files)
      BY <2>1 DEF IInv, JobOK
    <3>2. QED
      BY <2>1, <3>1, JobPrimed
  <2>4. QED
    BY <2>1, <2>2, <2>3 DEF IInv, Block, Superblock
<1>9. QED
  BY <1>1, <1>2, <1>3, <1>4, <1>5, <1>6, <1>7, <1>8 DEF Next

\* The inductive invariant of the block map holds in every reachable state.
THEOREM Invariance == Spec => []IInv
  BY InitInv, Inductive, PTL DEF Spec

-----------------------------------------------------------------------------
(* What it implies *)

\* The sets of blocks the properties speak of are those of the graph.
LEMMA Sets ==
    ASSUME Good(ino, store, bitmap)
    PROVE  /\ \A b : b \in IndexBlocks <=> IsIndex(ino, store, b)
           /\ \A b : b \in InodePtrs <=> b \in Block /\ FromInode(ino, b)
           /\ \A b : b \in IndexPtrs <=> b \in Block /\ FromIndex(ino, store, b)
           /\ \A b : b \in SubIndex => b \in Block
<1>1. /\ ndataBlocks \in Nat /\ 0 \notin Block
      /\ \A f \in Files, n \in Addrs : ino[f].addrs[n] \in 0..ndataBlocks
  BY DEF Good, Typed, Inode, Block
<1>2. \A x : x \in 0..ndataBlocks /\ x # 0 <=> x \in Block
  BY <1>1 DEF Block
<1>3. \A b : b \in InodePtrs <=> b \in Block /\ FromInode(ino, b)
  BY <1>1, <1>2 DEF InodePtrs, FromInode
<1>4. \A b : b \in TopIndex <=> b \in Block /\ IsTop(ino, b)
  BY <1>1, <1>2, Sizes DEF TopIndex, IsTop
<1>5. \A b : b \in DoubleIndex <=> b \in Block /\ IsDouble(ino, b)
  BY <1>1, <1>2, Sizes DEF DoubleIndex, IsDouble
<1>6. \A b \in Block, i \in Cells : IsIndex(ino, store, b) => store[b][i] \in 0..ndataBlocks
  BY DEF Good, Typed
<1>7. \A b \in Block : IsDouble(ino, b) => IsIndex(ino, store, b)
  BY Levels
<1>8. \A b : b \in SubIndex <=> b \in Block /\ IsSub(ino, store, b)
  BY <1>1, <1>2, <1>5, <1>6, <1>7 DEF SubIndex, IsSub
<1>9. \A b : b \in IndexBlocks <=> IsIndex(ino, store, b)
  BY <1>4, <1>8 DEF IndexBlocks, IsIndex
<1>10. \A b : b \in IndexPtrs <=> b \in Block /\ FromIndex(ino, store, b)
  BY <1>1, <1>2, <1>6, <1>9 DEF IndexPtrs, FromIndex, IsIndex
<1>11. QED
  BY <1>3, <1>8, <1>9, <1>10

\* Every pointer, at every level, leads into the data area.
THEOREM TypesCorrect == Spec => []TypeOK
<1>1. ASSUME IInv PROVE TypeOK
  <2>1. Good(ino, store, bitmap) /\ job \in Jobs(job.intent)
    BY <1>1 DEF IInv, JobOK
  <2>2. DOMAIN store = 0..ndataBlocks /\ bitmap \subseteq Area
    BY <2>1 DEF Good, Typed, Block, Area
  <2>3. \A f \in Files : /\ ino[f].size \in Nat /\ ino[f].blocks \in Nat
                         /\ \A n \in Addrs : ino[f].addrs[n] \in 0..ndataBlocks
    BY <2>1 DEF Good, Typed, Inode
  <2>4. SubIndex \subseteq Area /\ IndexPtrs \subseteq Area
    BY <2>1, Sets DEF Area, Block
  <2>5. job.f \in Files \cup {"none"}
    BY <2>1 DEF Jobs
  <2>6. QED
    BY <2>2, <2>3, <2>4, <2>5 DEF TypeOK
<1>2. QED
  BY <1>1, Invariance, PTL

\* No two pointers, at any level and of any two files, lead to the same block.
THEOREM AlwaysExclusive == Spec => []BlocksExclusive
<1>1. ASSUME IInv PROVE BlocksExclusive
  <2>1. Good(ino, store, bitmap)
    BY <1>1 DEF IInv
  <2>2. \A f, g \in Files : \A m, n \in Addrs :
          ino[f].addrs[m] = ino[g].addrs[n] /\ ino[f].addrs[m] # 0 => f = g /\ m = n
    BY <2>1 DEF Good, Exclusive
  <2>3. \A b, c \in IndexBlocks : \A i, j \in Cells :
          store[b][i] = store[c][j] /\ store[b][i] # 0 => b = c /\ i = j
    <3>1. \A b \in IndexBlocks : b \in Block /\ IsIndex(ino, store, b)
      BY <2>1, Sets DEF IsIndex
    <3>2. QED
      BY <2>1, <3>1 DEF Good, Exclusive
  <2>4. InodePtrs \cap IndexPtrs = {}
    BY <2>1, Sets DEF Good, Exclusive
  <2>5. QED
    BY <2>2, <2>3, <2>4 DEF BlocksExclusive
<1>2. QED
  BY <1>1, Invariance, PTL

\* The bitmap marks the blocks that are reached, and no others: also in the
\* middle of a command, and after allocations have failed.
THEOREM AlwaysExact == Spec => []BitmapExact
<1>1. ASSUME IInv PROVE BitmapExact
  <2>1. Good(ino, store, bitmap)
    BY <1>1 DEF IInv
  <2>2. bitmap \subseteq Block
    BY <2>1 DEF Good, Typed
  <2>3. \A b : b \in bitmap <=> b \in InodePtrs \/ b \in IndexPtrs
    BY <2>1, <2>2, Sets DEF Good, Exact
  <2>4. QED
    BY <2>3 DEF BitmapExact
<1>2. QED
  BY <1>1, Invariance, PTL

\* While a data block is free no file operation has written to block 0.
THEOREM SuperblockAlwaysKept == Spec => []SuperblockKept
<1>1. ASSUME IInv PROVE SuperblockKept
  BY <1>1 DEF IInv, SuperblockKept, SuperblockIntact, BlocksLast, Area, Block
<1>2. QED
  BY <1>1, Invariance, PTL

=============================================================================

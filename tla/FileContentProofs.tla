------------------------- MODULE FileContentProofs -------------------------
(***************************************************************************)
(* Proofs about FileData, continued: what is in a file, for every size of  *)
(* block, disk and file.  A file has no holes, even after writes that ran  *)
(* out of blocks: its blocks are mapped in order, since every call of      *)
(* writei begins within the file or where the call before it ended.  And   *)
(* while blocks last a file holds what the commands on it asked for: the   *)
(* calls of a command bring its intent in order, each iteration of writei  *)
(* changes the bytes of its own file from where it writes on and no others.*)
(***************************************************************************)
EXTENDS FileDataProofs

-----------------------------------------------------------------------------
(* The route to a logical block *)

\* The last pointer on the way to logical block n of inode ip is entry k of
\* index block p.
EndsAt(ip, st, n, p, k) ==
    /\ n < MaxFileBlocks /\ p # 0
    /\ \/ \E m \in NDIRECT .. NDIRECT + 1 : Path(n) = <<m, k>> /\ ip.addrs[m] = p
       \/ \E i \in Cells : /\ Path(n) = <<NDIRECT + 2, i, k>>
                           /\ Entry(st, ip.addrs[NDIRECT + 2], i) = p

\* There is a largest file.
LEMMA Largest == MaxFileBlocks \in Nat
<1>1. NDIRECT + 2 * BSIZE + BSIZE * BSIZE \in Nat
  BY Sizes
<1>2. QED
  BY <1>1, Sizes DEF MaxFileBlocks, DPTRS

\* A byte is found in its block, at its place.
LEMMA Division ==
    ASSUME NEW x \in Nat
    PROVE  \E q \in Nat, r \in Cells : x \div BSIZE = q /\ x % BSIZE = r /\ x = BSIZE * q + r
<1> DEFINE q == x \div BSIZE
           r == x % BSIZE
<1>1. BSIZE \in Nat \ {0}
  BY Sizes
<1>2. q \in Nat /\ r \in Cells
  BY CellOf
<1>3. q \in Int /\ r \in 0 .. BSIZE - 1 /\ x = BSIZE * q + r
  BY <1>1
<1>4. QED
  BY <1>2, <1>3

\* Two logical blocks have two paths.
LEMMA PathOnce ==
    ASSUME NEW m \in Nat, NEW n \in Nat, m < MaxFileBlocks, n < MaxFileBlocks,
           Path(m) = Path(n)
    PROVE  m = n
<1> DEFINE A(x) == x - NDIRECT
           B(x) == x - NDIRECT - BSIZE
           C(x) == x - NDIRECT - BSIZE - BSIZE
           S(x) == \/ x < NDIRECT /\ Path(x) = <<x>>
                   \/ x >= NDIRECT /\ A(x) < BSIZE /\ Path(x) = <<NDIRECT, A(x)>>
                   \/ x >= NDIRECT /\ A(x) >= BSIZE /\ B(x) < BSIZE /\ Path(x) = <<NDIRECT + 1, B(x)>>
                   \/ /\ x >= NDIRECT /\ C(x) >= 0
                      /\ Path(x) = <<NDIRECT + 2, C(x) \div BSIZE, C(x) % BSIZE>>
<1>1. NDIRECT \in Nat \ {0} /\ BSIZE \in Nat \ {0} /\ IPTRS = BSIZE
  BY Sizes
<1>2. ASSUME NEW x \in Nat PROVE S(x)
  <2>1. CASE x < NDIRECT
    BY <1>1, <2>1 DEF Path
  <2>2. CASE x >= NDIRECT /\ A(x) < BSIZE
    BY <1>1, <2>2 DEF Path
  <2>3. CASE x >= NDIRECT /\ A(x) >= BSIZE /\ B(x) < BSIZE
    BY <1>1, <2>3 DEF Path
  <2>4. CASE x >= NDIRECT /\ A(x) >= BSIZE /\ B(x) >= BSIZE
    BY <1>1, <2>4 DEF Path
  <2>5. QED
    BY <1>1, <2>1, <2>2, <2>3, <2>4
<1>3. ASSUME NEW x \in Nat, NEW y \in Nat, x \div BSIZE = y \div BSIZE, x % BSIZE = y % BSIZE
      PROVE  x = y
  BY <1>3, Division
<1>4. S(m) /\ S(n)
  BY <1>2
<1> DEFINE p == Path(m)
<1>5. CASE m < NDIRECT
  BY <1>1, <1>4, <1>5
<1>6. CASE m >= NDIRECT /\ A(m) < BSIZE
  BY <1>1, <1>4, <1>6
<1>7. CASE m >= NDIRECT /\ A(m) >= BSIZE /\ B(m) < BSIZE
  BY <1>1, <1>4, <1>7
<1>8. CASE m >= NDIRECT /\ C(m) >= 0
  <2>1. /\ Path(m) = <<NDIRECT + 2, C(m) \div BSIZE, C(m) % BSIZE>>
    BY <1>1, <1>4, <1>8
  <2>2. /\ Path(n) = <<NDIRECT + 2, C(n) \div BSIZE, C(n) % BSIZE>>
        /\ C(n) >= 0
    BY <1>1, <1>4, <2>1
  <2>3. C(m) \div BSIZE = C(n) \div BSIZE /\ C(m) % BSIZE = C(n) % BSIZE
    <3> DEFINE q1 == C(m) \div BSIZE
               q2 == C(n) \div BSIZE
               r1 == C(m) % BSIZE
               r2 == C(n) % BSIZE
    <3>1. Path(m) = <<NDIRECT + 2, q1, r1>> /\ Path(n) = <<NDIRECT + 2, q2, r2>>
      BY <2>1, <2>2
    <3> HIDE DEF q1, q2, r1, r2
    <3>2. <<NDIRECT + 2, q1, r1>> = <<NDIRECT + 2, q2, r2>>
      BY <3>1
    <3>3. q1 = q2 /\ r1 = r2
      BY <3>2
    <3>4. QED
      BY <3>3 DEF q1, q2, r1, r2
  <2>4. C(m) \in Nat /\ C(n) \in Nat
    BY <1>1, <1>8, <2>2
  <2>5. C(m) = C(n)
    BY <1>3, <2>3, <2>4
  <2>6. QED
    BY <1>1, <2>4, <2>5
<1>9. QED
  BY <1>1, <1>4, <1>5, <1>6, <1>7, <1>8

\* What a pointer leads to: nothing or a block.
LEMMA Leads ==
    ASSUME NEW ii, NEW st, NEW us, Good(ii, st, us), NEW g \in Files, NEW i \in Cells
    PROVE  /\ \A m \in Addrs : /\ ii[g].addrs[m] \in 0..ndataBlocks
                               /\ ii[g].addrs[m] # 0 => ii[g].addrs[m] \in Block
           /\ \A m \in NDIRECT .. NDIRECT + 2 :
                 LET p == ii[g].addrs[m]
                 IN  p # 0 => IsIndex(ii, st, p) /\ (IsDouble(ii, p) <=> m = NDIRECT + 2)
           /\ LET q == Entry(st, ii[g].addrs[NDIRECT + 2], i)
              IN  q # 0 => q \in Block /\ IsIndex(ii, st, q) /\ ~IsDouble(ii, q)
<1>1. /\ ndataBlocks \in Nat /\ ii \in [Files -> Inode]
      /\ \A b \in Block : IsIndex(ii, st, b) => st[b] \in [Cells -> 0..ndataBlocks]
  BY DEF Good, Typed
<1>2. ASSUME NEW m \in Addrs
      PROVE  /\ ii[g].addrs[m] \in 0..ndataBlocks
             /\ ii[g].addrs[m] # 0 => ii[g].addrs[m] \in Block
  <2>1. ii[g].addrs[m] \in 0..ndataBlocks
    BY <1>1 DEF Inode
  <2>2. QED
    BY <1>1, <2>1 DEF Block
<1>3. ASSUME NEW m \in NDIRECT .. NDIRECT + 2, ii[g].addrs[m] # 0
      PROVE  IsIndex(ii, st, ii[g].addrs[m]) /\ (IsDouble(ii, ii[g].addrs[m]) <=> m = NDIRECT + 2)
  <2> DEFINE p == ii[g].addrs[m]
  <2>1. m \in Addrs /\ NDIRECT + 2 \in Addrs
    BY Sizes
  <2>2. p \in Block
    BY <1>2, <1>3, <2>1
  <2>3. IsIndex(ii, st, p)
    BY <2>2 DEF IsIndex, IsTop
  <2>4. m = NDIRECT + 2 => IsDouble(ii, p)
    BY DEF IsDouble
  <2>5. m # NDIRECT + 2 => ~IsDouble(ii, p)
    <3>1. ASSUME NEW h \in Files, p = ii[h].addrs[NDIRECT + 2] PROVE m = NDIRECT + 2
      <4>1. \A x, y \in Addrs : ii[g].addrs[x] = ii[h].addrs[y] /\ ii[g].addrs[x] # 0
                               => g = h /\ x = y
        BY DEF Good, Exclusive
      <4>2. QED
        BY <1>3, <2>1, <3>1, <4>1, Zenon
    <3>2. QED
      BY <3>1 DEF IsDouble
  <2>6. QED
    BY <2>3, <2>4, <2>5
<1>4. ASSUME Entry(st, ii[g].addrs[NDIRECT + 2], i) # 0
      PROVE  LET q == Entry(st, ii[g].addrs[NDIRECT + 2], i)
             IN  q \in Block /\ IsIndex(ii, st, q) /\ ~IsDouble(ii, q)
  <2> DEFINE p == ii[g].addrs[NDIRECT + 2]
             q == Entry(st, p, i)
  <2>1. NDIRECT + 2 \in NDIRECT .. NDIRECT + 2 /\ NDIRECT + 2 \in Addrs
    BY Sizes
  <2>2. p # 0 /\ q = st[p][i] /\ q # 0
    BY <1>4 DEF Entry
  <2>3. p \in Block /\ IsIndex(ii, st, p) /\ IsDouble(ii, p)
    BY <1>2, <1>3, <2>1, <2>2
  <2>4. q \in Block
    BY <1>1, <2>2, <2>3 DEF Block
  <2>5. IsSub(ii, st, q)
    BY <2>2, <2>3 DEF IsSub
  <2>6. IsIndex(ii, st, q) /\ ~IsDouble(ii, q)
    BY <2>4, <2>5, Levels DEF IsIndex
  <2>7. QED
    BY <2>4, <2>6
<1>5. QED
  BY <1>2, <1>3, <1>4

\* The kinds of paths, with what bmap finds on them.
LEMMA Routes ==
    ASSUME NEW n \in Nat, n < MaxFileBlocks
    PROVE  \/ /\ n \in 0 .. NDIRECT - 1 /\ Path(n) = <<n>>
              /\ \A ip, st : bmap(ip, st, n) = ip.addrs[n]
           \/ \E m \in NDIRECT .. NDIRECT + 1, i \in Cells :
                 /\ Path(n) = <<m, i>>
                 /\ \A ip, st : bmap(ip, st, n) = Entry(st, ip.addrs[m], i)
           \/ \E i, j \in Cells :
                 /\ Path(n) = <<NDIRECT + 2, i, j>>
                 /\ \A ip, st : bmap(ip, st, n) =
                                    Entry(st, Entry(st, ip.addrs[NDIRECT + 2], i), j)
<1>1. ~(n >= MaxFileBlocks)
  BY Largest
<1>2. CASE n \in 0 .. NDIRECT - 1 /\ Path(n) = <<n>>
  <2>1. \A ip, st : bmap(ip, st, n) = ip.addrs[n]
    BY <1>1, <1>2, BmapDirect
  <2>2. QED
    BY <1>2, <2>1
<1>3. ASSUME NEW m \in NDIRECT .. NDIRECT + 1, NEW i \in Cells, Path(n) = <<m, i>>
      PROVE  \A ip, st : bmap(ip, st, n) = Entry(st, ip.addrs[m], i)
  BY <1>1, <1>3, BmapIndirect
<1>4. ASSUME NEW i \in Cells, NEW j \in Cells, Path(n) = <<NDIRECT + 2, i, j>>
      PROVE  \A ip, st : bmap(ip, st, n) = Entry(st, Entry(st, ip.addrs[NDIRECT + 2], i), j)
  BY <1>1, <1>4, BmapDouble
<1>5. QED
  BY <1>2, <1>3, <1>4, PathRange

\* Behind the largest file nothing is mapped.
LEMMA Beyond == \A ip, st : \A n \in Nat : n >= MaxFileBlocks => bmap(ip, st, n) = 0
  BY DEF bmap

-----------------------------------------------------------------------------
(* What the steps of bmap do to what is mapped *)

\* The same pointers lead to the same blocks.
LEMMA SameMaps ==
    ASSUME NEW ii, NEW st, NEW us, NEW ii2, NEW st2, Good(ii, st, us),
           SamePtrs(ii, st, ii2, st2), NEW g \in Files, NEW n \in Nat
    PROVE  bmap(ii2[g], st2, n) = bmap(ii[g], st, n)
<1>1. /\ \A m \in Addrs : ii2[g].addrs[m] = ii[g].addrs[m]
      /\ \A b \in Block : IsIndex(ii, st, b) => st2[b] = st[b]
  BY DEF SamePtrs
<1>2. NDIRECT + 2 \in Addrs /\ NDIRECT .. NDIRECT + 2 \subseteq Addrs
  BY Sizes
<1>3. ASSUME NEW p, NEW i, p = 0 \/ (p \in Block /\ IsIndex(ii, st, p))
      PROVE  Entry(st2, p, i) = Entry(st, p, i)
  BY <1>1, <1>3 DEF Entry
<1>4. ASSUME NEW m \in NDIRECT .. NDIRECT + 2, NEW i \in Cells
      PROVE  Entry(st2, ii2[g].addrs[m], i) = Entry(st, ii[g].addrs[m], i)
  <2>1. ii[g].addrs[m] = 0 \/ (ii[g].addrs[m] \in Block /\ IsIndex(ii, st, ii[g].addrs[m]))
    BY <1>2, Leads
  <2>2. ii2[g].addrs[m] = ii[g].addrs[m]
    BY <1>1, <1>2
  <2>3. QED
    BY <1>3, <2>1, <2>2
<1>5. CASE n >= MaxFileBlocks
  BY <1>5, Beyond
<1>6. CASE n < MaxFileBlocks
  <2>1. CASE n \in 0 .. NDIRECT - 1 /\ \A ip, s : bmap(ip, s, n) = ip.addrs[n]
    <3>1. n \in Addrs
      BY <2>1, Sizes DEF Addrs
    <3>2. QED
      BY <1>1, <2>1, <3>1
  <2>2. ASSUME NEW m \in NDIRECT .. NDIRECT + 1, NEW i \in Cells,
               \A ip, s : bmap(ip, s, n) = Entry(s, ip.addrs[m], i)
        PROVE  bmap(ii2[g], st2, n) = bmap(ii[g], st, n)
    <3>1. m \in NDIRECT .. NDIRECT + 2
      BY Sizes
    <3>2. QED
      BY <1>4, <2>2, <3>1
  <2>3. ASSUME NEW i \in Cells, NEW j \in Cells,
               \A ip, s : bmap(ip, s, n) = Entry(s, Entry(s, ip.addrs[NDIRECT + 2], i), j)
        PROVE  bmap(ii2[g], st2, n) = bmap(ii[g], st, n)
    <3> DEFINE q == Entry(st, ii[g].addrs[NDIRECT + 2], i)
    <3>1. NDIRECT + 2 \in NDIRECT .. NDIRECT + 2
      BY Sizes
    <3>2. Entry(st2, ii2[g].addrs[NDIRECT + 2], i) = q
      BY <1>4, <3>1
    <3>3. q = 0 \/ (q \in Block /\ IsIndex(ii, st, q))
      BY Leads
    <3> HIDE DEF q
    <3>4. Entry(st2, q, j) = Entry(st, q, j)
      BY <1>3, <3>3
    <3>5. bmap(ii2[g], st2, n) = Entry(st2, q, j)
      BY <2>3, <3>2
    <3>6. bmap(ii[g], st, n) = Entry(st, q, j)
      BY <2>3 DEF q
    <3>7. QED
      BY <3>4, <3>5, <3>6
  <2>4. QED
    BY <1>6, <2>1, <2>2, <2>3, Routes
<1>7. QED
  BY <1>5, <1>6, Largest

\* A new address of an inode maps at most one block, a direct one.
LEMMA AddrMaps ==
    ASSUME NEW ii, NEW st, NEW us, NEW f, NEW m, NEW a, NEW ii2, NEW st2,
           Good(ii, st, us), AddsAddr(ii, st, us, f, m, a, ii2, st2),
           NEW g \in Files, NEW n \in Nat
    PROVE  \/ bmap(ii2[g], st2, n) = bmap(ii[g], st, n)
           \/ g = f /\ n = m /\ m < NDIRECT /\ bmap(ii[g], st, n) = 0
<1> /\ a \in Block \ us /\ f \in Files /\ m \in Addrs
    /\ ii[f].addrs[m] = 0 /\ ii2[f].addrs[m] = a
    /\ \A h \in Files, k \in Addrs : ~(h = f /\ k = m) => ii2[h].addrs[k] = ii[h].addrs[k]
    /\ \A b \in Block : b # a => st2[b] = st[b]
    /\ m >= NDIRECT => \A i \in Cells : st2[a][i] = 0
  BY DEF AddsAddr
<1>1. NDIRECT + 2 \in Addrs /\ NDIRECT .. NDIRECT + 2 \subseteq Addrs /\ 0 \notin Block
  BY Sizes DEF Block
<1>2. ~IsIndex(ii, st, a)
  BY Free
<1>3. ASSUME NEW p, NEW i, p = 0 \/ (p \in Block /\ IsIndex(ii, st, p))
      PROVE  Entry(st2, p, i) = Entry(st, p, i)
  BY <1>2, <1>3 DEF Entry
<1>4. ASSUME NEW k \in NDIRECT .. NDIRECT + 2, NEW i \in Cells
      PROVE  Entry(st2, ii2[g].addrs[k], i) = Entry(st, ii[g].addrs[k], i)
  <2>1. ii[g].addrs[k] = 0 \/ (ii[g].addrs[k] \in Block /\ IsIndex(ii, st, ii[g].addrs[k]))
    BY <1>1, Leads
  <2>2. CASE ~(g = f /\ k = m)
    <3>1. ii2[g].addrs[k] = ii[g].addrs[k]
      BY <1>1, <2>2
    <3>2. QED
      BY <1>3, <2>1, <3>1
  <2>3. CASE g = f /\ k = m
    <3>1. m >= NDIRECT
      BY <2>3, Sizes
    <3>2. Entry(st2, ii2[g].addrs[k], i) = 0
      BY <2>3, <3>1 DEF Entry
    <3>3. Entry(st, ii[g].addrs[k], i) = 0
      BY <2>3 DEF Entry
    <3>4. QED
      BY <3>2, <3>3
  <2>4. QED
    BY <2>2, <2>3
<1>5. CASE n >= MaxFileBlocks
  BY <1>5, Beyond
<1>6. CASE n < MaxFileBlocks
  <2>1. CASE n \in 0 .. NDIRECT - 1 /\ \A ip, s : bmap(ip, s, n) = ip.addrs[n]
    <3>1. n \in Addrs
      BY <2>1, Sizes DEF Addrs
    <3>2. CASE g = f /\ n = m
      <4>1. bmap(ii[g], st, n) = 0
        BY <2>1, <3>2
      <4>2. m < NDIRECT
        BY <2>1, <3>2, Sizes
      <4>3. QED
        BY <3>2, <4>1, <4>2
    <3>3. CASE ~(g = f /\ n = m)
      BY <2>1, <3>1, <3>3
    <3>4. QED
      BY <3>2, <3>3
  <2>2. ASSUME NEW k \in NDIRECT .. NDIRECT + 1, NEW i \in Cells,
               \A ip, s : bmap(ip, s, n) = Entry(s, ip.addrs[k], i)
        PROVE  bmap(ii2[g], st2, n) = bmap(ii[g], st, n)
    <3>1. k \in NDIRECT .. NDIRECT + 2
      BY Sizes
    <3>2. QED
      BY <1>4, <2>2, <3>1
  <2>3. ASSUME NEW i \in Cells, NEW j \in Cells,
               \A ip, s : bmap(ip, s, n) = Entry(s, Entry(s, ip.addrs[NDIRECT + 2], i), j)
        PROVE  bmap(ii2[g], st2, n) = bmap(ii[g], st, n)
    <3> DEFINE q == Entry(st, ii[g].addrs[NDIRECT + 2], i)
    <3>1. NDIRECT + 2 \in NDIRECT .. NDIRECT + 2
      BY Sizes
    <3>2. Entry(st2, ii2[g].addrs[NDIRECT + 2], i) = q
      BY <1>4, <3>1
    <3>3. q = 0 \/ (q \in Block /\ IsIndex(ii, st, q))
      BY Leads
    <3> HIDE DEF q
    <3>4. Entry(st2, q, j) = Entry(st, q, j)
      BY <1>3, <3>3
    <3>5. bmap(ii2[g], st2, n) = Entry(st2, q, j)
      BY <2>3, <3>2
    <3>6. bmap(ii[g], st, n) = Entry(st, q, j)
      BY <2>3 DEF q
    <3>7. QED
      BY <3>4, <3>5, <3>6
  <2>4. QED
    BY <1>6, <2>1, <2>2, <2>3, Routes
<1>7. QED
  BY <1>5, <1>6, Largest

\* A new pointer in an index block maps at most one block, at the end of whose
\* route it is.
LEMMA PtrMaps ==
    ASSUME NEW ii, NEW st, NEW us, NEW p, NEW k, NEW a, NEW st2,
           Good(ii, st, us), AddsPtr(ii, st, us, p, k, a, st2),
           NEW g \in Files, NEW n \in Nat
    PROVE  \/ bmap(ii[g], st2, n) = bmap(ii[g], st, n)
           \/ ~IsDouble(ii, p) /\ EndsAt(ii[g], st, n, p, k) /\ bmap(ii[g], st, n) = 0
<1> /\ a \in Block \ us /\ p \in Block /\ k \in Cells
    /\ st[p][k] = 0 /\ st2[p][k] = a
    /\ \A i \in Cells \ {k} : st2[p][i] = st[p][i]
    /\ \A b \in Block : b # a /\ b # p => st2[b] = st[b]
    /\ IsDouble(ii, p) => \A i \in Cells : st2[a][i] = 0
  BY DEF AddsPtr
<1>1. NDIRECT + 2 \in Addrs /\ NDIRECT .. NDIRECT + 2 \subseteq Addrs /\ 0 \notin Block
  BY Sizes DEF Block
<1>2. ~IsIndex(ii, st, a)
  BY Free
<1>3. ASSUME NEW q, NEW i \in Cells, q = 0 \/ (q \in Block /\ IsIndex(ii, st, q)),
             ~(q = p /\ i = k)
      PROVE  Entry(st2, q, i) = Entry(st, q, i)
  BY <1>2, <1>3 DEF Entry
<1>4. Entry(st, p, k) = 0 /\ Entry(st2, p, k) = a
  BY <1>1 DEF Entry
<1>5. CASE n >= MaxFileBlocks
  BY <1>5, Beyond
<1>6. CASE n < MaxFileBlocks
  <2>1. CASE n \in 0 .. NDIRECT - 1 /\ \A ip, s : bmap(ip, s, n) = ip.addrs[n]
    BY <2>1
  <2>2. ASSUME NEW m \in NDIRECT .. NDIRECT + 1, NEW i \in Cells, Path(n) = <<m, i>>,
               \A ip, s : bmap(ip, s, n) = Entry(s, ip.addrs[m], i)
        PROVE  \/ bmap(ii[g], st2, n) = bmap(ii[g], st, n)
               \/ ~IsDouble(ii, p) /\ EndsAt(ii[g], st, n, p, k) /\ bmap(ii[g], st, n) = 0
    <3> DEFINE q == ii[g].addrs[m]
    <3>1. m \in NDIRECT .. NDIRECT + 2 /\ m # NDIRECT + 2
      BY Sizes
    <3>2. q = 0 \/ (q \in Block /\ IsIndex(ii, st, q) /\ ~IsDouble(ii, q))
      BY <1>1, <3>1, Leads
    <3>3. CASE q = p /\ i = k
      <4>1. EndsAt(ii[g], st, n, p, k)
        BY <1>1, <1>6, <2>2, <3>3 DEF EndsAt
      <4>2. bmap(ii[g], st, n) = 0
        BY <1>4, <2>2, <3>3
      <4>3. QED
        BY <1>1, <3>2, <3>3, <4>1, <4>2
    <3>4. CASE ~(q = p /\ i = k)
      BY <1>3, <2>2, <3>2, <3>4
    <3>5. QED
      BY <3>3, <3>4
  <2>3. ASSUME NEW i \in Cells, NEW j \in Cells, Path(n) = <<NDIRECT + 2, i, j>>,
               \A ip, s : bmap(ip, s, n) = Entry(s, Entry(s, ip.addrs[NDIRECT + 2], i), j)
        PROVE  \/ bmap(ii[g], st2, n) = bmap(ii[g], st, n)
               \/ ~IsDouble(ii, p) /\ EndsAt(ii[g], st, n, p, k) /\ bmap(ii[g], st, n) = 0
    <3> DEFINE d == ii[g].addrs[NDIRECT + 2]
               q == Entry(st, d, i)
    <3>1. NDIRECT + 2 \in NDIRECT .. NDIRECT + 2
      BY Sizes
    <3>2. d = 0 \/ (d \in Block /\ IsIndex(ii, st, d) /\ IsDouble(ii, d))
      BY <1>1, <3>1, Leads
    <3>3. q = 0 \/ (q \in Block /\ IsIndex(ii, st, q) /\ ~IsDouble(ii, q))
      BY Leads
    <3>4. bmap(ii[g], st2, n) = Entry(st2, Entry(st2, d, i), j) /\ bmap(ii[g], st, n) = Entry(st, q, j)
      BY <2>3
    <3>5. CASE d = p /\ i = k
      <4>1. q = 0 /\ Entry(st2, d, i) = a
        BY <1>4, <3>5
      <4>2. IsDouble(ii, p)
        BY <1>1, <3>2, <3>5
      <4>3. Entry(st, q, j) = 0 /\ Entry(st2, a, j) = 0
        BY <4>1, <4>2 DEF Entry
      <4>4. QED
        BY <3>4, <4>1, <4>3
    <3>6. CASE ~(d = p /\ i = k)
      <4>1. Entry(st2, d, i) = q
        BY <1>3, <3>2, <3>6
      <4>2. CASE q = p /\ j = k
        <5>1. EndsAt(ii[g], st, n, p, k)
          BY <1>1, <1>6, <2>3, <4>2 DEF EndsAt
        <5>2. bmap(ii[g], st, n) = 0
          BY <1>4, <3>4, <4>2
        <5>3. QED
          BY <1>1, <3>3, <4>2, <5>1, <5>2
      <4>3. CASE ~(q = p /\ j = k)
        <5> HIDE DEF q
        <5>1. Entry(st2, q, j) = Entry(st, q, j)
          BY <1>3, <3>3, <4>3
        <5>2. QED
          BY <3>4, <4>1, <5>1
      <4>4. QED
        BY <4>2, <4>3
    <3>7. QED
      BY <3>5, <3>6
  <2>4. QED
    BY <1>6, <2>1, <2>2, <2>3, Routes
<1>7. QED
  BY <1>5, <1>6, Largest

\* A place in an index block ends at most one route.
LEMMA EndsOnce ==
    ASSUME NEW ii, NEW st, NEW us, Good(ii, st, us), NEW p \in Block, NEW k \in Cells,
           NEW g \in Files, NEW h \in Files, NEW m \in Nat, NEW n \in Nat,
           EndsAt(ii[g], st, m, p, k), EndsAt(ii[h], st, n, p, k)
    PROVE  g = h /\ m = n
<1>1. /\ NDIRECT .. NDIRECT + 1 \subseteq Addrs /\ NDIRECT + 2 \in Addrs
      /\ NDIRECT + 2 \in NDIRECT .. NDIRECT + 2 /\ 0 \notin Block
  BY Sizes DEF Addrs, Block
<1>2. /\ m < MaxFileBlocks /\ n < MaxFileBlocks
  BY DEF EndsAt
<1>3. /\ \A x, y \in Addrs : ii[g].addrs[x] = ii[h].addrs[y] /\ ii[g].addrs[x] # 0
                             => g = h /\ x = y
      /\ \A b, c \in Block : \A i, j \in Cells :
            /\ IsIndex(ii, st, b) /\ IsIndex(ii, st, c)
            /\ st[b][i] = st[c][j] /\ st[b][i] # 0
            => b = c /\ i = j
      /\ ~(FromInode(ii, p) /\ FromIndex(ii, st, p))
  BY DEF Good, Exclusive
<1>4. ASSUME NEW e \in Files, NEW x \in NDIRECT .. NDIRECT + 1, ii[e].addrs[x] = p
      PROVE  FromInode(ii, p)
  BY <1>1, <1>4 DEF FromInode
<1>5. ASSUME NEW e \in Files, NEW i \in Cells, Entry(st, ii[e].addrs[NDIRECT + 2], i) = p
      PROVE  /\ ii[e].addrs[NDIRECT + 2] \in Block
             /\ IsIndex(ii, st, ii[e].addrs[NDIRECT + 2])
             /\ st[ii[e].addrs[NDIRECT + 2]][i] = p
             /\ FromIndex(ii, st, p)
  <2> DEFINE d == ii[e].addrs[NDIRECT + 2]
  <2>1. d # 0 /\ st[d][i] = p
    BY <1>1, <1>5 DEF Entry
  <2>2. d \in Block /\ IsIndex(ii, st, d)
    BY <1>1, <2>1, Leads
  <2>3. FromIndex(ii, st, p)
    BY <2>1, <2>2 DEF FromIndex
  <2>4. QED
    BY <2>1, <2>2, <2>3
<1>6. ASSUME NEW x \in NDIRECT .. NDIRECT + 1, NEW y \in NDIRECT .. NDIRECT + 1,
             Path(m) = <<x, k>>, Path(n) = <<y, k>>, ii[g].addrs[x] = p, ii[h].addrs[y] = p
      PROVE  g = h /\ m = n
  <2>1. g = h /\ x = y
    BY <1>1, <1>3, <1>6
  <2>2. QED
    BY <1>2, <1>6, <2>1, PathOnce
<1>7. ASSUME NEW i \in Cells, NEW j \in Cells,
             Path(m) = <<NDIRECT + 2, i, k>>, Path(n) = <<NDIRECT + 2, j, k>>,
             Entry(st, ii[g].addrs[NDIRECT + 2], i) = p,
             Entry(st, ii[h].addrs[NDIRECT + 2], j) = p
      PROVE  g = h /\ m = n
  <2> DEFINE c == ii[g].addrs[NDIRECT + 2]
             d == ii[h].addrs[NDIRECT + 2]
  <2>1. /\ c \in Block /\ IsIndex(ii, st, c) /\ st[c][i] = p
        /\ d \in Block /\ IsIndex(ii, st, d) /\ st[d][j] = p
    BY <1>5, <1>7
  <2>2. c = d /\ i = j
    BY <1>1, <1>3, <2>1
  <2>3. g = h
    BY <1>1, <1>3, <2>1, <2>2
  <2>4. QED
    BY <1>2, <1>7, <2>2, <2>3, PathOnce
<1>8. QED
  BY <1>3, <1>4, <1>5, <1>6, <1>7 DEF EndsAt

\* The last pointer to a logical block that is mapped: an address of the inode, or an
\* entry of an index block.
LEMMA LastPtr ==
    ASSUME NEW ii, NEW st, NEW us, Good(ii, st, us), NEW g \in Files, NEW n \in Nat,
           NEW b, b = bmap(ii[g], st, n), b # 0
    PROVE  \/ n \in 0 .. NDIRECT - 1 /\ b = ii[g].addrs[n]
           \/ \E p \in Block, k \in Cells :
                 /\ EndsAt(ii[g], st, n, p, k) /\ b = st[p][k]
                 /\ IsIndex(ii, st, p) /\ ~IsDouble(ii, p)
<1>1. n < MaxFileBlocks /\ 0 \notin Block
  BY Beyond, Largest DEF Block
<1>2. /\ NDIRECT .. NDIRECT + 1 \subseteq NDIRECT .. NDIRECT + 2
      /\ NDIRECT .. NDIRECT + 1 \subseteq Addrs
      /\ \A m \in NDIRECT .. NDIRECT + 1 : m # NDIRECT + 2
  BY Sizes DEF Addrs
<1>3. ASSUME NEW m \in NDIRECT .. NDIRECT + 1, NEW i \in Cells, Path(n) = <<m, i>>,
             b = Entry(st, ii[g].addrs[m], i)
      PROVE  \E p \in Block, k \in Cells :
                /\ EndsAt(ii[g], st, n, p, k) /\ b = st[p][k]
                /\ IsIndex(ii, st, p) /\ ~IsDouble(ii, p)
  <2> DEFINE p == ii[g].addrs[m]
  <2>1. p # 0 /\ b = st[p][i]
    BY <1>3 DEF Entry
  <2>2. p \in Block /\ IsIndex(ii, st, p) /\ ~IsDouble(ii, p)
    BY <1>2, <2>1, Leads
  <2>3. EndsAt(ii[g], st, n, p, i)
    BY <1>1, <1>3, <2>1 DEF EndsAt
  <2> HIDE DEF p
  <2>4. QED
    BY <2>1, <2>2, <2>3
<1>4. ASSUME NEW i \in Cells, NEW j \in Cells, Path(n) = <<NDIRECT + 2, i, j>>,
             b = Entry(st, Entry(st, ii[g].addrs[NDIRECT + 2], i), j)
      PROVE  \E p \in Block, k \in Cells :
                /\ EndsAt(ii[g], st, n, p, k) /\ b = st[p][k]
                /\ IsIndex(ii, st, p) /\ ~IsDouble(ii, p)
  <2> DEFINE p == Entry(st, ii[g].addrs[NDIRECT + 2], i)
  <2>1. p # 0 /\ b = st[p][j]
    <3> HIDE DEF p
    <3>1. b = Entry(st, p, j)
      BY <1>4 DEF p
    <3>2. QED
      BY <3>1 DEF Entry
  <2>2. p \in Block /\ IsIndex(ii, st, p) /\ ~IsDouble(ii, p)
    BY <2>1, Leads
  <2>3. EndsAt(ii[g], st, n, p, j)
    BY <1>1, <1>4, <2>1 DEF EndsAt
  <2> HIDE DEF p
  <2>4. QED
    BY <2>1, <2>2, <2>3
<1>5. QED
  BY <1>1, <1>3, <1>4, Routes

\* What is mapped is a block marked used, which holds no pointers.
LEMMA MapsData ==
    ASSUME NEW ii, NEW st, NEW us, Good(ii, st, us), NEW g \in Files, NEW n \in Nat,
           NEW b, b = bmap(ii[g], st, n), b # 0
    PROVE  b \in Block /\ b \in us /\ ~IsIndex(ii, st, b)
<1>1. CASE n \in 0 .. NDIRECT - 1 /\ b = ii[g].addrs[n]
  <2>1. /\ n \in Addrs /\ NDIRECT .. NDIRECT + 2 \subseteq Addrs
        /\ \A m \in NDIRECT .. NDIRECT + 2 : m # n
    BY <1>1, Sizes DEF Addrs
  <2>2. g \in Files /\ 0 \in Cells
    BY Sizes DEF Cells
  <2>3. b \in Block
    BY <1>1, <2>1, <2>2, Leads
  <2>4. FromInode(ii, b)
    BY <1>1, <2>1 DEF FromInode
  <2>5. b \in us /\ ~FromIndex(ii, st, b)
    BY <2>3, <2>4 DEF Good, Exact, Exclusive
  <2>6. ~IsTop(ii, b)
    <3>1. \A h \in Files : \A m \in Addrs : ii[g].addrs[n] = ii[h].addrs[m] => n = m
      BY <1>1, <2>1 DEF Good, Exclusive
    <3>2. QED
      BY <1>1, <2>1, <3>1 DEF IsTop
  <2>7. ~IsSub(ii, st, b)
    BY <2>5, Levels DEF IsSub, FromIndex
  <2>8. QED
    BY <2>3, <2>5, <2>6, <2>7 DEF IsIndex
<1>2. ASSUME NEW p \in Block, NEW k \in Cells, b = st[p][k],
             IsIndex(ii, st, p), ~IsDouble(ii, p)
      PROVE  b \in Block /\ b \in us /\ ~IsIndex(ii, st, b)
  <2>1. st[p] \in [Cells -> 0..ndataBlocks] /\ ndataBlocks \in Nat
    BY <1>2 DEF Good, Typed
  <2>2. b \in Block
    BY <1>2, <2>1 DEF Block
  <2>3. FromIndex(ii, st, b)
    BY <1>2 DEF FromIndex
  <2>4. b \in us
    BY <2>2, <2>3 DEF Good, Exact
  <2>5. ~IsIndex(ii, st, b)
    BY <1>2, <2>2, LeafPtr
  <2>6. QED
    BY <2>2, <2>4, <2>5
<1>3. QED
  BY <1>1, <1>2, LastPtr

\* No block is mapped twice.
LEMMA MapsOnce ==
    ASSUME NEW ii, NEW st, NEW us, Good(ii, st, us),
           NEW g \in Files, NEW h \in Files, NEW m \in Nat, NEW n \in Nat,
           NEW b, b = bmap(ii[g], st, m), b = bmap(ii[h], st, n), b # 0
    PROVE  g = h /\ m = n
<1> DEFINE Direct(e, x) == x \in 0 .. NDIRECT - 1 /\ b = ii[e].addrs[x]
           Ends(e, x, p, k) == /\ EndsAt(ii[e], st, x, p, k) /\ b = st[p][k]
                               /\ IsIndex(ii, st, p)
<1>1. /\ Direct(g, m) \/ \E p \in Block, k \in Cells : Ends(g, m, p, k)
      /\ Direct(h, n) \/ \E p \in Block, k \in Cells : Ends(h, n, p, k)
  <2>1. ASSUME NEW e \in Files, NEW x \in Nat, b = bmap(ii[e], st, x)
        PROVE  Direct(e, x) \/ \E p \in Block, k \in Cells : Ends(e, x, p, k)
    BY <2>1, LastPtr
  <2> HIDE DEF Direct, Ends
  <2>2. QED
    BY <2>1
<1>2. b \in Block /\ 0 .. NDIRECT - 1 \subseteq Addrs
  BY MapsData, Sizes DEF Addrs
<1>3. /\ \A x, y \in Addrs : ii[g].addrs[x] = ii[h].addrs[y] /\ ii[g].addrs[x] # 0
                             => g = h /\ x = y
      /\ \A c, d \in Block : \A i, j \in Cells :
            /\ IsIndex(ii, st, c) /\ IsIndex(ii, st, d)
            /\ st[c][i] = st[d][j] /\ st[c][i] # 0
            => c = d /\ i = j
      /\ ~(FromInode(ii, b) /\ FromIndex(ii, st, b))
  BY <1>2 DEF Good, Exclusive
<1>4. ASSUME NEW e \in Files, NEW x, Direct(e, x) PROVE FromInode(ii, b)
  BY <1>2, <1>4 DEF FromInode
<1>5. ASSUME NEW e \in Files, NEW x, NEW p \in Block, NEW k \in Cells, Ends(e, x, p, k)
      PROVE  FromIndex(ii, st, b)
  BY <1>5 DEF FromIndex
<1>6. CASE Direct(g, m) /\ Direct(h, n)
  BY <1>2, <1>3, <1>6
<1>7. ASSUME NEW p \in Block, NEW k \in Cells, Ends(g, m, p, k),
             NEW q \in Block, NEW j \in Cells, Ends(h, n, q, j)
      PROVE  g = h /\ m = n
  <2>1. p = q /\ k = j
    BY <1>3, <1>7
  <2>2. QED
    BY <1>7, <2>1, EndsOnce
<1> HIDE DEF Direct, Ends
<1>8. QED
  BY <1>1, <1>3, <1>4, <1>5, <1>6, <1>7

-----------------------------------------------------------------------------
(* What the steps of bmap leave *)

\* What bmap finds for block k of file g, if stage s is that of file f.
Found(ii, f, s, g, k) == bmap([ii EXCEPT ![f] = s.ip][g], s.store, k)

\* From stage s to t nothing changes for a block that is mapped, nor in it, and
\* only block n of file f may be mapped anew, if there is a free block.
Grows(ii, f, s, t, n) ==
    /\ s.used \subseteq t.used
    /\ t.ip.size = s.ip.size
    /\ \A g \in Files, k \in Nat :
          \/ Found(ii, f, t, g, k) = Found(ii, f, s, g, k)
          \/ g = f /\ k = n /\ Found(ii, f, s, g, k) = 0 /\ ~(Block \subseteq s.used)
    /\ \A g \in Files, k \in Nat :
          Found(ii, f, s, g, k) # 0 =>
              t.store[Found(ii, f, s, g, k)] = s.store[Found(ii, f, s, g, k)]

\* What grows twice, for the same block, grows.
LEMMA GrowsTwice ==
    ASSUME NEW ii, NEW f, NEW s, NEW t, NEW r, NEW n,
           Grows(ii, f, s, t, n), Grows(ii, f, t, r, n)
    PROVE  Grows(ii, f, s, r, n)
<1>1. /\ s.used \subseteq t.used /\ t.used \subseteq r.used
      /\ t.ip.size = s.ip.size /\ r.ip.size = t.ip.size
  BY DEF Grows
<1>2. ASSUME NEW g \in Files, NEW k \in Nat
      PROVE  \/ Found(ii, f, r, g, k) = Found(ii, f, s, g, k)
             \/ g = f /\ k = n /\ Found(ii, f, s, g, k) = 0 /\ ~(Block \subseteq s.used)
  <2>1. \/ Found(ii, f, t, g, k) = Found(ii, f, s, g, k)
        \/ g = f /\ k = n /\ Found(ii, f, s, g, k) = 0 /\ ~(Block \subseteq s.used)
    BY DEF Grows
  <2>2. \/ Found(ii, f, r, g, k) = Found(ii, f, t, g, k)
        \/ g = f /\ k = n /\ Found(ii, f, t, g, k) = 0 /\ ~(Block \subseteq t.used)
    BY DEF Grows
  <2>3. Block \subseteq s.used => Block \subseteq t.used
    BY <1>1
  <2>4. QED
    BY <2>1, <2>2, <2>3, Zenon
<1>3. ASSUME NEW g \in Files, NEW k \in Nat, NEW q, q = Found(ii, f, s, g, k), q # 0
      PROVE  r.store[q] = s.store[q]
  <2>1. t.store[q] = s.store[q] /\ Found(ii, f, t, g, k) = q
    BY <1>3 DEF Grows
  <2>2. r.store[q] = t.store[q]
    BY <1>3, <2>1 DEF Grows
  <2>3. QED
    BY <2>1, <2>2
<1>4. QED
  BY <1>1, <1>2, <1>3 DEF Grows

\* A stage that stays as it is.
LEMMA GrowsNot == \A ii, f, s, n : Grows(ii, f, s, s, n)
  BY DEF Grows

\* A new address of the inode; if it is missing after that, no block is free.
LEMMA GetsAddrGrows ==
    ASSUME NEW ii, NEW f \in Files, NEW s, Stage(ii, f, s), NEW t, NEW m \in Addrs,
           GetsAddr(s, m, t), NEW n \in Nat, m < NDIRECT => n = m
    PROVE  /\ Grows(ii, f, s, t, n)
           /\ t.ip.addrs[m] = 0 => Block \subseteq t.used
<1> DEFINE a   == allocate_block(s.used)
           ii1 == [ii EXCEPT ![f] = s.ip]
           ii2 == [ii EXCEPT ![f] = t.ip]
<1>1. /\ ndataBlocks \in Nat /\ a \in 0..ndataBlocks
      /\ a = 0 => Block \subseteq s.used
      /\ a # 0 => a \in Block \ s.used
      /\ s.used \subseteq Marked(s.used)
  BY StageAllocates DEF Marked
<1>2. s.ip \in Inode /\ Good(ii1, s.store, s.used) /\ ii \in [Files -> Inode]
  BY DEF Stage
<1>3. /\ s.ip.addrs[m] = 0 /\ t.ip = AllocAddr(s, m).ip /\ t.used = Marked(s.used)
      /\ t.store \in [0..ndataBlocks -> [Cells -> Value]]
      /\ \A b \in 0..ndataBlocks : b # a => t.store[b] = s.store[b]
      /\ a # 0 /\ m >= NDIRECT => \A i \in Cells : t.store[a][i] = 0
  BY DEF GetsAddr
<1>4. /\ t.ip \in Inode /\ t.ip.size = s.ip.size /\ t.ip.addrs[m] = a
      /\ \A k \in Addrs : k # m => t.ip.addrs[k] = s.ip.addrs[k]
  BY <1>1, <1>2, <1>3, NewAddr
<1> HIDE DEF a
<1>5. \/ a = 0 /\ SamePtrs(ii1, s.store, ii2, t.store)
      \/ a # 0 /\ AddsAddr(ii1, s.store, s.used, f, m, a, ii2, t.store)
  <2>1. a = allocate_block(s.used)
    BY DEF a
  <2>2. QED
    BY <1>3, <1>4, <2>1, AllocAddrAdds, Zenon
<1> HIDE DEF ii1, ii2
<1>6. ASSUME NEW g \in Files, NEW k \in Nat
      PROVE  \/ bmap(ii2[g], t.store, k) = bmap(ii1[g], s.store, k)
             \/ g = f /\ k = n /\ bmap(ii1[g], s.store, k) = 0 /\ ~(Block \subseteq s.used)
  <2>1. CASE a = 0
    BY <1>2, <1>5, <2>1, SameMaps
  <2>2. CASE a # 0
    <3>1. ~(Block \subseteq s.used)
      BY <1>1, <2>2
    <3>2. AddsAddr(ii1, s.store, s.used, f, m, a, ii2, t.store)
      BY <1>5, <2>2
    <3>3. \/ bmap(ii2[g], t.store, k) = bmap(ii1[g], s.store, k)
          \/ g = f /\ k = m /\ m < NDIRECT /\ bmap(ii1[g], s.store, k) = 0
      BY <1>2, <3>2, AddrMaps
    <3>4. QED
      BY <3>1, <3>3
  <2>3. QED
    BY <2>1, <2>2
<1>7. \A g \in Files, k \in Nat :
          /\ Found(ii, f, t, g, k) = bmap(ii2[g], t.store, k)
          /\ Found(ii, f, s, g, k) = bmap(ii1[g], s.store, k)
  BY DEF Found, ii1, ii2
<1>8. ASSUME NEW g \in Files, NEW k \in Nat, NEW q, q = Found(ii, f, s, g, k), q # 0
      PROVE  t.store[q] = s.store[q]
  <2>1. q = bmap(ii1[g], s.store, k)
    BY <1>7, <1>8
  <2>2. q \in Block /\ q \in s.used
    BY <1>2, <1>8, <2>1, MapsData
  <2>3. q # a /\ q \in 0..ndataBlocks
    BY <1>1, <1>8, <2>2 DEF Block
  <2>4. QED
    BY <1>3, <2>3 DEF a
<1>9. Grows(ii, f, s, t, n)
  BY <1>1, <1>3, <1>4, <1>6, <1>7, <1>8 DEF Grows
<1>10. QED
  BY <1>1, <1>3, <1>4, <1>9

\* A new pointer of an index block, on the way to logical block n.
LEMMA GetsPtrGrows ==
    ASSUME NEW ii, NEW f \in Files, NEW s, Stage(ii, f, s), NEW t,
           NEW p \in Block, NEW k \in Cells, GetsPtr(ii, f, s, p, k, t),
           IsIndex([ii EXCEPT ![f] = s.ip], s.store, p), NEW n \in Nat,
           IsDouble([ii EXCEPT ![f] = s.ip], p) \/ EndsAt(s.ip, s.store, n, p, k)
    PROVE  /\ Grows(ii, f, s, t, n)
           /\ t.store[p][k] = 0 => Block \subseteq t.used
<1> DEFINE a   == allocate_block(s.used)
           ii1 == [ii EXCEPT ![f] = s.ip]
           ii2 == [ii EXCEPT ![f] = t.ip]
<1>1. /\ a = 0 => Block \subseteq s.used
      /\ a # 0 => a \in Block \ s.used
      /\ s.used \subseteq Marked(s.used)
  BY StageAllocates DEF Marked
<1>2. s.ip \in Inode /\ Good(ii1, s.store, s.used) /\ ii \in [Files -> Inode]
  BY DEF Stage
<1>3. /\ s.store[p][k] = 0 /\ t.used = Marked(s.used)
      /\ t.ip = [s.ip EXCEPT !.blocks = s.ip.blocks + 1]
      /\ PointsTo(ii, f, s, p, k, a, t.store)
  BY DEF GetsPtr
<1>4. t.ip \in Inode /\ t.ip.addrs = s.ip.addrs /\ t.ip.size = s.ip.size
  BY <1>2, <1>3, CountUp
<1>5. t.store[p][k] = a
  BY <1>3 DEF PointsTo
<1> HIDE DEF a
<1>6. /\ SamePtrs(ii1, s.store, ii2, s.store)
      /\ \/ a = 0 /\ SamePtrs(ii2, s.store, ii2, t.store)
         \/ a # 0 /\ AddsPtr(ii2, s.store, s.used, p, k, a, t.store)
  <2>1. a = allocate_block(s.used)
    BY DEF a
  <2>2. s.store[p][k] = 0 /\ PointsTo(ii, f, s, p, k, a, t.store)
    BY <1>3
  <2>3. t.ip \in Inode /\ t.ip.addrs = s.ip.addrs
    BY <1>4
  <2>4. QED
    BY <2>1, <2>2, <2>3, AllocPtrAdds, Zenon
<1>7. ii2[f].addrs = s.ip.addrs /\ (IsDouble(ii1, p) <=> IsDouble(ii2, p))
  <2>1. ii2[f].addrs = s.ip.addrs
    BY <1>2, <1>4
  <2>2. \A g \in Files, m \in Addrs : ii2[g].addrs[m] = ii1[g].addrs[m]
    BY <1>6 DEF SamePtrs
  <2>3. QED
    BY <2>1, <2>2, Sizes DEF IsDouble
<1>8. EndsAt(s.ip, s.store, n, p, k) => EndsAt(ii2[f], s.store, n, p, k)
  BY <1>7 DEF EndsAt
<1> HIDE DEF ii1, ii2
<1>9. Good(ii2, s.store, s.used)
  BY <1>2, <1>6, SameGood
<1>10. ASSUME NEW g \in Files, NEW j \in Nat
      PROVE  \/ bmap(ii2[g], t.store, j) = bmap(ii1[g], s.store, j)
             \/ g = f /\ j = n /\ bmap(ii1[g], s.store, j) = 0 /\ ~(Block \subseteq s.used)
  <2>1. bmap(ii2[g], s.store, j) = bmap(ii1[g], s.store, j)
    BY <1>2, <1>6, SameMaps
  <2>2. CASE a = 0
    <3>1. bmap(ii2[g], t.store, j) = bmap(ii2[g], s.store, j)
      BY <1>6, <1>9, <2>2, SameMaps
    <3>2. QED
      BY <2>1, <3>1
  <2>3. CASE a # 0
    <3>1. ~(Block \subseteq s.used)
      BY <1>1, <2>3
    <3>2. \/ bmap(ii2[g], t.store, j) = bmap(ii2[g], s.store, j)
          \/ /\ ~IsDouble(ii2, p) /\ EndsAt(ii2[g], s.store, j, p, k)
             /\ bmap(ii2[g], s.store, j) = 0
      <4>1. AddsPtr(ii2, s.store, s.used, p, k, a, t.store)
        BY <1>6, <2>3
      <4>2. QED
        BY <1>9, <4>1, PtrMaps
    <3>3. ~IsDouble(ii2, p) /\ EndsAt(ii2[g], s.store, j, p, k) => g = f /\ j = n
      BY <1>7, <1>8, <1>9, EndsOnce DEF ii1
    <3>4. QED
      BY <2>1, <3>1, <3>2, <3>3
  <2>4. QED
    BY <2>2, <2>3
<1>11. \A g \in Files, j \in Nat :
          /\ Found(ii, f, t, g, j) = bmap(ii2[g], t.store, j)
          /\ Found(ii, f, s, g, j) = bmap(ii1[g], s.store, j)
  BY DEF Found, ii1, ii2
<1>12. ASSUME NEW g \in Files, NEW j \in Nat, NEW q, q = Found(ii, f, s, g, j), q # 0
       PROVE  t.store[q] = s.store[q]
  <2>1. q = bmap(ii1[g], s.store, j)
    BY <1>11, <1>12
  <2>2. q \in Block /\ q \in s.used /\ ~IsIndex(ii1, s.store, q)
    BY <1>2, <1>12, <2>1, MapsData
  <2>3. q # p
    BY <2>2 DEF ii1
  <2>4. q # a /\ q \in 0..ndataBlocks
    BY <1>1, <1>12, <2>2, StageAllocates DEF Block
  <2>5. QED
    BY <1>3, <2>3, <2>4 DEF PointsTo, a
<1>13. Grows(ii, f, s, t, n)
  BY <1>1, <1>3, <1>4, <1>10, <1>11, <1>12 DEF Grows
<1>14. QED
  BY <1>1, <1>3, <1>5, <1>13

\* The steps of bmap themselves.
LEMMA EnsureDirectGrows ==
    ASSUME NEW ii, NEW f \in Files, NEW s, Stage(ii, f, s), NEW n \in 0 .. NDIRECT - 1
    PROVE  /\ Grows(ii, f, s, EnsureDirect(s, n), n)
           /\ EnsureDirect(s, n).ip.addrs[n] = 0 => Block \subseteq EnsureDirect(s, n).used
<1> DEFINE t == EnsureDirect(s, n)
<1>1. n \in Addrs /\ n \in Nat
  BY Sizes DEF Addrs
<1>2. (s.ip.addrs[n] # 0 /\ t = s) \/ GetsAddr(s, n, t)
  BY EnsureDirectGets
<1> HIDE DEF t
<1>3. Grows(ii, f, s, t, n) /\ (t.ip.addrs[n] = 0 => Block \subseteq t.used)
  BY <1>1, <1>2, GetsAddrGrows, GrowsNot
<1>4. QED
  BY <1>3 DEF t

\* An index block on the way to block n.
LEMMA EnsureIndexGrows ==
    ASSUME NEW ii, NEW f \in Files, NEW s, Stage(ii, f, s),
           NEW m \in NDIRECT .. NDIRECT + 2, NEW n \in Nat
    PROVE  /\ Grows(ii, f, s, EnsureIndex(s, m), n)
           /\ EnsureIndex(s, m).ip.addrs[m] = 0 => Block \subseteq EnsureIndex(s, m).used
<1> DEFINE t == EnsureIndex(s, m)
<1>1. m \in Addrs /\ ~(m < NDIRECT)
  BY Sizes
<1>2. (s.ip.addrs[m] # 0 /\ t = s) \/ GetsAddr(s, m, t)
  BY EnsureIndexGets
<1> HIDE DEF t
<1>3. Grows(ii, f, s, t, n) /\ (t.ip.addrs[m] = 0 => Block \subseteq t.used)
  BY <1>1, <1>2, GetsAddrGrows, GrowsNot
<1>4. QED
  BY <1>3 DEF t

\* The last pointer on the way to block n; the other index blocks stay as they
\* are.
LEMMA EnsurePtrGrows ==
    ASSUME NEW ii, NEW f \in Files, NEW s, Stage(ii, f, s), NEW p \in Block, NEW k \in Cells,
           IsIndex([ii EXCEPT ![f] = s.ip], s.store, p),
           ~IsDouble([ii EXCEPT ![f] = s.ip], p),
           NEW n \in Nat, EndsAt(s.ip, s.store, n, p, k), NEW t, t = EnsurePtr(s, p, k)
    PROVE  /\ Grows(ii, f, s, t, n)
           /\ t.store[p][k] = 0 => Block \subseteq t.used
           /\ t.ip.addrs = s.ip.addrs
           /\ \A q \in Block : IsIndex([ii EXCEPT ![f] = s.ip], s.store, q) /\ q # p
                               => t.store[q] = s.store[q]
<1> DEFINE a   == allocate_block(s.used)
           ii1 == [ii EXCEPT ![f] = s.ip]
<1>1. (s.store[p][k] # 0 /\ t = s) \/ GetsPtr(ii, f, s, p, k, t)
  BY EnsurePtrGets
<1>2. CASE s.store[p][k] # 0 /\ t = s
  BY <1>2, GrowsNot
<1>3. CASE GetsPtr(ii, f, s, p, k, t)
  <2>1. Grows(ii, f, s, t, n) /\ (t.store[p][k] = 0 => Block \subseteq t.used)
    BY <1>3, GetsPtrGrows
  <2>2. s.ip \in Inode /\ Good(ii1, s.store, s.used)
    BY DEF Stage
  <2>3. t.ip = [s.ip EXCEPT !.blocks = s.ip.blocks + 1] /\ PointsTo(ii, f, s, p, k, a, t.store)
    BY <1>3 DEF GetsPtr
  <2>4. t.ip.addrs = s.ip.addrs
    BY <2>2, <2>3, CountUp
  <2>5. ndataBlocks \in Nat /\ (a = 0 \/ a \in Block \ s.used)
    BY StageAllocates
  <2>6. \A b \in 0..ndataBlocks : b # a /\ b # p => t.store[b] = s.store[b]
    BY <2>3 DEF PointsTo
  <2> HIDE DEF a, ii1
  <2>7. ASSUME NEW q \in Block, IsIndex(ii1, s.store, q), q # p
        PROVE  t.store[q] = s.store[q]
    <3>1. q # a
      BY <2>2, <2>5, <2>7, Free DEF Block
    <3>2. q \in 0..ndataBlocks
      BY <2>5 DEF Block
    <3>3. QED
      BY <2>6, <2>7, <3>1, <3>2
  <2>8. QED
    BY <2>1, <2>4, <2>7 DEF ii1
<1>4. QED
  BY <1>1, <1>2, <1>3

\* An index block below the double indirect block.
LEMMA EnsureSubIndexGrows ==
    ASSUME NEW ii, NEW f \in Files, NEW s, Stage(ii, f, s), NEW p \in Block, NEW k \in Cells,
           IsIndex([ii EXCEPT ![f] = s.ip], s.store, p),
           IsDouble([ii EXCEPT ![f] = s.ip], p), NEW n \in Nat
    PROVE  /\ Grows(ii, f, s, EnsureSubIndex(s, p, k), n)
           /\ EnsureSubIndex(s, p, k).store[p][k] = 0
              => Block \subseteq EnsureSubIndex(s, p, k).used
<1> DEFINE t == EnsureSubIndex(s, p, k)
<1>1. (s.store[p][k] # 0 /\ t = s) \/ GetsPtr(ii, f, s, p, k, t)
  BY EnsureSubIndexGets
<1> HIDE DEF t
<1>2. Grows(ii, f, s, t, n) /\ (t.store[p][k] = 0 => Block \subseteq t.used)
  BY <1>1, GetsPtrGrows, GrowsNot
<1>3. QED
  BY <1>2 DEF t

\* The whole of bmap with alloc = 1: it maps block n and no other, and fails
\* only if no block is free.
LEMMA BmapAllocGrows ==
    ASSUME NEW ii, NEW f \in Files, NEW s, Stage(ii, f, s), NEW n \in Nat,
           NEW t, t = bmap_alloc(s, n)
    PROVE  /\ Grows(ii, f, s, t, n)
           /\ n < MaxFileBlocks /\ bmap(t.ip, t.store, n) = 0 => Block \subseteq t.used
<1>1. CASE n >= MaxFileBlocks
  <2>1. t = s
    BY <1>1 DEF bmap_alloc
  <2>2. ~(n < MaxFileBlocks)
    BY <1>1, Largest
  <2>3. QED
    BY <2>1, <2>2, GrowsNot
<1>2. CASE n < MaxFileBlocks
  <2>1. ~(n >= MaxFileBlocks) /\ 0 \notin Block
    BY <1>2, Largest DEF Block
  <2>2. ASSUME n \in 0 .. NDIRECT - 1, Path(n) = <<n>>,
               \A ip, st : bmap(ip, st, n) = ip.addrs[n]
        PROVE  Grows(ii, f, s, t, n) /\ (bmap(t.ip, t.store, n) = 0 => Block \subseteq t.used)
    <3>1. t = EnsureDirect(s, n)
      BY <2>1, <2>2 DEF bmap_alloc
    <3>2. Grows(ii, f, s, t, n) /\ (t.ip.addrs[n] = 0 => Block \subseteq t.used)
      BY <2>2, <3>1, EnsureDirectGrows
    <3>3. QED
      BY <2>2, <3>2
  <2>3. ASSUME NEW m \in NDIRECT .. NDIRECT + 1, NEW i \in Cells, Path(n) = <<m, i>>,
               \A ip, st : bmap(ip, st, n) = Entry(st, ip.addrs[m], i)
        PROVE  Grows(ii, f, s, t, n) /\ (bmap(t.ip, t.store, n) = 0 => Block \subseteq t.used)
    <3> DEFINE s1 == EnsureIndex(s, m)
               b1 == s1.ip.addrs[m]
    <3>1. t = IF b1 = 0 THEN s1 ELSE EnsurePtr(s1, b1, i)
      BY <2>1, <2>3 DEF bmap_alloc
    <3>2. m \in NDIRECT .. NDIRECT + 2 /\ m # NDIRECT + 2
      BY Sizes
    <3>3. /\ Stage(ii, f, s1) /\ Grows(ii, f, s, s1, n)
          /\ b1 = 0 => Block \subseteq s1.used
      BY <3>2, EnsureIndexStage, EnsureIndexGrows
    <3> HIDE DEF s1
    <3>4. CASE b1 = 0
      BY <3>1, <3>3, <3>4
    <3>5. CASE b1 # 0
      <4>1. /\ b1 \in Block /\ IsIndex([ii EXCEPT ![f] = s1.ip], s1.store, b1)
            /\ ~IsDouble([ii EXCEPT ![f] = s1.ip], b1)
        BY <3>2, <3>3, <3>5, IndexAddr
      <4>2. EndsAt(s1.ip, s1.store, n, b1, i)
        BY <1>2, <2>3, <3>5 DEF EndsAt
      <4>3. t = EnsurePtr(s1, b1, i)
        BY <3>1, <3>5
      <4>4. s1.ip.addrs[m] = b1
        OBVIOUS
      <4> HIDE DEF b1
      <4>5. /\ Grows(ii, f, s1, t, n) /\ (t.store[b1][i] = 0 => Block \subseteq t.used)
            /\ t.ip.addrs = s1.ip.addrs
        BY <3>3, <4>1, <4>2, <4>3, EnsurePtrGrows
      <4>6. bmap(t.ip, t.store, n) = t.store[b1][i]
        BY <2>3, <3>5, <4>4, <4>5 DEF Entry
      <4>7. QED
        BY <3>3, <4>5, <4>6, GrowsTwice
    <3>6. QED
      BY <3>4, <3>5
  <2>4. ASSUME NEW i \in Cells, NEW j \in Cells, Path(n) = <<NDIRECT + 2, i, j>>,
               \A ip, st : bmap(ip, st, n) = Entry(st, Entry(st, ip.addrs[NDIRECT + 2], i), j)
        PROVE  Grows(ii, f, s, t, n) /\ (bmap(t.ip, t.store, n) = 0 => Block \subseteq t.used)
    <3> DEFINE m  == NDIRECT + 2
               s1 == EnsureIndex(s, m)
               b1 == s1.ip.addrs[m]
               s2 == EnsureSubIndex(s1, b1, i)
               b2 == s2.store[b1][i]
    <3>1. t = IF b1 = 0 THEN s1 ELSE IF b2 = 0 THEN s2 ELSE EnsurePtr(s2, b2, j)
      BY <2>1, <2>4 DEF bmap_alloc
    <3>2. m \in NDIRECT .. NDIRECT + 2 /\ m \in Addrs
      BY Sizes
    <3>3. /\ Stage(ii, f, s1) /\ Grows(ii, f, s, s1, n)
          /\ b1 = 0 => Block \subseteq s1.used
      BY <3>2, EnsureIndexStage, EnsureIndexGrows
    <3> HIDE DEF s1
    <3>4. CASE b1 = 0
      BY <3>1, <3>3, <3>4
    <3>5. CASE b1 # 0
      <4>1. /\ b1 \in Block /\ IsIndex([ii EXCEPT ![f] = s1.ip], s1.store, b1)
            /\ IsDouble([ii EXCEPT ![f] = s1.ip], b1)
        BY <3>2, <3>3, <3>5, IndexAddr
      <4>2. /\ Stage(ii, f, s2) /\ s2.ip.addrs = s1.ip.addrs
            /\ Grows(ii, f, s1, s2, n) /\ (b2 = 0 => Block \subseteq s2.used)
        BY <3>3, <4>1, EnsureSubIndexStage, EnsureSubIndexGrows
      <4> HIDE DEF s2
      <4>3. s2.ip.addrs[m] = b1
        BY <4>2
      <4>4. /\ IsIndex([ii EXCEPT ![f] = s2.ip], s2.store, b1)
            /\ IsDouble([ii EXCEPT ![f] = s2.ip], b1)
        BY <3>2, <3>5, <4>2, <4>3, IndexAddr
      <4>5. Grows(ii, f, s, s2, n)
        BY <3>3, <4>2, GrowsTwice
      <4>6. CASE b2 = 0
        BY <3>1, <3>5, <4>2, <4>5, <4>6
      <4>7. CASE b2 # 0
        <5>1. /\ b2 \in Block /\ IsIndex([ii EXCEPT ![f] = s2.ip], s2.store, b2)
              /\ ~IsDouble([ii EXCEPT ![f] = s2.ip], b2)
          BY <4>1, <4>2, <4>4, <4>7, IndexPtr
        <5>2. Entry(s2.store, s2.ip.addrs[NDIRECT + 2], i) = b2
          BY <3>5, <4>3 DEF Entry
        <5>3. t = EnsurePtr(s2, b2, j)
          BY <3>1, <3>5, <4>7
        <5>4. s2.store[b1][i] = b2 /\ b1 # b2
          BY <4>4, <5>1
        <5> HIDE DEF b1, b2
        <5>5. EndsAt(s2.ip, s2.store, n, b2, j)
          BY <1>2, <2>4, <4>7, <5>2 DEF EndsAt
        <5>6. /\ Grows(ii, f, s2, t, n) /\ (t.store[b2][j] = 0 => Block \subseteq t.used)
              /\ t.ip.addrs = s2.ip.addrs
              /\ \A q \in Block : IsIndex([ii EXCEPT ![f] = s2.ip], s2.store, q) /\ q # b2
                                  => t.store[q] = s2.store[q]
          BY <4>2, <5>1, <5>3, <5>5, EnsurePtrGrows
        <5>7. t.store[b1][i] = b2 /\ t.ip.addrs[NDIRECT + 2] = b1
          BY <4>1, <4>3, <4>4, <5>4, <5>6
        <5>8. bmap(t.ip, t.store, n) = t.store[b2][j]
          BY <2>4, <3>5, <4>7, <5>7 DEF Entry
        <5>9. QED
          BY <4>5, <5>6, <5>8, GrowsTwice
      <4>8. QED
        BY <4>6, <4>7
    <3>6. QED
      BY <3>4, <3>5
  <2>5. QED
    BY <1>2, <2>2, <2>3, <2>4, Routes
<1>3. QED
  BY <1>1, <1>2, Largest

-----------------------------------------------------------------------------
(* Bytes and blocks *)

\* A block starts behind the end of the one before.
LEMMA NextStart ==
    ASSUME NEW a \in Int, NEW b \in Int, a < b
    PROVE  BSIZE * a + BSIZE <= BSIZE * b
<1>1. PICK d \in Nat : b = a + 1 + d
  <2>1. b - a - 1 \in Nat /\ b = a + 1 + (b - a - 1)
    OBVIOUS
  <2>2. QED
    BY <2>1
<1>2. BSIZE \in Nat
  BY Sizes
<1>3. BSIZE * d \in Nat
  BY <1>2
<1>4. BSIZE * (a + 1 + d) = BSIZE * a + BSIZE + BSIZE * d
  BY <1>2
<1>5. QED
  BY <1>1, <1>2, <1>3, <1>4

\* A byte is in one block only.
LEMMA InBlock ==
    ASSUME NEW x \in Nat, NEW q \in Int, NEW r \in Cells, x = BSIZE * q + r
    PROVE  x \div BSIZE = q /\ x % BSIZE = r
<1>1. PICK p \in Nat, s \in Cells : x \div BSIZE = p /\ x % BSIZE = s /\ x = BSIZE * p + s
  BY Division
<1>2. BSIZE \in Nat /\ r \in 0 .. BSIZE - 1 /\ s \in 0 .. BSIZE - 1
  BY Sizes DEF Cells
<1>3. BSIZE * p \in Int /\ BSIZE * q \in Int
  BY <1>2
<1>4. ~(p < q)
  BY <1>1, <1>2, <1>3, NextStart
<1>5. ~(q < p)
  BY <1>1, <1>2, <1>3, NextStart
<1>6. p = q
  BY <1>4, <1>5
<1>7. QED
  BY <1>1, <1>2, <1>3, <1>6

\* Later bytes are in later blocks, or in the same.
LEMMA LaterBlock ==
    ASSUME NEW x \in Nat, NEW y \in Nat, x <= y
    PROVE  x \div BSIZE \in Nat /\ x \div BSIZE <= y \div BSIZE
<1>1. PICK p \in Nat, s \in Cells : x \div BSIZE = p /\ x % BSIZE = s /\ x = BSIZE * p + s
  BY Division
<1>2. PICK q \in Nat, r \in Cells : y \div BSIZE = q /\ y % BSIZE = r /\ y = BSIZE * q + r
  BY Division
<1>3. BSIZE \in Nat /\ r \in 0 .. BSIZE - 1 /\ s \in 0 .. BSIZE - 1
  BY Sizes DEF Cells
<1>4. BSIZE * p \in Int /\ BSIZE * q \in Int
  BY <1>3
<1>5. ~(q < p)
  BY <1>1, <1>2, <1>3, <1>4, NextStart
<1>6. QED
  BY <1>1, <1>2, <1>5

\* The blocks before the one of x, the last excepted, end before x.
LEMMA BlocksBefore ==
    ASSUME NEW x \in Nat, NEW j \in Nat
    PROVE  /\ j < x \div BSIZE => BSIZE * j < x /\ BSIZE * j \in Nat
           /\ (BSIZE * j) \div BSIZE = j
           /\ BSIZE * j <= x => j <= x \div BSIZE
<1>1. PICK p \in Nat, s \in Cells : x \div BSIZE = p /\ x % BSIZE = s /\ x = BSIZE * p + s
  BY Division
<1>2. BSIZE \in Nat \ {0} /\ s \in 0 .. BSIZE - 1 /\ 0 \in Cells
  BY Sizes DEF Cells
<1>3. BSIZE * p \in Nat /\ BSIZE * j \in Nat
  BY <1>2
<1>4. ASSUME j < p PROVE BSIZE * j < x
  BY <1>1, <1>2, <1>3, <1>4, NextStart
<1>5. (BSIZE * j) \div BSIZE = j
  <2>1. BSIZE * j = BSIZE * j + 0
    BY <1>3
  <2>2. QED
    BY <1>2, <1>3, <2>1, InBlock
<1>6. BSIZE * j <= x => j <= p
  <2>1. ASSUME p < j, BSIZE * j <= x PROVE FALSE
    BY <1>1, <1>2, <1>3, <2>1, NextStart
  <2>2. QED
    BY <2>1
<1>7. QED
  BY <1>1, <1>3, <1>4, <1>5, <1>6

\* The byte behind x - 1 is in its block or in the next.
LEMMA NextBlock ==
    ASSUME NEW x \in Nat, x > 0
    PROVE  (x - 1) \div BSIZE \in Nat /\ x \div BSIZE <= (x - 1) \div BSIZE + 1
<1>1. PICK p \in Nat, s \in Cells : x \div BSIZE = p /\ x % BSIZE = s /\ x = BSIZE * p + s
  BY Division
<1>2. x - 1 \in Nat
  OBVIOUS
<1>3. PICK q \in Nat, r \in Cells : /\ (x - 1) \div BSIZE = q /\ (x - 1) % BSIZE = r
                                    /\ x - 1 = BSIZE * q + r
  BY <1>2, Division
<1>4. BSIZE \in Nat /\ r \in 0 .. BSIZE - 1 /\ s \in 0 .. BSIZE - 1
  BY Sizes DEF Cells
<1>5. BSIZE * p \in Int /\ BSIZE * q \in Int /\ BSIZE * (q + 1) = BSIZE * q + BSIZE
  BY <1>4
<1>6. ~(q + 1 < p)
  <2>1. ASSUME q + 1 < p PROVE FALSE
    <3>1. BSIZE * (q + 1) + BSIZE <= BSIZE * p
      BY <2>1, NextStart
    <3>2. QED
      BY <1>1, <1>3, <1>4, <1>5, <3>1
  <2>2. QED
    BY <2>1
<1>7. QED
  BY <1>1, <1>3, <1>6

\* The bytes an iteration writes are in one block.
LEMMA SameBlock ==
    ASSUME NEW x \in Nat, NEW o, o = x % BSIZE, NEW m \in Nat, m > 0, m <= BSIZE - o
    PROVE  (x + m - 1) \div BSIZE = x \div BSIZE
<1>1. PICK p \in Nat, s \in Cells : x \div BSIZE = p /\ x % BSIZE = s /\ x = BSIZE * p + s
  BY Division
<1>2. BSIZE \in Nat /\ s \in 0 .. BSIZE - 1
  BY Sizes DEF Cells
<1>3. BSIZE * p \in Int
  BY <1>2
<1>4. o = s /\ x = BSIZE * p + s
  BY <1>1
<1>5. s + m - 1 \in Cells
  BY <1>2, <1>4 DEF Cells
<1>6. x + m - 1 \in Nat /\ x + m - 1 = BSIZE * p + (s + m - 1)
  BY <1>2, <1>3, <1>4
<1>7. QED
  BY <1>1, <1>5, <1>6, InBlock

\* Arithmetic of 32 bits never makes a number larger.
LEMMA WordLess == \A x \in Nat : x % WORD \in Nat /\ x % WORD <= x
<1> SUFFICES ASSUME NEW x \in Nat PROVE x % WORD \in Nat /\ x % WORD <= x
  OBVIOUS
<1> DEFINE q == x \div WORD
           r == x % WORD
<1>1. WORD \in Nat \ {0}
  BY FileAssumption
<1>2. q \in Int /\ r \in 0 .. WORD - 1 /\ x = WORD * q + r
  BY <1>1
<1> HIDE DEF q, r
<1>3. q >= 0
  BY <1>1, <1>2
<1>4. WORD * q \in Nat
  BY <1>1, <1>2, <1>3
<1>5. r \in Nat /\ r <= x
  BY <1>1, <1>2, <1>4
<1>6. QED
  BY <1>5 DEF r

-----------------------------------------------------------------------------
(* The invariant *)

\* The blocks of a file are mapped from the first on, without a gap.
Closed(ii, st) ==
    \A g \in Files, k \in Nat :
        bmap(ii[g], st, k) # 0 => \A j \in 0..k : bmap(ii[g], st, j) # 0

\* Up to its size, at least.
Sized(ii, st) ==
    \A g \in Files : \A i \in 0 .. ii[g].size - 1 : bmap(ii[g], st, i \div BSIZE) # 0

\* A call of writei at off will leave no gap: what is before is mapped, or no
\* more blocks will be.
Ready(ip, st, us, off) ==
    \/ \A j \in Nat : j < off \div BSIZE /\ j < MaxFileBlocks => bmap(ip, st, j) # 0
    \/ Block \subseteq us

\* A call that far can map nothing.
Far(off) == off >= BSIZE * MaxFileBlocks

\* Call d goes on where c ends.
Follows(c, d) == d.off = (c.off + Len(c.src)) % WORD

\* A call in progress has mapped what it has written.
Writing(ip, st, tot, c) ==
    /\ tot <= Len(c.src)
    /\ tot > 0 => bmap(ip, st, (c.off + tot - 1) \div BSIZE) # 0

\* A command has one call or two still to make, the second where the first one
\* ends, and does not raise the size of the file at its end.
Underway(ii, st, us, jb) ==
    jb # Idle =>
        /\ jb.trunc <= ii[jb.f].size
        /\ \/ jb.todo = <<>>
           \/ \E c \in Calls : /\ jb.todo = <<c>> /\ Writing(ii[jb.f], st, jb.tot, c)
                               /\ Ready(ii[jb.f], st, us, c.off) \/ Far(c.off)
           \/ \E c, d \in Calls : /\ jb.todo = <<c, d>> /\ Writing(ii[jb.f], st, jb.tot, c)
                                  /\ Ready(ii[jb.f], st, us, c.off) /\ Follows(c, d)

HInv == Closed(ino, store) /\ Sized(ino, store) /\ Underway(ino, store, bitmap, job)

\* cmd_d adds a position and a length: it does not wrap around.  If it does and
\* the disk is full, the size it sets may lie beyond what is mapped.
NoWrap == \A p \in Positions, n \in Lengths : p + n < WORD

\* Primed, the invariant is the one of the primed variables.
LEMMA HPrimed ==
    ASSUME ndataBlocks' = ndataBlocks, Closed(ino', store'), Sized(ino', store'),
           Underway(ino', store', bitmap', job')
    PROVE  HInv'
<1>1. Block' = Block /\ Calls' = Calls
  BY DEF Block, Calls, Value
<1>2. (Closed(ino, store) /\ Sized(ino, store))'
  BY DEF Closed, Sized
<1>3. Underway(ino, store, bitmap, job)'
  BY <1>1 DEF Underway, Ready, Far, Idle, Writing, Follows
<1>4. QED
  BY <1>2, <1>3 DEF HInv

\* Within the size of a file a call leaves no gap.
LEMMA SizedReady ==
    ASSUME NEW ii, NEW st, NEW us, Sized(ii, st), NEW g \in Files, ii[g].size \in Nat,
           NEW off \in Nat, off <= ii[g].size
    PROVE  Ready(ii[g], st, us, off)
<1>1. ASSUME NEW j \in Nat, j < off \div BSIZE PROVE bmap(ii[g], st, j) # 0
  <2>1. BSIZE * j < off /\ BSIZE * j \in Nat /\ (BSIZE * j) \div BSIZE = j
    BY <1>1, BlocksBefore
  <2>2. BSIZE * j \in 0 .. ii[g].size - 1
    BY <2>1
  <2>3. bmap(ii[g], st, (BSIZE * j) \div BSIZE) # 0
    BY <2>2, Zenon DEF Sized
  <2>4. QED
    BY <2>1, <2>3
<1>2. QED
  BY <1>1 DEF Ready

\* Nor does one before a call that leaves none.
LEMMA ReadyBefore ==
    ASSUME NEW ip, NEW st, NEW us, NEW x \in Nat, NEW y \in Nat, y <= x, Ready(ip, st, us, x)
    PROVE  Ready(ip, st, us, y)
<1>1. y \div BSIZE \in Nat /\ y \div BSIZE <= x \div BSIZE /\ x \div BSIZE \in Nat
  BY LaterBlock
<1> DEFINE q == x \div BSIZE
           r == y \div BSIZE
<1>2. q \in Nat /\ r \in Nat /\ r <= q
  BY <1>1
<1> HIDE DEF q, r
<1>3. \A j \in Nat : j < r => j < q
  BY <1>2
<1>4. QED
  BY <1>3 DEF Ready, q, r

\* A file that is made shorter, or none longer, has no holes.
LEMMA Shorter ==
    ASSUME IInv, HInv, NEW ii2 \in [Files -> Inode],
           \A g \in Files, m \in Addrs : ii2[g].addrs[m] = ino[g].addrs[m],
           \A g \in Files : ii2[g].size <= ino[g].size
    PROVE  Closed(ii2, store) /\ Sized(ii2, store)
<1>1. /\ Good(ino, store, bitmap) /\ ino \in [Files -> Inode]
      /\ store \in [0..ndataBlocks -> [Cells -> Value]]
  BY DEF IInv, Good, Typed
<1>2. SamePtrs(ino, store, ii2, store)
  BY <1>1 DEF SamePtrs
<1>3. \A g \in Files, k \in Nat : bmap(ii2[g], store, k) = bmap(ino[g], store, k)
  BY <1>1, <1>2, SameMaps
<1>4. Closed(ii2, store)
  <2>1. \A g \in Files : \A k \in Nat : \A j \in 0..k : j \in Nat
    OBVIOUS
  <2>2. QED
    BY <1>3, <2>1 DEF HInv, Closed
<1>5. ASSUME NEW g \in Files, NEW i \in 0 .. ii2[g].size - 1
      PROVE  bmap(ii2[g], store, i \div BSIZE) # 0
  <2>1. ii2[g].size \in Nat /\ ino[g].size \in Nat /\ ii2[g].size <= ino[g].size
    BY <1>1 DEF Inode
  <2>2. i \in 0 .. ino[g].size - 1 /\ i \in Nat
    BY <2>1
  <2>3. bmap(ino[g], store, i \div BSIZE) # 0
    BY <2>2, Zenon DEF HInv, Sized
  <2>4. i \div BSIZE \in Nat
    BY <2>2, CellOf
  <2>5. QED
    BY <1>3, <2>3, <2>4, Zenon
<1>6. QED
  BY <1>4, <1>5 DEF Sized

\* One call of writei, or two, the first of them within the size of the file.
Begins(calls, size) ==
    \/ \E c \in Calls : calls = <<c>> /\ c.off <= size
    \/ \E c, d \in Calls : calls = <<c, d>> /\ c.off <= size /\ Follows(c, d)

\* The start of a command: its calls begin within the file.
LEMMA StartHoles ==
    ASSUME IInv, HInv, NEW op \in {"w", "i", "d"}, NEW f \in Files, NEW inode \in Inode,
           inode.addrs = ino[f].addrs, inode.size <= ino[f].size,
           NEW calls, Begins(calls, inode.size), NEW trunc, trunc <= inode.size,
           NEW intent, Start(op, f, inode, calls, trunc, intent)
    PROVE  HInv'
<1>1. /\ ino' = [ino EXCEPT ![f] = inode] /\ UNCHANGED <<ndataBlocks, store, bitmap>>
      /\ job' = [op |-> op, f |-> f, todo |-> calls, tot |-> 0, trunc |-> trunc,
                 reply |-> "Yes", intent |-> intent]
  BY DEF Start
<1>2. ino \in [Files -> Inode]
  BY DEF IInv, Good, Typed
<1>3. /\ ino' \in [Files -> Inode] /\ ino'[f] = inode
      /\ \A g \in Files, m \in Addrs : ino'[g].addrs[m] = ino[g].addrs[m]
      /\ \A g \in Files : ino'[g].size \in Nat /\ ino[g].size \in Nat /\ ino'[g].size <= ino[g].size
  BY <1>1, <1>2 DEF Inode
<1>4. Closed(ino', store) /\ Sized(ino', store)
  BY <1>3, Shorter
<1>5. Underway(ino', store, bitmap, job')
  <2>1. job'.f = f /\ job'.todo = calls /\ job'.tot = 0 /\ job'.trunc = trunc
    BY <1>1
  <2>2. ASSUME NEW c \in Calls, c.off <= inode.size
        PROVE  Ready(ino'[f], store, bitmap, c.off) /\ Writing(ino'[f], store, 0, c)
    <3>1. c.off \in Nat /\ Len(c.src) \in Nat
      BY DEF Calls
    <3>2. ino'[f].size \in Nat /\ c.off <= ino'[f].size
      BY <1>3, <2>2
    <3>3. Ready(ino'[f], store, bitmap, c.off)
      BY <1>4, <3>1, <3>2, SizedReady
    <3>4. Writing(ino'[f], store, 0, c)
      BY <3>1 DEF Writing
    <3>5. QED
      BY <3>3, <3>4
  <2>3. trunc <= ino'[f].size
    BY <1>3
  <2>4. QED
    BY <2>1, <2>2, <2>3, Zenon DEF Underway, Begins
<1>6. QED
  BY <1>1, <1>4, <1>5, HPrimed

\* w starts: the file is empty, and written from its start.
LEMMA HolesW ==
    ASSUME IInv, HInv, NEW f \in Files, NEW d \in Strings, cmd_w(f, d)
    PROVE  HInv'
<1>1. ino[f] \in Inode
  BY DEF IInv, Good, Typed
<1> DEFINE inode == [ino[f] EXCEPT !.size = 0, !.blocks = 0]
<1>2. inode \in Inode /\ inode.addrs = ino[f].addrs /\ inode.size = 0
  BY <1>1 DEF Inode
<1>3. Call(0, d) \in Calls /\ Call(0, d).off <= 0
  BY CallOK, FileAssumption DEF Call
<1>4. Start("w", f, inode, <<Call(0, d)>>, -1, d)
  BY DEF cmd_w
<1> HIDE DEF inode
<1>5. Begins(<<Call(0, d)>>, inode.size)
  BY <1>2, <1>3 DEF Begins
<1>6. inode.size <= ino[f].size /\ -1 <= inode.size
  <2>1. ino[f].size \in Nat
    BY <1>1 DEF Inode
  <2>2. QED
    BY <1>2, <2>1
<1>7. QED
  BY <1>2, <1>4, <1>5, <1>6, StartHoles

\* i starts: within the file, and the second call goes on where the first ends.
LEMMA HolesI ==
    ASSUME IInv, HInv, NEW f \in Files, NEW p \in Positions, NEW d \in Strings, cmd_i(f, p, d)
    PROVE  HInv'
<1> DEFINE size   == ino[f].size
           pos    == IF p > size THEN size ELSE p
           tail   == readi(ino[f], store, pos, size - pos)
           old    == content[f]
           c1     == Call(pos, d)
           c2     == Call((pos + Len(d)) % WORD, tail)
           intent == SubSeq(old, 1, pos) \o d \o SubSeq(old, pos + 1, Len(old))
<1>1. ino[f] \in Inode /\ size \in Nat
  BY DEF IInv, Good, Typed, Inode
<1>2. p \in Nat
  BY FileAssumption
<1>3. pos \in Nat /\ pos <= size
  BY <1>1, <1>2
<1>4. d \in Seq(Byte) /\ Len(d) \in Nat
  BY FileAssumption
<1>5. Start("i", f, ino[f], <<c1, c2>>, -1, intent)
  BY DEF cmd_i
<1> HIDE DEF pos, intent
<1>6. tail \in Seq(Value)
  BY <1>3, ReadiType
<1> HIDE DEF tail
<1>7. (pos + Len(d)) % WORD \in Nat
  BY <1>3, <1>4, Word
<1>8. c1 \in Calls /\ c2 \in Calls
  BY <1>3, <1>4, <1>6, <1>7, CallOK
<1>9. c1.off <= size /\ Follows(c1, c2)
  BY <1>3 DEF Call, Follows
<1> HIDE DEF c1, c2
<1>10. Begins(<<c1, c2>>, ino[f].size)
  BY <1>8, <1>9 DEF Begins
<1>11. ino[f].size <= ino[f].size /\ -1 <= ino[f].size
  BY <1>1
<1>12. QED
  BY <1>1, <1>5, <1>10, <1>11, StartHoles

\* d starts: within the file, and the size it will set is not above the present
\* one.
LEMMA HolesD ==
    ASSUME NoWrap, IInv, HInv,
           NEW f \in Files, NEW p \in Positions, NEW n \in Lengths, cmd_d(f, p, n)
    PROVE  HInv'
<1> DEFINE size     == ino[f].size
           end      == (p + n) % WORD
           tail_pos == IF end > size THEN size ELSE end
           tail     == readi(ino[f], store, tail_pos, size - tail_pos)
           old      == content[f]
           c        == Call(p, tail)
           trunc    == (p + (size - tail_pos)) % WORD
           intent   == SubSeq(old, 1, p) \o SubSeq(old, p + n + 1, Len(old))
<1>1. ino[f] \in Inode /\ size \in Nat
  BY DEF IInv, Good, Typed, Inode
<1>2. p \in Nat /\ n \in Nat
  BY FileAssumption
<1>3. end = p + n
  <2>1. WORD \in Nat \ {0} /\ p + n < WORD
    BY FileAssumption DEF NoWrap
  <2>2. QED
    BY <1>2, <2>1
<1>4. p <= size /\ Start("d", f, ino[f], <<c>>, trunc, intent)
  BY DEF cmd_d
<1> HIDE DEF end, intent
<1>5. tail_pos \in Nat /\ tail_pos <= size /\ p <= tail_pos
  BY <1>1, <1>2, <1>3, <1>4
<1> HIDE DEF tail_pos
<1>6. tail \in Seq(Value)
  BY <1>5, ReadiType
<1> HIDE DEF tail
<1>7. trunc <= size
  <2>1. p + (size - tail_pos) \in Nat /\ p + (size - tail_pos) <= size
    BY <1>1, <1>2, <1>5
  <2>2. trunc \in Nat /\ trunc <= p + (size - tail_pos)
    BY <2>1, WordLess
  <2> HIDE DEF trunc
  <2>3. QED
    BY <1>1, <2>1, <2>2
<1>8. c \in Calls /\ c.off <= size
  BY <1>2, <1>4, <1>6, CallOK DEF Call
<1> HIDE DEF c, trunc
<1>9. Begins(<<c>>, ino[f].size)
  BY <1>8 DEF Begins
<1>10. ino[f].size <= ino[f].size
  BY <1>1
<1>11. QED
  BY <1>1, <1>4, <1>7, <1>9, <1>10, StartHoles

-----------------------------------------------------------------------------
(* The steps of a command *)

\* What is known of a command with a call to make.
LEMMA PendingHoles ==
    ASSUME IInv, HInv, job.todo # <<>>
    PROVE  /\ job.f \in Files /\ job # Idle /\ Cur \in Calls
           /\ job.trunc <= ino[job.f].size /\ Writing(ino[job.f], store, job.tot, Cur)
           /\ \/ /\ job.todo = <<Cur>> /\ Tail(job.todo) = <<>>
                 /\ Ready(ino[job.f], store, bitmap, Cur.off) \/ Far(Cur.off)
              \/ /\ Ready(ino[job.f], store, bitmap, Cur.off)
                 /\ \E d \in Calls : /\ job.todo = <<Cur, d>> /\ Tail(job.todo) = <<d>>
                                     /\ Follows(Cur, d)
<1>1. job # Idle
  BY DEF Idle
<1>2. job.f \in Files /\ Cur \in Calls
  BY Pending
<1>3. ASSUME NEW c \in Calls, job.todo = <<c>> PROVE Cur = c /\ Tail(job.todo) = <<>>
  BY <1>3 DEF Cur
<1>4. ASSUME NEW c \in Calls, NEW d \in Calls, job.todo = <<c, d>>
      PROVE  Cur = c /\ Tail(job.todo) = <<d>>
  BY <1>4 DEF Cur
<1>5. QED
  BY <1>1, <1>2, <1>3, <1>4, Zenon DEF HInv, Underway

\* The next call of a command.
LEMMA NextHoles ==
    ASSUME NEW ii, NEW st, NEW us, NEW f, NEW jb, jb.f = f, jb.tot = 0, jb.trunc <= ii[f].size,
           \/ jb.todo = <<>>
           \/ \E d \in Calls : jb.todo = <<d>> /\ (Ready(ii[f], st, us, d.off) \/ Far(d.off))
    PROVE  Underway(ii, st, us, jb)
<1>1. ASSUME NEW d \in Calls PROVE Writing(ii[f], st, 0, d)
  <2>1. Len(d.src) \in Nat
    BY DEF Calls
  <2>2. QED
    BY <2>1 DEF Writing
<1>2. QED
  BY <1>1, Zenon DEF Underway

\* A call of writei that does nothing: the next one starts where this one did, or
\* behind the largest file.
LEMMA HolesRefused ==
    ASSUME IInv, HInv, writei_refused
    PROVE  HInv'
<1> DEFINE f == job.f
<1>1. /\ job.todo # <<>> /\ UNCHANGED <<ndataBlocks, store, bitmap, ino>>
      /\ Cur.src = <<>> \/ TooLarge(Cur)
  BY DEF writei_refused
<1>2. job'.f = f /\ job'.todo = Tail(job.todo) /\ job'.tot = 0 /\ job'.trunc = job.trunc
  BY Pending, <1>1 DEF writei_refused, NextCall, Jobs
<1>3. Cur.off \in Nat /\ Len(Cur.src) \in Nat
  BY <1>1, Pending DEF Calls
<1>4. ASSUME NEW d \in Calls, Follows(Cur, d), Ready(ino[f], store, bitmap, Cur.off)
      PROVE  Ready(ino[f], store, bitmap, d.off) \/ Far(d.off)
  <2>1. CASE Cur.src = <<>>
    <3>1. Cur.off + Len(Cur.src) = Cur.off
      BY <1>3, <2>1
    <3>2. d.off = Cur.off % WORD
      BY <1>4, <3>1 DEF Follows
    <3>3. d.off \in Nat /\ d.off <= Cur.off
      BY <1>3, <3>2, WordLess
    <3>4. QED
      BY <1>3, <1>4, <3>3, ReadyBefore
  <2>2. CASE TooLarge(Cur)
    <3>1. d.off > BSIZE * MaxFileBlocks
      BY <1>4, <2>2 DEF Follows, TooLarge
    <3>2. BSIZE * MaxFileBlocks \in Nat /\ d.off \in Nat
      BY Largest, Sizes DEF Calls
    <3>3. QED
      BY <3>1, <3>2 DEF Far
  <2>3. QED
    BY <1>1, <2>1, <2>2
<1>5. Underway(ino, store, bitmap, job')
  BY <1>1, <1>2, <1>4, PendingHoles, NextHoles
<1>6. QED
  BY <1>1, <1>5, HPrimed DEF HInv

\* The end of a command.
LEMMA HolesFinish ==
    ASSUME IInv, HInv, Finish
    PROVE  HInv'
<1>1. /\ job.f \in Files /\ job # Idle /\ job.trunc \in Nat \cup {-1}
      /\ job' = Idle /\ UNCHANGED <<ndataBlocks, store, bitmap>>
  BY DEF Finish, IInv, JobOK, Jobs
<1>2. ino \in [Files -> Inode]
  BY DEF IInv, Good, Typed
<1>3. job.trunc <= ino[job.f].size
  BY <1>1 DEF HInv, Underway
<1>4. Underway(ino', store', bitmap', job')
  BY <1>1 DEF Underway
<1>5. Closed(ino', store) /\ Sized(ino', store)
  <2>1. CASE job.trunc = -1
    BY <2>1 DEF Finish, HInv
  <2>2. CASE job.trunc # -1
    <3>1. /\ ino' = [ino EXCEPT ![job.f] = [ino[job.f] EXCEPT !.size = job.trunc]]
          /\ job.trunc \in Nat
      BY <1>1, <2>2 DEF Finish
    <3> DEFINE x == [ino[job.f] EXCEPT !.size = job.trunc]
    <3>2. x \in Inode /\ x.addrs = ino[job.f].addrs /\ x.size = job.trunc
      BY <1>1, <1>2, <3>1 DEF Inode
    <3> HIDE DEF x
    <3>3. ino' = [ino EXCEPT ![job.f] = x]
      BY <3>1 DEF x
    <3>4. ino' \in [Files -> Inode]
      BY <1>2, <3>2, <3>3
    <3>5. \A g \in Files, m \in Addrs : ino'[g].addrs[m] = ino[g].addrs[m]
      BY <1>2, <3>2, <3>3
    <3>6. \A g \in Files : ino'[g].size <= ino[g].size
      BY <1>1, <1>2, <1>3, <3>2, <3>3 DEF Inode
    <3>7. QED
      BY <3>4, <3>5, <3>6, Shorter
  <2>3. QED
    BY <2>1, <2>2
<1>6. QED
  BY <1>1, <1>4, <1>5, HPrimed

\* An iteration that writes m cells of block n of file f leaves in cell i what the
\* call brings, or what was there.
Writes(f, n, m, i) ==
    LET o == (Cur.off + job.tot) % BSIZE
        b == bmap(ino'[f], store', n)
    IN  IF i \in o .. o + m - 1 THEN store'[b][i] = Cur.src[job.tot + i - o + 1]
        ELSE bmap(ino[f], store, n) # 0 => store'[b][i] = store[b][i]

\* One iteration of writei maps at most its own block, n of file f, and leaves
\* every other as it is; it ends the call only if that block cannot be mapped.
\* It writes to that block alone, and there what comes next in the call.
LEMMA BlockWrites ==
    ASSUME IInv, writei_block, NEW f, f = job.f,
           NEW n \in Nat, n = (Cur.off + job.tot) \div BSIZE
    PROVE  /\ ino' \in [Files -> Inode]
           /\ bitmap \subseteq bitmap'
           /\ \A g \in Files : ino'[g].size = ino[g].size
           /\ \A g \in Files, k \in Nat :
                 \/ bmap(ino'[g], store', k) = bmap(ino[g], store, k)
                 \/ /\ g = f /\ k = n /\ bmap(ino[g], store, k) = 0
                    /\ ~(Block \subseteq bitmap)
           /\ \A g \in Files, k \in Nat :
                 bmap(ino[g], store, k) # 0 /\ ~(g = f /\ k = n) =>
                     store'[bmap(ino[g], store, k)] = store[bmap(ino[g], store, k)]
           /\ \/ /\ bmap(ino'[f], store', n) = 0 /\ job' = NextCall
                 /\ n < MaxFileBlocks => Block \subseteq bitmap'
              \/ /\ bmap(ino'[f], store', n) # 0
                 /\ \E m \in Nat : /\ 0 < m /\ m <= BSIZE - ((Cur.off + job.tot) % BSIZE)
                                   /\ m <= Len(Cur.src) - job.tot
                                   /\ job' = [job EXCEPT !.tot = job.tot + m]
                                   /\ \A i \in Cells : Writes(f, n, m, i)
<1> DEFINE c   == Cur
           s0  == [ip |-> ino[f], store |-> store, used |-> bitmap]
           s   == bmap_alloc(s0, n)
           b   == bmap(s.ip, s.store, n)
           o   == (c.off + job.tot) % BSIZE
           m   == Min({BSIZE - o, Len(c.src) - job.tot})
           new == [i \in Cells |-> IF i \in o .. o + m - 1
                                   THEN c.src[job.tot + i - o + 1] ELSE s.store[b][i]]
<1>1. /\ job.todo # <<>> /\ job.tot < Len(c.src)
      /\ bitmap' = s.used /\ ino' = [ino EXCEPT ![f] = s.ip]
      /\ \/ b = 0 /\ store' = s.store /\ job' = NextCall
         \/ /\ b # 0 /\ store' = [s.store EXCEPT ![b] = new]
            /\ job' = [job EXCEPT !.tot = job.tot + m]
  BY DEF writei_block, Iteration
<1>2. f \in Files /\ c \in Calls
  BY <1>1, Pending
<1>3. c.off \in Nat /\ c.src \in Seq(Value) /\ job.tot \in Nat /\ Len(c.src) \in Nat
  BY <1>2 DEF Calls, IInv, JobOK, Jobs
<1>4. o \in Cells
  <2>1. c.off + job.tot \in Nat
    BY <1>3
  <2>2. QED
    BY <2>1, CellOf
<1>5. Stage(ino, f, s0) /\ ino \in [Files -> Inode]
  BY <1>2, IsStage DEF Stage
<1> HIDE DEF s0
<1>6. /\ Stage(ino, f, s) /\ Grows(ino, f, s0, s, n)
      /\ n < MaxFileBlocks /\ b = 0 => Block \subseteq s.used
  BY <1>2, <1>5, BmapAllocStage, BmapAllocGrows
<1> HIDE DEF s
<1>7. b \in 0..ndataBlocks /\ ~IsIndex([ino EXCEPT ![f] = s.ip], s.store, b)
  BY <1>2, <1>6, DataBlock
<1>8. /\ Good(ino', s.store, s.used) /\ s.ip \in Inode
      /\ s.store \in [0..ndataBlocks -> [Cells -> Value]]
  BY <1>1, <1>6 DEF Stage
<1>9. m \in Nat /\ 0 < m /\ m <= BSIZE - o /\ m <= Len(c.src) - job.tot
  <2> DEFINE T == {BSIZE - o, Len(c.src) - job.tot}
  <2> HIDE DEF o
  <2> DEFINE l == Len(c.src)
  <2> HIDE DEF l
  <2>0. l \in Nat /\ job.tot \in Nat /\ job.tot < l
    BY <1>1, <1>3 DEF l
  <2>1. T \in SUBSET Nat /\ T # {} /\ \A y \in T : 0 < y
    <3>1. BSIZE - o \in Nat /\ 0 < BSIZE - o
      BY <1>4, Sizes DEF Cells
    <3>2. l - job.tot \in Nat /\ 0 < l - job.tot
      BY <2>0
    <3>3. QED
      BY <3>1, <3>2 DEF l
  <2>2. Min(T) \in T /\ \A y \in T : Min(T) <= y
    BY <2>1, HasMin, Zenon
  <2>3. QED
    BY <2>1, <2>2
<1> HIDE DEF m
<1>10. ino' \in [Files -> Inode] /\ ino'[f] = s.ip /\ \A g \in Files : g # f => ino'[g] = ino[g]
  BY <1>1, <1>2, <1>5, <1>8
<1>11. SamePtrs(ino', s.store, ino', store')
  <2>1. CASE b = 0
    BY <1>1, <1>8, <1>10, <2>1 DEF SamePtrs
  <2>2. CASE b # 0
    <3>1. store' = [s.store EXCEPT ![b] = new]
      BY <1>1, <2>2
    <3>2. new \in [Cells -> Value]
      <4>1. ASSUME NEW i \in Cells, i \in o .. o + m - 1
            PROVE  c.src[job.tot + i - o + 1] \in Value
        <5> DEFINE l == Len(c.src)
        <5>1. /\ l \in Nat /\ job.tot \in Nat /\ o \in Nat /\ i \in Nat /\ m \in Nat
              /\ o <= i /\ i <= o + m - 1 /\ m <= l - job.tot
          BY <1>1, <1>3, <1>4, <1>9, <4>1, Sizes DEF Cells
        <5> HIDE DEF l, o
        <5>2. job.tot + i - o + 1 \in 1..l
          BY <5>1
        <5>3. QED
          BY <1>3, <5>2 DEF l
      <4>2. ASSUME NEW i \in Cells PROVE s.store[b][i] \in Value
        BY <1>7, <1>8
      <4>3. QED
        BY <4>1, <4>2
    <3> HIDE DEF new, o, c
    <3>3. store' \in [0..ndataBlocks -> [Cells -> Value]]
      BY <1>7, <1>8, <3>1, <3>2
    <3>4. \A x \in 0..ndataBlocks : x # b => store'[x] = s.store[x]
      BY <1>8, <3>1
    <3>5. ~IsIndex(ino', s.store, b)
      BY <1>1, <1>7
    <3>6. \A x \in Block : IsIndex(ino', s.store, x) => store'[x] = s.store[x]
      BY <3>4, <3>5 DEF Block
    <3>7. QED
      BY <1>10, <3>3, <3>6 DEF SamePtrs
  <2>3. QED
    BY <2>1, <2>2
<1>12. \A g \in Files, k \in Nat : bmap(ino'[g], store', k) = bmap(ino'[g], s.store, k)
  BY <1>8, <1>11, SameMaps
<1>13. bmap(ino'[f], store', n) = b
  BY <1>2, <1>10, <1>12
<1>14. /\ \A g \in Files, k \in Nat :
             \/ bmap(ino'[g], s.store, k) = bmap(ino[g], store, k)
             \/ /\ g = f /\ k = n /\ bmap(ino[g], store, k) = 0
                /\ ~(Block \subseteq bitmap)
       /\ bitmap \subseteq s.used /\ s.ip.size = ino[f].size
  <2>1. s0.ip = ino[f] /\ s0.store = store /\ s0.used = bitmap
    BY DEF s0
  <2>2. [ino EXCEPT ![f] = ino[f]] = ino
    BY <1>5
  <2>3. \A g \in Files, k \in Nat : /\ Found(ino, f, s0, g, k) = bmap(ino[g], store, k)
                                    /\ Found(ino, f, s, g, k) = bmap(ino'[g], s.store, k)
    BY <1>1, <2>1, <2>2 DEF Found
  <2>4. Grows(ino, f, s0, s, n)
    BY <1>6
  <2> HIDE DEF s0
  <2>5. /\ bitmap \subseteq s.used /\ s.ip.size = ino[f].size
        /\ \A g \in Files, k \in Nat :
             \/ Found(ino, f, s, g, k) = Found(ino, f, s0, g, k)
             \/ g = f /\ k = n /\ Found(ino, f, s0, g, k) = 0 /\ ~(Block \subseteq bitmap)
    BY <2>1, <2>4 DEF Grows
  <2>6. QED
    BY <2>3, <2>5
<1>15. \A g \in Files : ino'[g].size = ino[g].size
  BY <1>10, <1>14
<1>16. ASSUME NEW g \in Files, NEW k \in Nat, NEW q, q = bmap(ino[g], store, k), q # 0
       PROVE  s.store[q] = store[q] /\ bmap(ino'[g], s.store, k) = q
  <2>1. s0.ip = ino[f] /\ s0.store = store
    BY DEF s0
  <2>2. [ino EXCEPT ![f] = ino[f]] = ino
    BY <1>5
  <2>3. Found(ino, f, s0, g, k) = q
    BY <1>16, <2>1, <2>2 DEF Found
  <2>4. Grows(ino, f, s0, s, n)
    BY <1>6
  <2> HIDE DEF s0
  <2>5. s.store[q] = s0.store[q]
    BY <1>16, <2>3, <2>4 DEF Grows
  <2>6. bmap(ino'[g], s.store, k) = q
    BY <1>14, <1>16
  <2>7. QED
    BY <2>1, <2>5, <2>6
<1>17. ASSUME NEW g \in Files, NEW k \in Nat, NEW q, q = bmap(ino[g], store, k), q # 0,
              ~(g = f /\ k = n)
       PROVE  store'[q] = store[q]
  <2>1. s.store[q] = store[q] /\ bmap(ino'[g], s.store, k) = q
    BY <1>16, <1>17
  <2>2. q \in Block
    BY <1>8, <1>17, <2>1, MapsData
  <2>3. CASE b = 0
    BY <1>1, <2>1, <2>3
  <2>4. CASE b # 0
    <3>1. store' = [s.store EXCEPT ![b] = new]
      BY <1>1, <2>4
    <3>2. bmap(ino'[f], s.store, n) = b
      BY <1>10
    <3> HIDE DEF new, b
    <3>3. q # b
      BY <1>2, <1>8, <1>17, <2>1, <2>4, <3>2, MapsOnce
    <3>4. q \in 0..ndataBlocks
      BY <2>2 DEF Block
    <3>5. QED
      BY <1>8, <2>1, <3>1, <3>3, <3>4
  <2>5. QED
    BY <2>3, <2>4
<1>18. ASSUME b # 0, NEW i \in Cells PROVE Writes(f, n, m, i)
  <2>1. store' = [s.store EXCEPT ![b] = new]
    BY <1>1, <1>18
  <2>2. new[i] = IF i \in o .. o + m - 1 THEN c.src[job.tot + i - o + 1] ELSE s.store[b][i]
    OBVIOUS
  <2> HIDE DEF new
  <2>3. bmap(ino[f], store, n) # 0 => s.store[b] = store[b]
    <3> SUFFICES ASSUME bmap(ino[f], store, n) # 0 PROVE s.store[b] = store[b]
      OBVIOUS
    <3> DEFINE q == bmap(ino[f], store, n)
    <3>1. s.store[q] = store[q] /\ bmap(ino'[f], s.store, n) = q
      BY <1>2, <1>16
    <3>2. q = b
      BY <1>10, <3>1
    <3>3. QED
      BY <3>1, <3>2
  <2>4. bmap(ino'[f], store', n) = b
    BY <1>13
  <2> HIDE DEF b
  <2>5. store'[b] = new
    BY <1>7, <1>8, <2>1
  <2>6. store'[b][i] = new[i]
    BY <2>5
  <2> HIDE DEF o, c
  <2>7. IF i \in o .. o + m - 1 THEN store'[b][i] = c.src[job.tot + i - o + 1]
        ELSE bmap(ino[f], store, n) # 0 => store'[b][i] = store[b][i]
    BY <2>2, <2>3, <2>6, Zenon
  <2>8. QED
    BY <2>4, <2>7, Zenon DEF Writes, o, c
<1>19. \/ /\ bmap(ino'[f], store', n) = 0 /\ job' = NextCall
          /\ n < MaxFileBlocks => Block \subseteq bitmap'
       \/ /\ bmap(ino'[f], store', n) # 0
          /\ \E k \in Nat : /\ 0 < k /\ k <= BSIZE - o /\ k <= Len(c.src) - job.tot
                            /\ job' = [job EXCEPT !.tot = job.tot + k]
                            /\ \A i \in Cells : Writes(f, n, k, i)
  <2>1. CASE b = 0
    BY <1>1, <1>6, <1>13, <2>1
  <2>2. CASE b # 0
    <3>1. job' = [job EXCEPT !.tot = job.tot + m]
      BY <1>1, <2>2
    <3>2. \A i \in Cells : Writes(f, n, m, i)
      BY <1>18, <2>2
    <3> HIDE DEF b, o, c
    <3>3. QED
      BY <1>9, <1>13, <2>2, <3>1, <3>2
  <2>3. QED
    BY <2>1, <2>2
<1>20. \A g \in Files, k \in Nat :
          \/ bmap(ino'[g], store', k) = bmap(ino[g], store, k)
          \/ /\ g = f /\ k = n /\ bmap(ino[g], store, k) = 0
             /\ ~(Block \subseteq bitmap)
  BY <1>12, <1>14
<1>21. bitmap \subseteq bitmap'
  BY <1>1, <1>14
<1>22. \A g \in Files, k \in Nat :
          bmap(ino[g], store, k) # 0 /\ ~(g = f /\ k = n) =>
              store'[bmap(ino[g], store, k)] = store[bmap(ino[g], store, k)]
  BY <1>17
<1> HIDE DEF b, new
<1>23. QED
  BY <1>10, <1>15, <1>19, <1>20, <1>21, <1>22, Zenon

\* The blocks it maps.
LEMMA BlockMaps ==
    ASSUME IInv, writei_block, NEW f, f = job.f,
           NEW n \in Nat, n = (Cur.off + job.tot) \div BSIZE
    PROVE  /\ ino' \in [Files -> Inode]
           /\ bitmap \subseteq bitmap'
           /\ \A g \in Files : ino'[g].size = ino[g].size
           /\ \A g \in Files, k \in Nat :
                 \/ bmap(ino'[g], store', k) = bmap(ino[g], store, k)
                 \/ /\ g = f /\ k = n /\ bmap(ino[g], store, k) = 0
                    /\ ~(Block \subseteq bitmap)
           /\ \/ /\ bmap(ino'[f], store', n) = 0 /\ job' = NextCall
                 /\ n < MaxFileBlocks => Block \subseteq bitmap'
              \/ /\ bmap(ino'[f], store', n) # 0
                 /\ \E m \in Nat : /\ 0 < m /\ m <= BSIZE - ((Cur.off + job.tot) % BSIZE)
                                   /\ m <= Len(Cur.src) - job.tot
                                   /\ job' = [job EXCEPT !.tot = job.tot + m]
<1>1. \/ /\ bmap(ino'[f], store', n) = 0 /\ job' = NextCall
         /\ n < MaxFileBlocks => Block \subseteq bitmap'
      \/ /\ bmap(ino'[f], store', n) # 0
         /\ \E m \in Nat : /\ 0 < m /\ m <= BSIZE - ((Cur.off + job.tot) % BSIZE)
                           /\ m <= Len(Cur.src) - job.tot
                           /\ job' = [job EXCEPT !.tot = job.tot + m]
                           /\ \A i \in Cells : Writes(f, n, m, i)
  BY BlockWrites
<1>2. /\ ino' \in [Files -> Inode]
      /\ bitmap \subseteq bitmap'
      /\ \A g \in Files : ino'[g].size = ino[g].size
      /\ \A g \in Files, k \in Nat :
            \/ bmap(ino'[g], store', k) = bmap(ino[g], store, k)
            \/ /\ g = f /\ k = n /\ bmap(ino[g], store, k) = 0
               /\ ~(Block \subseteq bitmap)
  BY BlockWrites
<1>3. QED
  BY <1>1, <1>2

\* One iteration of writei.
LEMMA HolesBlock ==
    ASSUME IInv, HInv, writei_block
    PROVE  HInv'
<1> DEFINE f == job.f
           c == Cur
<1>1. job.todo # <<>> /\ job.tot < Len(c.src) /\ ndataBlocks' = ndataBlocks
  BY DEF writei_block, Iteration
<1>2. f \in Files /\ c.off \in Nat /\ job.tot \in Nat /\ Len(c.src) \in Nat
  BY <1>1, Pending DEF Calls, IInv, JobOK, Jobs
<1>3. /\ job.trunc <= ino[f].size /\ Writing(ino[f], store, job.tot, c) /\ c \in Calls
      /\ \/ /\ job.todo = <<c>> /\ Tail(job.todo) = <<>>
            /\ Ready(ino[f], store, bitmap, c.off) \/ Far(c.off)
         \/ /\ Ready(ino[f], store, bitmap, c.off)
            /\ \E d \in Calls : /\ job.todo = <<c, d>> /\ Tail(job.todo) = <<d>>
                                /\ Follows(c, d)
  BY <1>1, PendingHoles
<1> HIDE DEF f, c
<1>4. PICK n \in Nat : n = (c.off + job.tot) \div BSIZE
  <2>1. c.off + job.tot \in Nat
    BY <1>2
  <2>2. QED
    BY <2>1, CellOf
<1>5. /\ bitmap \subseteq bitmap'
      /\ \A g \in Files : ino'[g].size = ino[g].size
      /\ \A g \in Files, k \in Nat :
            \/ bmap(ino'[g], store', k) = bmap(ino[g], store, k)
            \/ /\ g = f /\ k = n /\ bmap(ino[g], store, k) = 0
               /\ ~(Block \subseteq bitmap)
      /\ \/ /\ bmap(ino'[f], store', n) = 0 /\ job' = NextCall
            /\ n < MaxFileBlocks => Block \subseteq bitmap'
         \/ /\ bmap(ino'[f], store', n) # 0
            /\ \E m \in Nat : /\ 0 < m /\ m <= BSIZE - ((c.off + job.tot) % BSIZE)
                              /\ m <= Len(c.src) - job.tot
                              /\ job' = [job EXCEPT !.tot = job.tot + m]
  BY <1>4, BlockMaps, Zenon DEF f, c
<1>6. \A g \in Files, k \in Nat : bmap(ino[g], store, k) # 0 => bmap(ino'[g], store', k) # 0
  BY <1>5
<1>7. ASSUME Ready(ino[f], store, bitmap, c.off) \/ job.tot > 0
      PROVE  \/ \A j \in Nat : j < n /\ j < MaxFileBlocks => bmap(ino[f], store, j) # 0
             \/ Block \subseteq bitmap
  <2>1. CASE job.tot = 0
    <3>1. c.off + job.tot = c.off
      BY <1>2, <2>1
    <3>2. n = c.off \div BSIZE
      BY <1>4, <3>1
    <3>3. Ready(ino[f], store, bitmap, c.off)
      BY <1>7, <2>1
    <3>4. QED
      BY <3>2, <3>3 DEF Ready
  <2>2. CASE job.tot > 0
    <3>1. c.off + job.tot \in Nat /\ c.off + job.tot > 0
      BY <1>2, <2>2
    <3> DEFINE r == (c.off + job.tot - 1) \div BSIZE
    <3>2. r \in Nat /\ n <= r + 1
      <4> DEFINE z == c.off + job.tot
      <4>1. z \in Nat /\ z > 0 /\ n = z \div BSIZE
        BY <1>4, <3>1
      <4> HIDE DEF z
      <4>2. (z - 1) \div BSIZE \in Nat /\ n <= (z - 1) \div BSIZE + 1
        BY <4>1, NextBlock
      <4>3. z - 1 = c.off + job.tot - 1
        BY <1>2 DEF z
      <4>4. QED
        BY <4>2, <4>3
    <3>3. bmap(ino[f], store, r) # 0
      BY <1>3, <2>2 DEF Writing
    <3> HIDE DEF r
    <3>4. \A j \in 0..r : bmap(ino[f], store, j) # 0
      BY <1>2, <3>2, <3>3 DEF HInv, Closed
    <3>5. \A j \in Nat : j < n => j \in 0..r
      BY <3>2
    <3>6. QED
      BY <3>4, <3>5
  <2>3. QED
    BY <1>2, <2>1, <2>2
<1>8. n < MaxFileBlocks => Ready(ino[f], store, bitmap, c.off) \/ job.tot > 0
  <2>1. ASSUME Far(c.off), job.tot = 0 PROVE MaxFileBlocks <= n
    <3>1. BSIZE * MaxFileBlocks <= c.off
      BY <1>2, <2>1, Largest, Sizes DEF Far
    <3>2. c.off + job.tot = c.off
      BY <1>2, <2>1
    <3>3. n = c.off \div BSIZE
      BY <1>4, <3>2
    <3>4. QED
      BY <1>2, <3>1, <3>3, Largest, BlocksBefore
  <2>2. QED
    BY <1>2, <1>3, <2>1, Largest
<1>9. Closed(ino', store')
  <2> SUFFICES ASSUME NEW g \in Files, NEW k \in Nat, bmap(ino'[g], store', k) # 0,
                      NEW j \in 0..k
               PROVE  bmap(ino'[g], store', j) # 0
    BY DEF Closed
  <2>1. CASE bmap(ino[g], store, k) # 0
    <3>1. bmap(ino[g], store, j) # 0 /\ j \in Nat
      BY <2>1 DEF HInv, Closed
    <3>2. QED
      BY <1>6, <3>1
  <2>2. CASE bmap(ino[g], store, k) = 0
    <3>1. g = f /\ k = n /\ ~(Block \subseteq bitmap)
      BY <1>5, <2>2
    <3>2. n < MaxFileBlocks
      BY <3>1, Beyond, Largest
    <3>3. \A i \in Nat : i < n /\ i < MaxFileBlocks => bmap(ino[f], store, i) # 0
      BY <1>7, <1>8, <3>1, <3>2
    <3>4. CASE j = n
      BY <3>1, <3>4
    <3>5. CASE j # n
      <4>1. j \in Nat /\ j < n /\ j < MaxFileBlocks
        BY <3>1, <3>2, <3>5, Largest
      <4>2. QED
        BY <1>6, <3>1, <3>3, <4>1
    <3>6. QED
      BY <3>4, <3>5
  <2>3. QED
    BY <2>1, <2>2
<1>10. Sized(ino', store')
  <2> SUFFICES ASSUME NEW g \in Files, NEW i \in 0 .. ino'[g].size - 1
               PROVE  bmap(ino'[g], store', i \div BSIZE) # 0
    BY DEF Sized
  <2>1. i \in 0 .. ino[g].size - 1 /\ ino[g].size \in Nat
    BY <1>5 DEF IInv, Good, Typed, Inode
  <2>2. i \in Nat
    BY <2>1
  <2>3. i \div BSIZE \in Nat
    BY <2>2, CellOf
  <2>4. bmap(ino[g], store, i \div BSIZE) # 0
    BY <2>1, Zenon DEF HInv, Sized
  <2>5. QED
    BY <1>6, <2>3, <2>4, Zenon
<1>11. ASSUME NEW off, Ready(ino[f], store, bitmap, off)
       PROVE  Ready(ino'[f], store', bitmap', off)
  BY <1>2, <1>5, <1>6, <1>11 DEF Ready
<1>12. job.trunc <= ino'[f].size
  BY <1>2, <1>3, <1>5
<1>13. Underway(ino', store', bitmap', job')
  <2>1. CASE bmap(ino'[f], store', n) = 0
    <3>1. job' = NextCall /\ (n < MaxFileBlocks => Block \subseteq bitmap')
      BY <1>5, <2>1
    <3>2. job'.f = f /\ job'.todo = Tail(job.todo) /\ job'.tot = 0 /\ job'.trunc = job.trunc
      BY <1>1, <3>1, Pending DEF NextCall, Jobs, IInv, JobOK, f
    <3>3. ASSUME NEW off, Ready(ino[f], store, bitmap, c.off)
          PROVE  Ready(ino'[f], store', bitmap', off)
      <4>1. CASE n < MaxFileBlocks
        BY <3>1, <4>1 DEF Ready
      <4>2. CASE ~(n < MaxFileBlocks)
        <5>1. \/ \A j \in Nat : j < n /\ j < MaxFileBlocks => bmap(ino[f], store, j) # 0
              \/ Block \subseteq bitmap
          BY <1>7, <3>3
        <5>2. \A j \in Nat : j < MaxFileBlocks => j < n
          BY <4>2, Largest
        <5>3. \/ \A j \in Nat : j < MaxFileBlocks => bmap(ino'[f], store', j) # 0
              \/ Block \subseteq bitmap'
          BY <1>2, <1>5, <1>6, <5>1, <5>2
        <5>4. QED
          BY <5>3 DEF Ready
      <4>3. QED
        BY <4>1, <4>2
    <3>4. \/ job'.todo = <<>>
          \/ \E d \in Calls : job'.todo = <<d>> /\ Ready(ino'[f], store', bitmap', d.off)
      BY <1>3, <3>2, <3>3
    <3>5. QED
      BY <1>12, <3>2, <3>4, NextHoles
  <2>2. CASE bmap(ino'[f], store', n) # 0
    <3>1. PICK m \in Nat : /\ 0 < m /\ m <= BSIZE - ((c.off + job.tot) % BSIZE)
                           /\ m <= Len(c.src) - job.tot
                           /\ job' = [job EXCEPT !.tot = job.tot + m]
      BY <1>5, <2>2
    <3>2. /\ job'.f = f /\ job'.todo = job.todo /\ job'.tot = job.tot + m
          /\ job'.trunc = job.trunc
      BY <3>1 DEF IInv, JobOK, Jobs, f
    <3>3. c.off + job.tot \in Nat
      BY <1>2
    <3>4. (c.off + job.tot + m - 1) \div BSIZE = n
      BY <1>4, <3>1, <3>3, SameBlock
    <3>5. c.off + (job.tot + m) - 1 = c.off + job.tot + m - 1
      BY <1>2
    <3>6. bmap(ino'[f], store', (c.off + (job.tot + m) - 1) \div BSIZE) # 0
      BY <2>2, <3>4, <3>5
    <3>7. job.tot + m <= Len(c.src)
      BY <1>2, <3>1
    <3>8. Writing(ino'[f], store', job'.tot, c)
      BY <3>2, <3>6, <3>7 DEF Writing
    <3>9. \/ job.todo = <<c>> /\ (Ready(ino'[f], store', bitmap', c.off) \/ Far(c.off))
          \/ /\ Ready(ino'[f], store', bitmap', c.off)
             /\ \E d \in Calls : job.todo = <<c, d>> /\ Follows(c, d)
      BY <1>3, <1>11
    <3>10. QED
      BY <1>3, <1>12, <3>2, <3>8, <3>9, Zenon DEF Underway
  <2>3. QED
    BY <2>1, <2>2
<1>14. QED
  BY <1>1, <1>9, <1>10, <1>13, HPrimed

\* After its last iteration writei raises the size to what is mapped.
LEMMA HolesDone ==
    ASSUME IInv, HInv, writei_done
    PROVE  HInv'
<1> DEFINE f == job.f
           c == Cur
           e == (c.off + Len(c.src)) % WORD
           k == IF e > ino[f].size THEN e ELSE ino[f].size
           x == [ino[f] EXCEPT !.size = k]
<1>1. /\ job.todo # <<>> /\ c.src # <<>> /\ job.tot = Len(c.src)
      /\ ino' = [ino EXCEPT ![f] = x] /\ job' = NextCall
      /\ UNCHANGED <<ndataBlocks, store, bitmap>>
  BY DEF writei_done
<1>2. f \in Files /\ c.off \in Nat /\ c.src \in Seq(Value) /\ c \in Calls
  BY <1>1, Pending DEF Calls
<1>3. Len(c.src) \in Nat /\ Len(c.src) > 0
  BY <1>1, <1>2
<1>4. /\ job.trunc <= ino[f].size /\ Writing(ino[f], store, job.tot, c)
      /\ \/ Tail(job.todo) = <<>>
         \/ \E d \in Calls : Tail(job.todo) = <<d>> /\ Follows(c, d)
  BY <1>1, PendingHoles
<1>5. /\ Good(ino, store, bitmap) /\ ino \in [Files -> Inode]
      /\ store \in [0..ndataBlocks -> [Cells -> Value]]
  BY DEF IInv, Good, Typed
<1>6. ino[f] \in Inode /\ ino[f].size \in Nat
  BY <1>2, <1>5 DEF Inode
<1>7. e \in Nat /\ e <= c.off + Len(c.src)
  <2>1. c.off + Len(c.src) \in Nat
    BY <1>2, <1>3
  <2>2. QED
    BY <2>1, WordLess
<1>8. ASSUME NEW d, Follows(c, d) PROVE d.off = e
  BY <1>8 DEF Follows
<1> HIDE DEF e
<1>9. k \in Nat /\ e <= k /\ ino[f].size <= k /\ (k = e \/ k = ino[f].size)
  BY <1>6, <1>7
<1> HIDE DEF k
<1>10. x \in Inode /\ x.addrs = ino[f].addrs /\ x.size = k
  BY <1>6, <1>9 DEF Inode
<1> HIDE DEF x, f
<1>11. /\ ino' \in [Files -> Inode] /\ ino'[f] = x
       /\ \A g \in Files : g # f => ino'[g] = ino[g]
  BY <1>1, <1>2, <1>5, <1>10
<1>12. SamePtrs(ino, store, ino', store)
  BY <1>5, <1>10, <1>11 DEF SamePtrs
<1>13. \A g \in Files, j \in Nat : bmap(ino'[g], store, j) = bmap(ino[g], store, j)
  BY <1>5, <1>12, SameMaps
<1>14. Closed(ino', store)
  <2>1. \A g \in Files : \A i \in Nat : \A j \in 0..i : j \in Nat
    OBVIOUS
  <2>2. QED
    BY <1>13, <2>1 DEF HInv, Closed
<1>15. Sized(ino', store)
  <2> SUFFICES ASSUME NEW g \in Files, NEW i \in 0 .. ino'[g].size - 1
               PROVE  bmap(ino'[g], store, i \div BSIZE) # 0
    BY DEF Sized
  <2>1. ino'[g].size \in Nat
    BY <1>11 DEF Inode
  <2>2. i \in Nat /\ i < ino'[g].size
    BY <2>1
  <2>3. i \div BSIZE \in Nat
    BY <2>2, CellOf
  <2>4. CASE i \in 0 .. ino[g].size - 1
    <3>1. bmap(ino[g], store, i \div BSIZE) # 0
      BY <2>4, Zenon DEF HInv, Sized
    <3>2. QED
      BY <1>13, <2>3, <3>1, Zenon
  <2>5. CASE i \notin 0 .. ino[g].size - 1
    <3>1. g = f /\ i < e
      <4>1. ino[g].size \in Nat
        BY <1>5 DEF Inode
      <4>2. ino'[g].size # ino[g].size
        BY <2>2, <2>5, <4>1
      <4>3. g = f
        BY <1>11, <4>2
      <4>4. QED
        BY <1>9, <1>10, <1>11, <2>2, <4>2, <4>3
    <3> DEFINE y == c.off + Len(c.src) - 1
    <3>2. y \in Nat /\ i <= y
      BY <1>2, <1>3, <1>7, <2>2, <3>1
    <3>3. bmap(ino[f], store, y \div BSIZE) # 0
      BY <1>1, <1>3, <1>4 DEF Writing
    <3> HIDE DEF y
    <3>4. PICK q \in Nat : q = y \div BSIZE
      BY <3>2, CellOf
    <3>5. PICK p \in Nat : p = i \div BSIZE
      BY <2>3
    <3>6. p <= q
      BY <2>2, <3>2, <3>4, <3>5, LaterBlock
    <3>7. bmap(ino[f], store, q) # 0
      BY <3>3, <3>4
    <3>8. bmap(ino[f], store, p) # 0
      BY <1>2, <3>6, <3>7 DEF HInv, Closed
    <3>9. bmap(ino'[f], store, p) # 0
      BY <1>2, <1>13, <3>8
    <3>10. QED
      BY <3>1, <3>5, <3>9
  <2>6. QED
    BY <2>4, <2>5
<1>16. Underway(ino', store, bitmap, job')
  <2>1. job'.f = f /\ job'.todo = Tail(job.todo) /\ job'.tot = 0 /\ job'.trunc = job.trunc
    BY <1>1, Pending DEF NextCall, Jobs, IInv, JobOK, f
  <2>2. job.trunc \in Int
    BY DEF IInv, JobOK, Jobs
  <2>3. job'.trunc <= ino'[f].size
    BY <1>4, <1>6, <1>9, <1>10, <1>11, <2>1, <2>2
  <2>4. ASSUME NEW d \in Calls, Follows(c, d) PROVE Ready(ino'[f], store, bitmap, d.off)
    <3>1. d.off = e
      BY <1>8, <2>4
    <3>2. ino'[f].size \in Nat /\ e <= ino'[f].size
      BY <1>9, <1>10, <1>11
    <3>3. QED
      BY <1>2, <1>7, <1>15, <3>1, <3>2, SizedReady
  <2>5. QED
    BY <1>4, <2>1, <2>3, <2>4, NextHoles
<1>17. QED
  BY <1>1, <1>14, <1>15, <1>16, HPrimed

-----------------------------------------------------------------------------
(* The theorem *)

\* After a format no file has a block, and none a size.
LEMMA InitHoles == Init => HInv
<1> SUFFICES ASSUME Init PROVE HInv
  OBVIOUS
<1>1. \A g \in Files, m \in Addrs : ino[g].addrs[m] = 0
  BY DEF Init, EmptyInode
<1>2. \A g \in Files : ino[g].size = 0
  BY DEF Init, EmptyInode
<1>3. \A g \in Files, k \in Nat : bmap(ino[g], store, k) = 0
  <2> SUFFICES ASSUME NEW g \in Files, NEW k \in Nat PROVE bmap(ino[g], store, k) = 0
    OBVIOUS
  <2>1. CASE k >= MaxFileBlocks
    BY <2>1, Beyond
  <2>2. CASE k < MaxFileBlocks
    <3>1. /\ \A m \in 0 .. NDIRECT - 1 : ino[g].addrs[m] = 0
          /\ \A m \in NDIRECT .. NDIRECT + 1 : ino[g].addrs[m] = 0
          /\ ino[g].addrs[NDIRECT + 2] = 0
      BY <1>1, Sizes DEF Addrs
    <3>2. \A j : Entry(store, 0, j) = 0
      BY DEF Entry
    <3>3. \/ /\ k \in 0 .. NDIRECT - 1
             /\ bmap(ino[g], store, k) = ino[g].addrs[k]
          \/ \E m \in NDIRECT .. NDIRECT + 1, i \in Cells :
                bmap(ino[g], store, k) = Entry(store, ino[g].addrs[m], i)
          \/ \E i, j \in Cells :
                bmap(ino[g], store, k) =
                    Entry(store, Entry(store, ino[g].addrs[NDIRECT + 2], i), j)
      BY <2>2, Routes, Zenon
    <3>4. QED
      BY <3>1, <3>2, <3>3
  <2>3. QED
    BY <2>1, <2>2, Largest
<1>4. Closed(ino, store) /\ Sized(ino, store)
  BY <1>2, <1>3 DEF Closed, Sized
<1>5. Underway(ino, store, bitmap, job)
  BY DEF Init, Underway
<1>6. QED
  BY <1>4, <1>5 DEF HInv

\* Every action preserves the two invariants.
LEMMA HInductive == NoWrap /\ IInv /\ HInv /\ [Next]_vars => IInv' /\ HInv'
<1> SUFFICES ASSUME NoWrap, IInv, HInv, [Next]_vars PROVE IInv' /\ HInv'
  OBVIOUS
<1>1. ASSUME NEW f \in Files, NEW d \in Strings, cmd_w(f, d) PROVE HInv'
  BY <1>1, HolesW
<1>2. ASSUME NEW f \in Files, NEW p \in Positions, NEW d \in Strings, cmd_i(f, p, d) PROVE HInv'
  BY <1>2, HolesI
<1>3. ASSUME NEW f \in Files, NEW p \in Positions, NEW n \in Lengths, cmd_d(f, p, n) PROVE HInv'
  BY <1>3, HolesD
<1>4. ASSUME writei_refused PROVE HInv'
  BY <1>4, HolesRefused
<1>5. ASSUME writei_block PROVE HInv'
  BY <1>5, HolesBlock
<1>6. ASSUME writei_done PROVE HInv'
  BY <1>6, HolesDone
<1>7. ASSUME Finish PROVE HInv'
  BY <1>7, HolesFinish
<1>8. ASSUME UNCHANGED vars PROVE HInv'
  <2>1. UNCHANGED <<ndataBlocks, store, bitmap, ino, job>>
    BY <1>8 DEF vars
  <2>2. QED
    BY <2>1, HPrimed DEF HInv
<1>9. IInv'
  BY Inductive
<1>10. QED
  BY <1>1, <1>2, <1>3, <1>4, <1>5, <1>6, <1>7, <1>8, <1>9 DEF Next

\* A file never has a hole, in the middle of a command, on a full disk and with
\* writes refused or cut short too, as long as cmd_d's sum of position and
\* length does not wrap around.
THEOREM NeverHoles ==
    ASSUME NoWrap
    PROVE  Spec => []NoHoles
<1>1. Init => IInv /\ HInv
  BY InitInv, InitHoles
<1>2. IInv /\ HInv /\ [Next]_vars => (IInv /\ HInv)'
  BY HInductive
<1>3. IInv /\ HInv => NoHoles
  BY DEF HInv, Sized, NoHoles
<1>4. QED
  BY <1>1, <1>2, <1>3, PTL DEF Spec

-----------------------------------------------------------------------------
(* What a file holds *)

\* One iteration of writei, at byte x of file f: the bytes of the other files and
\* those before x stay, and what the call brings next is at x and behind.
LEMMA BlockBytes ==
    ASSUME IInv, writei_block, NEW f, f = job.f, NEW x \in Nat, x = Cur.off + job.tot,
           NEW n \in Nat, n = x \div BSIZE
    PROVE  /\ \A g \in Files, i \in Nat :
                 /\ bmap(ino[g], store, i \div BSIZE) # 0
                 /\ g # f \/ i < x
                 => /\ bmap(ino'[g], store', i \div BSIZE) # 0
                    /\ ByteAt(ino'[g], store', i) = ByteAt(ino[g], store, i)
           /\ \/ /\ bmap(ino'[f], store', n) = 0 /\ job' = NextCall
                 /\ n < MaxFileBlocks => Block \subseteq bitmap'
              \/ \E m \in Nat :
                    /\ 0 < m /\ m <= Len(Cur.src) - job.tot
                    /\ job' = [job EXCEPT !.tot = job.tot + m]
                    /\ \A j \in 0 .. m - 1 :
                          /\ bmap(ino'[f], store', (x + j) \div BSIZE) # 0
                          /\ ByteAt(ino'[f], store', x + j) = Cur.src[job.tot + j + 1]
<1>1. /\ \A g \in Files, k \in Nat :
            \/ bmap(ino'[g], store', k) = bmap(ino[g], store, k)
            \/ g = f /\ k = n /\ bmap(ino[g], store, k) = 0
      /\ \A g \in Files, k \in Nat :
            bmap(ino[g], store, k) # 0 /\ ~(g = f /\ k = n) =>
                store'[bmap(ino[g], store, k)] = store[bmap(ino[g], store, k)]
      /\ \/ /\ bmap(ino'[f], store', n) = 0 /\ job' = NextCall
            /\ n < MaxFileBlocks => Block \subseteq bitmap'
         \/ /\ bmap(ino'[f], store', n) # 0
            /\ \E m \in Nat : /\ 0 < m /\ m <= BSIZE - (x % BSIZE)
                              /\ m <= Len(Cur.src) - job.tot
                              /\ job' = [job EXCEPT !.tot = job.tot + m]
                              /\ \A i \in Cells : Writes(f, n, m, i)
  BY BlockWrites
<1>2. job.todo # <<>> /\ job.tot < Len(Cur.src)
  BY DEF writei_block, Iteration
<1>3. f \in Files /\ job.tot \in Nat
  BY <1>2, Pending DEF IInv, JobOK, Jobs
<1>4. PICK o \in Cells : x % BSIZE = o /\ x = BSIZE * n + o
  BY Division
<1>5. BSIZE \in Nat \ {0} /\ BSIZE * n \in Nat /\ o \in 0 .. BSIZE - 1
  BY Sizes DEF Cells
<1>6. ASSUME NEW m, NEW i, Writes(f, n, m, i)
      PROVE  IF i \in o .. o + m - 1
             THEN store'[bmap(ino'[f], store', n)][i] = Cur.src[job.tot + i - o + 1]
             ELSE bmap(ino[f], store, n) # 0 =>
                      store'[bmap(ino'[f], store', n)][i] = store[bmap(ino'[f], store', n)][i]
  BY <1>4, <1>6 DEF Writes
<1>7. ASSUME NEW g \in Files, NEW i \in Nat, bmap(ino[g], store, i \div BSIZE) # 0,
             g # f \/ i < x
      PROVE  /\ bmap(ino'[g], store', i \div BSIZE) # 0
             /\ ByteAt(ino'[g], store', i) = ByteAt(ino[g], store, i)
  <2>1. PICK q \in Nat, r \in Cells : i \div BSIZE = q /\ i % BSIZE = r /\ i = BSIZE * q + r
    BY Division
  <2> DEFINE b == bmap(ino[g], store, q)
  <2>2. b # 0 /\ bmap(ino'[g], store', q) = b
    BY <1>1, <1>7, <2>1
  <2>3. store'[b][r] = store[b][r]
    <3>1. CASE ~(g = f /\ q = n)
      BY <1>1, <2>2, <3>1
    <3>2. CASE g = f /\ q = n
      <4>1. r < o
        <5>1. i < x
          BY <1>7, <3>2
        <5>2. r \in Nat /\ x = BSIZE * n + o /\ i = BSIZE * n + r
          BY <1>4, <2>1, <3>2, Sizes DEF Cells
        <5>3. QED
          BY <1>5, <5>1, <5>2
      <4>2. PICK m \in Nat : \A j \in Cells : Writes(f, n, m, j)
        BY <1>1, <2>2, <3>2
      <4>3. r \notin o .. o + m - 1
        BY <1>5, <4>1
      <4>4. QED
        BY <1>6, <2>2, <3>2, <4>2, <4>3
    <3>3. QED
      BY <3>1, <3>2
  <2>4. QED
    BY <2>1, <2>2, <2>3 DEF ByteAt
<1>8. ASSUME NEW m \in Nat, 0 < m, m <= BSIZE - (x % BSIZE), \A i \in Cells : Writes(f, n, m, i),
             bmap(ino'[f], store', n) # 0, NEW j \in 0 .. m - 1
      PROVE  /\ bmap(ino'[f], store', (x + j) \div BSIZE) # 0
             /\ ByteAt(ino'[f], store', x + j) = Cur.src[job.tot + j + 1]
  <2>1. m <= BSIZE - o /\ o \in Nat /\ BSIZE \in Nat
    BY <1>4, <1>5, <1>8
  <2>2. o + j \in Cells /\ x + j \in Nat /\ x + j = BSIZE * n + (o + j) /\ o + j \in o .. o + m - 1
    <3>1. j \in Nat /\ j <= m - 1 /\ x = BSIZE * n + o
      BY <1>4
    <3>2. o + j \in 0 .. BSIZE - 1 /\ x + j \in Nat /\ o + j \in o .. o + m - 1
      BY <2>1, <3>1
    <3>3. x + j = BSIZE * n + (o + j)
      BY <1>5, <2>1, <3>1
    <3>4. QED
      BY <3>2, <3>3 DEF Cells
  <2>3. (x + j) \div BSIZE = n /\ (x + j) % BSIZE = o + j
    BY <2>2, InBlock
  <2>4. Writes(f, n, m, o + j)
    BY <1>8, <2>2
  <2>5. store'[bmap(ino'[f], store', n)][o + j] = Cur.src[job.tot + (o + j) - o + 1]
    BY <1>6, <2>2, <2>4
  <2>6. job.tot + (o + j) - o + 1 = job.tot + j + 1
    BY <1>3, <2>1
  <2>7. QED
    BY <1>8, <2>3, <2>5, <2>6 DEF ByteAt
<1>9. \/ /\ bmap(ino'[f], store', n) = 0 /\ job' = NextCall
         /\ n < MaxFileBlocks => Block \subseteq bitmap'
      \/ \E m \in Nat :
            /\ 0 < m /\ m <= Len(Cur.src) - job.tot
            /\ job' = [job EXCEPT !.tot = job.tot + m]
            /\ \A j \in 0 .. m - 1 :
                  /\ bmap(ino'[f], store', (x + j) \div BSIZE) # 0
                  /\ ByteAt(ino'[f], store', x + j) = Cur.src[job.tot + j + 1]
  <2>1. CASE bmap(ino'[f], store', n) = 0
    BY <1>1, <2>1
  <2>2. CASE bmap(ino'[f], store', n) # 0
    <3>1. PICK m \in Nat : /\ 0 < m /\ m <= BSIZE - (x % BSIZE)
                           /\ m <= Len(Cur.src) - job.tot
                           /\ job' = [job EXCEPT !.tot = job.tot + m]
                           /\ \A i \in Cells : Writes(f, n, m, i)
      BY <1>1, <2>2
    <3>2. QED
      BY <1>8, <2>2, <3>1
  <2>3. QED
    BY <2>1, <2>2
<1>10. QED
  BY <1>7, <1>9

-----------------------------------------------------------------------------
(* Contents *)

\* No file is longer than the largest one.
LEMMA SizeLimit ==
    ASSUME IInv, HInv, NEW f \in Files
    PROVE  ino[f].size \in Nat /\ ino[f].size <= BSIZE * MaxFileBlocks
<1> DEFINE e == BSIZE * MaxFileBlocks
<1>1. ino[f].size \in Nat
  BY DEF IInv, Good, Typed, Inode
<1>2. e \in Nat /\ e \div BSIZE = MaxFileBlocks
  BY Largest, Sizes, BlocksBefore
<1>3. bmap(ino[f], store, MaxFileBlocks) = 0
  BY Largest, Beyond
<1> HIDE DEF e
<1>4. ASSUME ino[f].size > e PROVE FALSE
  <2>1. e \in 0 .. ino[f].size - 1
    BY <1>1, <1>2, <1>4
  <2>2. bmap(ino[f], store, e \div BSIZE) # 0
    BY <2>1, Zenon DEF HInv, Sized
  <2>3. QED
    BY <1>2, <1>3, <2>2
<1>5. ino[f].size <= e
  BY <1>1, <1>2, <1>4
<1>6. QED
  BY <1>1, <1>5 DEF e

\* Without holes readi returns all that is left of a file.
LEMMA ReadiAll ==
    ASSUME IInv, HInv, NEW f \in Files, NEW off \in Nat, off <= ino[f].size,
           NEW tail, tail = readi(ino[f], store, off, ino[f].size - off)
    PROVE  /\ tail \in Seq(Value) /\ Len(tail) = ino[f].size - off
           /\ \A k \in 1 .. ino[f].size - off : tail[k] = ByteAt(ino[f], store, off + k - 1)
<1> DEFINE ip   == ino[f]
           n    == ip.size - off
           m    == IF (off + n) % WORD > ip.size THEN ip.size - off ELSE n
           hole == {k \in 0 .. m - 1 : bmap(ip, store, (off + k) \div BSIZE) = 0}
           r    == IF hole = {} THEN m ELSE Min(hole)
<1>1. ip.size \in Nat /\ n \in Nat
  BY SizeLimit
<1>2. tail = [k \in 1..r |-> ByteAt(ino[f], store, off + k - 1)]
  BY <1>1 DEF readi
<1>3. m = n
  OBVIOUS
<1>4. hole = {}
  <2>1. ASSUME NEW k \in 0 .. n - 1 PROVE bmap(ip, store, (off + k) \div BSIZE) # 0
    <3>1. off + k \in 0 .. ip.size - 1
      BY <1>1
    <3>2. QED
      BY <3>1, Zenon DEF HInv, Sized
  <2>2. QED
    BY <1>3, <2>1
<1>5. r = n
  BY <1>3, <1>4
<1> HIDE DEF r, m
<1>6. tail = [k \in 1..n |-> ByteAt(ino[f], store, off + k - 1)]
  BY <1>2, <1>5
<1>7. tail \in Seq(Value)
  BY ReadiType
<1> HIDE DEF n
<1>8. Len(tail) = n
  <2>1. DOMAIN tail = 1..n
    BY <1>6
  <2>2. DOMAIN tail = 1 .. Len(tail) /\ Len(tail) \in Nat
    BY <1>7
  <2>3. QED
    BY <1>1, <2>1, <2>2
<1>9. \A k \in 1..n : tail[k] = ByteAt(ino[f], store, off + k - 1)
  BY <1>6
<1>10. QED
  BY <1>7, <1>8, <1>9 DEF n

\* Two strings, one behind the other.
LEMMA Joined ==
    ASSUME NEW S, NEW u \in Seq(S), NEW v \in Seq(S), NEW t, t = u \o v
    PROVE  /\ t \in Seq(S) /\ Len(t) = Len(u) + Len(v)
           /\ \A k \in 1 .. Len(u) : t[k] = u[k]
           /\ \A k \in 1 .. Len(v) : t[Len(u) + k] = v[k]
<1>1. Len(u) \in Nat /\ Len(v) \in Nat
  OBVIOUS
<1>2. t \in Seq(S) /\ Len(t) = Len(u) + Len(v)
  OBVIOUS
<1>3. \A k \in 1 .. Len(u) : t[k] = u[k]
  OBVIOUS
<1>4. \A k \in 1 .. Len(v) : t[Len(u) + k] = v[k]
  OBVIOUS
<1>5. QED
  BY <1>2, <1>3, <1>4

\* String s with d in it, at its byte p, and without its bytes from p to q.
Insert(s, d, p) == SubSeq(s, 1, p) \o d \o SubSeq(s, p + 1, Len(s))
Delete(s, p, q) == SubSeq(s, 1, p) \o SubSeq(s, q + 1, Len(s))

\* What their bytes are.
Inserts(t, s, d, p) ==
    /\ Len(t) = Len(s) + Len(d)
    /\ \A k \in 1..p : t[k] = s[k]
    /\ \A k \in 1 .. Len(d) : t[p + k] = d[k]
    /\ \A k \in 1 .. Len(s) - p : t[p + Len(d) + k] = s[p + k]
Deletes(t, s, p, q) ==
    /\ Len(t) = p + (Len(s) - q)
    /\ \A k \in 1..p : t[k] = s[k]
    /\ \A k \in 1 .. Len(s) - q : t[p + k] = s[q + k]

\* Insert gives the bytes before p, those of d and the others.
LEMMA Inserted ==
    ASSUME NEW S, NEW s \in Seq(S), NEW d \in Seq(S), NEW p \in 0 .. Len(s),
           NEW t, t = Insert(s, d, p)
    PROVE  t \in Seq(S) /\ Inserts(t, s, d, p)
<1> DEFINE u == SubSeq(s, 1, p)
           v == SubSeq(s, p + 1, Len(s))
           w == u \o d
<1>1. t = w \o v
  BY DEF Insert
<1>2. Len(s) \in Nat /\ Len(d) \in Nat /\ p \in Nat /\ p <= Len(s)
  OBVIOUS
<1>3. u \in Seq(S) /\ Len(u) = p /\ \A k \in 1..p : u[k] = s[k]
  OBVIOUS
<1>4. v \in Seq(S) /\ Len(v) = Len(s) - p /\ \A k \in 1 .. Len(s) - p : v[k] = s[p + k]
  OBVIOUS
<1>5. w = u \o d
  OBVIOUS
<1> HIDE DEF u, v, w
<1>6. /\ w \in Seq(S) /\ Len(w) = Len(u) + Len(d)
      /\ \A k \in 1 .. Len(u) : w[k] = u[k]
      /\ \A k \in 1 .. Len(d) : w[Len(u) + k] = d[k]
  <2>1. u \in Seq(S) /\ d \in Seq(S)
    BY <1>3
  <2>2. QED
    BY <1>5, <2>1, Joined
<1>7. /\ t \in Seq(S) /\ Len(t) = Len(w) + Len(v)
      /\ \A k \in 1 .. Len(w) : t[k] = w[k]
      /\ \A k \in 1 .. Len(v) : t[Len(w) + k] = v[k]
  <2>1. w \in Seq(S) /\ v \in Seq(S)
    BY <1>4, <1>6
  <2>2. QED
    BY <1>1, <2>1, Joined
<1> DEFINE l == Len(s)
           n == Len(d)
<1> HIDE DEF l, n
<1>8. /\ t \in Seq(S) /\ Len(t) = (p + n) + (l - p)
      /\ \A k \in 1 .. p + n : t[k] = w[k]
      /\ \A k \in 1 .. l - p : t[p + n + k] = v[k]
  <2>1. Len(w) = p + n /\ Len(v) = l - p
    BY <1>3, <1>4, <1>6 DEF l, n
  <2>2. QED
    BY <1>7, <2>1
<1>9. /\ \A k \in 1..p : w[k] = s[k]
      /\ \A k \in 1..n : w[p + k] = d[k]
      /\ \A k \in 1 .. l - p : v[k] = s[p + k]
  BY <1>3, <1>4, <1>6 DEF l, n
<1>10. l \in Nat /\ n \in Nat /\ p \in Nat
  BY <1>2 DEF l, n
<1>11. /\ \A k \in 1..p : k \in 1 .. p + n
       /\ \A k \in 1..n : p + k \in 1 .. p + n
       /\ (p + n) + (l - p) = l + n
  BY <1>10
<1>12. /\ t \in Seq(S) /\ Len(t) = l + n
       /\ \A k \in 1..p : t[k] = s[k]
       /\ \A k \in 1..n : t[p + k] = d[k]
       /\ \A k \in 1 .. l - p : t[p + n + k] = s[p + k]
  BY <1>8, <1>9, <1>11
<1>13. QED
  BY <1>12 DEF l, n, Inserts

\* Delete gives the bytes before p and those from q on.
LEMMA Deleted ==
    ASSUME NEW S, NEW s \in Seq(S), NEW p \in 0 .. Len(s), NEW q \in p .. Len(s),
           NEW t, t = Delete(s, p, q)
    PROVE  t \in Seq(S) /\ Deletes(t, s, p, q)
<1> DEFINE u == SubSeq(s, 1, p)
           v == SubSeq(s, q + 1, Len(s))
<1>1. t = u \o v
  BY DEF Delete
<1>2. u \in Seq(S) /\ Len(u) = p /\ \A k \in 1..p : u[k] = s[k]
  OBVIOUS
<1>3. v \in Seq(S) /\ Len(v) = Len(s) - q /\ \A k \in 1 .. Len(s) - q : v[k] = s[q + k]
  OBVIOUS
<1> HIDE DEF u, v
<1>4. /\ t \in Seq(S) /\ Len(t) = Len(u) + Len(v)
      /\ \A k \in 1 .. Len(u) : t[k] = u[k]
      /\ \A k \in 1 .. Len(v) : t[Len(u) + k] = v[k]
  <2>1. u \in Seq(S) /\ v \in Seq(S)
    BY <1>2, <1>3
  <2>2. QED
    BY <1>1, <2>1, Joined
<1>5. QED
  BY <1>2, <1>3, <1>4 DEF Deletes

\* The first n bytes of a file are those of t.
Agrees(ip, st, t, n) ==
    \A i \in 0 .. n - 1 : bmap(ip, st, i \div BSIZE) # 0 /\ ByteAt(ip, st, i) = t[i + 1]

\* A file holds t.
Holds(ip, st, t) == ip.size = Len(t) /\ Agrees(ip, st, t, Len(t))

\* Call c begins within the file, writes what t has at its place, and has done so for
\* tot bytes, the bytes before being those of t already.
Brings(ip, st, t, tot, c) ==
    /\ c.off <= ip.size /\ Agrees(ip, st, t, c.off + tot)
    /\ \A k \in 1 .. Len(c.src) : c.src[k] = t[c.off + k]

\* A command on its way to its intent: its calls end where the next one begins, the
\* last of them with the intent, and then the size is right or will be set.
Progress(ip, st, jb) ==
    LET t == jb.intent
    IN  /\ Len(t) < WORD
        /\ jb.op # "w" => Len(t) <= BSIZE * MaxFileBlocks
        /\ (jb.trunc = -1 /\ ip.size <= Len(t)) \/ jb.trunc = Len(t)
        /\ \/ /\ jb.todo = <<>> /\ Agrees(ip, st, t, Len(t))
              /\ jb.trunc = -1 => ip.size = Len(t)
           \/ \E c \in Calls : /\ jb.todo = <<c>> /\ c.off + Len(c.src) = Len(t)
                               /\ Brings(ip, st, t, jb.tot, c)
           \/ \E c, d \in Calls : /\ jb.todo = <<c, d>> /\ jb.op # "w"
                                  /\ c.off + Len(c.src) = d.off /\ d.off + Len(d.src) = Len(t)
                                  /\ Brings(ip, st, t, jb.tot, c)
                                  /\ \A k \in 1 .. Len(d.src) : d.src[k] = t[d.off + k]

\* Only w admits that it failed, and then it has written nothing.
Failed(ip, jb) == jb.op = "w" /\ jb.todo = <<>> /\ ip.size <= Len(jb.intent)

\* What the files hold, those of no command in progress, and how far that one is.
Contents(ii, st, jb, ct) ==
    /\ \A g \in Files : jb = Idle \/ jb.f # g => Holds(ii[g], st, ct[g])
    /\ jb # Idle => IF jb.reply = "Yes" THEN Progress(ii[jb.f], st, jb) ELSE Failed(ii[jb.f], jb)

\* While blocks last all this holds; afterwards none of it has to.
CInv ==
    BlocksLast =>
        /\ content \in [Files -> Seq(Value)] /\ job.intent \in Seq(Value)
        /\ job # Idle => job.op # "none"
        /\ job.op = "w" => job.trunc = -1
        /\ Contents(ino, store, job, content)

\* The sizes of files and of the strings of commands are numbers of 32 bits.
Addressable == BSIZE * MaxFileBlocks < WORD /\ \A d \in Strings : Len(d) < WORD

\* A file an i is to leave is not longer than the largest: cmd_i does not look at what
\* writei returns, so that it would report success without.
Fits == BlocksLast /\ job.op = "i" => Len(job.intent) <= BSIZE * MaxFileBlocks

\* Primed, the invariant is the one of the primed variables.
LEMMA CPrimed ==
    ASSUME ndataBlocks' = ndataBlocks,
           content' \in [Files -> Seq(Value)], job'.intent \in Seq(Value),
           job' # Idle => job'.op # "none", job'.op = "w" => job'.trunc = -1,
           BlocksLast' => Contents(ino', store', job', content')
    PROVE  CInv'
<1>1. Calls' = Calls /\ Value' = Value
  BY DEF Calls, Value
<1>2. Contents(ino, store, job, content)' <=> Contents(ino', store', job', content')
  BY <1>1 DEF Contents, Holds, Progress, Failed, Brings, Agrees, ByteAt, bmap, Idle
<1>3. Idle' = Idle
  BY DEF Idle
<1>4. QED
  BY <1>1, <1>2, <1>3 DEF CInv

\* The sizes of a file do not matter for its bytes, nor do its counts of blocks.
LEMMA SameBytes ==
    ASSUME NEW ip, NEW ip2, ip2.addrs = ip.addrs, NEW st, NEW t, NEW n, Agrees(ip, st, t, n)
    PROVE  Agrees(ip2, st, t, n)
<1>1. \A k : bmap(ip2, st, k) = bmap(ip, st, k)
  BY DEF bmap
<1>2. QED
  BY <1>1 DEF Agrees, ByteAt

\* What is known of a command with a call to make while blocks last.
LEMMA PendingContents ==
    ASSUME IInv, NEW ip, NEW st, Progress(ip, st, job), job.todo # <<>>,
           NEW t, t = job.intent, t \in Seq(Value)
    PROVE  /\ Cur.off + Len(Cur.src) <= Len(t) /\ Len(t) < WORD
           /\ Brings(ip, st, t, job.tot, Cur)
           /\ \/ Tail(job.todo) = <<>> /\ Cur.off + Len(Cur.src) = Len(t)
              \/ /\ job.op # "w"
                 /\ \E d \in Calls : /\ Tail(job.todo) = <<d>>
                                     /\ Cur.off + Len(Cur.src) = d.off
                                     /\ d.off + Len(d.src) = Len(t)
                                     /\ \A k \in 1 .. Len(d.src) : d.src[k] = t[d.off + k]
<1>1. Len(t) \in Nat /\ Len(t) < WORD
  BY DEF Progress
<1>2. ASSUME NEW c \in Calls, job.todo = <<c>> PROVE Cur = c /\ Tail(job.todo) = <<>>
  BY <1>2 DEF Cur
<1>3. ASSUME NEW c \in Calls, NEW d \in Calls, job.todo = <<c, d>>
      PROVE  Cur = c /\ Tail(job.todo) = <<d>>
  BY <1>3 DEF Cur
<1>4. \A c \in Calls : c.off \in Nat /\ Len(c.src) \in Nat
  BY DEF Calls
<1>5. \/ \E c \in Calls : /\ job.todo = <<c>> /\ c.off + Len(c.src) = Len(t)
                          /\ Brings(ip, st, t, job.tot, c)
      \/ \E c, d \in Calls : /\ job.todo = <<c, d>> /\ job.op # "w"
                             /\ c.off + Len(c.src) = d.off /\ d.off + Len(d.src) = Len(t)
                             /\ Brings(ip, st, t, job.tot, c)
                             /\ \A k \in 1 .. Len(d.src) : d.src[k] = t[d.off + k]
  BY DEF Progress
<1>6. ASSUME NEW c \in Calls, job.todo = <<c>>, c.off + Len(c.src) = Len(t),
             Brings(ip, st, t, job.tot, c)
      PROVE  /\ Cur.off + Len(Cur.src) <= Len(t) /\ Brings(ip, st, t, job.tot, Cur)
             /\ Tail(job.todo) = <<>> /\ Cur.off + Len(Cur.src) = Len(t)
  BY <1>1, <1>2, <1>6
<1>7. ASSUME NEW c \in Calls, NEW d \in Calls, job.todo = <<c, d>>,
             c.off + Len(c.src) = d.off, d.off + Len(d.src) = Len(t),
             Brings(ip, st, t, job.tot, c)
      PROVE  /\ Cur.off + Len(Cur.src) <= Len(t) /\ Brings(ip, st, t, job.tot, Cur)
             /\ Tail(job.todo) = <<d>> /\ Cur.off + Len(Cur.src) = d.off
  BY <1>1, <1>3, <1>4, <1>7
<1>8. QED
  BY <1>1, <1>5, <1>6, <1>7

\* A call that is over has brought the file to where the next one begins, or to the
\* intent.
LEMMA NextContents ==
    ASSUME IInv, NEW ip, NEW st, Progress(ip, st, job), job.todo # <<>>,
           job.intent \in Seq(Value),
           NEW ip2, ip2.addrs = ip.addrs, NEW e, e = Cur.off + Len(Cur.src),
           e <= ip2.size, ip2.size \in Nat, job.trunc = -1 => ip2.size <= Len(job.intent),
           Agrees(ip, st, job.intent, e)
    PROVE  Progress(ip2, st, NextCall)
<1> DEFINE t == job.intent
<1>1. /\ NextCall.op = job.op /\ NextCall.trunc = job.trunc /\ NextCall.intent = t
      /\ NextCall.tot = 0 /\ NextCall.todo = Tail(job.todo)
  BY DEF NextCall, IInv, JobOK, Jobs
<1>2. /\ \/ Tail(job.todo) = <<>> /\ e = Len(t)
         \/ /\ job.op # "w"
            /\ \E d \in Calls : /\ Tail(job.todo) = <<d>>
                                /\ e = d.off
                                /\ d.off + Len(d.src) = Len(t)
                                /\ \A k \in 1 .. Len(d.src) : d.src[k] = t[d.off + k]
  BY PendingContents
<1>3. /\ Len(t) < WORD /\ (job.op # "w" => Len(t) <= BSIZE * MaxFileBlocks)
      /\ (job.trunc = -1 /\ ip2.size <= Len(t)) \/ job.trunc = Len(t)
  BY DEF Progress
<1>4. Agrees(ip2, st, t, e) /\ Len(t) \in Nat
  BY SameBytes
<1>5. CASE Tail(job.todo) = <<>> /\ e = Len(t)
  <2>1. job.trunc = -1 => ip2.size = Len(t)
    BY <1>4, <1>5
  <2>2. QED
    BY <1>1, <1>3, <1>4, <1>5, <2>1 DEF Progress
<1>6. ASSUME NEW d \in Calls, Tail(job.todo) = <<d>>, e = d.off, d.off + Len(d.src) = Len(t),
             \A k \in 1 .. Len(d.src) : d.src[k] = t[d.off + k]
      PROVE  Progress(ip2, st, NextCall)
  <2>1. d.off \in Nat /\ d.off + 0 = d.off
    BY DEF Calls
  <2>2. Brings(ip2, st, t, 0, d)
    BY <1>4, <1>6, <2>1 DEF Brings
  <2>3. QED
    BY <1>1, <1>3, <1>6, <2>2, Zenon DEF Progress
<1>7. QED
  BY <1>2, <1>5, <1>6

\* A call of writei that does nothing had nothing to do, or was the only one of a w
\* that then reports the failure.
LEMMA ContentsRefused ==
    ASSUME Addressable, IInv, HInv, BlocksLast, CInv, writei_refused
    PROVE  CInv'
<1> DEFINE f == job.f
           c == Cur
           t == job.intent
<1>1. /\ job.todo # <<>> /\ job.tot = 0
      /\ c.src = <<>> \/ TooLarge(c)
      /\ job' = [NextCall EXCEPT !.reply =
                     IF job.op = "w" /\ c.src # <<>> THEN "No" ELSE job.reply]
      /\ UNCHANGED <<ndataBlocks, store, bitmap, ino, content>>
  BY DEF writei_refused
<1>2. /\ f \in Files /\ c.off \in Nat /\ Len(c.src) \in Nat /\ c.src \in Seq(Value)
      /\ job # Idle
  <2>1. f \in Files /\ c \in Calls
    BY <1>1, Pending
  <2>2. job # Idle
    BY <1>1 DEF Idle
  <2>3. QED
    BY <2>1, <2>2 DEF Calls
<1>3. /\ t \in Seq(Value) /\ content \in [Files -> Seq(Value)]
      /\ job.op # "none" /\ (job.op = "w" => job.trunc = -1)
  BY <1>2 DEF CInv
<1>4. /\ job'.op = job.op /\ job'.f = f /\ job'.todo = Tail(job.todo) /\ job'.tot = 0
      /\ job'.trunc = job.trunc /\ job'.intent = t
  BY <1>1, Pending DEF NextCall, IInv, JobOK, Jobs
<1>5. ino[f].size \in Nat
  BY <1>2, SizeLimit
<1> HIDE DEF f
<1>6. ASSUME BlocksLast PROVE Contents(ino, store, job', content)
  <2>1. Contents(ino, store, job, content)
    BY <1>6 DEF CInv
  <2>2. \A g \in Files : f # g => Holds(ino[g], store, content[g])
    BY <1>2, <2>1 DEF Contents, f
  <2>3. job.reply = "Yes" /\ Progress(ino[f], store, job)
    BY <1>1, <1>2, <2>1 DEF Contents, Failed, f
  <2>4. /\ c.off + Len(c.src) <= Len(t) /\ Len(t) < WORD /\ Brings(ino[f], store, t, 0, c)
        /\ Tail(job.todo) = <<>> \/ job.op # "w"
    <3>1. /\ c.off + Len(c.src) <= Len(t) /\ Len(t) < WORD
          /\ Brings(ino[f], store, t, job.tot, c)
          /\ Tail(job.todo) = <<>> \/ job.op # "w"
      BY <1>1, <1>3, <2>3, PendingContents
    <3>2. QED
      BY <1>1, <3>1
  <2>5. /\ job.op # "w" => Len(t) <= BSIZE * MaxFileBlocks
        /\ job.trunc = -1 => ino[f].size <= Len(t)
    <3>1. Len(t) \in Nat
      BY <1>3
    <3>2. -1 # Len(t)
      BY <3>1
    <3>3. QED
      BY <2>3, <3>2 DEF Progress
  <2>6. job' # Idle
    BY <1>3, <1>4 DEF Idle
  <2> HIDE DEF c, t
  <2>7. CASE c.src = <<>>
    <3>1. c.off + Len(c.src) = c.off /\ c.off + 0 = c.off /\ Len(c.src) = 0
      BY <1>2, <2>7
    <3>2. c.off <= ino[f].size /\ Agrees(ino[f], store, t, c.off)
      BY <2>4, <3>1 DEF Brings
    <3>3. Progress(ino[f], store, NextCall)
      <4> DEFINE e == c.off + Len(c.src)
      <4>1. /\ e = Cur.off + Len(Cur.src) /\ e <= ino[f].size
            /\ Agrees(ino[f], store, job.intent, e)
        BY <3>1, <3>2 DEF c, t
      <4>2. job.intent \in Seq(Value) /\ (job.trunc = -1 => ino[f].size <= Len(job.intent))
        BY <1>3, <2>5 DEF t
      <4> HIDE DEF e
      <4>3. QED
        BY <1>1, <1>5, <2>3, <4>1, <4>2, NextContents
    <3>4. job' = NextCall /\ job'.reply = "Yes"
      BY <1>1, <1>2, <2>3, <2>7 DEF Jobs, NextCall, IInv, JobOK
    <3>5. QED
      BY <1>4, <2>2, <2>6, <3>3, <3>4 DEF Contents
  <2>8. CASE c.src # <<>>
    <3>1. job.op = "w"
      <4>1. c.off + Len(c.src) \in Nat /\ c.off + Len(c.src) < WORD /\ WORD \in Nat \ {0}
        <5>1. Len(t) \in Nat
          BY <1>3
        <5>2. QED
          BY <1>2, <2>4, <5>1, FileAssumption
      <4>2. (c.off + Len(c.src)) % WORD = c.off + Len(c.src)
        BY <4>1
      <4>3. c.off + Len(c.src) > BSIZE * MaxFileBlocks
        BY <1>1, <2>8, <4>2 DEF TooLarge
      <4>4. Len(t) \in Nat /\ BSIZE * MaxFileBlocks \in Nat
        BY <1>3, Largest, Sizes
      <4>5. QED
        BY <2>4, <2>5, <4>1, <4>3, <4>4
    <3>2. job'.reply = "No"
      BY <1>1, <1>2, <2>8, <3>1 DEF Jobs
    <3>3. Failed(ino[f], job')
      BY <1>3, <1>4, <2>4, <2>5, <3>1 DEF Failed
    <3>4. QED
      BY <1>4, <2>2, <2>6, <3>2, <3>3 DEF Contents
  <2>9. QED
    BY <2>7, <2>8
<1>7. BlocksLast' <=> BlocksLast
  BY <1>1 DEF BlocksLast, Area
<1>8. BlocksLast' => Contents(ino', store', job', content')
  BY <1>1, <1>6, <1>7
<1>9. /\ content' \in [Files -> Seq(Value)] /\ job'.intent \in Seq(Value)
      /\ job'.op # "none" /\ (job'.op = "w" => job'.trunc = -1)
  BY <1>1, <1>3, <1>4
<1>10. QED
  BY <1>1, <1>8, <1>9, CPrimed

\* After its last iteration writei raises the size to what the call has brought.
LEMMA ContentsDone ==
    ASSUME Addressable, IInv, HInv, BlocksLast, CInv, writei_done
    PROVE  CInv'
<1> DEFINE f == job.f
           c == Cur
           t == job.intent
           e == (c.off + Len(c.src)) % WORD
           k == IF e > ino[f].size THEN e ELSE ino[f].size
           x == [ino[f] EXCEPT !.size = k]
<1>1. /\ job.todo # <<>> /\ c.src # <<>> /\ job.tot = Len(c.src)
      /\ ino' = [ino EXCEPT ![f] = x] /\ job' = NextCall
      /\ UNCHANGED <<ndataBlocks, store, bitmap, content>>
  BY DEF writei_done
<1>2. /\ f \in Files /\ c.off \in Nat /\ Len(c.src) \in Nat
      /\ job # Idle
  BY <1>1, Pending DEF Calls, Idle
<1>3. /\ t \in Seq(Value) /\ content \in [Files -> Seq(Value)]
      /\ job.op # "none" /\ (job.op = "w" => job.trunc = -1)
  BY <1>2 DEF CInv
<1>4. /\ job'.op = job.op /\ job'.f = f /\ job'.reply = job.reply
      /\ job'.trunc = job.trunc /\ job'.intent = t
  BY <1>1, Pending DEF NextCall, IInv, JobOK, Jobs
<1>5. ino \in [Files -> Inode] /\ ino[f] \in Inode /\ ino[f].size \in Nat
  BY <1>2, SizeLimit DEF IInv, Good, Typed
<1>6. x.addrs = ino[f].addrs /\ x.size = k
  BY <1>5 DEF Inode
<1>7. ino'[f] = x /\ \A g \in Files : f # g => ino'[g] = ino[g]
  BY <1>1, <1>2, <1>5
<1> HIDE DEF x, f
<1>8. ASSUME BlocksLast PROVE Contents(ino', store, job', content)
  <2>1. Contents(ino, store, job, content)
    BY <1>8 DEF CInv
  <2>2. \A g \in Files : f # g => Holds(ino'[g], store, content[g])
    BY <1>2, <1>7, <2>1 DEF Contents, f
  <2>3. job.reply = "Yes" /\ Progress(ino[f], store, job)
    BY <1>1, <1>2, <2>1 DEF Contents, Failed, f
  <2>4. /\ c.off + Len(c.src) <= Len(t) /\ Len(t) < WORD
        /\ Brings(ino[f], store, t, job.tot, c)
    BY <1>1, <1>3, <2>3, PendingContents
  <2>5. job.trunc = -1 => ino[f].size <= Len(t)
    <3>1. Len(t) \in Nat
      BY <1>3
    <3>2. -1 # Len(t)
      BY <3>1
    <3>3. QED
      BY <2>3, <3>2 DEF Progress
  <2> DEFINE z == c.off + Len(c.src)
  <2>6. Agrees(ino[f], store, t, z)
    BY <1>1, <2>4 DEF Brings
  <2>7. e = z /\ z \in Nat
    <3>1. z \in Nat /\ z < WORD /\ WORD \in Nat \ {0}
      <4>1. Len(t) \in Nat
        BY <1>3
      <4>2. QED
        BY <1>2, <2>4, <4>1, FileAssumption
    <3> HIDE DEF z
    <3>2. z % WORD = z
      BY <3>1
    <3>3. QED
      BY <3>1, <3>2 DEF z
  <2> HIDE DEF e
  <2>8. k \in Nat /\ z <= k /\ (k = z \/ k = ino[f].size)
    BY <1>5, <2>7
  <2>9. job.trunc = -1 => k <= Len(t)
    BY <2>4, <2>5, <2>8
  <2> HIDE DEF k
  <2>10. Progress(x, store, NextCall)
    <3>1. x.addrs = ino[f].addrs /\ z <= x.size /\ x.size \in Nat
          /\ (job.trunc = -1 => x.size <= Len(t))
      BY <1>6, <2>8, <2>9
    <3>2. z = Cur.off + Len(Cur.src)
      OBVIOUS
    <3> HIDE DEF z
    <3>3. QED
      BY <1>1, <1>3, <2>3, <2>6, <3>1, <3>2, NextContents
  <2>11. job' # Idle
    BY <1>3, <1>4 DEF Idle
  <2>12. QED
    BY <1>1, <1>4, <1>7, <2>2, <2>3, <2>10, <2>11 DEF Contents
<1>9. BlocksLast' <=> BlocksLast
  BY <1>1 DEF BlocksLast, Area
<1>10. BlocksLast' => Contents(ino', store', job', content')
  BY <1>1, <1>8, <1>9
<1>11. /\ content' \in [Files -> Seq(Value)] /\ job'.intent \in Seq(Value)
       /\ job'.op # "none" /\ (job'.op = "w" => job'.trunc = -1)
  BY <1>1, <1>3, <1>4
<1>12. QED
  BY <1>1, <1>10, <1>11, CPrimed

\* A command that ends well has done what it was to do; a w that failed has left what
\* there is, which is what the file is to hold from then on.
LEMMA ContentsFinish ==
    ASSUME IInv, HInv, BlocksLast, CInv, Finish
    PROVE  CInv'
<1> DEFINE f == job.f
           t == job.intent
           u == cmd_cat(f)
<1>1. /\ job # Idle /\ job.todo = <<>> /\ job' = Idle
      /\ content' = [content EXCEPT ![f] = IF job.reply = "Yes" THEN t ELSE u]
      /\ ino' = IF job.trunc = -1 THEN ino ELSE [ino EXCEPT ![f].size = job.trunc]
      /\ UNCHANGED <<ndataBlocks, store, bitmap>>
  BY DEF Finish
<1>2. f \in Files /\ ino \in [Files -> Inode]
  BY <1>1 DEF IInv, JobOK, Good, Typed
<1>3. t \in Seq(Value) /\ content \in [Files -> Seq(Value)] /\ (job.op = "w" => job.trunc = -1)
  BY DEF CInv
<1>4. u = readi(ino[f], store, 0, ino[f].size) /\ ino[f].size \in Nat
  BY <1>2, SizeLimit DEF cmd_cat
<1>5. /\ u \in Seq(Value) /\ Len(u) = ino[f].size
      /\ \A k \in 1 .. ino[f].size : u[k] = ByteAt(ino[f], store, k - 1)
  <2> DEFINE n == ino[f].size
  <2> HIDE DEF f, u
  <2>1. n - 0 = n /\ 0 <= n /\ 0 \in Nat /\ \A k \in 1..n : 0 + k - 1 = k - 1
    BY <1>4
  <2>2. u = readi(ino[f], store, 0, ino[f].size - 0)
    BY <1>4, <2>1
  <2>3. /\ u \in Seq(Value) /\ Len(u) = n - 0
        /\ \A k \in 1 .. n - 0 : u[k] = ByteAt(ino[f], store, 0 + k - 1)
    BY <1>2, <2>1, <2>2, ReadiAll
  <2>4. QED
    BY <2>1, <2>3
<1> HIDE DEF f, t, u
<1>6. content' \in [Files -> Seq(Value)]
  BY <1>1, <1>2, <1>3, <1>5
<1>7. job'.intent \in Seq(Value) /\ job'.op = "none"
  BY <1>1 DEF Idle
<1>8. \A g \in Files : g # f => ino'[g] = ino[g] /\ content'[g] = content[g]
  BY <1>1, <1>2, <1>3
<1>9. ASSUME BlocksLast PROVE Contents(ino', store, job', content')
  <2>1. Contents(ino, store, job, content)
    BY <1>9 DEF CInv
  <2>2. \A g \in Files : g # f => Holds(ino'[g], store, content'[g])
    BY <1>1, <1>8, <2>1 DEF Contents, f
  <2>3. CASE job.reply = "Yes"
    <3>1. Progress(ino[f], store, job) /\ content'[f] = t
      BY <1>1, <1>2, <1>3, <2>1, <2>3 DEF Contents, f
    <3>2. /\ Agrees(ino[f], store, t, Len(t)) /\ (job.trunc = -1 => ino[f].size = Len(t))
          /\ job.trunc = -1 \/ job.trunc = Len(t)
      BY <1>1, <3>1 DEF Progress, t
    <3>3. ino'[f].addrs = ino[f].addrs /\ ino'[f].size = Len(t)
      BY <1>1, <1>2, <3>2 DEF Inode
    <3>4. Agrees(ino'[f], store, t, Len(t))
      BY <3>2, <3>3, SameBytes
    <3>5. Holds(ino'[f], store, content'[f])
      BY <3>1, <3>3, <3>4 DEF Holds
    <3>6. QED
      BY <1>1, <2>2, <3>5 DEF Contents
  <2>4. CASE job.reply # "Yes"
    <3>1. job.trunc = -1
      BY <1>1, <1>3, <2>1, <2>4 DEF Contents, Failed
    <3>2. ino' = ino /\ content'[f] = u
      BY <1>1, <1>2, <1>3, <2>4, <3>1
    <3>3. Agrees(ino[f], store, u, Len(u))
      <4> SUFFICES ASSUME NEW i \in 0 .. Len(u) - 1
                   PROVE  /\ bmap(ino[f], store, i \div BSIZE) # 0
                          /\ ByteAt(ino[f], store, i) = u[i + 1]
        BY DEF Agrees
      <4>1. i \in 0 .. ino[f].size - 1
        BY <1>5
      <4>2. bmap(ino[f], store, i \div BSIZE) # 0
        BY <1>2, <4>1, Zenon DEF HInv, Sized
      <4>3. i + 1 \in 1 .. ino[f].size /\ (i + 1) - 1 = i
        BY <1>4, <4>1
      <4>4. u[i + 1] = ByteAt(ino[f], store, (i + 1) - 1)
        BY <1>5, <4>3, Zenon
      <4>5. QED
        BY <4>2, <4>3, <4>4
    <3>4. Holds(ino'[f], store, content'[f])
      BY <1>5, <3>2, <3>3 DEF Holds
    <3>5. QED
      BY <1>1, <2>2, <3>4 DEF Contents
  <2>5. QED
    BY <2>3, <2>4
<1>10. BlocksLast' <=> BlocksLast
  BY <1>1 DEF BlocksLast, Area
<1>11. BlocksLast' => Contents(ino', store', job', content')
  BY <1>1, <1>9, <1>10
<1>12. QED
  BY <1>1, <1>6, <1>7, <1>11, CPrimed

\* A byte of a file no longer than the largest is in a block of it.
LEMMA WithinFile ==
    ASSUME NEW x \in Nat, x < BSIZE * MaxFileBlocks, NEW n \in Nat, n = x \div BSIZE
    PROVE  n < MaxFileBlocks
<1>1. PICK r \in Cells : x = BSIZE * n + r
  BY Division
<1>2. BSIZE \in Nat \ {0} /\ r \in Nat /\ MaxFileBlocks \in Nat
  BY Sizes, Largest DEF Cells
<1>3. ASSUME MaxFileBlocks <= n PROVE FALSE
  <2>1. BSIZE * MaxFileBlocks \in Nat /\ BSIZE * n \in Nat
    BY <1>2
  <2>2. BSIZE * MaxFileBlocks <= BSIZE * n
    <3>1. CASE MaxFileBlocks = n
      BY <2>1, <3>1
    <3>2. CASE MaxFileBlocks < n
      BY <1>2, <2>1, <3>2, NextStart
    <3>3. QED
      BY <1>2, <1>3, <3>1, <3>2
  <2>3. QED
    BY <1>1, <1>2, <2>1, <2>2
<1>4. QED
  BY <1>2, <1>3

\* One iteration of writei brings a block of the intent and spares what is there; while
\* blocks last it does not end the call.
LEMMA ContentsBlock ==
    ASSUME Addressable, IInv, HInv, BlocksLast, CInv, writei_block
    PROVE  CInv'
<1> DEFINE f == job.f
           c == Cur
           t == job.intent
<1>1. /\ job.todo # <<>> /\ job.tot < Len(c.src) /\ ~TooLarge(c)
      /\ UNCHANGED <<ndataBlocks, content>>
  BY DEF writei_block, Iteration
<1>2. f \in Files /\ c.off \in Nat /\ job.tot \in Nat /\ Len(c.src) \in Nat /\ job # Idle
  <2>1. f \in Files /\ c \in Calls
    BY <1>1, Pending
  <2>2. job # Idle /\ job.tot \in Nat
    BY <1>1 DEF Idle, IInv, JobOK, Jobs
  <2>3. QED
    BY <2>1, <2>2 DEF Calls
<1>3. /\ t \in Seq(Value) /\ content \in [Files -> Seq(Value)] /\ Len(t) \in Nat
      /\ job.op # "none" /\ (job.op = "w" => job.trunc = -1)
  BY <1>2 DEF CInv
<1>4. PICK x \in Nat : x = c.off + job.tot
  BY <1>2
<1>5. PICK n \in Nat : n = x \div BSIZE
  BY CellOf
<1> HIDE DEF f, c
<1>6. /\ bitmap \subseteq bitmap' /\ \A g \in Files : ino'[g].size = ino[g].size
  BY <1>4, <1>5, BlockWrites DEF f, c
<1>7. /\ \A g \in Files, i \in Nat :
            /\ bmap(ino[g], store, i \div BSIZE) # 0
            /\ g # f \/ i < x
            => /\ bmap(ino'[g], store', i \div BSIZE) # 0
               /\ ByteAt(ino'[g], store', i) = ByteAt(ino[g], store, i)
      /\ \/ /\ bmap(ino'[f], store', n) = 0 /\ job' = NextCall
            /\ n < MaxFileBlocks => Block \subseteq bitmap'
         \/ \E m \in Nat :
               /\ 0 < m /\ m <= Len(c.src) - job.tot
               /\ job' = [job EXCEPT !.tot = job.tot + m]
               /\ \A j \in 0 .. m - 1 :
                     /\ bmap(ino'[f], store', (x + j) \div BSIZE) # 0
                     /\ ByteAt(ino'[f], store', x + j) = c.src[job.tot + j + 1]
  BY <1>4, <1>5, BlockBytes DEF f, c
<1>8. BlocksLast' => BlocksLast /\ ~(Block \subseteq bitmap')
  BY <1>1, <1>6 DEF BlocksLast, Area, Block
<1>9. /\ job'.op = job.op /\ job'.f = f /\ job'.reply = job.reply
      /\ job'.trunc = job.trunc /\ job'.intent = t
  <2>1. CASE job' = NextCall
    BY <1>1, <2>1, Pending DEF NextCall, IInv, JobOK, Jobs, f
  <2>2. ASSUME NEW m, job' = [job EXCEPT !.tot = m]
        PROVE  /\ job'.op = job.op /\ job'.f = f /\ job'.reply = job.reply
               /\ job'.trunc = job.trunc /\ job'.intent = t
    BY <2>2 DEF IInv, JobOK, Jobs, f
  <2>3. QED
    BY <1>7, <2>1, <2>2
<1>10. ASSUME NEW g \in Files, NEW s, NEW k \in Nat, Agrees(ino[g], store, s, k), g # f \/ k <= x
       PROVE  Agrees(ino'[g], store', s, k)
  <2> SUFFICES ASSUME NEW i \in 0 .. k - 1
               PROVE  /\ bmap(ino'[g], store', i \div BSIZE) # 0
                      /\ ByteAt(ino'[g], store', i) = s[i + 1]
    BY DEF Agrees
  <2>1. i \in Nat /\ i < k
    OBVIOUS
  <2>2. bmap(ino[g], store, i \div BSIZE) # 0 /\ ByteAt(ino[g], store, i) = s[i + 1]
    BY <1>10 DEF Agrees
  <2>3. g # f \/ i < x
    BY <1>10, <2>1
  <2>4. QED
    BY <1>7, <2>1, <2>2, <2>3
<1>11. ASSUME BlocksLast' PROVE Contents(ino', store', job', content)
  <2>1. Contents(ino, store, job, content)
    BY <1>8, <1>11 DEF CInv
  <2>2. ASSUME NEW g \in Files, g # f PROVE Holds(ino'[g], store', content[g])
    <3>1. Holds(ino[g], store, content[g])
      BY <1>2, <2>1, <2>2 DEF Contents, f
    <3>2. content[g] \in Seq(Value)
      BY <1>3
    <3>3. Len(content[g]) \in Nat
      BY <3>2
    <3>4. Agrees(ino'[g], store', content[g], Len(content[g]))
      BY <1>10, <2>2, <3>1, <3>3 DEF Holds
    <3>5. QED
      BY <1>6, <3>1, <3>4 DEF Holds
  <2>3. job.reply = "Yes" /\ Progress(ino[f], store, job)
    BY <1>1, <1>2, <2>1 DEF Contents, Failed, f
  <2>4. /\ c.off + Len(c.src) <= Len(t) /\ Len(t) < WORD
        /\ Brings(ino[f], store, t, job.tot, c)
    BY <1>1, <1>3, <2>3, PendingContents DEF c
  <2>5. /\ c.off <= ino[f].size /\ Agrees(ino[f], store, t, x)
        /\ \A k \in 1 .. Len(c.src) : c.src[k] = t[c.off + k]
    BY <1>4, <2>4 DEF Brings
  <2> HIDE DEF t
  <2>6. n < MaxFileBlocks
    <3> DEFINE z == c.off + Len(c.src)
    <3>1. z \in Nat /\ z < WORD /\ x < z /\ WORD \in Nat \ {0}
      BY <1>1, <1>2, <1>3, <1>4, <2>4, FileAssumption
    <3>2. ~(z % WORD > BSIZE * MaxFileBlocks)
      BY <1>1 DEF TooLarge
    <3> HIDE DEF z
    <3>3. z % WORD = z
      BY <3>1
    <3>4. BSIZE * MaxFileBlocks \in Nat
      BY Largest, Sizes
    <3>5. x < BSIZE * MaxFileBlocks
      BY <3>1, <3>2, <3>3, <3>4
    <3>6. QED
      BY <1>5, <3>5, WithinFile
  <2>7. PICK m \in Nat : /\ 0 < m /\ m <= Len(c.src) - job.tot
                         /\ job' = [job EXCEPT !.tot = job.tot + m]
                         /\ \A j \in 0 .. m - 1 :
                               /\ bmap(ino'[f], store', (x + j) \div BSIZE) # 0
                               /\ ByteAt(ino'[f], store', x + j) = c.src[job.tot + j + 1]
    BY <1>7, <1>8, <1>11, <2>6
  <2>8. ASSUME NEW i \in 0 .. (x + m) - 1
        PROVE  bmap(ino'[f], store', i \div BSIZE) # 0 /\ ByteAt(ino'[f], store', i) = t[i + 1]
    <3>1. i \in Nat /\ i < x + m
      OBVIOUS
    <3>2. CASE i < x
      <4>1. Agrees(ino'[f], store', t, x)
        <5>1. x <= x
          OBVIOUS
        <5>2. QED
          BY <1>2, <1>10, <2>5, <5>1
      <4>2. i \in 0 .. x - 1
        BY <3>1, <3>2
      <4>3. QED
        BY <4>1, <4>2 DEF Agrees
    <3>3. CASE x <= i
      <4>1. PICK j \in 0 .. m - 1 : i = x + j
        <5>1. i - x \in 0 .. m - 1 /\ i = x + (i - x)
          BY <3>1, <3>3
        <5>2. QED
          BY <5>1
      <4>2. /\ bmap(ino'[f], store', i \div BSIZE) # 0
            /\ ByteAt(ino'[f], store', i) = c.src[job.tot + j + 1]
        BY <2>7, <4>1
      <4>3. job.tot + j + 1 \in 1 .. Len(c.src) /\ c.off + (job.tot + j + 1) = i + 1
        <5> DEFINE l == Len(c.src)
        <5>1. /\ l \in Nat /\ job.tot \in Nat /\ c.off \in Nat /\ m <= l - job.tot
              /\ x = c.off + job.tot /\ j \in Nat /\ j <= m - 1 /\ i = x + j
          BY <1>2, <1>4, <2>7, <4>1
        <5> HIDE DEF l
        <5>2. job.tot + j + 1 \in 1..l /\ c.off + (job.tot + j + 1) = i + 1
          BY <5>1
        <5>3. QED
          BY <5>2 DEF l
      <4>4. c.src[job.tot + j + 1] = t[i + 1]
        BY <2>5, <4>3
      <4>5. QED
        BY <4>2, <4>4
    <3>4. QED
      BY <3>1, <3>2, <3>3
  <2>9. Agrees(ino'[f], store', t, x + m)
    BY <2>8 DEF Agrees
  <2>10. job'.tot = job.tot + m /\ job'.todo = job.todo
    BY <2>7 DEF IInv, JobOK, Jobs
  <2>11. Brings(ino'[f], store', t, job'.tot, c)
    <3>1. c.off + job'.tot = x + m
      BY <1>2, <1>4, <2>10
    <3>2. QED
      BY <1>2, <1>6, <2>5, <2>9, <3>1 DEF Brings
  <2>12. Progress(ino'[f], store', job')
    <3>1. /\ Len(t) < WORD /\ (job.op # "w" => Len(t) <= BSIZE * MaxFileBlocks)
          /\ (job.trunc = -1 /\ ino'[f].size <= Len(t)) \/ job.trunc = Len(t)
      BY <1>2, <1>6, <2>3 DEF Progress, t
    <3>2. \/ \E d \in Calls : job.todo = <<d>> /\ d.off + Len(d.src) = Len(t)
          \/ \E d, e \in Calls : /\ job.todo = <<d, e>> /\ job.op # "w"
                                 /\ d.off + Len(d.src) = e.off /\ e.off + Len(e.src) = Len(t)
                                 /\ \A k \in 1 .. Len(e.src) : e.src[k] = t[e.off + k]
      BY <1>1, <2>3 DEF Progress, t
    <3>3. /\ \A d : job.todo = <<d>> => d = c
          /\ \A d, e : job.todo = <<d, e>> => d = c
      BY DEF c, Cur
    <3>4. \/ \E d \in Calls : /\ job'.todo = <<d>> /\ d.off + Len(d.src) = Len(t)
                              /\ Brings(ino'[f], store', t, job'.tot, d)
          \/ \E d, e \in Calls : /\ job'.todo = <<d, e>> /\ job'.op # "w"
                                 /\ d.off + Len(d.src) = e.off /\ e.off + Len(e.src) = Len(t)
                                 /\ Brings(ino'[f], store', t, job'.tot, d)
                                 /\ \A k \in 1 .. Len(e.src) : e.src[k] = t[e.off + k]
      BY <1>9, <2>10, <2>11, <3>2, <3>3
    <3>5. QED
      BY <1>9, <3>1, <3>4 DEF Progress
  <2>13. job' # Idle
    BY <1>3, <1>9 DEF Idle
  <2>14. QED
    BY <1>9, <2>2, <2>3, <2>12, <2>13 DEF Contents
<1>12. BlocksLast' => Contents(ino', store', job', content')
  BY <1>1, <1>11
<1>13. /\ content' \in [Files -> Seq(Value)] /\ job'.intent \in Seq(Value)
       /\ job'.op # "none" /\ (job'.op = "w" => job'.trunc = -1)
  BY <1>1, <1>3, <1>9
<1>14. QED
  BY <1>1, <1>12, <1>13, CPrimed

\* The start of a command: on its way if it begins within a file that holds what it
\* should.
LEMMA StartContents ==
    ASSUME IInv, HInv, BlocksLast, CInv, NEW op \in {"w", "i", "d"}, NEW f \in Files, NEW inode \in Inode,
           inode.addrs = ino[f].addrs, NEW calls, NEW trunc, NEW intent \in Seq(Value),
           op = "w" => trunc = -1,
           BlocksLast /\ Holds(ino[f], store, content[f]) =>
               Progress(inode, store, [op |-> op, f |-> f, todo |-> calls, tot |-> 0,
                                       trunc |-> trunc, reply |-> "Yes", intent |-> intent]),
           Start(op, f, inode, calls, trunc, intent)
    PROVE  CInv'
<1>1. /\ job = Idle /\ ino' = [ino EXCEPT ![f] = inode]
      /\ job' = [op |-> op, f |-> f, todo |-> calls, tot |-> 0, trunc |-> trunc,
                 reply |-> "Yes", intent |-> intent]
      /\ UNCHANGED <<ndataBlocks, store, bitmap, content>>
  BY DEF Start
<1>2. /\ job'.op = op /\ job'.f = f /\ job'.trunc = trunc /\ job'.reply = "Yes"
      /\ job'.intent = intent
  BY <1>1
<1>3. content \in [Files -> Seq(Value)] /\ ino \in [Files -> Inode]
  BY DEF CInv, IInv, Good, Typed
<1>4. ino'[f] = inode /\ \A g \in Files : g # f => ino'[g] = ino[g]
  BY <1>1, <1>3
<1>5. ASSUME BlocksLast PROVE Contents(ino', store, job', content)
  <2>1. \A g \in Files : Holds(ino[g], store, content[g])
    BY <1>1, <1>5 DEF CInv, Contents
  <2>2. Progress(inode, store, job')
    BY <1>1, <1>5, <2>1
  <2>3. job' # Idle
    BY <1>2 DEF Idle
  <2>4. QED
    BY <1>2, <1>4, <2>1, <2>2, <2>3 DEF Contents
<1>6. BlocksLast' <=> BlocksLast
  BY <1>1 DEF BlocksLast, Area
<1>7. BlocksLast' => Contents(ino', store', job', content')
  BY <1>1, <1>5, <1>6
<1>8. /\ content' \in [Files -> Seq(Value)] /\ job'.intent \in Seq(Value)
      /\ job'.op # "none" /\ (job'.op = "w" => job'.trunc = -1)
  BY <1>1, <1>2, <1>3
<1>9. QED
  BY <1>1, <1>7, <1>8, CPrimed

\* Of no byte everything is true.
LEMMA NoBytes == \A ip, st, t : Agrees(ip, st, t, 0)
  BY DEF Agrees

\* w starts with an empty file.
LEMMA ContentsW ==
    ASSUME Addressable, IInv, HInv, BlocksLast, CInv, NEW f \in Files, NEW d \in Strings, cmd_w(f, d)
    PROVE  CInv'
<1> DEFINE inode == [ino[f] EXCEPT !.size = 0, !.blocks = 0]
           c     == Call(0, d)
           jb    == [op |-> "w", f |-> f, todo |-> <<c>>, tot |-> 0, trunc |-> -1,
                     reply |-> "Yes", intent |-> d]
<1>1. ino[f] \in Inode
  BY DEF IInv, Good, Typed
<1>2. inode \in Inode /\ inode.addrs = ino[f].addrs /\ inode.size = 0
  BY <1>1 DEF Inode
<1>3. d \in Seq(Byte) /\ Len(d) \in Nat /\ Len(d) < WORD
  BY FileAssumption DEF Addressable
<1>4. d \in Seq(Value)
  BY <1>3 DEF Value
<1>5. c \in Calls /\ c.off = 0 /\ c.src = d
  BY <1>3, CallOK DEF Call
<1>6. Start("w", f, inode, <<c>>, -1, d)
  BY DEF cmd_w
<1> HIDE DEF inode, c
<1>7. Progress(inode, store, jb)
  <2>1. /\ jb.op = "w" /\ jb.todo = <<c>> /\ jb.tot = 0 /\ jb.trunc = -1 /\ jb.intent = d
    OBVIOUS
  <2>2. Brings(inode, store, d, 0, c)
    <3>1. c.off + 0 = 0 /\ \A k \in 1 .. Len(c.src) : c.src[k] = d[c.off + k]
      BY <1>5
    <3>2. QED
      BY <1>2, <1>5, <3>1, NoBytes DEF Brings
  <2>3. c.off + Len(c.src) = Len(d) /\ inode.size <= Len(d)
    BY <1>2, <1>3, <1>5
  <2> HIDE DEF jb
  <2>4. QED
    BY <1>3, <1>5, <2>1, <2>2, <2>3 DEF Progress
<1>8. QED
  BY <1>2, <1>4, <1>6, <1>7, StartContents

\* i starts: what is behind its position it has read.
LEMMA ContentsI ==
    ASSUME Addressable, Fits', IInv, HInv, BlocksLast, CInv,
           NEW f \in Files, NEW p \in Positions, NEW d \in Strings, cmd_i(f, p, d)
    PROVE  CInv'
<1> DEFINE size   == ino[f].size
           pos    == IF p > size THEN size ELSE p
           tail   == readi(ino[f], store, pos, size - pos)
           old    == content[f]
           c1     == Call(pos, d)
           c2     == Call((pos + Len(d)) % WORD, tail)
           t      == SubSeq(old, 1, pos) \o d \o SubSeq(old, pos + 1, Len(old))
           jb     == [op |-> "i", f |-> f, todo |-> <<c1, c2>>, tot |-> 0, trunc |-> -1,
                      reply |-> "Yes", intent |-> t]
<1>1. ino[f] \in Inode /\ size \in Nat
  BY DEF IInv, Good, Typed, Inode
<1>2. pos \in Nat /\ pos <= size
  <2>1. p \in Nat
    BY FileAssumption
  <2>2. QED
    BY <1>1, <2>1
<1>3. d \in Seq(Byte) /\ Len(d) \in Nat
  BY FileAssumption
<1>4. d \in Seq(Value) /\ old \in Seq(Value) /\ Len(old) \in Nat
  BY <1>3 DEF Value, CInv
<1>5. Start("i", f, ino[f], <<c1, c2>>, -1, t)
  BY DEF cmd_i
<1> HIDE DEF pos
<1>6. t = Insert(old, d, pos)
  BY DEF Insert
<1>7. /\ tail \in Seq(Value) /\ Len(tail) = size - pos
      /\ \A k \in 1 .. size - pos : tail[k] = ByteAt(ino[f], store, pos + k - 1)
  BY <1>2, ReadiAll
<1> HIDE DEF tail
<1>8. t \in Seq(Value)
  <2>1. Holds(ino[f], store, old)
    BY <1>5 DEF CInv, Contents, Start
  <2> HIDE DEF t, old
  <2>2. pos \in 0 .. Len(old) /\ old \in Seq(Value) /\ d \in Seq(Value)
    BY <1>1, <1>2, <1>4, <2>1 DEF Holds
  <2>3. QED
    BY <1>6, <2>2, Inserted
<1>9. job'.op = "i" /\ job'.intent = t /\ (BlocksLast' <=> BlocksLast)
  BY <1>5 DEF Start, BlocksLast, Area
<1>10. BlocksLast => Len(t) <= BSIZE * MaxFileBlocks
  <2>1. Fits' <=> (BlocksLast' /\ job'.op = "i" => Len(job'.intent) <= BSIZE * MaxFileBlocks)
    BY DEF Fits, MaxFileBlocks, DPTRS, IPTRS
  <2>2. QED
    BY <1>9, <2>1
<1>11. c1.off = pos /\ c1.src = d /\ c2.off = (pos + Len(d)) % WORD /\ c2.src = tail
  BY DEF Call
<1>12. c1 \in Calls /\ c2 \in Calls
  <2>1. (pos + Len(d)) % WORD \in Nat
    BY <1>2, <1>3, Word
  <2>2. QED
    BY <1>2, <1>3, <1>7, <2>1, CallOK
<1> HIDE DEF t, c1, c2, old
<1>13. ASSUME BlocksLast, Holds(ino[f], store, old) PROVE Progress(ino[f], store, jb)
  <2>1. size = Len(old) /\ Agrees(ino[f], store, old, size)
    BY <1>13 DEF Holds
  <2>2. pos \in 0 .. Len(old)
    BY <1>1, <1>2, <2>1
  <2>3. Inserts(t, old, d, pos)
    <3>1. old \in Seq(Value) /\ d \in Seq(Value)
      BY <1>4
    <3> HIDE DEF size, jb
    <3>2. QED
      BY <1>6, <2>2, <3>1, Inserted
  <2> DEFINE n == Len(d)
  <2>4. /\ n \in Nat /\ Len(t) = size + n
        /\ \A k \in 1..pos : t[k] = old[k]
        /\ \A k \in 1..n : t[pos + k] = d[k]
        /\ \A k \in 1 .. size - pos : t[(pos + n) + k] = old[pos + k]
    BY <1>3, <2>1, <2>3 DEF Inserts
  <2> HIDE DEF size, n
  <2>5. Agrees(ino[f], store, t, pos)
    <3> SUFFICES ASSUME NEW i \in 0 .. pos - 1
                 PROVE  /\ bmap(ino[f], store, i \div BSIZE) # 0
                        /\ ByteAt(ino[f], store, i) = t[i + 1]
      BY DEF Agrees
    <3>1. i \in 0 .. size - 1 /\ i + 1 \in 1..pos
      BY <1>1, <1>2
    <3>2. QED
      BY <2>1, <2>4, <3>1 DEF Agrees
  <2>6. \A k \in 1 .. size - pos : tail[k] = t[(pos + n) + k]
    <3> SUFFICES ASSUME NEW k \in 1 .. size - pos PROVE tail[k] = t[(pos + n) + k]
      OBVIOUS
    <3>1. tail[k] = ByteAt(ino[f], store, pos + k - 1)
      BY <1>7 DEF size
    <3>2. pos + k - 1 \in 0 .. size - 1 /\ (pos + k - 1) + 1 = pos + k
      BY <1>1, <1>2
    <3>3. ByteAt(ino[f], store, pos + k - 1) = old[pos + k]
      BY <2>1, <3>2 DEF Agrees
    <3>4. QED
      BY <2>4, <3>1, <3>3
  <2>7. /\ Len(t) <= BSIZE * MaxFileBlocks /\ Len(t) < WORD
        /\ Len(t) \in Nat /\ pos + n \in Nat /\ pos + n <= Len(t) /\ WORD \in Nat \ {0}
    <3>1. BSIZE * MaxFileBlocks \in Nat /\ BSIZE * MaxFileBlocks < WORD /\ WORD \in Nat \ {0}
      BY Largest, Sizes, FileAssumption DEF Addressable
    <3>2. Len(t) <= BSIZE * MaxFileBlocks
      BY <1>10, <1>13
    <3>3. Len(t) \in Nat /\ pos + n \in Nat /\ pos + n <= Len(t)
      BY <1>1, <1>2, <2>4
    <3>4. QED
      BY <3>1, <3>2, <3>3
  <2>8. c2.off = pos + n
    <3>1. (pos + n) % WORD = pos + n
      <4> DEFINE z == pos + n
      <4>1. z \in Nat /\ z < WORD
        BY <2>7
      <4> HIDE DEF z
      <4>2. z % WORD = z
        BY <2>7, <4>1
      <4>3. QED
        BY <4>2 DEF z
    <3>2. QED
      BY <1>11, <3>1 DEF n
  <2>9. c1.off + Len(c1.src) = c2.off /\ c2.off + Len(c2.src) = Len(t)
    <3>1. Len(c1.src) = n /\ Len(c2.src) = size - pos
      BY <1>7, <1>11 DEF n, size
    <3>2. QED
      BY <1>1, <1>2, <1>11, <2>4, <2>8, <3>1 DEF size
  <2>10. Brings(ino[f], store, t, 0, c1)
    <3>1. c1.off + 0 = pos
      BY <1>2, <1>11
    <3>2. \A k \in 1 .. Len(c1.src) : c1.src[k] = t[c1.off + k]
      BY <1>11, <2>4 DEF n
    <3>3. QED
      BY <1>2, <1>11, <2>5, <3>1, <3>2 DEF Brings, size
  <2>11. \A k \in 1 .. Len(c2.src) : c2.src[k] = t[c2.off + k]
    <3>1. Len(c2.src) = size - pos
      BY <1>7, <1>11 DEF size
    <3>2. QED
      BY <1>11, <2>6, <2>8, <3>1
  <2>12. ino[f].size <= Len(t)
    BY <1>1, <2>4 DEF size
  <2>13. /\ jb.op = "i" /\ jb.todo = <<c1, c2>> /\ jb.tot = 0 /\ jb.trunc = -1 /\ jb.intent = t
    OBVIOUS
  <2> HIDE DEF jb
  <2>14. \E c, e \in Calls : /\ jb.todo = <<c, e>> /\ jb.op # "w"
                             /\ c.off + Len(c.src) = e.off /\ e.off + Len(e.src) = Len(t)
                             /\ Brings(ino[f], store, t, jb.tot, c)
                             /\ \A k \in 1 .. Len(e.src) : e.src[k] = t[e.off + k]
    BY <1>12, <2>9, <2>10, <2>11, <2>13
  <2>15. QED
    BY <2>7, <2>12, <2>13, <2>14 DEF Progress
<1>14. QED
  BY <1>1, <1>5, <1>8, <1>13, StartContents DEF old

\* d starts: what is behind the part it deletes it has read.
LEMMA ContentsD ==
    ASSUME NoWrap, Addressable, IInv, HInv, BlocksLast, CInv,
           NEW f \in Files, NEW p \in Positions, NEW n \in Lengths, cmd_d(f, p, n)
    PROVE  CInv'
<1> DEFINE size   == ino[f].size
           end    == (p + n) % WORD
           q      == IF end > size THEN size ELSE end
           tail   == readi(ino[f], store, q, size - q)
           old    == content[f]
           c      == Call(p, tail)
           trunc  == (p + (size - q)) % WORD
           t      == SubSeq(old, 1, p) \o SubSeq(old, p + n + 1, Len(old))
           jb     == [op |-> "d", f |-> f, todo |-> <<c>>, tot |-> 0, trunc |-> trunc,
                      reply |-> "Yes", intent |-> t]
<1>1. ino[f] \in Inode /\ size \in Nat /\ size <= BSIZE * MaxFileBlocks
  BY SizeLimit DEF IInv, Good, Typed
<1>2. p \in Nat /\ n \in Nat
  BY FileAssumption
<1>3. end = p + n
  <2>1. WORD \in Nat \ {0} /\ p + n < WORD
    BY FileAssumption DEF NoWrap
  <2>2. QED
    BY <1>2, <2>1
<1>4. p <= size /\ Start("d", f, ino[f], <<c>>, trunc, t)
  BY DEF cmd_d
<1> HIDE DEF end
<1>5. /\ q \in Nat /\ q <= size /\ p <= q
      /\ q = p + n \/ (q = size /\ size < p + n)
  BY <1>1, <1>2, <1>3, <1>4
<1> HIDE DEF q
<1>6. /\ tail \in Seq(Value) /\ Len(tail) = size - q
      /\ \A k \in 1 .. size - q : tail[k] = ByteAt(ino[f], store, q + k - 1)
  BY <1>5, ReadiAll
<1> HIDE DEF tail
<1>7. old \in Seq(Value) /\ size = Len(old) /\ Agrees(ino[f], store, old, size)
  <2>1. old \in Seq(Value) /\ Holds(ino[f], store, old)
    BY <1>4 DEF CInv, Contents, Start
  <2>2. QED
    BY <2>1 DEF Holds
<1>8. t = Delete(old, p, q)
  <2>1. CASE q = p + n
    BY <2>1 DEF Delete
  <2>2. CASE q = size /\ size < p + n
    <3>1. SubSeq(old, p + n + 1, Len(old)) = <<>> /\ SubSeq(old, q + 1, Len(old)) = <<>>
      <4> HIDE DEF size, old
      <4>1. Len(old) \in Nat /\ Len(old) < p + n + 1 /\ Len(old) < q + 1
        BY <1>1, <1>2, <1>7, <2>2
      <4>2. QED
        BY <1>2, <1>5, <1>7, <4>1
    <3>2. QED
      BY <3>1 DEF Delete
  <2>3. QED
    BY <1>5, <2>1, <2>2
<1> HIDE DEF t, old
<1>9. t \in Seq(Value) /\ Deletes(t, old, p, q)
  <2>1. p \in 0 .. Len(old) /\ q \in p .. Len(old)
    BY <1>1, <1>2, <1>4, <1>5, <1>7
  <2> HIDE DEF size, jb
  <2>2. QED
    BY <1>7, <1>8, <2>1, Deleted
<1>10. /\ Len(t) = p + (size - q)
       /\ \A k \in 1..p : t[k] = old[k]
       /\ \A k \in 1 .. size - q : t[p + k] = old[q + k]
  BY <1>7, <1>9 DEF Deletes
<1>11. /\ Len(t) \in Nat /\ Len(t) <= BSIZE * MaxFileBlocks /\ Len(t) < WORD /\ trunc = Len(t)
  <2> DEFINE z == p + (size - q)
  <2>1. BSIZE * MaxFileBlocks \in Nat /\ BSIZE * MaxFileBlocks < WORD /\ WORD \in Nat \ {0}
    BY Largest, Sizes, FileAssumption DEF Addressable
  <2>2. z \in Nat /\ z <= BSIZE * MaxFileBlocks
    BY <1>1, <1>2, <1>4, <1>5, <2>1
  <2>3. z = Len(t) /\ trunc = z % WORD
    BY <1>10
  <2> HIDE DEF z, trunc
  <2>4. z < WORD
    BY <2>1, <2>2
  <2>5. z % WORD = z
    BY <2>1, <2>2, <2>4
  <2>6. QED
    BY <2>2, <2>3, <2>4, <2>5
<1>12. c \in Calls /\ c.off = p /\ c.src = tail
  BY <1>2, <1>6, CallOK DEF Call
<1> HIDE DEF c, trunc
<1>13. Brings(ino[f], store, t, 0, c)
  <2>1. Agrees(ino[f], store, t, p)
    <3> SUFFICES ASSUME NEW i \in 0 .. p - 1
                 PROVE  /\ bmap(ino[f], store, i \div BSIZE) # 0
                        /\ ByteAt(ino[f], store, i) = t[i + 1]
      BY DEF Agrees
    <3>1. i \in 0 .. size - 1 /\ i + 1 \in 1..p
      BY <1>1, <1>2, <1>4
    <3>2. QED
      BY <1>7, <1>10, <3>1 DEF Agrees
  <2>2. \A k \in 1 .. size - q : tail[k] = t[p + k]
    <3> SUFFICES ASSUME NEW k \in 1 .. size - q PROVE tail[k] = t[p + k]
      OBVIOUS
    <3>1. tail[k] = ByteAt(ino[f], store, q + k - 1)
      BY <1>6
    <3>2. q + k - 1 \in 0 .. size - 1 /\ (q + k - 1) + 1 = q + k
      BY <1>1, <1>5
    <3>3. ByteAt(ino[f], store, q + k - 1) = old[q + k]
      BY <1>7, <3>2 DEF Agrees
    <3>4. QED
      BY <1>10, <3>1, <3>3
  <2>3. \A k \in 1 .. Len(c.src) : c.src[k] = t[c.off + k]
    BY <1>6, <1>12, <2>2
  <2>4. c.off + 0 = p /\ c.off <= ino[f].size
    BY <1>2, <1>4, <1>12
  <2>5. QED
    BY <2>1, <2>3, <2>4 DEF Brings
<1>14. c.off + Len(c.src) = Len(t)
  BY <1>6, <1>10, <1>12
<1>15. Progress(ino[f], store, jb)
  <2>1. /\ jb.op = "d" /\ jb.todo = <<c>> /\ jb.tot = 0 /\ jb.trunc = Len(t) /\ jb.intent = t
    BY <1>11
  <2> HIDE DEF jb
  <2>2. QED
    BY <1>11, <1>12, <1>13, <1>14, <2>1 DEF Progress
<1>16. QED
  BY <1>1, <1>4, <1>9, <1>15, StartContents

\* After a format no file holds anything.
LEMMA InitContents == Init => CInv
<1> SUFFICES ASSUME Init PROVE CInv
  OBVIOUS
<1>1. /\ content = [f \in Files |-> <<>>] /\ job = Idle
      /\ \A f \in Files : ino[f].size = 0
  BY DEF Init, EmptyInode
<1>2. content \in [Files -> Seq(Value)] /\ job.intent \in Seq(Value) /\ job.op = "none"
  BY <1>1 DEF Idle
<1>3. \A f \in Files : Holds(ino[f], store, content[f])
  <2> SUFFICES ASSUME NEW f \in Files PROVE Holds(ino[f], store, content[f])
    OBVIOUS
  <2>1. content[f] = <<>> /\ ino[f].size = 0 /\ Len(<<>>) = 0
    BY <1>1
  <2>2. QED
    BY <2>1, NoBytes DEF Holds
<1>4. QED
  BY <1>1, <1>2, <1>3 DEF CInv, Contents

\* A command that starts takes no block, and it counts.
LEMMA StartKeeps ==
    ASSUME \/ \E f \in Files, d \in Strings : cmd_w(f, d)
           \/ \E f \in Files, p \in Positions, d \in Strings : cmd_i(f, p, d)
           \/ \E f \in Files, p \in Positions, n \in Lengths : cmd_d(f, p, n)
    PROVE  /\ UNCHANGED <<ndataBlocks, bitmap>>
           /\ count < MaxCommands /\ count' = count + 1
<1> DEFINE Counted == /\ UNCHANGED <<ndataBlocks, bitmap>>
                      /\ count < MaxCommands /\ count' = count + 1
<1>1. ASSUME NEW op, NEW f, NEW ip, NEW cs, NEW z, NEW t, Start(op, f, ip, cs, z, t)
      PROVE  Counted
  BY <1>1 DEF Start
<1> HIDE DEF Counted
<1>2. ASSUME NEW f \in Files, NEW d \in Strings, cmd_w(f, d) PROVE Counted
  BY <1>1, <1>2 DEF cmd_w
<1>3. ASSUME NEW f \in Files, NEW p \in Positions, NEW d \in Strings, cmd_i(f, p, d) PROVE Counted
  BY <1>1, <1>3 DEF cmd_i
<1>4. ASSUME NEW f \in Files, NEW p \in Positions, NEW n \in Lengths, cmd_d(f, p, n) PROVE Counted
  BY <1>1, <1>4 DEF cmd_d
<1>5. Counted
  BY <1>2, <1>3, <1>4
<1>6. QED
  BY <1>5 DEF Counted

\* Blocks are never freed.
LEMMA BlocksUsed ==
    ASSUME IInv, [Next]_vars, BlocksLast'
    PROVE  BlocksLast
<1>1. CASE writei_block
  <2>1. job.todo # <<>> /\ ndataBlocks' = ndataBlocks
    BY <1>1 DEF writei_block, Iteration
  <2>2. job.f \in Files /\ Cur.off \in Nat /\ job.tot \in Nat
    BY <2>1, Pending DEF Calls, IInv, JobOK, Jobs
  <2>3. PICK n \in Nat : n = (Cur.off + job.tot) \div BSIZE
    <3>1. Cur.off + job.tot \in Nat
      BY <2>2
    <3>2. QED
      BY <3>1, CellOf
  <2>4. bitmap \subseteq bitmap'
    BY <1>1, <2>3, BlockMaps
  <2>5. QED
    BY <2>1, <2>4 DEF BlocksLast, Area
<1>2. ASSUME ndataBlocks' = ndataBlocks, UNCHANGED bitmap PROVE BlocksLast
  BY <1>2 DEF BlocksLast, Area
<1>3. CASE \/ \E f \in Files, d \in Strings : cmd_w(f, d)
           \/ \E f \in Files, p \in Positions, d \in Strings : cmd_i(f, p, d)
           \/ \E f \in Files, p \in Positions, n \in Lengths : cmd_d(f, p, n)
  <2>1. UNCHANGED <<ndataBlocks, bitmap>>
    BY <1>3, StartKeeps
  <2>2. QED
    BY <1>2, <2>1
<1>4. CASE writei_refused \/ writei_done \/ Finish \/ UNCHANGED vars
  <2>1. UNCHANGED <<ndataBlocks, bitmap>>
    BY <1>4 DEF writei_refused, writei_done, Finish, vars
  <2>2. QED
    BY <1>2, <2>1
<1>5. QED
  BY <1>1, <1>3, <1>4 DEF Next

\* Every action preserves the three invariants.
LEMMA CInductive ==
    NoWrap /\ Addressable /\ IInv /\ HInv /\ CInv /\ [Next]_vars /\ Fits' => CInv'
<1> SUFFICES ASSUME NoWrap, Addressable, IInv, HInv, CInv, [Next]_vars, Fits', BlocksLast'
             PROVE  CInv'
  BY DEF CInv
<1>0. BlocksLast
  BY BlocksUsed
<1>1. ASSUME NEW f \in Files, NEW d \in Strings, cmd_w(f, d) PROVE CInv'
  BY <1>0, <1>1, ContentsW
<1>2. ASSUME NEW f \in Files, NEW p \in Positions, NEW d \in Strings, cmd_i(f, p, d) PROVE CInv'
  BY <1>0, <1>2, ContentsI
<1>3. ASSUME NEW f \in Files, NEW p \in Positions, NEW n \in Lengths, cmd_d(f, p, n) PROVE CInv'
  BY <1>0, <1>3, ContentsD
<1>4. ASSUME writei_refused PROVE CInv'
  BY <1>0, <1>4, ContentsRefused
<1>5. ASSUME writei_block PROVE CInv'
  BY <1>0, <1>5, ContentsBlock
<1>6. ASSUME writei_done PROVE CInv'
  BY <1>0, <1>6, ContentsDone
<1>7. ASSUME Finish PROVE CInv'
  BY <1>0, <1>7, ContentsFinish
<1>8. ASSUME UNCHANGED vars PROVE CInv'
  <2>1. UNCHANGED <<ndataBlocks, store, bitmap, ino, job, content>>
    BY <1>8 DEF vars
  <2>2. QED
    BY <1>0, <2>1, CPrimed DEF CInv
<1>9. QED
  BY <1>1, <1>2, <1>3, <1>4, <1>5, <1>6, <1>7, <1>8 DEF Next

\* A file that holds a string is read as that string.
LEMMA HeldIsRead ==
    ASSUME IInv, HInv, NEW f \in Files, NEW t \in Seq(Value), Holds(ino[f], store, t)
    PROVE  cmd_cat(f) = t
<1> DEFINE u == cmd_cat(f)
           n == ino[f].size
<1>1. u = readi(ino[f], store, 0, n) /\ n \in Nat
  BY SizeLimit DEF cmd_cat
<1>2. n = Len(t) /\ Agrees(ino[f], store, t, n)
  BY DEF Holds
<1> HIDE DEF u
<1>3. u \in Seq(Value) /\ Len(u) = n /\ \A k \in 1..n : u[k] = ByteAt(ino[f], store, k - 1)
  <2>1. n - 0 = n /\ 0 <= n /\ 0 \in Nat /\ \A k \in 1..n : 0 + k - 1 = k - 1
    BY <1>1
  <2>2. u = readi(ino[f], store, 0, ino[f].size - 0)
    BY <1>1, <2>1
  <2>3. /\ u \in Seq(Value) /\ Len(u) = n - 0
        /\ \A k \in 1 .. n - 0 : u[k] = ByteAt(ino[f], store, 0 + k - 1)
    BY <2>1, <2>2, ReadiAll
  <2>4. QED
    BY <2>1, <2>3
<1>4. ASSUME NEW k \in 1..n PROVE u[k] = t[k]
  <2>1. k - 1 \in 0 .. n - 1 /\ (k - 1) + 1 = k
    BY <1>1
  <2>2. ByteAt(ino[f], store, k - 1) = t[k]
    BY <1>2, <2>1 DEF Agrees
  <2>3. QED
    BY <1>3, <2>2
<1>5. u = t
  BY <1>1, <1>2, <1>3, <1>4
<1>6. QED
  BY <1>5 DEF u

\* The invariants give what is claimed.
LEMMA FilesHold == IInv /\ HInv /\ CInv => FileHoldsContent
<1> SUFFICES ASSUME IInv, HInv, CInv, BlocksLast, NEW f \in Files, job.f # f
             PROVE  cmd_cat(f) = content[f]
  BY DEF FileHoldsContent
<1>1. content[f] \in Seq(Value) /\ Holds(ino[f], store, content[f])
  BY DEF CInv, Contents
<1>2. QED
  BY <1>1, HeldIsRead

\* While blocks last a file no command is working on holds what the last successful
\* command on it asked for: however blocks are shared out, whatever is done to other
\* files meanwhile, and wherever the commands begin and end within blocks.
THEOREM AlwaysHoldsContent ==
    ASSUME NoWrap, Addressable
    PROVE  Spec /\ []Fits => []FileHoldsContent
<1>1. Init => IInv /\ HInv /\ CInv
  BY InitInv, InitHoles, InitContents
<1>2. (IInv /\ HInv /\ CInv) /\ [Next]_vars /\ Fits' => (IInv /\ HInv /\ CInv)'
  BY HInductive, CInductive
<1>3. IInv /\ HInv /\ CInv => FileHoldsContent
  BY FilesHold
<1>4. QED
  BY <1>1, <1>2, <1>3, PTL DEF Spec

-----------------------------------------------------------------------------
(* Files that stay small *)

\* Strings of L bytes make no file longer than the largest: Fits holds then.
SmallBy(L) ==
    /\ L \in Nat /\ \A d \in Strings : Len(d) <= L
    /\ MaxCommands * L <= BSIZE * MaxFileBlocks
Small == \E L : SmallBy(L)

\* Each command makes a file longer by L at most.
LInv(L) ==
    /\ count \in 0..MaxCommands
    /\ BlocksLast => /\ \A f \in Files : Len(content[f]) \in 0 .. count * L
                     /\ Len(job.intent) \in 0 .. count * L

\* The bound of the commands so far is that of all.
LEMMA Growing ==
    ASSUME NEW L \in Nat, NEW k \in Nat, NEW n \in Nat, k <= n
    PROVE  k * L \in Nat /\ n * L \in Nat /\ k * L <= n * L /\ (k + 1) * L = k * L + L
<1>1. PICK d \in Nat : n = k + d
  <2>1. n - k \in Nat /\ n = k + (n - k)
    OBVIOUS
  <2>2. QED
    BY <2>1
<1>2. d * L \in Nat /\ k * L \in Nat
  OBVIOUS
<1>3. (k + d) * L = k * L + d * L
  OBVIOUS
<1>4. (k + 1) * L = k * L + L
  OBVIOUS
<1>5. QED
  BY <1>1, <1>2, <1>3, <1>4

\* What LInv says is enough.
LEMMA SmallFits == \A L : SmallBy(L) /\ LInv(L) => Fits
<1> SUFFICES ASSUME NEW L, SmallBy(L), LInv(L), BlocksLast, job.op = "i"
             PROVE  Len(job.intent) <= BSIZE * MaxFileBlocks
  BY DEF Fits
<1>1. /\ L \in Nat /\ count \in Nat /\ MaxCommands \in Nat /\ count <= MaxCommands
      /\ BSIZE * MaxFileBlocks \in Nat
  BY FileAssumption, Largest, Sizes DEF SmallBy, LInv
<1>2. count * L \in Nat /\ MaxCommands * L \in Nat /\ count * L <= MaxCommands * L
  BY <1>1, Growing
<1>3. Len(job.intent) \in 0 .. count * L /\ MaxCommands * L <= BSIZE * MaxFileBlocks
  BY DEF SmallBy, LInv
<1> DEFINE a == count * L
           b == MaxCommands * L
           z == BSIZE * MaxFileBlocks
<1> HIDE DEF a, b, z
<1>4. a \in Nat /\ b \in Nat /\ z \in Nat /\ a <= b /\ b <= z /\ Len(job.intent) \in 0..a
  BY <1>1, <1>2, <1>3 DEF a, b, z
<1>5. Len(job.intent) <= z
  BY <1>4
<1>6. QED
  BY <1>5 DEF z

\* A command that starts intends to make its file longer by L at most.
LEMMA StartGrows ==
    ASSUME NEW L \in Nat, LInv(L), BlocksLast, NEW op, NEW f, NEW inode, NEW calls, NEW trunc,
           NEW intent, Len(intent) \in 0 .. count * L + L,
           Start(op, f, inode, calls, trunc, intent)
    PROVE  LInv(L)'
<1>1. /\ count < MaxCommands /\ count' = count + 1 /\ job'.intent = intent
      /\ content' = content /\ BlocksLast' = BlocksLast
  BY DEF Start, BlocksLast, Area
<1>2. /\ count \in 0..MaxCommands /\ \A g \in Files : Len(content[g]) \in 0 .. count * L
  BY DEF LInv
<1>3. count \in Nat /\ MaxCommands \in Nat /\ count' \in 0..MaxCommands
  BY <1>1, <1>2, FileAssumption
<1>4. count * L \in Nat /\ (count + 1) * L = count * L + L
  BY <1>3, Growing
<1> DEFINE a == count * L
<1> HIDE DEF a
<1>5. a \in Nat /\ count' * L = a + L /\ Len(intent) \in 0 .. a + L
      /\ \A g \in Files : Len(content[g]) \in 0..a
  BY <1>1, <1>2, <1>4 DEF a
<1>6. \A g \in Files : Len(content'[g]) \in 0 .. count' * L
  BY <1>1, <1>5
<1>7. Len(job'.intent) \in 0 .. count' * L
  BY <1>1, <1>5
<1>8. QED
  BY <1>3, <1>6, <1>7 DEF LInv

\* w intends to leave its string,
LEMMA GrowsW ==
    ASSUME NEW L, SmallBy(L), LInv(L), BlocksLast,
           NEW f \in Files, NEW d \in Strings, cmd_w(f, d)
    PROVE  LInv(L)'
<1>1. L \in Nat /\ Len(d) \in Nat /\ Len(d) <= L /\ count \in Nat /\ count <= MaxCommands
  BY FileAssumption DEF SmallBy, LInv
<1>2. count * L \in Nat
  BY <1>1
<1> DEFINE a == count * L
<1> HIDE DEF a
<1>3. a \in Nat /\ Len(d) \in 0 .. a + L
  BY <1>1, <1>2 DEF a
<1>4. Start("w", f, [ino[f] EXCEPT !.size = 0, !.blocks = 0], <<Call(0, d)>>, -1, d)
  BY DEF cmd_w
<1>5. QED
  BY <1>1, <1>3, <1>4, StartGrows DEF a

\* i what is there and its string,
LEMMA GrowsI ==
    ASSUME IInv, HInv, BlocksLast, CInv, NEW L, SmallBy(L), LInv(L),
           NEW f \in Files, NEW p \in Positions, NEW d \in Strings, cmd_i(f, p, d)
    PROVE  LInv(L)'
<1> DEFINE size  == ino[f].size
           pos   == IF p > size THEN size ELSE p
           tail  == readi(ino[f], store, pos, size - pos)
           old   == content[f]
           calls == <<Call(pos, d), Call((pos + Len(d)) % WORD, tail)>>
           t     == SubSeq(old, 1, pos) \o d \o SubSeq(old, pos + 1, Len(old))
<1>1. Start("i", f, ino[f], calls, -1, t)
  BY DEF cmd_i
<1>2. /\ L \in Nat /\ Len(d) \in Nat /\ Len(d) <= L /\ count \in Nat /\ count <= MaxCommands
      /\ d \in Seq(Value) /\ Len(old) \in 0 .. count * L
  BY FileAssumption DEF SmallBy, LInv, Value
<1>3. old \in Seq(Value) /\ size = Len(old)
  BY <1>1 DEF CInv, Contents, Start, Holds
<1>4. pos \in 0 .. Len(old)
  <2>1. p \in Nat /\ size \in Nat
    BY FileAssumption, SizeLimit
  <2>2. QED
    BY <1>3, <2>1
<1> HIDE DEF pos, calls
<1>5. t = Insert(old, d, pos)
  BY DEF Insert
<1> HIDE DEF t, old
<1>6. Len(t) = Len(old) + Len(d)
  <2>1. Inserts(t, old, d, pos)
    BY <1>2, <1>3, <1>4, <1>5, Inserted
  <2>2. QED
    BY <2>1 DEF Inserts
<1>7. Len(t) \in 0 .. count * L + L
  <2> DEFINE a == count * L
  <2>1. a \in Nat /\ Len(old) \in 0..a
    BY <1>2
  <2> HIDE DEF a
  <2>2. Len(t) \in 0 .. a + L
    BY <1>2, <1>6, <2>1
  <2>3. QED
    BY <2>2 DEF a
<1>8. QED
  BY <1>1, <1>2, <1>7, StartGrows

\* and d no more than what is there.
LEMMA GrowsD ==
    ASSUME IInv, HInv, BlocksLast, CInv, NEW L, SmallBy(L), LInv(L),
           NEW f \in Files, NEW p \in Positions, NEW n \in Lengths, cmd_d(f, p, n)
    PROVE  LInv(L)'
<1> DEFINE size  == ino[f].size
           end   == (p + n) % WORD
           q     == IF end > size THEN size ELSE end
           tail  == readi(ino[f], store, q, size - q)
           old   == content[f]
           calls == <<Call(p, tail)>>
           trunc == (p + (size - q)) % WORD
           u     == SubSeq(old, 1, p)
           v     == SubSeq(old, p + n + 1, Len(old))
<1>1. p <= size /\ Start("d", f, ino[f], calls, trunc, u \o v)
  BY DEF cmd_d
<1>2. L \in Nat /\ count \in Nat /\ Len(old) \in 0 .. count * L /\ p \in Nat /\ n \in Nat
  BY FileAssumption DEF SmallBy, LInv
<1>3. old \in Seq(Value) /\ size = Len(old)
  BY <1>1 DEF CInv, Contents, Start, Holds
<1> HIDE DEF calls, trunc, old
<1>4. u \in Seq(Value) /\ Len(u) = p
  BY <1>1, <1>2, <1>3
<1>5. v \in Seq(Value) /\ Len(v) \in Nat /\ p + Len(v) <= Len(old)
  <2>1. Len(old) \in Nat /\ p <= Len(old)
    BY <1>1, <1>3
  <2>2. CASE p + n <= Len(old)
    BY <1>2, <1>3, <2>1, <2>2
  <2>3. CASE p + n > Len(old)
    <3>1. v = <<>>
      BY <1>2, <1>3, <2>1, <2>3
    <3>2. <<>> \in Seq(Value) /\ Len(<<>>) = 0
      OBVIOUS
    <3> HIDE DEF v
    <3>3. v \in Seq(Value) /\ Len(v) = 0
      BY <3>1, <3>2
    <3>4. QED
      BY <1>2, <2>1, <3>3
  <2>4. QED
    BY <1>2, <2>1, <2>2, <2>3
<1> HIDE DEF u, v
<1>6. Len(u \o v) = p + Len(v)
  BY <1>4, <1>5
<1> DEFINE t == u \o v
<1> HIDE DEF t
<1>7. Len(t) \in 0 .. count * L + L
  <2> DEFINE a == count * L
  <2>1. a \in Nat /\ Len(old) \in 0..a
    BY <1>2
  <2> HIDE DEF a
  <2>2. Len(t) \in 0 .. a + L
    BY <1>2, <1>5, <1>6, <2>1 DEF t
  <2>3. QED
    BY <2>2 DEF a
<1>8. QED
  BY <1>1, <1>2, <1>7, StartGrows DEF t

\* The end of a command leaves what was intended, or less.
LEMMA GrowsFinish ==
    ASSUME IInv, HInv, BlocksLast, CInv, NEW L \in Nat, LInv(L), Finish
    PROVE  LInv(L)'
<1> DEFINE f == job.f
           u == cmd_cat(f)
<1>1. /\ job # Idle /\ job' = Idle
      /\ content' = [content EXCEPT ![f] = IF job.reply = "Yes" THEN job.intent ELSE u]
      /\ count' = count
  BY DEF Finish
<1>2. f \in Files
  BY <1>1 DEF IInv, JobOK
<1>3. /\ content \in [Files -> Seq(Value)] /\ Contents(ino, store, job, content)
  BY DEF CInv
<1>4. /\ count \in 0..MaxCommands /\ \A g \in Files : Len(content[g]) \in 0 .. count * L
      /\ Len(job.intent) \in 0 .. count * L
  BY DEF LInv
<1>5. job.reply # "Yes" => Len(u) \in 0 .. count * L
  <2> SUFFICES ASSUME job.reply # "Yes" PROVE Len(u) \in 0 .. count * L
    OBVIOUS
  <2>1. ino[f].size <= Len(job.intent) /\ ino[f].size \in Nat
    BY <1>1, <1>2, <1>3, SizeLimit DEF Contents, Failed
  <2> DEFINE n == ino[f].size
  <2>2. u = readi(ino[f], store, 0, n)
    BY DEF cmd_cat
  <2>3. n - 0 = n /\ 0 <= n /\ 0 \in Nat
    BY <2>1
  <2> HIDE DEF u, f
  <2>4. Len(u) = n - 0
    <3>1. u = readi(ino[f], store, 0, ino[f].size - 0)
      BY <2>2, <2>3
    <3>2. QED
      BY <1>2, <2>3, <3>1, ReadiAll
  <2> DEFINE a == count * L
  <2> HIDE DEF a, n
  <2>5. a \in Nat /\ Len(job.intent) \in 0..a
    <3>1. count \in Nat
      BY <1>4
    <3>2. QED
      BY <1>4, <3>1 DEF a
  <2>6. Len(u) \in 0..a
    BY <2>1, <2>3, <2>4, <2>5 DEF n
  <2>7. QED
    BY <2>6 DEF a
<1> HIDE DEF u, f
<1>6. \A g \in Files : Len(content'[g]) \in 0 .. count * L
  BY <1>1, <1>2, <1>3, <1>4, <1>5
<1>7. Len(job'.intent) \in 0 .. count * L
  <2>1. Len(job'.intent) = 0
    BY <1>1 DEF Idle
  <2>2. count * L \in Nat
    <3>1. count \in Nat
      BY <1>4
    <3>2. QED
      BY <3>1
  <2>3. QED
    BY <2>1, <2>2
<1>8. QED
  BY <1>1, <1>4, <1>6, <1>7 DEF LInv

\* Every action leaves the files small.
LEMMA LInductive ==
    \A L : SmallBy(L) /\ IInv /\ HInv /\ CInv /\ LInv(L) /\ [Next]_vars => LInv(L)'
<1> SUFFICES ASSUME NEW L, SmallBy(L), IInv, HInv, CInv, LInv(L), [Next]_vars
             PROVE  LInv(L)'
  OBVIOUS
<1>1. L \in Nat
  BY DEF SmallBy
<1>2. count' \in 0..MaxCommands
  <2>1. count \in 0..MaxCommands /\ MaxCommands \in Nat
    BY FileAssumption DEF LInv
  <2>2. count' = count \/ (count < MaxCommands /\ count' = count + 1)
    <3>1. CASE \/ \E f \in Files, d \in Strings : cmd_w(f, d)
               \/ \E f \in Files, p \in Positions, d \in Strings : cmd_i(f, p, d)
               \/ \E f \in Files, p \in Positions, n \in Lengths : cmd_d(f, p, n)
      BY <3>1, StartKeeps
    <3>2. CASE \/ writei_refused \/ writei_block \/ writei_done \/ Finish \/ UNCHANGED vars
      BY <3>2 DEF writei_refused, writei_block, Iteration, writei_done, Finish, vars
    <3>3. QED
      BY <3>1, <3>2 DEF Next
  <2>3. QED
    BY <2>1, <2>2
<1>3. CASE ~BlocksLast'
  BY <1>2, <1>3 DEF LInv
<1>4. ASSUME BlocksLast' PROVE LInv(L)'
  <2>1. BlocksLast
    BY <1>4, BlocksUsed
  <2>2. ASSUME content' = content, job'.intent = job.intent, count' = count PROVE LInv(L)'
    BY <2>1, <2>2 DEF LInv
  <2>3. ASSUME NEW f \in Files, NEW d \in Strings, cmd_w(f, d) PROVE LInv(L)'
    BY <2>1, <2>3, GrowsW
  <2>4. ASSUME NEW f \in Files, NEW p \in Positions, NEW d \in Strings, cmd_i(f, p, d)
        PROVE  LInv(L)'
    BY <2>1, <2>4, GrowsI
  <2>5. ASSUME NEW f \in Files, NEW p \in Positions, NEW n \in Lengths, cmd_d(f, p, n)
        PROVE  LInv(L)'
    BY <2>1, <2>5, GrowsD
  <2>6. ASSUME Finish PROVE LInv(L)'
    BY <1>1, <2>1, <2>6, GrowsFinish
  <2>7. job \in Jobs(job.intent)
    BY DEF IInv, JobOK
  <2>8. job.todo = <<>> \/ (NextCall.intent = job.intent /\ NextCall \in Jobs(job.intent))
    BY <2>7, Pending DEF NextCall, Jobs
  <2>9. ASSUME writei_refused PROVE LInv(L)'
    <3>1. content' = content /\ job'.intent = job.intent /\ count' = count
      BY <2>8, <2>9 DEF writei_refused, Jobs
    <3>2. QED
      BY <2>2, <3>1
  <2>10. ASSUME writei_block PROVE LInv(L)'
    <3>1. content' = content /\ count' = count /\ job.todo # <<>>
      BY <2>10 DEF writei_block, Iteration
    <3>2. job' = NextCall \/ \E m : job' = [job EXCEPT !.tot = m]
      BY <2>10 DEF writei_block, Iteration
    <3>3. job'.intent = job.intent
      BY <2>7, <2>8, <3>1, <3>2 DEF Jobs
    <3>4. QED
      BY <2>2, <3>1, <3>3
  <2>11. ASSUME writei_done PROVE LInv(L)'
    <3>1. content' = content /\ job'.intent = job.intent /\ count' = count
      BY <2>8, <2>11 DEF writei_done
    <3>2. QED
      BY <2>2, <3>1
  <2>12. ASSUME UNCHANGED vars PROVE LInv(L)'
    BY <2>2, <2>12 DEF vars
  <2>13. QED
    BY <2>3, <2>4, <2>5, <2>6, <2>9, <2>10, <2>11, <2>12 DEF Next
<1>5. QED
  BY <1>3, <1>4

\* With strings that short the claim needs no condition on what happens.
THEOREM SmallFilesHoldContent ==
    ASSUME NoWrap, Addressable, Small
    PROVE  Spec => []FileHoldsContent
<1>1. PICK L : SmallBy(L)
  BY DEF Small
<1>2. Init => IInv /\ HInv /\ CInv /\ LInv(L)
  <2> SUFFICES ASSUME Init PROVE IInv /\ HInv /\ CInv /\ LInv(L)
    OBVIOUS
  <2>1. /\ count = 0 /\ Len(job.intent) = 0 /\ \A f \in Files : Len(content[f]) = 0
    BY DEF Init, Idle
  <2>2. 0 * L \in Nat /\ 0 \in 0..MaxCommands
    BY <1>1, FileAssumption DEF SmallBy
  <2>3. LInv(L)
    BY <2>1, <2>2 DEF LInv
  <2>4. QED
    BY <2>3, InitInv, InitHoles, InitContents
<1>3. IInv /\ HInv /\ CInv /\ LInv(L) /\ [Next]_vars => LInv(L)'
  BY <1>1, LInductive
<1>4. LInv(L) => Fits
  BY <1>1, SmallFits
<1>5. (IInv /\ HInv /\ CInv) /\ [Next]_vars /\ Fits' => (IInv /\ HInv /\ CInv)'
  BY HInductive, CInductive
<1>6. IInv /\ HInv /\ CInv => FileHoldsContent
  BY FilesHold
<1>7. QED
  BY <1>2, <1>3, <1>4, <1>5, <1>6, PTL DEF Spec

=============================================================================

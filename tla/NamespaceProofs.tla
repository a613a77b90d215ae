-------------------------- MODULE NamespaceProofs ---------------------------
(***************************************************************************)
(* Proofs about Namespace, for every number of inodes, slots and users.    *)
(***************************************************************************)
EXTENDS Namespace, SequenceTheorems, WellFoundedInduction, TLAPS

-----------------------------------------------------------------------------
(* Types *)

\* A set of natural numbers has a least one.
LEMMA HasMin ==
    ASSUME NEW T \in SUBSET Nat, T # {}
    PROVE  Min(T) \in T /\ \A y \in T : Min(T) <= y
<1> DEFINE R == OpToRel(<, Nat)
<1>1. IsWellFoundedOn(R, Nat)
  BY NatLessThanWellFounded
<1>2. R = {ss \in Nat \X Nat : ss[1] < ss[2]}
  BY DEF OpToRel
<1> HIDE DEF R
<1>3. PICK x \in T : \A y \in T : ~(<<y, x>> \in R)
  BY <1>1, WFMin, Zenon
<1>4. ASSUME NEW y \in T PROVE x <= y
  <2>1. <<y, x>> \in Nat \X Nat /\ x \in Nat /\ y \in Nat
    OBVIOUS
  <2>2. ~(y < x)
    BY <1>2, <1>3, <2>1
  <2>3. QED
    BY <2>1, <2>2
<1>5. QED
  BY <1>4, Zenon DEF Min

Types    == {"none", "file", "dir"}
Uids     == Users \cup {"none", "root"}
AllNames == {"", "?", ".", "..", "home", LongStem} \cup DirNames \cup FileNames \cup Users

InodeT == [type : Types, nlink : 0 .. USHORT - 1, uid : Uids, oread : BOOLEAN, size : Nat,
           addrs : Inums]
EntryT == [name : AllNames, type : Types, inum : Inums \cup {-1}]
SlotT  == [inum : Inums \cup {-1}, ref : Nat, ip : InodeT]
FsT    == [imap : SUBSET (0..MaxInodes), inode : [Inums -> InodeT],
           ents : [Inums -> Seq(EntryT)], ic : [Slots -> SlotT]]

\* What the assumptions say of the sizes.
LEMMA Sizes == /\ MaxInodes \in Nat \ {0} /\ NINODES \in Nat \ {0} /\ 0 \in Inums
               /\ Inums = 0 .. MaxInodes - 1 /\ Inums \subseteq 0..MaxInodes
               /\ NULL = 0 /\ NULL \notin Slots /\ ROOT_INUM = 0 /\ USHORT = 65536
<1>1. MaxInodes \in Nat \ {0} /\ NINODES \in Nat \ {0}
  BY NamespaceAssumption
<1>2. QED
  BY <1>1 DEF Inums, NULL, Slots, ROOT_INUM, USHORT

\* A slot that changes, and nothing else.
LEMMA SetSlot ==
    ASSUME NEW f \in FsT, NEW k \in Slots, NEW s \in SlotT
    PROVE  /\ [f EXCEPT !.ic[k] = s] \in FsT
           /\ [f EXCEPT !.ic[k] = s].imap = f.imap
           /\ [f EXCEPT !.ic[k] = s].inode = f.inode
           /\ [f EXCEPT !.ic[k] = s].ents = f.ents
           /\ [f EXCEPT !.ic[k] = s].ic[k] = s
           /\ \A j \in Slots \ {k} : [f EXCEPT !.ic[k] = s].ic[j] = f.ic[j]
  BY DEF FsT

\* An inode of the table that changes.
LEMMA SetInode ==
    ASSUME NEW f \in FsT, NEW n \in Inums, NEW x \in InodeT
    PROVE  /\ [f EXCEPT !.inode[n] = x] \in FsT
           /\ [f EXCEPT !.inode[n] = x].imap = f.imap
           /\ [f EXCEPT !.inode[n] = x].ic = f.ic
           /\ [f EXCEPT !.inode[n] = x].ents = f.ents
           /\ [f EXCEPT !.inode[n] = x].inode[n] = x
           /\ \A m \in Inums \ {n} : [f EXCEPT !.inode[n] = x].inode[m] = f.inode[m]
  BY DEF FsT

\* The entries of a directory that change.
LEMMA SetEnts ==
    ASSUME NEW f \in FsT, NEW n \in Inums, NEW x \in Seq(EntryT)
    PROVE  /\ [f EXCEPT !.ents[n] = x] \in FsT
           /\ [f EXCEPT !.ents[n] = x].imap = f.imap
           /\ [f EXCEPT !.ents[n] = x].ic = f.ic
           /\ [f EXCEPT !.ents[n] = x].inode = f.inode
           /\ [f EXCEPT !.ents[n] = x].ents[n] = x
           /\ \A m \in Inums \ {n} : [f EXCEPT !.ents[n] = x].ents[m] = f.ents[m]
  BY DEF FsT

\* A directory that loses its entries.
LEMMA EmptiedEnts ==
    ASSUME NEW f \in FsT, NEW n \in Inums, <<>> \in Seq(EntryT)
    PROVE  /\ [f EXCEPT !.ents[n] = <<>>] \in FsT
           /\ [f EXCEPT !.ents[n] = <<>>].imap = f.imap
           /\ [f EXCEPT !.ents[n] = <<>>].ic = f.ic
           /\ [f EXCEPT !.ents[n] = <<>>].inode = f.inode
           /\ [f EXCEPT !.ents[n] = <<>>].ents[n] = <<>>
           /\ \A m \in Inums \ {n} : [f EXCEPT !.ents[n] = <<>>].ents[m] = f.ents[m]
  BY SetEnts

\* Writing the number of references of a slot.
LEMMA SetRef ==
    ASSUME NEW f \in FsT, NEW k \in Slots, NEW r \in Nat
    PROVE  [f EXCEPT !.ic[k].ref = r]
             = [f EXCEPT !.ic[k] = [inum |-> f.ic[k].inum, ref |-> r, ip |-> f.ic[k].ip]]
<1>1. f.ic[k] \in SlotT
  BY DEF FsT
<1>2. [f.ic[k] EXCEPT !.ref = r] = [inum |-> f.ic[k].inum, ref |-> r, ip |-> f.ic[k].ip]
  BY <1>1 DEF SlotT
<1>3. [f EXCEPT !.ic[k].ref = r] = [f EXCEPT !.ic[k] = [f.ic[k] EXCEPT !.ref = r]]
  BY Zenon
<1>4. QED
  BY <1>2, <1>3, Zenon

\* Writing the inode in a slot.
LEMMA SetIp ==
    ASSUME NEW f \in FsT, NEW k \in Slots, NEW x \in InodeT
    PROVE  [f EXCEPT !.ic[k].ip = x]
             = [f EXCEPT !.ic[k] = [inum |-> f.ic[k].inum, ref |-> f.ic[k].ref, ip |-> x]]
<1>1. f.ic[k] \in SlotT
  BY DEF FsT
<1>2. [f.ic[k] EXCEPT !.ip = x] = [inum |-> f.ic[k].inum, ref |-> f.ic[k].ref, ip |-> x]
  BY <1>1 DEF SlotT
<1>3. [f EXCEPT !.ic[k].ip = x] = [f EXCEPT !.ic[k] = [f.ic[k] EXCEPT !.ip = x]]
  BY Zenon
<1>4. QED
  BY <1>2, <1>3, Zenon

\* An empty slot, an empty entry and the inode of neither are of their types.
LEMMA Constants ==
    /\ NoInode \in InodeT /\ FreeSlot \in SlotT
    /\ Removed \in EntryT /\ Garbage \in EntryT
<1>1. NoInode \in InodeT
  BY Sizes DEF NoInode, InodeT, Types, Uids
<1>2. FreeSlot \in SlotT
  BY <1>1 DEF FreeSlot, SlotT
<1>3. Removed \in EntryT /\ Garbage \in EntryT
  BY Sizes DEF Removed, Garbage, Entry, EntryT, Types, AllNames
<1>4. QED
  BY <1>1, <1>2, <1>3

\* The slots a function returns, and those it is given.
Places == Slots \cup {NULL}

\* iupdate writes the inode of a slot to the table.
Updated(f, k, g) ==
    /\ g \in FsT /\ g.imap = f.imap /\ g.ents = f.ents /\ g.ic = f.ic
    /\ \A n \in Inums : g.inode[n] = IF f.ic[k].inum = n THEN f.ic[k].ip ELSE f.inode[n]

\* iupdate does so.
LEMMA Iupdate ==
    ASSUME NEW f \in FsT, NEW k \in Slots
    PROVE  Updated(f, k, iupdate(f, k))
<1>1. f.ic[k] \in SlotT
  BY DEF FsT
<1>2. f.ic[k].inum \in Inums \cup {-1} /\ f.ic[k].ip \in InodeT
  BY <1>1 DEF SlotT
<1>3. CASE f.ic[k].inum \in Inums
  <2>1. iupdate(f, k) = [f EXCEPT !.inode[f.ic[k].inum] = f.ic[k].ip]
    BY <1>3 DEF iupdate
  <2>2. QED
    BY <1>2, <1>3, <2>1, SetInode DEF Updated
<1>4. CASE f.ic[k].inum \notin Inums
  BY <1>4 DEF iupdate, Updated
<1>5. QED
  BY <1>3, <1>4

\* iget finds inode n in slot k, reads it into slot k or fails.
Got(f, n, g, k) ==
    /\ g \in FsT /\ k \in Places
    /\ g.imap = f.imap /\ g.inode = f.inode /\ g.ents = f.ents
    /\ \A j \in Slots : j # k => g.ic[j] = f.ic[j]
    /\ k = NULL => n \notin Inums \/ \A j \in Slots : f.ic[j].inum \notin {n, -1}
    /\ k # NULL =>
         /\ n \in Inums /\ g.ic[k].inum = n
         /\ \/ /\ f.ic[k].inum = n /\ g.ic[k].ref = f.ic[k].ref + 1
               /\ g.ic[k].ip = f.ic[k].ip
            \/ /\ f.ic[k].inum = -1 /\ \A j \in Slots : f.ic[j].inum # n
               /\ g.ic[k].ref = 1 /\ g.ic[k].ip = f.inode[n]

\* iget does one of the three.
LEMMA Iget ==
    ASSUME NEW f \in FsT, NEW n \in Inums \cup {-1}
    PROVE  Got(f, n, iget(f, n).fs, iget(f, n).k)
<1>1. \A j \in Slots : /\ f.ic[j].inum \in Inums \cup {-1} /\ f.ic[j].ref \in Nat
                       /\ f.ic[j].ip \in InodeT
  BY DEF FsT, SlotT
<1>2. \A m : Cached(f, m) \in SUBSET Nat /\ Cached(f, m) \subseteq Slots
             /\ \A j \in Cached(f, m) : f.ic[j].inum = m
  BY DEF Cached, Slots
<1>3. CASE n \notin Inums
  BY <1>3, Sizes DEF iget, Found, Got, Places
<1>4. CASE n \in Inums /\ Cached(f, n) # {}
  <2> DEFINE k == Min(Cached(f, n))
             s == [inum |-> f.ic[k].inum, ref |-> f.ic[k].ref + 1, ip |-> f.ic[k].ip]
  <2>1. k \in Cached(f, n)
    BY <1>2, <1>4, HasMin
  <2>2. k \in Slots /\ f.ic[k].inum = n
    BY <1>2, <2>1
  <2>3. iget(f, n) = Found([f EXCEPT !.ic[k].ref = f.ic[k].ref + 1], k)
    BY <1>4 DEF iget, Held
  <2> HIDE DEF k
  <2>4. f.ic[k].ref + 1 \in Nat /\ s \in SlotT
    BY <1>1, <2>2 DEF SlotT
  <2>5. iget(f, n) = Found([f EXCEPT !.ic[k] = s], k)
    BY <2>2, <2>3, <2>4, SetRef
  <2> HIDE DEF s
  <2>6. s.inum = n /\ s.ref = f.ic[k].ref + 1 /\ s.ip = f.ic[k].ip
    BY <2>2 DEF s
  <2> DEFINE g == [f EXCEPT !.ic[k] = s]
  <2>7. /\ g \in FsT /\ g.imap = f.imap /\ g.inode = f.inode /\ g.ents = f.ents
        /\ g.ic[k] = s /\ \A j \in Slots \ {k} : g.ic[j] = f.ic[j]
    BY <2>2, <2>4, SetSlot
  <2>8. iget(f, n).fs = g /\ iget(f, n).k = k
    BY <2>5 DEF Found
  <2> HIDE DEF g
  <2>9. QED
    BY <1>4, <2>2, <2>6, <2>7, <2>8, Sizes DEF Got, Places
<1>5. CASE n \in Inums /\ Cached(f, n) = {} /\ Cached(f, -1) # {}
  <2> DEFINE k == Min(Cached(f, -1))
             s == [inum |-> n, ref |-> 1, ip |-> f.inode[n]]
             g == [f EXCEPT !.ic[k] = s]
  <2>1. k \in Cached(f, -1)
    BY <1>2, <1>5, HasMin
  <2>2. k \in Slots /\ f.ic[k].inum = -1
    BY <1>2, <2>1
  <2>3. iget(f, n).fs = g /\ iget(f, n).k = k
    BY <1>5 DEF iget, Read, Found
  <2> HIDE DEF k
  <2>4. s \in SlotT
    BY <1>5 DEF SlotT, FsT
  <2>5. s.inum = n /\ s.ref = 1 /\ s.ip = f.inode[n]
    OBVIOUS
  <2> HIDE DEF s
  <2>6. /\ g \in FsT /\ g.imap = f.imap /\ g.inode = f.inode /\ g.ents = f.ents
        /\ g.ic[k] = s /\ \A j \in Slots \ {k} : g.ic[j] = f.ic[j]
    BY <2>2, <2>4, SetSlot
  <2> HIDE DEF g
  <2>7. \A j \in Slots : f.ic[j].inum # n
    BY <1>5 DEF Cached
  <2>8. QED
    BY <1>5, <2>2, <2>3, <2>5, <2>6, <2>7, Sizes DEF Got, Places
<1>6. CASE n \in Inums /\ Cached(f, n) = {} /\ Cached(f, -1) = {}
  <2>1. iget(f, n) = Found(f, NULL)
    BY <1>6 DEF iget
  <2>2. \A j \in Slots : f.ic[j].inum \notin {n, -1}
    BY <1>6 DEF Cached
  <2>3. QED
    BY <2>1, <2>2 DEF Found, Got, Places
<1>7. QED
  BY <1>3, <1>4, <1>5, <1>6

\* iput gives one reference up, and the slot with the last.
Put(f, k, g) ==
    /\ g \in FsT /\ g.imap = f.imap /\ g.ents = f.ents
    /\ \A j \in Slots : j # k => g.ic[j] = f.ic[j]
    /\ k = NULL => g.inode = f.inode
    /\ k # NULL /\ f.ic[k].ref > 1 =>
         /\ g.inode = f.inode
         /\ g.ic[k].inum = f.ic[k].inum /\ g.ic[k].ip = f.ic[k].ip
         /\ g.ic[k].ref = f.ic[k].ref - 1
    /\ k # NULL /\ f.ic[k].ref <= 1 =>
         /\ g.ic[k] = FreeSlot
         /\ \A n \in Inums : g.inode[n] = IF f.ic[k].inum = n THEN f.ic[k].ip ELSE f.inode[n]

\* iput does so; a slot without references is freed too.
LEMMA Iput ==
    ASSUME NEW f \in FsT, NEW k \in Places
    PROVE  Put(f, k, iput(f, k))
<1>1. CASE k = NULL
  <2>1. iput(f, k) = f
    BY <1>1 DEF iput
  <2>2. QED
    BY <1>1, <2>1, Sizes DEF Put
<1>2. CASE k # NULL
  <2> DEFINE r == IF f.ic[k].ref > 0 THEN f.ic[k].ref - 1 ELSE 0
             s == [inum |-> f.ic[k].inum, ref |-> r, ip |-> f.ic[k].ip]
             g == [f EXCEPT !.ic[k] = s]
  <2>1. k \in Slots
    BY <1>2 DEF Places
  <2>2. f.ic[k].inum \in Inums \cup {-1} /\ f.ic[k].ref \in Nat /\ f.ic[k].ip \in InodeT
    BY <2>1 DEF FsT, SlotT
  <2>3. r \in Nat /\ s \in SlotT
    BY <2>2 DEF SlotT
  <2>4. [f EXCEPT !.ic[k].ref = r] = g
    BY <2>1, <2>3, SetRef
  <2>5. iput(f, k) = IF g.ic[k].ref = 0 THEN [iupdate(g, k) EXCEPT !.ic[k] = FreeSlot] ELSE g
    BY <1>2, <2>4 DEF iput
  <2>6. s.inum = f.ic[k].inum /\ s.ref = r /\ s.ip = f.ic[k].ip
    OBVIOUS
  <2> HIDE DEF s
  <2>7. /\ g \in FsT /\ g.imap = f.imap /\ g.inode = f.inode /\ g.ents = f.ents
        /\ g.ic[k] = s /\ \A j \in Slots \ {k} : g.ic[j] = f.ic[j]
    BY <2>1, <2>3, SetSlot
  <2> HIDE DEF g
  <2>8. CASE f.ic[k].ref > 1
    <3>1. r = f.ic[k].ref - 1 /\ r # 0 /\ ~(f.ic[k].ref <= 1)
      BY <2>2, <2>8
    <3>2. iput(f, k) = g
      BY <2>5, <2>6, <2>7, <3>1
    <3>3. QED
      BY <1>2, <2>1, <2>6, <2>7, <3>1, <3>2 DEF Put
  <2>9. CASE f.ic[k].ref <= 1
    <3>1. r = 0 /\ ~(f.ic[k].ref > 1)
      BY <2>2, <2>9
    <3> DEFINE h == iupdate(g, k)
    <3>2. iput(f, k) = [h EXCEPT !.ic[k] = FreeSlot]
      BY <2>5, <2>6, <2>7, <3>1
    <3>3. Updated(g, k, h)
      BY <2>1, <2>7, Iupdate
    <3> HIDE DEF h
    <3>4. h \in FsT /\ h.imap = f.imap /\ h.ents = f.ents /\ h.ic = g.ic
          /\ \A n \in Inums : h.inode[n] = IF f.ic[k].inum = n THEN f.ic[k].ip ELSE f.inode[n]
      BY <2>6, <2>7, <3>3 DEF Updated
    <3> DEFINE e == [h EXCEPT !.ic[k] = FreeSlot]
    <3>5. /\ e \in FsT /\ e.imap = h.imap /\ e.inode = h.inode /\ e.ents = h.ents
          /\ e.ic[k] = FreeSlot /\ \A j \in Slots \ {k} : e.ic[j] = h.ic[j]
      BY <2>1, <3>4, SetSlot, Constants
    <3> HIDE DEF e
    <3>6. iput(f, k) = e
      BY <3>2 DEF e
    <3>7. QED
      BY <1>2, <2>1, <2>7, <3>1, <3>4, <3>5, <3>6 DEF Put
  <2>10. QED
    BY <2>2, <2>8, <2>9
<1>3. QED
  BY <1>1, <1>2

-----------------------------------------------------------------------------
(* Directories *)

\* The first n entries of a sequence, or all.
LEMMA UptoIs ==
    ASSUME NEW S, NEW s \in Seq(S), NEW n \in Nat
    PROVE  /\ Upto(s, n) \in Seq(S)
           /\ Len(Upto(s, n)) = IF n <= Len(s) THEN n ELSE Len(s)
           /\ \A i \in 1 .. Len(Upto(s, n)) : Upto(s, n)[i] = s[i]
           /\ n >= Len(s) => Upto(s, n) = s
<1> DEFINE m == Min({n, Len(s)})
<1>1. Len(s) \in Nat /\ \A i \in 1 .. Len(s) : s[i] \in S
  OBVIOUS
<1>2. m \in {n, Len(s)} /\ m <= n /\ m <= Len(s)
  <2>1. {n, Len(s)} \in SUBSET Nat /\ {n, Len(s)} # {}
    BY <1>1
  <2>2. m \in {n, Len(s)} /\ \A y \in {n, Len(s)} : m <= y
    BY <2>1, HasMin, Zenon
  <2>3. QED
    BY <2>2
<1>3. Upto(s, n) = SubSeq(s, 1, m)
  BY DEF Upto
<1> HIDE DEF m
<1>4. m \in Int /\ m \in Nat /\ 1 \in Int /\ \A i \in 1 .. m : s[i] \in S
  BY <1>1, <1>2
<1>5. /\ SubSeq(s, 1, m) \in Seq(S) /\ Len(SubSeq(s, 1, m)) = IF 1 <= m THEN m - 1 + 1 ELSE 0
      /\ \A i \in 1 .. m - 1 + 1 : SubSeq(s, 1, m)[i] = s[1 + i - 1]
  BY <1>4, SubSeqProperties
<1>6. m = IF n <= Len(s) THEN n ELSE Len(s)
  BY <1>1, <1>2
<1>7. Len(Upto(s, n)) = m
  BY <1>3, <1>4, <1>5
<1>8. \A i \in 1 .. m : Upto(s, n)[i] = s[i]
  BY <1>3, <1>4, <1>5
<1>9. n >= Len(s) => Upto(s, n) = s
  <2>1. SubSeq(s, 1, Len(s)) = s
    BY SubSeqFull, Zenon
  <2>2. n >= Len(s) => m = Len(s)
    BY <1>1, <1>6
  <2>3. QED
    BY <1>3, <2>1, <2>2
<1>10. QED
  BY <1>3, <1>5, <1>6, <1>7, <1>8, <1>9

\* A sequence whose entry i is written.
Splice(s, i, e) == Upto(s, i - 1) \o <<e>> \o SubSeq(s, i + 1, Len(s))

\* Behind the end the entry is appended.
LEMMA Written ==
    ASSUME NEW S, NEW s \in Seq(S), NEW i \in Nat \ {0}, NEW e \in S
    PROVE  /\ Splice(s, i, e) \in Seq(S)
           /\ i = Len(s) + 1 => Splice(s, i, e) = Append(s, e)
           /\ i <= Len(s) => Splice(s, i, e) = [s EXCEPT ![i] = e]
<1> DEFINE u == Upto(s, i - 1)
           v == SubSeq(s, i + 1, Len(s))
<1>1. Len(s) \in Nat /\ (\A j \in 1 .. Len(s) : s[j] \in S) /\ i - 1 \in Nat /\ i + 1 \in Int
      /\ Len(s) \in Int /\ DOMAIN s = 1 .. Len(s)
  OBVIOUS
<1>2. /\ u \in Seq(S) /\ Len(u) = (IF i - 1 <= Len(s) THEN i - 1 ELSE Len(s))
      /\ (\A j \in 1 .. Len(u) : u[j] = s[j]) /\ (i - 1 >= Len(s) => u = s)
  BY <1>1, UptoIs, Zenon
<1>3. \A j \in i + 1 .. Len(s) : s[j] \in S
  BY <1>1
<1>4. /\ v \in Seq(S) /\ Len(v) = (IF i + 1 <= Len(s) THEN Len(s) - (i + 1) + 1 ELSE 0)
      /\ \A j \in 1 .. Len(s) - (i + 1) + 1 : v[j] = s[i + 1 + j - 1]
  BY <1>1, <1>3, SubSeqProperties
<1> HIDE DEF u, v
<1>5. u \o <<e>> \in Seq(S) /\ u \o <<e>> \o v \in Seq(S)
  BY <1>2, <1>4
<1>6. ASSUME i = Len(s) + 1 PROVE u \o <<e>> \o v = Append(s, e)
  <2>1. u = s
    BY <1>1, <1>2, <1>6
  <2>2. Len(v) = 0
    BY <1>1, <1>4, <1>6
  <2>3. v = <<>>
    BY <1>4, <2>2
  <2>4. QED
    BY <2>1, <2>3, <1>5
<1>7. ASSUME i <= Len(s) PROVE u \o <<e>> \o v = [s EXCEPT ![i] = e]
  <2>1. Len(u) = i - 1
    <3>1. Len(u) = (IF i - 1 <= Len(s) THEN i - 1 ELSE Len(s)) /\ Len(s) \in Nat
      BY <1>1, <1>2
    <3>2. QED
      BY <3>1, <1>7
  <2>2. Len(v) = Len(s) - i
    <3>1. Len(v) = (IF i + 1 <= Len(s) THEN Len(s) - (i + 1) + 1 ELSE 0) /\ Len(s) \in Nat
      BY <1>1, <1>4
    <3>2. QED
      BY <3>1, <1>7
  <2>3. Len(u \o <<e>> \o v) = Len(s)
    <3>1. Len(u \o <<e>>) = i
      BY <1>2, <2>1
    <3>2. Len(u \o <<e>> \o v) = Len(u \o <<e>>) + Len(v)
      BY <1>4, <1>5, ConcatProperties, Zenon
    <3>3. Len(s) \in Nat /\ Len(u \o <<e>> \o v) = i + (Len(s) - i)
      BY <1>1, <2>2, <3>1, <3>2
    <3>4. QED
      BY <3>3
  <2>4. \A j \in 1 .. Len(s) : (u \o <<e>> \o v)[j] =
            IF j < i THEN u[j] ELSE IF j = i THEN e ELSE v[j - i]
    <3>1. Len(u \o <<e>>) = i /\ \A j \in 1 .. i : (u \o <<e>>)[j] = IF j < i THEN u[j] ELSE e
      BY <1>2, <2>1
    <3>2. \A j \in 1 .. Len(u \o <<e>>) + Len(v) : (u \o <<e>> \o v)[j] =
              IF j <= Len(u \o <<e>>) THEN (u \o <<e>>)[j] ELSE v[j - Len(u \o <<e>>)]
      BY <1>4, <1>5, ConcatProperties, Zenon
    <3>3. SUFFICES ASSUME NEW j \in 1 .. Len(s)
                   PROVE  (u \o <<e>> \o v)[j] =
                              IF j < i THEN u[j] ELSE IF j = i THEN e ELSE v[j - i]
      OBVIOUS
    <3>4. j \in 1 .. Len(u \o <<e>>) + Len(v)
      BY <1>1, <1>7, <2>2, <3>1
    <3>5. (u \o <<e>> \o v)[j] = IF j <= i THEN (u \o <<e>>)[j] ELSE v[j - i]
      BY <3>1, <3>2, <3>4
    <3>6. j <= i => (u \o <<e>>)[j] = IF j < i THEN u[j] ELSE e
      BY <1>1, <3>1
    <3>7. (j <= i => (j < i \/ j = i)) /\ (~(j <= i) => ~(j < i) /\ ~(j = i)) /\ (j = i => ~(j < i))
      BY <1>1
    <3>8. QED
      BY <3>5, <3>6, <3>7, Zenon
  <2>5. \A j \in 1 .. Len(s) : j < i => u[j] = s[j]
    BY <1>1, <1>2, <1>7, <2>1
  <2>6. \A j \in 1 .. Len(s) : j > i => v[j - i] = s[j]
    <3>1. SUFFICES ASSUME NEW j \in 1 .. Len(s), j > i PROVE v[j - i] = s[j]
      OBVIOUS
    <3>2. j - i \in 1 .. Len(s) - (i + 1) + 1 /\ i + 1 + (j - i) - 1 = j
      BY <1>1, <3>1
    <3>3. QED
      BY <1>4, <3>2
  <2>7. \A j \in 1 .. Len(s) : (u \o <<e>> \o v)[j] = IF j = i THEN e ELSE s[j]
    <3>1. SUFFICES ASSUME NEW j \in 1 .. Len(s)
                   PROVE  (u \o <<e>> \o v)[j] = IF j = i THEN e ELSE s[j]
      OBVIOUS
    <3>2. (u \o <<e>> \o v)[j] = IF j < i THEN u[j] ELSE IF j = i THEN e ELSE v[j - i]
      BY <2>4
    <3>3. (j < i => u[j] = s[j]) /\ (j > i => v[j - i] = s[j]) /\ i \in Nat /\ j \in Nat
      BY <1>1, <2>5, <2>6
    <3>4. (j < i => ~(j = i)) /\ (j > i => ~(j = i) /\ ~(j < i)) /\ (j < i \/ j = i \/ j > i)
          /\ (j = i => ~(j < i))
      BY <3>3
    <3>5. QED
      BY <3>2, <3>3, <3>4, Zenon
  <2>8. /\ [s EXCEPT ![i] = e] \in Seq(S) /\ Len([s EXCEPT ![i] = e]) = Len(s)
        /\ \A j \in 1 .. Len(s) : [s EXCEPT ![i] = e][j] = IF j = i THEN e ELSE s[j]
    <3>1. i \in 1 .. Len(s)
      BY <1>1, <1>7
    <3>2. QED
      BY <3>1, ExceptSeq
  <2>9. \A j \in 1 .. Len(u \o <<e>> \o v) : (u \o <<e>> \o v)[j] = [s EXCEPT ![i] = e][j]
    BY <2>3, <2>7, <2>8
  <2>10. QED
    BY <1>5, <2>3, <2>8, <2>9, SeqEqual, Zenon
<1>8. QED
  BY <1>5, <1>6, <1>7 DEF u, v, Splice

-----------------------------------------------------------------------------
(* What every operator keeps *)

\* An inode is in at most one slot, and a slot that holds one is referred to.
Sane(f) ==
    /\ f \in FsT
    /\ \A j, k \in Slots : f.ic[j].inum = f.ic[k].inum /\ f.ic[j].inum # -1 => j = k
    /\ \A k \in Slots : f.ic[k].inum # -1 => f.ic[k].ref > 0

\* Nothing is taken and nothing given up,
Still(f, g) ==
    /\ g \in FsT
    /\ \A k \in Slots : g.ic[k].inum = f.ic[k].inum /\ g.ic[k].ref = f.ic[k].ref

\* neither in the cache nor in the bitmap.
Quiet(f, g) == Still(f, g) /\ g.imap = f.imap

\* The references to what a slot holds.
Refs(f, k) == IF f.ic[k].inum = -1 THEN 0 ELSE f.ic[k].ref

\* g has the references of b, and one more for each of i and j.
Holds(b, g, i, j) ==
    \A k \in Slots :
        /\ b.ic[k].inum # -1 => g.ic[k].inum = b.ic[k].inum
        /\ Refs(g, k) >= Refs(b, k) + (IF k = i THEN 1 ELSE 0) + (IF k = j THEN 1 ELSE 0)

\* A step of a command that began in b and has to put i and j.
At(b, g, i, j) == Sane(b) /\ Sane(g) /\ i \in Places /\ j \in Places /\ Holds(b, g, i, j)

\* The types of a slot.
LEMMA SlotTypes ==
    ASSUME NEW f \in FsT, NEW k \in Slots
    PROVE  /\ f.ic[k].inum \in Inums \cup {-1} /\ f.ic[k].inum \in Int /\ f.ic[k].ref \in Nat
           /\ f.ic[k].ip \in InodeT /\ Refs(f, k) \in Nat
           /\ (f.ic[k].inum # -1 => f.ic[k].inum \in Inums)
<1>1. f.ic[k] \in SlotT
  BY DEF FsT
<1>2. f.ic[k].inum \in Inums \cup {-1} /\ f.ic[k].ref \in Nat /\ f.ic[k].ip \in InodeT
  BY <1>1 DEF SlotT
<1>3. QED
  BY <1>2, Sizes DEF Refs

\* A command begins with nothing to put.
LEMMA AtStart ==
    ASSUME NEW f, Sane(f)
    PROVE  At(f, f, NULL, NULL)
<1>1. f \in FsT /\ NULL \notin Slots /\ NULL \in Places
  BY Sizes DEF Sane, Places
<1>2. \A k \in Slots : Refs(f, k) \in Nat
  BY <1>1, SlotTypes
<1>3. QED
  BY <1>1, <1>2 DEF At, Holds

\* A step that takes and gives up nothing.
LEMMA AtStill ==
    ASSUME NEW b, NEW f, NEW g, NEW i, NEW j, At(b, f, i, j), Still(f, g)
    PROVE  At(b, g, i, j)
<1>1. Sane(g)
  BY DEF At, Still, Sane
<1>2. \A k \in Slots : Refs(g, k) = Refs(f, k) /\ g.ic[k].inum = f.ic[k].inum
  BY DEF Still, Refs
<1>3. QED
  BY <1>1, <1>2 DEF At, Holds

\* The order of what is to be put does not matter.
LEMMA AtSwap ==
    ASSUME NEW b, NEW f, NEW i, NEW j, At(b, f, i, j)
    PROVE  At(b, f, j, i)
<1>1. Sane(b) /\ Sane(f) /\ Holds(b, f, i, j) /\ i \in Places /\ j \in Places
  BY DEF At
<1>2. \A k \in Slots : Refs(b, k) \in Nat /\ Refs(f, k) \in Nat
  BY <1>1, SlotTypes DEF Sane
<1>3. Holds(b, f, j, i)
  BY <1>1, <1>2 DEF Holds
<1>4. QED
  BY <1>1, <1>3 DEF At

\* A reference that is never put.
LEMMA AtLeak ==
    ASSUME NEW b, NEW f, NEW i, NEW j, At(b, f, i, j)
    PROVE  At(b, f, i, NULL)
<1>1. Sane(b) /\ Sane(f) /\ Holds(b, f, i, j) /\ i \in Places /\ NULL \in Places /\ NULL \notin Slots
  BY Sizes DEF At, Places
<1>2. \A k \in Slots : Refs(b, k) \in Nat /\ Refs(f, k) \in Nat
  BY <1>1, SlotTypes DEF Sane
<1>3. Holds(b, f, i, NULL)
  BY <1>1, <1>2 DEF Holds
<1>4. QED
  BY <1>1, <1>3 DEF At

\* iget.
LEMMA AtGot ==
    ASSUME NEW b, NEW f, NEW g, NEW i, NEW n, NEW k, At(b, f, i, NULL), Got(f, n, g, k)
    PROVE  At(b, g, i, k) /\ (i # NULL => g.ic[i].inum = f.ic[i].inum)
<1>1. /\ Sane(b) /\ Sane(f) /\ Holds(b, f, i, NULL) /\ i \in Places /\ k \in Places
      /\ g \in FsT /\ f \in FsT /\ b \in FsT /\ NULL \notin Slots
  BY Sizes DEF At, Sane, Got
<1>2. \A l \in Slots : /\ Refs(b, l) \in Nat /\ Refs(f, l) \in Nat /\ f.ic[l].ref \in Nat
                       /\ g.ic[l].ref \in Nat
  BY <1>1, SlotTypes
<1>3. \A l \in Slots : l # k => g.ic[l] = f.ic[l]
  BY DEF Got
<1>4. CASE k = NULL
  <2>1. \A l \in Slots : g.ic[l] = f.ic[l]
    BY <1>1, <1>3, <1>4
  <2>2. Quiet(f, g)
    BY <1>1, <2>1 DEF Quiet, Still, Got
  <2>3. QED
    BY <1>1, <1>4, <2>1, <2>2, AtStill DEF Quiet, Places
<1>5. CASE k # NULL
  <2>1. /\ k \in Slots /\ n \in Inums /\ n # -1 /\ g.ic[k].inum = n
        /\ \/ f.ic[k].inum = n /\ g.ic[k].ref = f.ic[k].ref + 1
           \/ f.ic[k].inum = -1 /\ (\A j \in Slots : f.ic[j].inum # n) /\ g.ic[k].ref = 1
    BY <1>1, <1>5, Sizes DEF Got, Places
  <2>2. Refs(g, k) >= Refs(f, k) + 1 /\ (f.ic[k].inum # -1 => g.ic[k].inum = f.ic[k].inum)
    BY <1>2, <2>1 DEF Refs
  <2>3. \A l \in Slots : l # k => Refs(g, l) = Refs(f, l)
    BY <1>3 DEF Refs
  <2>4. Sane(g)
    <3>1. \A l \in Slots : g.ic[l].inum # -1 => g.ic[l].ref > 0
      BY <1>1, <1>2, <1>3, <2>1 DEF Sane
    <3>2. \A l \in Slots : l # k => f.ic[l].inum # n
      BY <1>1, <2>1 DEF Sane
    <3>3. \A l, m \in Slots : g.ic[l].inum = g.ic[m].inum /\ g.ic[l].inum # -1 => l = m
      BY <1>1, <1>3, <2>1, <3>2 DEF Sane
    <3>4. QED
      BY <1>1, <3>1, <3>3 DEF Sane
  <2>5. \A l \in Slots : b.ic[l].inum # -1 => g.ic[l].inum = b.ic[l].inum
    BY <1>1, <1>3, <2>2 DEF Holds
  <2>6. ASSUME NEW l \in Slots
        PROVE  Refs(g, l) >= Refs(b, l) + (IF l = i THEN 1 ELSE 0) + (IF l = k THEN 1 ELSE 0)
    <3>1. Refs(f, l) >= Refs(b, l) + (IF l = i THEN 1 ELSE 0) + (IF l = NULL THEN 1 ELSE 0)
      BY <1>1 DEF Holds
    <3>2. Refs(g, l) \in Nat /\ Refs(f, l) \in Nat /\ Refs(b, l) \in Nat /\ l # NULL
      BY <1>1, SlotTypes
    <3>3. QED
      BY <2>2, <2>3, <3>1, <3>2
  <2>7. Holds(b, g, i, k)
    BY <2>5, <2>6 DEF Holds
  <2>8. i # NULL => g.ic[i].inum = f.ic[i].inum
    <3>1. SUFFICES ASSUME i # NULL PROVE g.ic[i].inum = f.ic[i].inum
      OBVIOUS
    <3>2. i \in Slots
      BY <1>1, <3>1 DEF Places
    <3>3. Refs(f, i) >= Refs(b, i) + 1 + (IF i = NULL THEN 1 ELSE 0)
      BY <1>1, <3>2 DEF Holds
    <3>4. f.ic[i].inum # -1
      BY <1>1, <1>2, <3>2, <3>3 DEF Refs
    <3>5. QED
      BY <1>3, <2>2, <3>2, <3>4
  <2>9. QED
    BY <1>1, <2>4, <2>7, <2>8 DEF At
<1>6. QED
  BY <1>4, <1>5

\* iput.
LEMMA AtPut ==
    ASSUME NEW b, NEW f, NEW g, NEW i, NEW k, At(b, f, i, k), Put(f, k, g)
    PROVE  At(b, g, i, NULL) /\ (i # NULL => g.ic[i].inum = f.ic[i].inum)
<1>1. /\ Sane(b) /\ Sane(f) /\ Holds(b, f, i, k) /\ i \in Places /\ k \in Places
      /\ g \in FsT /\ f \in FsT /\ b \in FsT /\ NULL \notin Slots /\ NULL \in Places
  BY Sizes DEF At, Sane, Put, Places
<1>2. \A l \in Slots : l # k => g.ic[l] = f.ic[l]
  BY DEF Put
<1>3. CASE k = NULL
  <2>1. \A l \in Slots : g.ic[l] = f.ic[l]
    BY <1>1, <1>2, <1>3
  <2>2. Quiet(f, g)
    BY <1>1, <2>1 DEF Quiet, Still, Put
  <2>3. QED
    BY <1>1, <1>3, <2>1, <2>2, AtStill DEF Quiet, Places
<1>4. CASE k # NULL
  <2>1. k \in Slots
    BY <1>1, <1>4 DEF Places
  <2>2. /\ f.ic[k].ref \in Nat /\ Refs(f, k) \in Nat /\ Refs(b, k) \in Nat /\ Refs(g, k) \in Nat
        /\ f.ic[k].inum \in Int
    BY <1>1, <2>1, SlotTypes
  <2>3. Refs(f, k) >= Refs(b, k) + (IF k = i THEN 1 ELSE 0) + 1
    BY <1>1, <2>1 DEF Holds
  <2>4. f.ic[k].inum # -1 /\ Refs(f, k) = f.ic[k].ref
    BY <2>2, <2>3 DEF Refs
  <2>5. CASE f.ic[k].ref > 1
    <3>1. g.ic[k].inum = f.ic[k].inum /\ g.ic[k].ref = f.ic[k].ref - 1
      BY <1>4, <2>5 DEF Put
    <3>2. Refs(g, k) = Refs(f, k) - 1
      BY <2>2, <2>4, <3>1 DEF Refs
    <3>3. \A l \in Slots : g.ic[l].inum = f.ic[l].inum
      BY <1>2, <3>1
    <3>4. \A l \in Slots : g.ic[l].inum # -1 => g.ic[l].ref > 0
      BY <1>1, <1>2, <2>1, <2>2, <2>5, <3>1 DEF Sane
    <3>5. Sane(g)
      BY <1>1, <3>3, <3>4 DEF Sane
    <3>6. ASSUME NEW l \in Slots
          PROVE  /\ b.ic[l].inum # -1 => g.ic[l].inum = b.ic[l].inum
                 /\ Refs(g, l) >= Refs(b, l) + (IF l = i THEN 1 ELSE 0) + (IF l = NULL THEN 1 ELSE 0)
      <4>1. b.ic[l].inum # -1 => g.ic[l].inum = b.ic[l].inum
        BY <1>1, <3>3 DEF Holds
      <4>2. Refs(f, l) >= Refs(b, l) + (IF l = i THEN 1 ELSE 0) + (IF l = k THEN 1 ELSE 0)
        BY <1>1 DEF Holds
      <4>3. l # k => Refs(g, l) = Refs(f, l)
        BY <1>2 DEF Refs
      <4>4. Refs(g, l) \in Nat /\ Refs(f, l) \in Nat /\ Refs(b, l) \in Nat /\ l # NULL
        BY <1>1, SlotTypes
      <4>5. QED
        BY <3>2, <4>1, <4>2, <4>3, <4>4
    <3>7. Holds(b, g, i, NULL)
      BY <3>6 DEF Holds
    <3>8. QED
      BY <1>1, <3>3, <3>5, <3>7 DEF At, Places
  <2>6. CASE f.ic[k].ref <= 1
    <3>1. g.ic[k] = FreeSlot
      BY <1>4, <2>6 DEF Put
    <3>2. g.ic[k].inum = -1 /\ Refs(g, k) = 0
      BY <3>1 DEF FreeSlot, Refs
    <3>3. k # i /\ Refs(b, k) = 0
      BY <2>2, <2>3, <2>4, <2>6
    <3>4. b.ic[k].inum = -1
      BY <1>1, <2>1, <3>3 DEF Sane, Refs
    <3>5. Sane(g)
      <4>1. \A l \in Slots : g.ic[l].inum # -1 => l # k /\ g.ic[l] = f.ic[l]
        BY <1>2, <3>2
      <4>2. QED
        BY <1>1, <4>1 DEF Sane
    <3>6. ASSUME NEW l \in Slots
          PROVE  /\ b.ic[l].inum # -1 => g.ic[l].inum = b.ic[l].inum
                 /\ Refs(g, l) >= Refs(b, l) + (IF l = i THEN 1 ELSE 0) + (IF l = NULL THEN 1 ELSE 0)
      <4>1. CASE l = k
        BY <1>1, <3>2, <3>3, <3>4, <4>1
      <4>2. CASE l # k
        <5>1. g.ic[l] = f.ic[l] /\ Refs(g, l) = Refs(f, l)
          BY <1>2, <4>2 DEF Refs
        <5>2. Refs(f, l) >= Refs(b, l) + (IF l = i THEN 1 ELSE 0) + 0
              /\ (b.ic[l].inum # -1 => f.ic[l].inum = b.ic[l].inum)
          BY <1>1, <4>2 DEF Holds
        <5>3. QED
          BY <1>1, <5>1, <5>2
      <4>3. QED
        BY <4>1, <4>2
    <3>7. Holds(b, g, i, NULL)
      BY <3>6 DEF Holds
    <3>8. QED
      BY <1>1, <1>2, <3>3, <3>5, <3>7 DEF At, Places
  <2>7. QED
    BY <2>2, <2>5, <2>6
<1>5. QED
  BY <1>3, <1>4

-----------------------------------------------------------------------------
(* What the functions on directories do to a slot and to the table *)

\* The entries that a slot reaches.
LEMMA DirTypes ==
    ASSUME NEW f \in FsT, NEW k \in Slots, NEW name, NEW type
    PROVE  /\ Dir(f, k) \in Seq(EntryT) /\ f.ents[f.ic[k].ip.addrs] \in Seq(EntryT)
           /\ f.ic[k].ip.addrs \in Inums /\ f.ic[k].ip.size \in Nat
           /\ Len(Dir(f, k)) <= Len(f.ents[f.ic[k].ip.addrs])
           /\ \A i \in DOMAIN Dir(f, k) : Dir(f, k)[i].inum \in Inums \cup {-1} /\ i \in Nat \ {0}
           /\ Matches(f, k, name, type) \in SUBSET Nat
           /\ Matches(f, k, name, type) \subseteq DOMAIN Dir(f, k)
           /\ DOMAIN Dir(f, k) = 1 .. Len(Dir(f, k))
<1>1. f.ic[k].ip \in InodeT
  BY SlotTypes
<1>2. f.ic[k].ip.addrs \in Inums /\ f.ic[k].ip.size \in Nat
  BY <1>1 DEF InodeT
<1>3. f.ents[f.ic[k].ip.addrs] \in Seq(EntryT)
  BY <1>2 DEF FsT
<1> DEFINE s == f.ents[f.ic[k].ip.addrs]
           n == f.ic[k].ip.size
<1>4. Dir(f, k) = Upto(s, n)
  BY DEF Dir
<1> HIDE DEF s, n
<1>5. s \in Seq(EntryT) /\ n \in Nat
  BY <1>2, <1>3 DEF s, n
<1>6. Upto(s, n) \in Seq(EntryT) /\ Len(Upto(s, n)) = (IF n <= Len(s) THEN n ELSE Len(s))
  BY <1>5, UptoIs, Zenon
<1>7. Len(s) \in Nat
  BY <1>5
<1>8. Dir(f, k) \in Seq(EntryT) /\ Len(Dir(f, k)) <= Len(s)
  BY <1>4, <1>6, <1>7
<1>9. /\ DOMAIN Dir(f, k) = 1 .. Len(Dir(f, k)) /\ Len(Dir(f, k)) \in Nat
      /\ \A i \in DOMAIN Dir(f, k) : Dir(f, k)[i] \in EntryT
  BY <1>8
<1>10. \A i \in DOMAIN Dir(f, k) : Dir(f, k)[i].inum \in Inums \cup {-1} /\ i \in Nat \ {0}
  BY <1>9 DEF EntryT
<1>11. Matches(f, k, name, type) \in SUBSET Nat /\ Matches(f, k, name, type) \subseteq DOMAIN Dir(f, k)
  BY <1>10 DEF Matches
<1>12. QED
  BY <1>2, <1>3, <1>8, <1>9, <1>10, <1>11 DEF s

\* A read of a directory may write its inode.
Swept(f, k, g) ==
    /\ g \in FsT /\ g.imap = f.imap /\ g.ents = f.ents /\ g.ic = f.ic
    /\ \A n \in Inums : g.inode[n] = f.inode[n] \/ (f.ic[k].inum = n /\ g.inode[n] = f.ic[k].ip)

\* Scanned does no more.
LEMMA ScannedSweeps ==
    ASSUME NEW f \in FsT, NEW k \in Slots
    PROVE  Swept(f, k, Scanned(f, k)) /\ Quiet(f, Scanned(f, k))
<1> DEFINE g == iupdate(f, k)
<1>1. Updated(f, k, g)
  BY Iupdate
<1> HIDE DEF g
<1>2. Swept(f, k, g)
  BY <1>1 DEF Updated, Swept
<1>3. Swept(f, k, Scanned(f, k))
  <2>1. Swept(f, k, f)
    BY DEF Swept
  <2>2. QED
    BY <1>2, <2>1 DEF Scanned, g
<1>4. QED
  BY <1>3 DEF Swept, Quiet, Still

\* Slot k and its inode get the inode x.
Stored(f, k, x, g) ==
    /\ g \in FsT /\ g.imap = f.imap
    /\ \A j \in Slots : j # k => g.ic[j] = f.ic[j]
    /\ g.ic[k].inum = f.ic[k].inum /\ g.ic[k].ref = f.ic[k].ref /\ g.ic[k].ip = x
    /\ \A n \in Inums : g.inode[n] = IF f.ic[k].inum = n THEN x ELSE f.inode[n]

\* An inode written to its slot and to the table.
LEMMA StoreIp ==
    ASSUME NEW f \in FsT, NEW k \in Slots, NEW x \in InodeT
    PROVE  /\ Stored(f, k, x, iupdate([f EXCEPT !.ic[k].ip = x], k))
           /\ iupdate([f EXCEPT !.ic[k].ip = x], k).ents = f.ents
<1> DEFINE s == [inum |-> f.ic[k].inum, ref |-> f.ic[k].ref, ip |-> x]
           h == [f EXCEPT !.ic[k] = s]
<1>1. [f EXCEPT !.ic[k].ip = x] = h
  BY SetIp
<1>2. s \in SlotT
  BY SlotTypes DEF SlotT
<1>3. s.inum = f.ic[k].inum /\ s.ref = f.ic[k].ref /\ s.ip = x
  OBVIOUS
<1> HIDE DEF s
<1>4. /\ h \in FsT /\ h.imap = f.imap /\ h.inode = f.inode /\ h.ents = f.ents
      /\ h.ic[k] = s /\ \A j \in Slots \ {k} : h.ic[j] = f.ic[j]
  BY <1>2, SetSlot
<1> HIDE DEF h
<1>5. Updated(h, k, iupdate(h, k))
  BY <1>4, Iupdate
<1>6. Stored(f, k, x, iupdate(h, k)) /\ iupdate(h, k).ents = f.ents
  BY <1>3, <1>4, <1>5 DEF Stored, Updated
<1>7. QED
  BY <1>1, <1>6

\* A store takes and gives up nothing.
LEMMA StoredQuiet ==
    ASSUME NEW f, NEW k, NEW x, NEW g, Stored(f, k, x, g)
    PROVE  Quiet(f, g)
  BY DEF Stored, Quiet, Still

\* Entry i of directory d written; behind the end it is appended.
Wrote(f, d, i, e, h) ==
    /\ h \in FsT /\ h.imap = f.imap /\ h.inode = f.inode /\ h.ic = f.ic
    /\ d \in Inums /\ \A n \in Inums : n # d => h.ents[n] = f.ents[n]
    /\ i = Len(f.ents[d]) + 1 => h.ents[d] = Append(f.ents[d], e)
    /\ i <= Len(f.ents[d]) => h.ents[d] = [f.ents[d] EXCEPT ![i] = e]

\* WriteEntry does so in the directory whose inode slot k holds.
LEMMA WroteEntry ==
    ASSUME NEW f \in FsT, NEW k \in Slots, NEW i \in Nat \ {0}, NEW e \in EntryT
    PROVE  Wrote(f, f.ic[k].ip.addrs, i, e, WriteEntry(f, k, i, e))
<1> DEFINE d == f.ic[k].ip.addrs
           s == f.ents[d]
           t == Splice(s, i, e)
           h == WriteEntry(f, k, i, e)
<1>1. d \in Inums /\ s \in Seq(EntryT)
  BY DirTypes
<1>2. h = [f EXCEPT !.ents[d] = t]
  BY DEF WriteEntry, Splice
<1> HIDE DEF s
<1>3. /\ t \in Seq(EntryT) /\ (i = Len(s) + 1 => t = Append(s, e))
      /\ (i <= Len(s) => t = [s EXCEPT ![i] = e])
  BY <1>1, Written
<1> HIDE DEF t, h, d
<1>4. /\ [f EXCEPT !.ents[d] = t] \in FsT /\ [f EXCEPT !.ents[d] = t].imap = f.imap
      /\ [f EXCEPT !.ents[d] = t].inode = f.inode /\ [f EXCEPT !.ents[d] = t].ic = f.ic
      /\ [f EXCEPT !.ents[d] = t].ents[d] = t
      /\ \A n \in Inums \ {d} : [f EXCEPT !.ents[d] = t].ents[n] = f.ents[n]
  <2>1. d \in Inums /\ t \in Seq(EntryT)
    BY <1>1, <1>3
  <2>2. QED
    BY <2>1, SetEnts
<1>5. /\ h \in FsT /\ h.imap = f.imap /\ h.inode = f.inode /\ h.ic = f.ic
      /\ h.ents[d] = t /\ \A n \in Inums : n # d => h.ents[n] = f.ents[n]
  BY <1>2, <1>4
<1>6. Wrote(f, d, i, e, h)
  BY <1>1, <1>3, <1>5 DEF Wrote, s
<1>7. QED
  BY <1>6 DEF d, h

\* Entry e is behind those of the directory in slot k, which counts it.
EntryAdded(f, k, e, g) ==
    LET d == f.ic[k].ip.addrs
    IN  /\ Stored(f, k, [f.ic[k].ip EXCEPT !.size = f.ic[k].ip.size + 1], g)
        /\ d \in Inums /\ \A n \in Inums : n # d => g.ents[n] = f.ents[n]
        /\ f.ic[k].ip.size = Len(f.ents[d]) => g.ents[d] = Append(f.ents[d], e)

\* dir_add appends the entry and counts it in the directory's inode.
LEMMA DirAdd ==
    ASSUME NEW f \in FsT, NEW k \in Slots, IsDir(f, k), NEW name \in AllNames, NEW type \in Types,
           NEW inum \in Inums \cup {-1}
    PROVE  EntryAdded(f, k, Entry(Clipped(name), type, inum), dir_add(f, k, name, type, inum))
<1> DEFINE d == f.ic[k].ip.addrs
           x == [f.ic[k].ip EXCEPT !.size = f.ic[k].ip.size + 1]
           i == f.ic[k].ip.size + 1
           e == Entry(Clipped(name), type, inum)
           h == WriteEntry(f, k, i, e)
           g == dir_add(f, k, name, type, inum)
<1>1. f.ic[k].ip \in InodeT /\ f.ic[k].ip.size \in Nat
  BY SlotTypes DEF InodeT
<1>2. x \in InodeT /\ i \in Nat \ {0} /\ e \in EntryT /\ i = f.ic[k].ip.size + 1
  <2>1. Clipped(name) \in AllNames
    BY DEF Clipped, AllNames
  <2>2. QED
    BY <1>1, <2>1 DEF InodeT, EntryT, Entry
<1>3. g = iupdate([h EXCEPT !.ic[k].ip.size = f.ic[k].ip.size + 1], k)
  BY DEF dir_add
<1> HIDE DEF e, i
<1>4. Wrote(f, d, i, e, h)
  BY <1>2, WroteEntry, Zenon
<1> HIDE DEF h, x
<1>5. [h EXCEPT !.ic[k].ip.size = f.ic[k].ip.size + 1] = [h EXCEPT !.ic[k].ip = x]
  <2>1. [h EXCEPT !.ic[k].ip.size = f.ic[k].ip.size + 1]
          = [h EXCEPT !.ic[k].ip = [h.ic[k].ip EXCEPT !.size = f.ic[k].ip.size + 1]]
    BY Zenon
  <2>2. QED
    BY <1>4, <2>1, Zenon DEF x, Wrote
<1>6. Stored(h, k, x, g) /\ g.ents = h.ents
  <2>1. h \in FsT
    BY <1>4 DEF Wrote
  <2>2. g = iupdate([h EXCEPT !.ic[k].ip = x], k)
    BY <1>3, <1>5
  <2>3. QED
    BY <1>2, <2>1, <2>2, StoreIp
<1> HIDE DEF g, d
<1>7. Stored(f, k, x, g)
  BY <1>4, <1>6 DEF Stored, Wrote
<1>8. d \in Inums /\ (\A n \in Inums : n # d => g.ents[n] = f.ents[n])
      /\ (f.ic[k].ip.size = Len(f.ents[d]) => g.ents[d] = Append(f.ents[d], e))
  BY <1>2, <1>4, <1>6 DEF Wrote
<1>9. QED
  BY <1>7, <1>8 DEF EntryAdded, d, x, g, e

\* In any slot, and in none, dir_add takes and gives up nothing.
LEMMA DirAddQuiet ==
    ASSUME NEW f \in FsT, NEW k \in Places, NEW name \in AllNames, NEW type \in Types,
           NEW inum \in Inums \cup {-1}
    PROVE  Quiet(f, dir_add(f, k, name, type, inum))
<1>1. CASE IsDir(f, k)
  <2>1. k \in Slots
    BY <1>1 DEF IsDir, Places
  <2>2. Stored(f, k, [f.ic[k].ip EXCEPT !.size = f.ic[k].ip.size + 1], dir_add(f, k, name, type, inum))
    BY <1>1, <2>1, DirAdd DEF EntryAdded
  <2>3. QED
    BY <2>2, StoredQuiet, Zenon
<1>2. CASE ~IsDir(f, k)
  BY <1>2 DEF dir_add, Quiet, Still
<1>3. QED
  BY <1>1, <1>2

\* The directory in slot k, whose data is d, loses one of the entries m or nothing.
Dropped(f, k, d, m, g) ==
    /\ Quiet(f, g) /\ g.ic = f.ic
    /\ \A n \in Inums : g.inode[n] = f.inode[n] \/ (f.ic[k].inum = n /\ g.inode[n] = f.ic[k].ip)
    /\ d \in Inums /\ \A n \in Inums : n # d => g.ents[n] = f.ents[n]
    /\ m = {} => g.ents = f.ents
    /\ m # {} => \E i \in m : g.ents[d] = [f.ents[d] EXCEPT ![i] = Removed]

\* dir_remove puts an empty entry where the first entry stood that it may remove.
LEMMA DirRemove ==
    ASSUME NEW f \in FsT, NEW k \in Slots, NEW name, NEW type
    PROVE  Dropped(f, k, f.ic[k].ip.addrs, Removable(f, k, name, type), dir_remove(f, k, name, type))
<1> DEFINE d == f.ic[k].ip.addrs
           m == Removable(f, k, name, type)
           h == WriteEntry(f, k, Min(m), Removed)
           g == dir_remove(f, k, name, type)
<1>1. m \subseteq DOMAIN Dir(f, k) /\ m \in SUBSET Nat /\ m \subseteq Nat \ {0}
  BY DirTypes DEF Removable
<1>2. d \in Inums /\ \A i \in m : i <= Len(f.ents[d])
  <2>1. /\ DOMAIN Dir(f, k) = 1 .. Len(Dir(f, k)) /\ Len(Dir(f, k)) <= Len(f.ents[d]) /\ d \in Inums
        /\ f.ents[d] \in Seq(EntryT) /\ Dir(f, k) \in Seq(EntryT)
    BY DirTypes
  <2> HIDE DEF m, d
  <2>2. Len(Dir(f, k)) \in Nat /\ Len(f.ents[d]) \in Nat
    BY <2>1, LenProperties
  <2>3. QED
    BY <1>1, <2>1, <2>2
<1>3. CASE m = {}
  <2>1. g = Scanned(f, k)
    BY <1>3 DEF dir_remove
  <2>2. Swept(f, k, g) /\ Quiet(f, g)
    BY <2>1, ScannedSweeps
  <2> HIDE DEF g, d, m
  <2>3. QED
    BY <1>2, <1>3, <2>2 DEF Swept, Dropped, g, d, m
<1>4. CASE m # {}
  <2>1. g = iupdate(h, k)
    BY <1>4 DEF dir_remove
  <2> DEFINE i == Min(m)
  <2>2. i \in m
    BY <1>1, <1>4, HasMin
  <2>3. i \in Nat \ {0} /\ i <= Len(f.ents[d])
    BY <1>1, <1>2, <2>2
  <2> HIDE DEF i, m
  <2>4. h = WriteEntry(f, k, i, Removed)
    BY DEF i
  <2>5. Wrote(f, d, i, Removed, h)
    BY <2>3, <2>4, WroteEntry, Constants
  <2> HIDE DEF h
  <2>6. Updated(h, k, g)
    BY <2>1, <2>5, Iupdate DEF Wrote
  <2> HIDE DEF g, d
  <2>7. /\ Quiet(f, g) /\ g.ic = f.ic
        /\ \A n \in Inums : g.inode[n] = f.inode[n] \/ (f.ic[k].inum = n /\ g.inode[n] = f.ic[k].ip)
    BY <2>5, <2>6 DEF Updated, Quiet, Still, Wrote
  <2>8. /\ (\A n \in Inums : n # d => g.ents[n] = f.ents[n])
        /\ g.ents[d] = [f.ents[d] EXCEPT ![i] = Removed]
    BY <2>3, <2>5, <2>6 DEF Updated, Wrote
  <2>9. QED
    BY <1>2, <1>4, <2>2, <2>7, <2>8 DEF Dropped, g, d, m
<1>5. QED
  BY <1>3, <1>4

\* A step that takes and gives up nothing, with the bitmap.
LEMMA AtQuiet ==
    ASSUME NEW b, NEW f, NEW g, NEW i, NEW j, At(b, f, i, j), Quiet(f, g)
    PROVE  At(b, g, i, j) /\ g.imap = f.imap
  BY AtStill DEF Quiet

\* What the callers of ialloc set in the inode of slot k.
OwnedIp(x, nlink, uid, oread) == [x EXCEPT !.nlink = nlink, !.uid = uid, !.oread = oread]

LinkT == 0 .. USHORT - 1

\* Owned stores that.
LEMMA OwnedStores ==
    ASSUME NEW f \in FsT, NEW k \in Slots, NEW nlink \in LinkT, NEW uid \in Uids,
           NEW oread \in BOOLEAN
    PROVE  LET g == Owned(f, k, nlink, uid, oread)
               x == OwnedIp(f.ic[k].ip, nlink, uid, oread)
           IN  /\ Stored(f, k, x, g) /\ g.ents = f.ents /\ Quiet(f, g)
               /\ x.type = f.ic[k].ip.type /\ x.size = f.ic[k].ip.size /\ x.addrs = f.ic[k].ip.addrs
<1> DEFINE y == f.ic[k].ip
           x == OwnedIp(y, nlink, uid, oread)
           g == Owned(f, k, nlink, uid, oread)
<1>1. y \in InodeT
  BY SlotTypes
<1>2. g = iupdate([f EXCEPT !.ic[k].ip = x], k)
  BY DEF Owned, OwnedIp
<1> HIDE DEF y
<1>3. x \in InodeT /\ x.type = y.type /\ x.size = y.size /\ x.addrs = y.addrs
  BY <1>1 DEF OwnedIp, InodeT, LinkT
<1> HIDE DEF x
<1>4. Stored(f, k, x, g) /\ g.ents = f.ents
  BY <1>2, <1>3, StoreIp
<1> HIDE DEF g
<1>5. Quiet(f, g)
  BY <1>4, StoredQuiet
<1>6. QED
  BY <1>3, <1>4, <1>5 DEF g, x, y

\* A new directory takes and gives up nothing.
LEMMA NewDirQuiet ==
    ASSUME NEW f \in FsT, NEW k \in Slots, NEW uid \in Uids, NEW oread \in BOOLEAN,
           NEW parent \in Inums \cup {-1}
    PROVE  Quiet(f, NewDir(f, k, uid, oread, parent))
<1> DEFINE o == Owned(f, k, 2, uid, oread)
           d == dir_add(o, k, ".", "dir", f.ic[k].inum)
           e == dir_add(d, k, "..", "dir", parent)
<1>1. Quiet(f, o)
  <2>1. 2 \in LinkT
    BY Sizes DEF LinkT
  <2>2. QED
    BY <2>1, OwnedStores
<1>2. e = NewDir(f, k, uid, oread, parent)
  BY DEF NewDir
<1>3. /\ f.ic[k].inum \in Inums \cup {-1} /\ "." \in AllNames /\ ".." \in AllNames
      /\ "dir" \in Types /\ k \in Places
  BY SlotTypes DEF AllNames, Types, Places
<1> HIDE DEF o
<1>4. Quiet(o, d)
  BY <1>1, <1>3, DirAddQuiet DEF Quiet, Still
<1> HIDE DEF d
<1>5. Quiet(d, e)
  BY <1>3, <1>4, DirAddQuiet DEF Quiet, Still
<1> HIDE DEF e
<1>6. Quiet(f, e)
  BY <1>1, <1>4, <1>5 DEF Quiet, Still
<1>7. QED
  BY <1>2, <1>6

\* dir_lookup does nothing in what is no directory, fails after a read of the
\* directory, or gets the inode of a matching entry after it.
LEMMA LookupIs ==
    ASSUME NEW f, NEW k, NEW name, NEW type
    PROVE  LET l == dir_lookup(f, k, name, type)
           IN  \/ ~IsDir(f, k) /\ l.fs = f /\ l.k = NULL
               \/ /\ IsDir(f, k) /\ Matches(f, k, name, type) = {}
                  /\ l.fs = Scanned(f, k) /\ l.k = NULL
               \/ /\ IsDir(f, k) /\ Matches(f, k, name, type) # {}
                  /\ l = iget(Scanned(f, k), Dir(f, k)[Min(Matches(f, k, name, type))].inum)
<1>1. CASE ~IsDir(f, k)
  BY <1>1 DEF dir_lookup, Found
<1>2. CASE IsDir(f, k) /\ Matches(f, k, name, type) = {}
  BY <1>2 DEF dir_lookup, Found
<1>3. CASE IsDir(f, k) /\ Matches(f, k, name, type) # {}
  BY <1>3 DEF dir_lookup
<1>4. QED
  BY <1>1, <1>2, <1>3

\* A lookup.
LEMMA AtLookup ==
    ASSUME NEW b, NEW f, NEW i, At(b, f, i, NULL), NEW k \in Places, NEW name, NEW type
    PROVE  LET l == dir_lookup(f, k, name, type)
           IN  /\ At(b, l.fs, i, l.k) /\ l.fs.imap = f.imap
               /\ i # NULL => l.fs.ic[i].inum = f.ic[i].inum
<1> DEFINE l == dir_lookup(f, k, name, type)
           h == Scanned(f, k)
           n == Dir(f, k)[Min(Matches(f, k, name, type))].inum
<1>1. CASE ~IsDir(f, k)
  <2>1. l.fs = f /\ l.k = NULL
    BY <1>1, LookupIs
  <2>2. QED
    BY <2>1
<1>2. CASE IsDir(f, k)
  <2>1. k \in Slots /\ f \in FsT /\ i \in Places
    BY <1>2 DEF IsDir, Places, At, Sane
  <2>2. Quiet(f, h)
    BY <2>1, ScannedSweeps
  <2>3. At(b, h, i, NULL) /\ h.imap = f.imap /\ (i # NULL => h.ic[i].inum = f.ic[i].inum) /\ h \in FsT
    BY <2>1, <2>2, AtQuiet DEF Quiet, Still, Places
  <2>4. CASE Matches(f, k, name, type) = {}
    <3>1. l.fs = h /\ l.k = NULL
      BY <1>2, <2>4, LookupIs
    <3> HIDE DEF h, l
    <3>2. QED
      BY <2>3, <3>1 DEF l
  <2>5. CASE Matches(f, k, name, type) # {}
    <3>1. l = iget(h, n)
      BY <1>2, <2>5, LookupIs
    <3>2. n \in Inums \cup {-1}
      <4>1. Min(Matches(f, k, name, type)) \in Matches(f, k, name, type)
        BY <2>1, <2>5, DirTypes, HasMin
      <4>2. QED
        BY <2>1, <4>1, DirTypes
    <3> HIDE DEF n, h
    <3>3. Got(h, n, iget(h, n).fs, iget(h, n).k)
      BY <2>3, <3>2, Iget
    <3> HIDE DEF l
    <3>4. At(b, l.fs, i, l.k) /\ (i # NULL => l.fs.ic[i].inum = h.ic[i].inum)
      BY <2>3, <3>1, <3>3, AtGot
    <3>5. l.fs.imap = h.imap
      BY <3>1, <3>3 DEF Got
    <3>6. QED
      BY <2>3, <3>4, <3>5 DEF l
  <2>6. QED
    BY <2>4, <2>5
<1>3. QED
  BY <1>1, <1>2

\* ialloc has written inode n, the first that is free.
Made(f, type, n, h) ==
    /\ h \in FsT /\ n \in Inums /\ n \notin f.imap /\ \A m \in Inums : m < n => m \in f.imap
    /\ h.imap = f.imap \cup {n} /\ h.ic = f.ic
    /\ h.inode[n] = [NoInode EXCEPT !.type = type, !.nlink = 1, !.oread = TRUE, !.addrs = n]
    /\ h.ents[n] = <<>>
    /\ \A m \in Inums : m # n => h.inode[m] = f.inode[m] /\ h.ents[m] = f.ents[m]

\* ialloc writes a free inode and gets it, or it finds none.
LEMMA AllocIs ==
    ASSUME NEW f \in FsT, MaxInodes \notin f.imap, NEW type \in Types
    PROVE  LET a == ialloc(f, type)
           IN  \/ \E n \in Inums, h \in FsT : Made(f, type, n, h) /\ a = iget(h, n)
               \/ /\ Inums \subseteq f.imap /\ a.k = NULL /\ a.fs \in FsT /\ a.fs.ic = f.ic
<1> DEFINE T == {i \in 0..MaxInodes : i \notin f.imap}
           n == Min(T)
           g == [f EXCEPT !.imap = f.imap \cup {n}]
           a == ialloc(f, type)
<1>1. T \in SUBSET Nat /\ T # {} /\ T \subseteq 0..MaxInodes
  <2>1. MaxInodes \in T
    BY Sizes
  <2>2. QED
    BY <2>1
<1>2. n \in T /\ \A y \in T : n <= y
  BY <1>1, HasMin
<1>3. n \in 0..MaxInodes /\ n \notin f.imap
  BY <1>2
<1>4. \A m \in Inums : m < n => m \in f.imap
  BY <1>2, Sizes
<1>5. a = IF n \in Inums THEN iget(NewInode(g, n, type), n)
          ELSE Found([g EXCEPT !.ents[ROOT_INUM] =
                       [i \in DOMAIN f.ents[ROOT_INUM] |->
                           IF i <= 4 THEN Garbage ELSE f.ents[ROOT_INUM][i]]], NULL)
  BY DEF ialloc
<1> HIDE DEF n
<1>6. /\ g \in FsT /\ g.imap = f.imap \cup {n} /\ g.ic = f.ic /\ g.inode = f.inode
      /\ g.ents = f.ents
  BY <1>3 DEF FsT
<1> HIDE DEF g
<1>7. CASE n \in Inums
  <2> DEFINE x == [NoInode EXCEPT !.type = type, !.nlink = 1, !.oread = TRUE, !.addrs = n]
             p == [g EXCEPT !.inode[n] = x]
             h == [p EXCEPT !.ents[n] = <<>>]
  <2>1. x \in InodeT
    <3>1. 1 \in 0 .. USHORT - 1 /\ NoInode \in InodeT
      BY Sizes, Constants
    <3>2. QED
      BY <1>7, <3>1 DEF InodeT
  <2> HIDE DEF x
  <2>2. /\ p \in FsT /\ p.imap = g.imap /\ p.ic = g.ic /\ p.ents = g.ents /\ p.inode[n] = x
        /\ \A m \in Inums \ {n} : p.inode[m] = g.inode[m]
    BY <1>6, <1>7, <2>1, SetInode
  <2>3. h = NewInode(g, n, type)
    BY DEF NewInode, x
  <2> HIDE DEF p
  <2>4. <<>> \in Seq(EntryT)
    OBVIOUS
  <2>5. /\ h \in FsT /\ h.imap = p.imap /\ h.ic = p.ic /\ h.inode = p.inode /\ h.ents[n] = <<>>
        /\ \A m \in Inums \ {n} : h.ents[m] = p.ents[m]
    <3>1. p \in FsT
      BY <2>2
    <3>2. QED
      BY <1>7, <2>4, <3>1, EmptiedEnts
  <2> HIDE DEF h
  <2>6. Made(f, type, n, h)
    BY <1>3, <1>4, <1>6, <1>7, <2>2, <2>5 DEF Made, x
  <2>7. a = iget(h, n)
    BY <1>5, <1>7, <2>3
  <2>8. QED
    BY <1>7, <2>5, <2>6, <2>7
<1>8. CASE n \notin Inums
  <2>1. Inums \subseteq f.imap
    <3>1. n = MaxInodes
      BY <1>3, <1>8, Sizes
    <3>2. QED
      BY <1>4, <3>1, Sizes
  <2> DEFINE r == f.ents[ROOT_INUM]
             s == [i \in DOMAIN r |-> IF i <= 4 THEN Garbage ELSE r[i]]
             h == [g EXCEPT !.ents[ROOT_INUM] = s]
  <2>2. a = Found(h, NULL)
    BY <1>5, <1>8
  <2>3. r \in Seq(EntryT) /\ ROOT_INUM \in Inums
    BY Sizes DEF FsT
  <2>4. s \in Seq(EntryT)
    <3> HIDE DEF r
    <3>1. DOMAIN r = 1 .. Len(r) /\ Len(r) \in Nat /\ \A i \in 1 .. Len(r) : r[i] \in EntryT
      BY <2>3
    <3>2. s \in [1 .. Len(r) -> EntryT]
      BY <3>1, Constants
    <3> HIDE DEF s
    <3>3. QED
      BY <3>1, <3>2
  <2> HIDE DEF s
  <2>5. h \in FsT /\ h.ic = g.ic
    BY <1>6, <2>3, <2>4, SetEnts
  <2> HIDE DEF h
  <2>6. a.k = NULL /\ a.fs = h
    BY <2>2 DEF Found
  <2>7. QED
    BY <1>6, <2>1, <2>5, <2>6
<1>9. QED
  BY <1>7, <1>8

\* ialloc, with a place left in the bitmap: only a failure may fill it.
LEMMA AtAlloc ==
    ASSUME NEW b, NEW f, NEW i, At(b, f, i, NULL), MaxInodes \notin f.imap, NEW type \in Types
    PROVE  LET a == ialloc(f, type)
           IN  /\ At(b, a.fs, i, a.k)
               /\ a.k # NULL => MaxInodes \notin a.fs.imap
               /\ i # NULL => a.fs.ic[i].inum = f.ic[i].inum
<1> DEFINE a == ialloc(f, type)
<1>1. f \in FsT /\ i \in Places
  BY DEF At, Sane
<1>2. \/ \E n \in Inums, h \in FsT : Made(f, type, n, h) /\ a = iget(h, n)
      \/ Inums \subseteq f.imap /\ a.k = NULL /\ a.fs \in FsT /\ a.fs.ic = f.ic
  BY <1>1, AllocIs
<1> HIDE DEF a
<1>3. ASSUME NEW n \in Inums, NEW h \in FsT, Made(f, type, n, h), a = iget(h, n)
      PROVE  /\ At(b, a.fs, i, a.k) /\ (a.k # NULL => MaxInodes \notin a.fs.imap)
             /\ (i # NULL => a.fs.ic[i].inum = f.ic[i].inum)
  <2>1. h.ic = f.ic /\ h.imap = f.imap \cup {n}
    BY <1>3 DEF Made
  <2>2. Still(f, h)
    BY <2>1 DEF Still
  <2>3. At(b, h, i, NULL)
    BY <2>2, AtStill
  <2>4. Got(h, n, a.fs, a.k)
    BY <1>3, Iget
  <2>5. At(b, a.fs, i, a.k) /\ (i # NULL => a.fs.ic[i].inum = h.ic[i].inum)
    BY <2>3, <2>4, AtGot
  <2>6. a.fs.imap = h.imap /\ MaxInodes \notin Inums
    BY <2>4, Sizes DEF Got
  <2>7. QED
    BY <2>1, <2>5, <2>6
<1>4. ASSUME a.k = NULL, a.fs \in FsT, a.fs.ic = f.ic
      PROVE  /\ At(b, a.fs, i, a.k) /\ (a.k # NULL => MaxInodes \notin a.fs.imap)
             /\ (i # NULL => a.fs.ic[i].inum = f.ic[i].inum)
  <2>1. Still(f, a.fs)
    BY <1>4 DEF Still
  <2>2. At(b, a.fs, i, NULL)
    BY <2>1, AtStill
  <2>3. QED
    BY <1>4, <2>2
<1>5. QED
  BY <1>2, <1>3, <1>4 DEF a

-----------------------------------------------------------------------------
(* Commands give back what they take *)

\* iget with the result it has.
LEMMA AtIget ==
    ASSUME NEW b, NEW f, NEW i, At(b, f, i, NULL), NEW n \in Inums \cup {-1}
    PROVE  /\ At(b, iget(f, n).fs, i, iget(f, n).k) /\ iget(f, n).fs.imap = f.imap
           /\ i # NULL => iget(f, n).fs.ic[i].inum = f.ic[i].inum
<1> DEFINE g == iget(f, n)
<1>1. f \in FsT
  BY DEF At, Sane
<1>2. Got(f, n, g.fs, g.k)
  BY <1>1, Iget
<1> HIDE DEF g
<1>3. At(b, g.fs, i, g.k) /\ (i # NULL => g.fs.ic[i].inum = f.ic[i].inum) /\ g.fs.imap = f.imap
  <2>1. At(b, g.fs, i, g.k) /\ (i # NULL => g.fs.ic[i].inum = f.ic[i].inum)
    BY <1>2, AtGot
  <2>2. g.fs.imap = f.imap
    BY <1>2 DEF Got
  <2>3. QED
    BY <2>1, <2>2
<1>4. QED
  BY <1>3 DEF g

\* iput with the result it has.
LEMMA AtIput ==
    ASSUME NEW b, NEW f, NEW i, NEW k, At(b, f, i, k)
    PROVE  /\ At(b, iput(f, k), i, NULL) /\ iput(f, k).imap = f.imap
           /\ i # NULL => iput(f, k).ic[i].inum = f.ic[i].inum
<1> DEFINE g == iput(f, k)
<1>1. f \in FsT /\ k \in Places
  BY DEF At, Sane
<1>2. Put(f, k, g)
  BY <1>1, Iput
<1> HIDE DEF g
<1>3. At(b, g, i, NULL) /\ (i # NULL => g.ic[i].inum = f.ic[i].inum) /\ g.imap = f.imap
  BY <1>2, AtPut DEF Put
<1>4. QED
  BY <1>3 DEF g

\* What can be said of a step without its base.
LEMMA AtTypes ==
    ASSUME NEW b, NEW f, NEW i, NEW j, At(b, f, i, j)
    PROVE  /\ f \in FsT /\ Sane(f) /\ i \in Places /\ j \in Places /\ NULL \in Places
           /\ \A k \in Places : k # NULL => k \in Slots
  BY DEF At, Sane, Places

\* cmd_mk gives back what it takes.
LEMMA MkKeeps ==
    ASSUME NEW b, NEW f, At(b, f, NULL, NULL), MaxInodes \notin f.imap, NEW k \in Slots,
           NEW uid \in Uids, NEW name \in FileNames
    PROVE  At(b, cmd_mk(f, k, uid, name), NULL, NULL)
<1> DEFINE l == dir_lookup(f, k, name, "file")
           a == ialloc(l.fs, "file")
           o == Owned(a.fs, a.k, 1, uid, FALSE)
           d == dir_add(o, k, name, "file", a.fs.ic[a.k].inum)
<1>1. k \in Places /\ "file" \in Types /\ name \in AllNames /\ 1 \in LinkT
  <2>1. 1 \in LinkT
    BY Sizes DEF LinkT
  <2>2. QED
    BY <2>1 DEF Places, Types, AllNames
<1>2. At(b, l.fs, NULL, l.k) /\ l.fs.imap = f.imap
  BY <1>1, AtLookup
<1>3. cmd_mk(f, k, uid, name) = IF l.k # NULL THEN l.fs ELSE IF a.k = NULL THEN a.fs ELSE iput(d, a.k)
  BY DEF cmd_mk
<1> HIDE DEF l
<1>4. CASE l.k # NULL
  BY <1>2, <1>3, <1>4, AtLeak
<1>5. CASE l.k = NULL
  <2>1. At(b, a.fs, NULL, a.k)
    BY <1>1, <1>2, <1>5, AtAlloc
  <2> HIDE DEF a
  <2>2. CASE a.k = NULL
    BY <1>3, <1>5, <2>1, <2>2
  <2>3. CASE a.k # NULL
    <3>1. a.fs \in FsT /\ a.k \in Slots
      BY <2>1, <2>3, AtTypes
    <3>2. Quiet(a.fs, o) /\ a.fs.ic[a.k].inum \in Inums \cup {-1}
      BY <1>1, <3>1, OwnedStores, SlotTypes
    <3> HIDE DEF o
    <3>3. At(b, o, NULL, a.k)
      BY <2>1, <3>2, AtQuiet
    <3>4. Quiet(o, d)
      BY <1>1, <3>2, <3>3, DirAddQuiet, AtTypes
    <3>5. At(b, d, NULL, a.k)
      BY <3>3, <3>4, AtQuiet
    <3> HIDE DEF d
    <3>6. At(b, iput(d, a.k), NULL, NULL)
      BY <3>5, AtIput
    <3>7. QED
      BY <1>3, <1>5, <2>3, <3>6
  <2>4. QED
    BY <2>2, <2>3
<1>6. QED
  BY <1>4, <1>5

\* cmd_mkdir gives back what it takes.
LEMMA MkdirKeeps ==
    ASSUME NEW b, NEW f, At(b, f, NULL, NULL), MaxInodes \notin f.imap, NEW k \in Slots,
           NEW uid \in Uids, NEW name \in DirNames
    PROVE  At(b, cmd_mkdir(f, k, uid, name), NULL, NULL)
<1> DEFINE l == dir_lookup(f, k, name, "dir")
           a == ialloc(l.fs, "dir")
           o == NewDir(a.fs, a.k, uid, FALSE, a.fs.ic[k].inum)
           d == dir_add(o, k, name, "dir", a.fs.ic[a.k].inum)
<1>1. k \in Places /\ "dir" \in Types /\ name \in AllNames
  BY DEF Places, Types, AllNames
<1>2. At(b, l.fs, NULL, l.k) /\ l.fs.imap = f.imap
  BY <1>1, AtLookup
<1>3. cmd_mkdir(f, k, uid, name)
        = IF l.k # NULL THEN l.fs ELSE IF a.k = NULL THEN a.fs ELSE iput(d, a.k)
  BY DEF cmd_mkdir
<1> HIDE DEF l
<1>4. CASE l.k # NULL
  BY <1>2, <1>3, <1>4, AtLeak
<1>5. CASE l.k = NULL
  <2>1. At(b, a.fs, NULL, a.k)
    BY <1>1, <1>2, <1>5, AtAlloc
  <2> HIDE DEF a
  <2>2. CASE a.k = NULL
    BY <1>3, <1>5, <2>1, <2>2
  <2>3. CASE a.k # NULL
    <3>1. a.fs \in FsT /\ a.k \in Slots
      BY <2>1, <2>3, AtTypes
    <3>2. a.fs.ic[a.k].inum \in Inums \cup {-1} /\ a.fs.ic[k].inum \in Inums \cup {-1}
      BY <3>1, SlotTypes
    <3>3. Quiet(a.fs, o)
      BY <3>1, <3>2, NewDirQuiet
    <3> HIDE DEF o
    <3>4. At(b, o, NULL, a.k)
      BY <2>1, <3>3, AtQuiet, Zenon
    <3>5. Quiet(o, d)
      BY <1>1, <3>2, <3>4, DirAddQuiet, AtTypes
    <3>6. At(b, d, NULL, a.k)
      BY <3>4, <3>5, AtQuiet
    <3> HIDE DEF d
    <3>7. At(b, iput(d, a.k), NULL, NULL)
      BY <3>6, AtIput
    <3>8. QED
      BY <1>3, <1>5, <2>3, <3>7
  <2>4. QED
    BY <2>2, <2>3
<1>6. QED
  BY <1>4, <1>5

\* A slot that is to be put holds an inode.
LEMMA AtHeld ==
    ASSUME NEW b, NEW f, NEW i, NEW k \in Slots, At(b, f, i, k)
    PROVE  f.ic[k].inum # -1 /\ f.ic[k].ref > 0
<1>1. Sane(f) /\ b \in FsT /\ f \in FsT /\ Holds(b, f, i, k)
  BY DEF At, Sane
<1>2. Refs(f, k) >= Refs(b, k) + (IF k = i THEN 1 ELSE 0) + 1
  BY <1>1 DEF Holds
<1>3. Refs(b, k) \in Nat /\ Refs(f, k) \in Nat
  BY <1>1, SlotTypes
<1>4. f.ic[k].inum # -1
  BY <1>2, <1>3 DEF Refs
<1>5. QED
  BY <1>1, <1>4 DEF Sane

\* Links dropped in slot ip, and nothing else.
Relinked(g, ip, r) ==
    /\ r \in FsT /\ r.imap = g.imap /\ r.inode = g.inode /\ r.ents = g.ents
    /\ \A j \in Slots \ {ip} : r.ic[j] = g.ic[j]
    /\ r.ic[ip].inum = g.ic[ip].inum /\ r.ic[ip].ref = g.ic[ip].ref
    /\ r.ic[ip].ip.type = g.ic[ip].ip.type /\ r.ic[ip].ip.size = g.ic[ip].ip.size
    /\ r.ic[ip].ip.addrs = g.ic[ip].ip.addrs

\* Arithmetic of 16 bits.
LEMMA Short == \A y \in 0 .. USHORT - 1, z \in Nat : (y - z) % USHORT \in 0 .. USHORT - 1
<1>1. USHORT \in Nat /\ USHORT > 0
  BY Sizes
<1>2. \A v \in Int : v % USHORT \in 0 .. USHORT - 1
  BY <1>1
<1>3. \A y \in 0 .. USHORT - 1, z \in Nat : y - z \in Int
  BY <1>1
<1>4. QED
  BY <1>2, <1>3

\* The links wrap around, and stay those of an inode.
LEMMA Relinks ==
    ASSUME NEW g \in FsT, NEW ip \in Slots, NEW links \in Nat
    PROVE  Relinked(g, ip, [g EXCEPT !.ic[ip].ip.nlink = (g.ic[ip].ip.nlink - links) % USHORT])
<1> DEFINE m == (g.ic[ip].ip.nlink - links) % USHORT
           x == [g.ic[ip].ip EXCEPT !.nlink = m]
           r == [g EXCEPT !.ic[ip].ip.nlink = m]
<1>1. g.ic[ip].ip \in InodeT
  BY SlotTypes
<1> HIDE DEF m, x, r
<1>2. m \in 0 .. USHORT - 1
  <2>1. g.ic[ip].ip.nlink \in 0 .. USHORT - 1
    BY <1>1 DEF InodeT
  <2>2. QED
    BY <2>1, Short, Zenon DEF m
<1>3. x \in InodeT /\ x.type = g.ic[ip].ip.type /\ x.size = g.ic[ip].ip.size /\ x.addrs = g.ic[ip].ip.addrs
  BY <1>1, <1>2 DEF InodeT, x
<1>4. r = [g EXCEPT !.ic[ip].ip = x]
  BY Zenon DEF r, x
<1> DEFINE s == [inum |-> g.ic[ip].inum, ref |-> g.ic[ip].ref, ip |-> x]
<1>5. r = [g EXCEPT !.ic[ip] = s] /\ s \in SlotT
  BY <1>3, <1>4, SetIp, SlotTypes DEF SlotT
<1>6. s.inum = g.ic[ip].inum /\ s.ref = g.ic[ip].ref /\ s.ip = x
  OBVIOUS
<1> HIDE DEF s
<1>7. /\ r \in FsT /\ r.imap = g.imap /\ r.inode = g.inode /\ r.ents = g.ents /\ r.ic[ip] = s
      /\ \A j \in Slots \ {ip} : r.ic[j] = g.ic[j]
  BY <1>5, SetSlot
<1>8. Relinked(g, ip, r)
  BY <1>3, <1>6, <1>7 DEF Relinked
<1>9. QED
  BY <1>8 DEF r, m

\* The inode is put, with its links dropped if there was one of the entries m.
Unlinked(g, m, ip, u) ==
    \/ m = {} /\ u = iput(g, ip)
    \/ m # {} /\ \E r : Relinked(g, ip, r) /\ u = iput(r, ip)

\* An inode that somebody holds is not removed: Unlink has only dropped its links.
LEMMA UnlinkIs ==
    ASSUME NEW f, NEW k, NEW ip \in Slots, NEW name, NEW type, NEW links \in Nat,
           dir_remove(f, k, name, type) \in FsT, dir_remove(f, k, name, type).ic[ip].ref > 0
    PROVE  Unlinked(dir_remove(f, k, name, type), Removable(f, k, name, type), ip,
                    Unlink(f, k, ip, name, type, links))
<1> DEFINE g == dir_remove(f, k, name, type)
           r == [g EXCEPT !.ic[ip].ip.nlink = (g.ic[ip].ip.nlink - links) % USHORT]
           q == IF r.ic[ip].ip.nlink = 0 THEN iremove(r, ip) ELSE r
<1>1. Unlink(f, k, ip, name, type, links)
        = IF Removable(f, k, name, type) = {} THEN iput(g, ip) ELSE iput(q, ip)
  BY DEF Unlink
<1>2. g \in FsT /\ g.ic[ip].ref > 0
  OBVIOUS
<1> HIDE DEF g
<1>3. Relinked(g, ip, r)
  BY <1>2, Relinks
<1> HIDE DEF r
<1>4. r.ic[ip].ref # 0
  <2>1. r.ic[ip].ref = g.ic[ip].ref /\ g.ic[ip].ref \in Nat
    BY <1>2, <1>3, SlotTypes DEF Relinked
  <2>2. QED
    BY <1>2, <2>1
<1>5. q = r
  BY <1>4 DEF iremove
<1> HIDE DEF q
<1>6. QED
  BY <1>1, <1>3, <1>5 DEF g, Unlinked

\* Unlink puts the inode it is given.
LEMMA UnlinkKeeps ==
    ASSUME NEW b, NEW f, NEW k \in Slots, NEW ip \in Slots, At(b, f, NULL, ip), NEW name, NEW type,
           NEW links \in Nat
    PROVE  At(b, Unlink(f, k, ip, name, type, links), NULL, NULL)
<1> DEFINE g == dir_remove(f, k, name, type)
<1>1. Quiet(f, g)
  BY DirRemove, AtTypes DEF Dropped
<1>2. At(b, g, NULL, ip)
  BY <1>1, AtQuiet
<1>3. g \in FsT /\ g.ic[ip].ref > 0
  BY <1>2, AtTypes, AtHeld
<1>4. \/ Unlink(f, k, ip, name, type, links) = iput(g, ip)
      \/ \E r : Relinked(g, ip, r) /\ Unlink(f, k, ip, name, type, links) = iput(r, ip)
  <2>1. Unlinked(g, Removable(f, k, name, type), ip, Unlink(f, k, ip, name, type, links))
    BY <1>3, UnlinkIs
  <2>2. QED
    BY <2>1 DEF Unlinked
<1> HIDE DEF g
<1>5. CASE Unlink(f, k, ip, name, type, links) = iput(g, ip)
  BY <1>2, <1>5, AtIput
<1>6. ASSUME NEW r, Relinked(g, ip, r), Unlink(f, k, ip, name, type, links) = iput(r, ip)
      PROVE  At(b, Unlink(f, k, ip, name, type, links), NULL, NULL)
  <2>1. Still(g, r)
    BY <1>6 DEF Relinked, Still
  <2>2. QED
    BY <1>2, <1>6, <2>1, AtStill, AtIput
<1>7. QED
  BY <1>4, <1>5, <1>6

\* cmd_rm gives back what it takes.
LEMMA RmKeeps ==
    ASSUME NEW b, NEW f, At(b, f, NULL, NULL), NEW k \in Slots, NEW name
    PROVE  At(b, cmd_rm(f, k, name), NULL, NULL)
<1> DEFINE l == dir_lookup(f, k, name, "file")
<1>1. At(b, l.fs, NULL, l.k)
  BY AtLookup DEF Places
<1>2. cmd_rm(f, k, name) = IF l.k = NULL THEN l.fs ELSE Unlink(l.fs, k, l.k, name, "file", 1)
  BY DEF cmd_rm
<1> HIDE DEF l
<1>3. CASE l.k = NULL
  BY <1>1, <1>2, <1>3
<1>4. CASE l.k # NULL
  <2>1. l.k \in Slots
    BY <1>1, <1>4, AtTypes
  <2>2. At(b, Unlink(l.fs, k, l.k, name, "file", 1), NULL, NULL)
    BY <1>1, <2>1, UnlinkKeeps
  <2>3. QED
    BY <1>2, <1>4, <2>2
<1>5. QED
  BY <1>3, <1>4

\* cmd_rmdir gives back what it takes.
LEMMA RmdirKeeps ==
    ASSUME NEW b, NEW f, At(b, f, NULL, NULL), NEW k \in Slots, NEW name
    PROVE  At(b, cmd_rmdir(f, k, name), NULL, NULL)
<1> DEFINE l == dir_lookup(f, k, name, "dir")
           g == Scanned(l.fs, l.k)
<1>1. At(b, l.fs, NULL, l.k)
  BY AtLookup DEF Places
<1>2. cmd_rmdir(f, k, name) =
        IF l.k = NULL THEN l.fs
        ELSE IF ~dir_is_empty(g, l.k) THEN iput(g, l.k)
        ELSE Unlink(g, k, l.k, name, "dir", 2)
  BY DEF cmd_rmdir
<1> HIDE DEF l
<1>3. CASE l.k = NULL
  BY <1>1, <1>2, <1>3
<1>4. CASE l.k # NULL
  <2>1. l.k \in Slots /\ l.fs \in FsT
    BY <1>1, <1>4, AtTypes
  <2>2. At(b, g, NULL, l.k)
    BY <1>1, <2>1, ScannedSweeps, AtQuiet
  <2> HIDE DEF g
  <2>3. At(b, Unlink(g, k, l.k, name, "dir", 2), NULL, NULL)
    BY <2>1, <2>2, UnlinkKeeps
  <2>4. At(b, iput(g, l.k), NULL, NULL)
    BY <2>2, AtIput
  <2>5. QED
    BY <1>2, <1>4, <2>3, <2>4
<1>5. QED
  BY <1>3, <1>4

\* get_home_root keeps no slot but the one it returns.
LEMMA HomeKeeps ==
    ASSUME NEW b, NEW f, At(b, f, NULL, NULL)
    PROVE  At(b, get_home_root(f).fs, NULL, get_home_root(f).k) /\ get_home_root(f).fs.imap = f.imap
<1> DEFINE r == iget(f, ROOT_INUM)
           l == dir_lookup(r.fs, r.k, "home", "dir")
<1>1. At(b, r.fs, NULL, r.k) /\ r.fs.imap = f.imap
  BY AtIget, Sizes
<1>2. At(b, r.fs, r.k, NULL) /\ r.k \in Places
  BY <1>1, AtSwap, AtTypes
<1>3. get_home_root(f).fs = iput(l.fs, r.k) /\ get_home_root(f).k = l.k
  BY DEF get_home_root, Found
<1> HIDE DEF r
<1>4. At(b, l.fs, r.k, l.k) /\ l.fs.imap = r.fs.imap
  BY <1>2, AtLookup
<1>5. At(b, l.fs, l.k, r.k)
  BY <1>4, AtSwap
<1> HIDE DEF l
<1>6. At(b, iput(l.fs, r.k), l.k, NULL) /\ iput(l.fs, r.k).imap = l.fs.imap
  BY <1>5, AtIput
<1>7. At(b, iput(l.fs, r.k), NULL, l.k)
  BY <1>6, AtSwap
<1>8. QED
  BY <1>1, <1>3, <1>4, <1>6, <1>7

\* CreateHome keeps no slot but the one it returns.
LEMMA CreateHomeKeeps ==
    ASSUME NEW b, NEW f, At(b, f, NULL, NULL), MaxInodes \notin f.imap
    PROVE  /\ At(b, CreateHome(f).fs, NULL, CreateHome(f).k)
           /\ CreateHome(f).k # NULL => MaxInodes \notin CreateHome(f).fs.imap
<1> DEFINE r == iget(f, ROOT_INUM)
           a == ialloc(r.fs, "dir")
           n == a.fs.ic[a.k].inum
           d == dir_add(a.fs, r.k, "home", "dir", n)
           e == NewDir(d, a.k, "root", TRUE, ROOT_INUM)
           h == iput(e, a.k)
           c == iput(h, r.k)
<1>1. At(b, r.fs, NULL, r.k) /\ r.fs.imap = f.imap
  BY AtIget, Sizes
<1>2. At(b, r.fs, r.k, NULL) /\ r.k \in Places
  BY <1>1, AtSwap, AtTypes
<1>3. CreateHome(f) = IF a.k = NULL THEN Found(iput(a.fs, r.k), NULL) ELSE get_home_root(c)
  BY DEF CreateHome
<1> HIDE DEF r
<1>4. "dir" \in Types /\ "home" \in AllNames /\ "root" \in Uids /\ ROOT_INUM \in Inums \cup {-1}
  BY Sizes DEF Types, AllNames, Uids
<1>5. At(b, a.fs, r.k, a.k) /\ (a.k # NULL => MaxInodes \notin a.fs.imap)
  BY <1>1, <1>2, <1>4, AtAlloc
<1> HIDE DEF a
<1>6. At(b, a.fs, a.k, r.k)
  BY <1>5, AtSwap
<1>7. CASE a.k = NULL
  <2>1. At(b, iput(a.fs, r.k), NULL, NULL)
    BY <1>6, <1>7, AtIput
  <2>2. CreateHome(f).fs = iput(a.fs, r.k) /\ CreateHome(f).k = NULL
    BY <1>3, <1>7 DEF Found
  <2>3. QED
    BY <2>1, <2>2
<1>8. CASE a.k # NULL
  <2>1. a.fs \in FsT /\ a.k \in Slots
    BY <1>5, <1>8, AtTypes
  <2>2. n \in Inums \cup {-1}
    BY <2>1, SlotTypes
  <2> HIDE DEF n
  <2>3. Quiet(a.fs, d)
    BY <1>2, <1>4, <2>1, <2>2, DirAddQuiet
  <2>4. At(b, d, r.k, a.k) /\ d.imap = a.fs.imap
    BY <1>5, <2>3, AtQuiet
  <2>5. d \in FsT
    BY <2>4, AtTypes
  <2> HIDE DEF d
  <2>6. Quiet(d, e)
    BY <1>4, <2>1, <2>5, NewDirQuiet
  <2> HIDE DEF e
  <2>7. At(b, e, r.k, a.k) /\ e.imap = d.imap
    BY <2>4, <2>6, AtQuiet
  <2>8. At(b, h, r.k, NULL) /\ h.imap = e.imap
    BY <2>7, AtIput
  <2> HIDE DEF h
  <2>9. At(b, h, NULL, r.k)
    BY <2>8, AtSwap
  <2>10. At(b, c, NULL, NULL) /\ c.imap = h.imap
    BY <2>9, AtIput
  <2> HIDE DEF c
  <2>11. At(b, get_home_root(c).fs, NULL, get_home_root(c).k) /\ get_home_root(c).fs.imap = c.imap
    BY <2>10, HomeKeeps
  <2>12. QED
    BY <1>3, <1>5, <1>8, <2>4, <2>7, <2>8, <2>10, <2>11
<1>9. QED
  BY <1>7, <1>8

\* HomeRoot keeps no slot but the one it returns.
LEMMA HomeRootKeeps ==
    ASSUME NEW b, NEW f, At(b, f, NULL, NULL), MaxInodes \notin f.imap
    PROVE  LET h == HomeRoot(get_home_root(f))
           IN  At(b, h.fs, NULL, h.k) /\ (h.k # NULL => MaxInodes \notin h.fs.imap)
<1> DEFINE g == get_home_root(f)
           h == HomeRoot(g)
<1>1. At(b, g.fs, NULL, g.k) /\ g.fs.imap = f.imap
  BY HomeKeeps
<1>2. h = IF g.k # NULL THEN g ELSE CreateHome(g.fs)
  BY DEF HomeRoot
<1> HIDE DEF g, h
<1>3. ASSUME g.k # NULL
      PROVE  At(b, h.fs, NULL, h.k) /\ (h.k # NULL => MaxInodes \notin h.fs.imap)
  BY <1>1, <1>2, <1>3
<1>4. ASSUME g.k = NULL
      PROVE  At(b, h.fs, NULL, h.k) /\ (h.k # NULL => MaxInodes \notin h.fs.imap)
  <2>1. /\ At(b, CreateHome(g.fs).fs, NULL, CreateHome(g.fs).k)
        /\ CreateHome(g.fs).k # NULL => MaxInodes \notin CreateHome(g.fs).fs.imap
    BY <1>1, <1>4, CreateHomeKeeps
  <2>2. QED
    BY <1>2, <1>4, <2>1
<1>5. QED
  BY <1>3, <1>4 DEF g, h

\* AddUserDir puts the slot it is given.
LEMMA AddUserDirKeeps ==
    ASSUME NEW b, NEW h, At(b, h.fs, NULL, h.k), h.k # NULL => MaxInodes \notin h.fs.imap,
           NEW u \in Users
    PROVE  At(b, AddUserDir(h, u), NULL, NULL)
<1> DEFINE l == dir_lookup(h.fs, h.k, u, "dir")
           a == ialloc(l.fs, "dir")
           o == NewDir(a.fs, a.k, u, FALSE, a.fs.ic[h.k].inum)
           d == dir_add(o, h.k, u, "dir", a.fs.ic[a.k].inum)
           e == iput(d, a.k)
<1>1. "dir" \in Types /\ u \in AllNames /\ u \in Uids /\ h.k \in Places
  BY AtTypes DEF Types, AllNames, Uids
<1>2. At(b, h.fs, h.k, NULL)
  BY AtSwap
<1>3. AddUserDir(h, u) = IF h.k = NULL THEN h.fs ELSE IF l.k # NULL THEN iput(l.fs, h.k)
                         ELSE IF a.k = NULL THEN iput(a.fs, h.k) ELSE iput(e, h.k)
  BY DEF AddUserDir
<1>4. At(b, l.fs, h.k, l.k) /\ l.fs.imap = h.fs.imap
  BY <1>1, <1>2, AtLookup
<1> HIDE DEF l
<1>5. CASE h.k = NULL
  BY <1>3, <1>5
<1>6. CASE h.k # NULL /\ l.k # NULL
  <2>1. At(b, l.fs, NULL, h.k)
    BY <1>4, AtLeak, AtSwap
  <2>2. At(b, iput(l.fs, h.k), NULL, NULL)
    BY <2>1, AtIput
  <2>3. QED
    BY <1>3, <1>6, <2>2
<1>7. CASE h.k # NULL /\ l.k = NULL
  <2>1. At(b, a.fs, h.k, a.k)
    BY <1>1, <1>4, <1>7, AtAlloc
  <2> HIDE DEF a
  <2>2. CASE a.k = NULL
    <3>1. At(b, a.fs, NULL, h.k)
      BY <2>1, <2>2, AtSwap
    <3>2. At(b, iput(a.fs, h.k), NULL, NULL)
      BY <3>1, AtIput
    <3>3. QED
      BY <1>3, <1>7, <2>2, <3>2
  <2>3. CASE a.k # NULL
    <3>1. a.fs \in FsT /\ a.k \in Slots /\ h.k \in Slots
      BY <1>7, <2>1, <2>3, AtTypes
    <3>2. a.fs.ic[a.k].inum \in Inums \cup {-1} /\ a.fs.ic[h.k].inum \in Inums \cup {-1}
      BY <3>1, SlotTypes
    <3>3. Quiet(a.fs, o)
      BY <1>1, <3>1, <3>2, NewDirQuiet
    <3> HIDE DEF o
    <3>4. At(b, o, h.k, a.k)
      BY <2>1, <3>3, AtQuiet
    <3>5. Quiet(o, d)
      BY <1>1, <3>2, <3>4, DirAddQuiet, AtTypes
    <3> HIDE DEF d
    <3>6. At(b, d, h.k, a.k)
      BY <3>4, <3>5, AtQuiet
    <3>7. At(b, e, h.k, NULL)
      BY <3>6, AtIput
    <3> HIDE DEF e
    <3>8. At(b, e, NULL, h.k)
      BY <3>7, AtSwap
    <3>9. At(b, iput(e, h.k), NULL, NULL)
      BY <3>8, AtIput
    <3>10. QED
      BY <1>3, <1>7, <2>3, <3>9
  <2>4. QED
    BY <2>2, <2>3
<1>8. QED
  BY <1>5, <1>6, <1>7

\* user_add gives back what it takes.
LEMMA UserAddKeeps ==
    ASSUME NEW b, NEW f, At(b, f, NULL, NULL), MaxInodes \notin f.imap, NEW u \in Users
    PROVE  At(b, user_add(f, u), NULL, NULL)
<1> DEFINE h == HomeRoot(get_home_root(f))
<1>1. At(b, h.fs, NULL, h.k) /\ (h.k # NULL => MaxInodes \notin h.fs.imap)
  BY HomeRootKeeps
<1>2. user_add(f, u) = AddUserDir(h, u)
  BY DEF user_add
<1> HIDE DEF h
<1>3. QED
  BY <1>1, <1>2, AddUserDirKeeps

\* user_delete gives back what it takes.
LEMMA UserDeleteKeeps ==
    ASSUME NEW b, NEW f, At(b, f, NULL, NULL), NEW u
    PROVE  At(b, user_delete(f, u), NULL, NULL)
<1> DEFINE h == get_home_root(f)
           l == dir_lookup(h.fs, h.k, u, "dir")
           e == Scanned(l.fs, l.k)
           r == dir_remove(e, h.k, u, "dir")
           g == IF dir_is_empty(e, l.k) THEN r ELSE e
<1>1. At(b, h.fs, NULL, h.k)
  BY HomeKeeps
<1>2. user_delete(f, u) = IF h.k = NULL THEN h.fs ELSE IF l.k = NULL THEN iput(l.fs, h.k)
                          ELSE iput(iput(g, l.k), h.k)
  BY DEF user_delete
<1> HIDE DEF h
<1>3. At(b, h.fs, h.k, NULL) /\ h.k \in Places
  BY <1>1, AtSwap, AtTypes
<1>4. At(b, l.fs, h.k, l.k)
  BY <1>3, AtLookup
<1> HIDE DEF l
<1>5. CASE h.k = NULL
  BY <1>1, <1>2, <1>5
<1>6. CASE h.k # NULL /\ l.k = NULL
  <2>1. At(b, l.fs, NULL, h.k)
    BY <1>4, <1>6, AtSwap
  <2>2. At(b, iput(l.fs, h.k), NULL, NULL)
    BY <2>1, AtIput
  <2>3. QED
    BY <1>2, <1>6, <2>2
<1>7. CASE h.k # NULL /\ l.k # NULL
  <2>1. l.fs \in FsT /\ l.k \in Slots /\ h.k \in Slots
    BY <1>4, <1>7, AtTypes
  <2>2. At(b, e, h.k, l.k)
    BY <1>4, <2>1, ScannedSweeps, AtQuiet
  <2> HIDE DEF e
  <2>3. e \in FsT
    BY <2>2, AtTypes
  <2>4. Quiet(e, r)
    BY <2>1, <2>3, DirRemove DEF Dropped
  <2> HIDE DEF r
  <2>5. At(b, r, h.k, l.k)
    BY <2>2, <2>4, AtQuiet
  <2>6. At(b, g, h.k, l.k)
    BY <2>2, <2>5
  <2> HIDE DEF g
  <2>7. At(b, iput(g, l.k), h.k, NULL)
    BY <2>6, AtIput
  <2>8. At(b, iput(g, l.k), NULL, h.k)
    BY <2>7, AtSwap
  <2>9. At(b, iput(iput(g, l.k), h.k), NULL, NULL)
    BY <2>8, AtIput
  <2>10. QED
    BY <1>2, <1>7, <2>9
<1>8. QED
  BY <1>5, <1>6, <1>7

\* UserDir puts the slot it is given and keeps the one it returns.
LEMMA UserDirKeeps ==
    ASSUME NEW b, NEW h, At(b, h.fs, NULL, h.k), NEW u
    PROVE  At(b, UserDir(h, u).fs, NULL, UserDir(h, u).k) /\ UserDir(h, u).fs.imap = h.fs.imap
<1> DEFINE l == dir_lookup(h.fs, h.k, u, "dir")
<1>1. At(b, h.fs, h.k, NULL) /\ h.k \in Places
  BY AtSwap, AtTypes
<1>2. UserDir(h, u).fs = iput(l.fs, h.k) /\ UserDir(h, u).k = l.k
  BY DEF UserDir, Found
<1>3. At(b, l.fs, h.k, l.k) /\ l.fs.imap = h.fs.imap
  BY <1>1, AtLookup
<1> HIDE DEF l
<1>4. At(b, l.fs, l.k, h.k)
  BY <1>3, AtSwap
<1>5. At(b, iput(l.fs, h.k), l.k, NULL) /\ iput(l.fs, h.k).imap = l.fs.imap
  BY <1>4, AtIput
<1>6. At(b, iput(l.fs, h.k), NULL, l.k)
  BY <1>5, AtSwap
<1>7. QED
  BY <1>2, <1>3, <1>5, <1>6

\* The directory that user_login finds, made if it was missing.
LEMMA FirstLoginKeeps ==
    ASSUME NEW b, NEW f, At(b, f, NULL, NULL), MaxInodes \notin f.imap, NEW u \in Users
    PROVE  LET h == get_home_root(f)
               l == FirstLogin(h, UserDir(h, u), u)
           IN  At(b, l.fs, NULL, l.k)
<1> DEFINE h == get_home_root(f)
           d == UserDir(h, u)
           l == FirstLogin(h, d, u)
           a == user_add(d.fs, u)
           g == get_home_root(a)
<1>1. At(b, h.fs, NULL, h.k) /\ h.fs.imap = f.imap
  BY HomeKeeps
<1> HIDE DEF h
<1>2. At(b, d.fs, NULL, d.k) /\ d.fs.imap = f.imap
  BY <1>1, UserDirKeeps
<1>3. l = IF h.k = NULL \/ d.k # NULL THEN d ELSE UserDir(g, u)
  BY DEF FirstLogin
<1> HIDE DEF d
<1>4. CASE h.k = NULL \/ d.k # NULL
  BY <1>2, <1>3, <1>4 DEF h, d
<1>5. CASE ~(h.k = NULL \/ d.k # NULL)
  <2>1. At(b, a, NULL, NULL)
    BY <1>2, <1>5, UserAddKeeps
  <2> HIDE DEF a
  <2>2. At(b, g.fs, NULL, g.k)
    BY <2>1, HomeKeeps
  <2> HIDE DEF g
  <2>3. At(b, UserDir(g, u).fs, NULL, UserDir(g, u).k)
    BY <2>2, UserDirKeeps
  <2>4. l = UserDir(g, u)
    BY <1>3, <1>5
  <2>5. QED
    BY <2>3, <2>4 DEF h, d
<1>6. QED
  BY <1>4, <1>5

-----------------------------------------------------------------------------
(* What changes hands: the cache emptied, a session that moves *)

\* A cache whose slots are all free.
Emptied(f) == [f EXCEPT !.ic = [k \in Slots |-> FreeSlot]]

\* A command may go on from a slot that its base holds.
LEMMA AtRebase ==
    ASSUME NEW b, NEW f, NEW i, At(b, f, i, NULL), NEW k \in Slots, b.ic[k].inum # -1
    PROVE  At(Emptied(f), f, i, k)
<1> DEFINE e == Emptied(f)
<1>1. /\ b \in FsT /\ f \in FsT /\ Sane(b) /\ Sane(f) /\ Holds(b, f, i, NULL) /\ i \in Places
      /\ k \in Places /\ NULL \notin Slots
  BY Sizes DEF At, Sane, Places
<1>2. e \in FsT /\ \A j \in Slots : e.ic[j] = FreeSlot
  BY <1>1, Constants DEF FsT, Emptied
<1> HIDE DEF e
<1>3. \A j \in Slots : e.ic[j].inum = -1 /\ Refs(e, j) = 0
  BY <1>2 DEF FreeSlot, Refs
<1>4. Sane(e)
  BY <1>2, <1>3 DEF Sane
<1>5. Refs(b, k) > 0
  BY <1>1 DEF Refs, Sane
<1>6. ASSUME NEW j \in Slots
      PROVE  Refs(f, j) >= 0 + (IF j = i THEN 1 ELSE 0) + (IF j = k THEN 1 ELSE 0)
  <2>1. Refs(f, j) >= Refs(b, j) + (IF j = i THEN 1 ELSE 0) + 0
    BY <1>1 DEF Holds
  <2>2. Refs(b, j) \in Nat /\ Refs(f, j) \in Nat
    BY <1>1, SlotTypes
  <2>3. QED
    BY <1>5, <2>1, <2>2
<1>7. Holds(e, f, i, k)
  BY <1>3, <1>6 DEF Holds
<1>8. QED
  BY <1>1, <1>4, <1>7 DEF At, e

\* What the base holds is still held.
LEMMA AtEnd ==
    ASSUME NEW b, NEW f, NEW i, NEW j, At(b, f, i, j), NEW k \in Slots, b.ic[k].inum # -1
    PROVE  f.ic[k].inum = b.ic[k].inum /\ f.ic[k].ref > 0
  BY DEF At, Holds, Sane

\* iput, whoever holds the slot.
LEMMA SanePut ==
    ASSUME NEW f, Sane(f), NEW k \in Places
    PROVE  Sane(iput(f, k))
<1> DEFINE g == iput(f, k)
<1>1. f \in FsT
  BY DEF Sane
<1>2. Put(f, k, g)
  BY <1>1, Iput
<1> HIDE DEF g
<1>3. g \in FsT /\ \A j \in Slots : j # k => g.ic[j] = f.ic[j]
  BY <1>2 DEF Put
<1>4. CASE k = NULL
  <2>1. \A j \in Slots : g.ic[j] = f.ic[j]
    BY <1>3, <1>4, Sizes
  <2>2. QED
    BY <1>3, <2>1 DEF Sane, g
<1>5. CASE k # NULL
  <2>1. k \in Slots /\ f.ic[k].ref \in Nat
    BY <1>1, <1>5, SlotTypes DEF Places
  <2>2. g.ic[k].inum = -1 \/ (g.ic[k].inum = f.ic[k].inum /\ g.ic[k].ref > 0)
    <3>1. CASE f.ic[k].ref > 1
      <4>1. g.ic[k].inum = f.ic[k].inum /\ g.ic[k].ref = f.ic[k].ref - 1
        BY <1>2, <1>5, <3>1 DEF Put
      <4>2. QED
        BY <2>1, <3>1, <4>1
    <3>2. CASE f.ic[k].ref <= 1
      BY <1>2, <1>5, <3>2 DEF Put, FreeSlot
    <3>3. QED
      BY <2>1, <3>1, <3>2
  <2>3. \A j \in Slots : g.ic[j].inum = -1 \/ (g.ic[j].inum = f.ic[j].inum /\ g.ic[j].ref > 0)
    BY <1>3, <2>2 DEF Sane
  <2>4. QED
    BY <1>3, <2>3 DEF Sane, g
<1>6. QED
  BY <1>4, <1>5

\* init_inode_cache frees every slot.
LEMMA InitCache ==
    ASSUME NEW f \in FsT
    PROVE  LET e == init_inode_cache(f)
           IN  /\ Sane(e) /\ e.imap = f.imap /\ e.inode = f.inode /\ e.ents = f.ents
               /\ \A k \in Slots : e.ic[k].inum = -1
<1> DEFINE s(k) == IF \E c \in Sessions : session[c].cwd = k
                   THEN [f.ic[k] EXCEPT !.inum = -1] ELSE FreeSlot
           e == init_inode_cache(f)
<1>1. e = [f EXCEPT !.ic = [k \in Slots |-> s(k)]]
  BY DEF init_inode_cache
<1>2. ASSUME NEW k \in Slots PROVE s(k) \in SlotT /\ s(k).inum = -1
  <2>1. f.ic[k] \in SlotT
    BY DEF FsT
  <2>2. [f.ic[k] EXCEPT !.inum = -1] \in SlotT /\ [f.ic[k] EXCEPT !.inum = -1].inum = -1
    BY <2>1 DEF SlotT
  <2>3. FreeSlot.inum = -1
    BY DEF FreeSlot
  <2>4. QED
    BY <2>2, <2>3, Constants
<1> HIDE DEF s, e
<1>3. [k \in Slots |-> s(k)] \in [Slots -> SlotT]
  BY <1>2
<1>4. /\ e \in FsT /\ e.imap = f.imap /\ e.inode = f.inode /\ e.ents = f.ents
      /\ \A k \in Slots : e.ic[k].inum = -1
  BY <1>1, <1>2, <1>3 DEF FsT
<1>5. Sane(e)
  BY <1>4 DEF Sane
<1>6. QED
  BY <1>4, <1>5 DEF e

\* The empty file system that Formatted starts from, and its root directory.
Cleared(f) == init_inode_cache([f EXCEPT !.imap = {},
                 !.inode = [n \in Inums |-> NoInode], !.ents = [n \in Inums |-> <<>>]])

\* It has no inode allocated, no slot in use and no entry.
LEMMA ClearedIs ==
    ASSUME NEW f \in FsT
    PROVE  /\ Sane(Cleared(f)) /\ Cleared(f).imap = {} /\ \A k \in Slots : Cleared(f).ic[k].inum = -1
           /\ \A n \in Inums : Cleared(f).inode[n] = NoInode /\ Cleared(f).ents[n] = <<>>
<1> DEFINE g == [f EXCEPT !.imap = {},
                 !.inode = [n \in Inums |-> NoInode], !.ents = [n \in Inums |-> <<>>]]
<1>1. /\ [n \in Inums |-> NoInode] \in [Inums -> InodeT]
      /\ [n \in Inums |-> <<>>] \in [Inums -> Seq(EntryT)]
  BY Constants
<1>2. g \in FsT /\ g.imap = {} /\ \A n \in Inums : g.inode[n] = NoInode /\ g.ents[n] = <<>>
  BY <1>1 DEF FsT
<1>3. Cleared(f) = init_inode_cache(g)
  BY DEF Cleared
<1> HIDE DEF g
<1>4. /\ Sane(Cleared(f)) /\ Cleared(f).imap = g.imap
      /\ Cleared(f).inode = g.inode /\ Cleared(f).ents = g.ents
      /\ \A k \in Slots : Cleared(f).ic[k].inum = -1
  BY <1>2, <1>3, InitCache
<1>5. QED
  BY <1>2, <1>4

\* The first inode of an empty file system is the root directory's, in a slot.
LEMMA RootMade ==
    ASSUME NEW e, Sane(e), e.imap = {}, \A k \in Slots : e.ic[k].inum = -1
    PROVE  LET a == ialloc(e, "dir")
           IN  /\ \E h \in FsT : Made(e, "dir", ROOT_INUM, h) /\ a = iget(h, ROOT_INUM)
                                 /\ Got(h, ROOT_INUM, a.fs, a.k)
               /\ a.k \in Slots /\ a.fs.ic[a.k].inum = ROOT_INUM
               /\ At(e, a.fs, NULL, a.k) /\ MaxInodes \notin a.fs.imap
<1> DEFINE a == ialloc(e, "dir")
<1>1. e \in FsT /\ MaxInodes \notin e.imap /\ "dir" \in Types
  BY DEF Sane, Types
<1>2. \/ \E n \in Inums, h \in FsT : Made(e, "dir", n, h) /\ a = iget(h, n)
      \/ Inums \subseteq e.imap
  BY <1>1, AllocIs
<1>3. At(e, e, NULL, NULL)
  BY AtStart
<1>4. At(e, a.fs, NULL, a.k) /\ (a.k # NULL => MaxInodes \notin a.fs.imap)
  BY <1>1, <1>3, AtAlloc
<1> HIDE DEF a
<1>5. PICK n \in Inums, h \in FsT : Made(e, "dir", n, h) /\ a = iget(h, n)
  BY <1>2, Sizes
<1>6. n = ROOT_INUM
  BY <1>5, Sizes DEF Made
<1>7. Got(h, n, a.fs, a.k) /\ h.ic = e.ic
  BY <1>5, Iget DEF Made
<1>8. 1 \in Slots
  BY Sizes DEF Slots
<1>9. a.k # NULL /\ a.k \in Slots
  BY <1>7, <1>8 DEF Got, Places
<1>10. a.fs.ic[a.k].inum = ROOT_INUM
  BY <1>6, <1>7, <1>9 DEF Got
<1>11. QED
  BY <1>4, <1>5, <1>6, <1>7, <1>9, <1>10 DEF a

\* After a format the session's directory is the root directory, in a slot.
LEMMA FormattedIs ==
    ASSUME NEW f \in FsT
    PROVE  LET r == Formatted(f)
           IN  Sane(r.fs) /\ r.k \in Slots /\ r.fs.ic[r.k].inum = ROOT_INUM /\ r.fs.ic[r.k].ref > 0
<1> DEFINE e == Cleared(f)
           r == ialloc(e, "dir")
           o == Owned(r.fs, r.k, 1, "root", TRUE)
           d == dir_add(o, r.k, ".", "dir", ROOT_INUM)
           h == CreateHome(d)
           g == iput(h.fs, h.k)
<1>1. Formatted(f).fs = g /\ Formatted(f).k = r.k
  BY DEF Formatted, Found, Cleared
<1>2. Sane(e) /\ e.imap = {} /\ \A k \in Slots : e.ic[k].inum = -1
  BY ClearedIs
<1> HIDE DEF e
<1>3. /\ r.k \in Slots /\ r.fs.ic[r.k].inum = ROOT_INUM
      /\ At(e, r.fs, NULL, r.k) /\ MaxInodes \notin r.fs.imap
  BY <1>2, RootMade
<1> HIDE DEF r
<1>4. "dir" \in Types /\ "." \in AllNames /\ "root" \in Uids /\ ROOT_INUM \in Inums \cup {-1}
  BY Sizes DEF Types, AllNames, Uids
<1>5. 1 \in LinkT /\ r.k \in Places
  BY <1>3, Sizes DEF LinkT, Places
<1>6. r.fs \in FsT
  BY <1>3, AtTypes
<1>7. Quiet(r.fs, o)
  BY <1>3, <1>4, <1>5, <1>6, OwnedStores
<1> HIDE DEF o
<1>8. o \in FsT
  BY <1>7 DEF Quiet, Still
<1>9. Quiet(o, d)
  BY <1>4, <1>5, <1>8, DirAddQuiet
<1> HIDE DEF d
<1>10. At(e, d, NULL, r.k) /\ d.imap = r.fs.imap
  BY <1>3, <1>7, <1>9, AtQuiet
<1>11. d.ic[r.k].inum = ROOT_INUM
  BY <1>3, <1>7, <1>9 DEF Quiet, Still
<1>12. At(d, d, NULL, NULL)
  BY <1>10, AtStart, AtTypes
<1>13. At(d, h.fs, NULL, h.k)
  BY <1>3, <1>10, <1>12, CreateHomeKeeps
<1> HIDE DEF h
<1>14. At(d, g, NULL, NULL)
  BY <1>13, AtIput
<1> HIDE DEF g
<1>15. ROOT_INUM # -1
  BY Sizes
<1>16. g.ic[r.k].inum = ROOT_INUM /\ g.ic[r.k].ref > 0 /\ Sane(g)
  BY <1>3, <1>11, <1>14, <1>15, AtEnd, AtTypes
<1>17. QED
  BY <1>1, <1>3, <1>16

\* The inode that cmd_cd goes to.
CdTarget(f, k, name) ==
    LET p == iget(f, f.ic[k].inum)
    IN  IF name = "." THEN p
        ELSE LET l == dir_lookup(p.fs, p.k, name, "dir") IN Found(iput(l.fs, p.k), l.k)

\* cmd_cd holds that inode before it gives the other one up.
LEMMA CdIs ==
    ASSUME NEW b, NEW f, At(b, f, NULL, NULL), NEW k \in Slots, NEW name
    PROVE  /\ At(b, CdTarget(f, k, name).fs, NULL, CdTarget(f, k, name).k)
           /\ CdTarget(f, k, name).k = NULL =>
                cmd_cd(f, k, name).fs = CdTarget(f, k, name).fs /\ cmd_cd(f, k, name).k = k
           /\ CdTarget(f, k, name).k # NULL =>
                /\ cmd_cd(f, k, name).fs = iput(CdTarget(f, k, name).fs, k)
                /\ cmd_cd(f, k, name).k = CdTarget(f, k, name).k
<1> DEFINE p == iget(f, f.ic[k].inum)
           l == dir_lookup(p.fs, p.k, name, "dir")
           t == CdTarget(f, k, name)
<1>1. cmd_cd(f, k, name) = IF t.k = NULL THEN Found(t.fs, k) ELSE Found(iput(t.fs, k), t.k)
  BY DEF cmd_cd, CdTarget
<1>2. t = IF name = "." THEN p ELSE Found(iput(l.fs, p.k), l.k)
  BY DEF CdTarget
<1>3. f.ic[k].inum \in Inums \cup {-1}
  BY AtTypes, SlotTypes
<1>4. At(b, p.fs, NULL, p.k)
  BY <1>3, AtIget
<1> HIDE DEF p
<1>5. At(b, p.fs, p.k, NULL) /\ p.k \in Places
  BY <1>4, AtSwap, AtTypes
<1>6. At(b, l.fs, p.k, l.k)
  BY <1>5, AtLookup
<1> HIDE DEF l
<1>7. At(b, iput(l.fs, p.k), l.k, NULL)
  BY <1>6, AtSwap, AtIput
<1>8. At(b, iput(l.fs, p.k), NULL, l.k)
  BY <1>7, AtSwap
<1>9. CASE name = "."
  BY <1>1, <1>2, <1>4, <1>9 DEF Found
<1>10. CASE name # "."
  <2>1. t.fs = iput(l.fs, p.k) /\ t.k = l.k
    BY <1>2, <1>10 DEF Found
  <2>2. At(b, t.fs, NULL, t.k)
    BY <1>8, <2>1
  <2> HIDE DEF t
  <2>3. QED
    BY <1>1, <2>2 DEF Found, t
<1>11. QED
  BY <1>9, <1>10

\* Wherever cmd_cd goes, the cache stays as it should be.
LEMMA CdSane ==
    ASSUME NEW b, NEW f, At(b, f, NULL, NULL), NEW k \in Slots, NEW name
    PROVE  Sane(cmd_cd(f, k, name).fs) /\ cmd_cd(f, k, name).k \in Slots
<1> DEFINE t == CdTarget(f, k, name)
           r == cmd_cd(f, k, name)
<1>1. /\ At(b, t.fs, NULL, t.k) /\ (t.k = NULL => r.fs = t.fs /\ r.k = k)
      /\ (t.k # NULL => r.fs = iput(t.fs, k) /\ r.k = t.k)
  BY CdIs
<1> HIDE DEF t, r
<1>2. Sane(t.fs) /\ t.k \in Places /\ k \in Places /\ (t.k # NULL => t.k \in Slots)
  BY <1>1, AtTypes DEF Places
<1>3. Sane(iput(t.fs, k))
  BY <1>2, SanePut
<1>4. QED
  BY <1>1, <1>2, <1>3 DEF r

\* A session that holds the slot it leaves holds the one it moves to.
LEMMA CdHolds ==
    ASSUME NEW b, NEW f, At(b, f, NULL, NULL), NEW k \in Slots, b.ic[k].inum # -1, NEW name,
           CdTarget(f, k, name).k # NULL
    PROVE  LET r == cmd_cd(f, k, name)
               t == CdTarget(f, k, name)
           IN  r.k = t.k /\ r.fs.ic[r.k].inum = t.fs.ic[t.k].inum /\ r.fs.ic[r.k].ref > 0
<1> DEFINE t == CdTarget(f, k, name)
           r == cmd_cd(f, k, name)
           x == Emptied(t.fs)
<1>1. At(b, t.fs, NULL, t.k) /\ r.fs = iput(t.fs, k) /\ r.k = t.k /\ t.k # NULL
  BY CdIs
<1> HIDE DEF t, r
<1>2. At(b, t.fs, t.k, NULL) /\ t.k \in Slots
  BY <1>1, AtSwap, AtTypes
<1>3. At(x, t.fs, t.k, k)
  BY <1>2, AtRebase
<1> HIDE DEF x
<1>4. At(x, iput(t.fs, k), t.k, NULL) /\ iput(t.fs, k).ic[t.k].inum = t.fs.ic[t.k].inum
  BY <1>1, <1>3, AtIput
<1>5. At(x, iput(t.fs, k), NULL, t.k)
  BY <1>4, AtSwap
<1>6. iput(t.fs, k).ic[t.k].ref > 0
  BY <1>2, <1>5, AtHeld
<1>7. QED
  BY <1>1, <1>4, <1>6 DEF t, r

\* What a lookup that succeeds has read, and the slot it put: the inode of the
\* slot that was searched is the same, and the inode found can be got again.
LEMMA LookedUp ==
    ASSUME NEW f, Sane(f), NEW k \in Slots, f.ic[k].inum # -1, NEW name, NEW type,
           dir_lookup(f, k, name, type).k # NULL
    PROVE  LET l == dir_lookup(f, k, name, type)
               g == iput(l.fs, l.k)
               n == Dir(f, k)[Min(Matches(f, k, name, type))].inum
           IN  /\ IsDir(f, k) /\ Matches(f, k, name, type) # {} /\ n \in Inums
               /\ l.k \in Slots /\ l.fs.ic[l.k].inum = n
               /\ g.ents = f.ents /\ g.ic[k].ip = f.ic[k].ip /\ g.ic[k].inum = f.ic[k].inum
               /\ g.ic[l.k].inum \in {n, -1}
<1> DEFINE l == dir_lookup(f, k, name, type)
           g == iput(l.fs, l.k)
           n == Dir(f, k)[Min(Matches(f, k, name, type))].inum
           s == Scanned(f, k)
<1>1. f \in FsT /\ At(f, f, NULL, NULL)
  BY AtStart DEF Sane
<1>2. At(f, l.fs, NULL, l.k)
  BY <1>1, AtLookup DEF Places
<1>3. At(f, g, NULL, NULL)
  BY <1>2, AtIput
<1>4. g.ic[k].inum = f.ic[k].inum
  BY <1>3, AtEnd
<1>5. IsDir(f, k) /\ Matches(f, k, name, type) # {} /\ l = iget(s, n)
  BY LookupIs
<1>6. n \in Inums \cup {-1}
  <2>1. Min(Matches(f, k, name, type)) \in Matches(f, k, name, type)
    BY <1>1, <1>5, DirTypes, HasMin
  <2>2. QED
    BY <1>1, <2>1, DirTypes
<1>7. Swept(f, k, s)
  BY <1>1, ScannedSweeps
<1> HIDE DEF n, s
<1>8. Got(s, n, l.fs, l.k)
  BY <1>5, <1>6, <1>7, Iget DEF Swept
<1>9. l.fs \in FsT /\ l.k \in Slots
  BY <1>2, AtTypes
<1> HIDE DEF l
<1>10. l.k # NULL
  BY DEF l
<1>11. Put(l.fs, l.k, g)
  BY <1>9, Iput DEF Places
<1> HIDE DEF g
<1>12. s.ic = f.ic /\ s.ents = f.ents
  BY <1>7 DEF Swept
<1>13. n \in Inums /\ l.fs.ic[l.k].inum = n /\ l.fs.ents = f.ents
  BY <1>8, <1>10, <1>12 DEF Got
<1>14. g.ents = f.ents
  BY <1>11, <1>13 DEF Put
<1>15. l.fs.ic[l.k].ref \in Nat /\ f.ic[k].ref \in Nat /\ f.ic[k].ref > 0
  BY <1>1, <1>9, SlotTypes DEF Sane
<1>16. g.ic[l.k].inum \in {n, -1}
  BY <1>10, <1>11, <1>13, <1>15 DEF Put, FreeSlot
<1>17. g.ic[k].ip = f.ic[k].ip
  <2>1. CASE l.k # k
    BY <1>8, <1>11, <1>12, <2>1 DEF Got, Put
  <2>2. CASE l.k = k
    <3>1. l.fs.ic[k].ip = f.ic[k].ip /\ l.fs.ic[k].ref = f.ic[k].ref + 1
      BY <1>8, <1>10, <1>12, <2>2 DEF Got
    <3>2. l.fs.ic[k].ref > 1
      BY <1>15, <3>1
    <3>3. QED
      BY <1>10, <1>11, <2>2, <3>1, <3>2 DEF Put
  <2>3. QED
    BY <2>1, <2>2
<1>18. QED
  BY <1>4, <1>5, <1>9, <1>13, <1>14, <1>16, <1>17 DEF l, g, n

\* What is cached is got in the slot it is in.
LEMMA GetsCached ==
    ASSUME NEW f, Sane(f), NEW k \in Slots, f.ic[k].inum # -1
    PROVE  LET p == iget(f, f.ic[k].inum)
           IN  /\ p.k = k /\ p.fs.ents = f.ents /\ p.fs.ic[k].inum = f.ic[k].inum
               /\ p.fs.ic[k].ip = f.ic[k].ip /\ \A j \in Slots \ {k} : p.fs.ic[j] = f.ic[j]
<1> DEFINE n == f.ic[k].inum
           p == iget(f, n)
<1>1. f \in FsT /\ n \in Inums /\ n \in Inums \cup {-1}
  BY SlotTypes DEF Sane
<1>2. Got(f, n, p.fs, p.k)
  BY <1>1, Iget
<1> HIDE DEF p
<1>3. p.k # NULL /\ p.k \in Slots
  BY <1>1, <1>2 DEF Got, Places
<1>4. f.ic[p.k].inum = n
  BY <1>2, <1>3 DEF Got
<1>5. p.k = k
  BY <1>3, <1>4 DEF Sane
<1>6. p.fs.ic[k].inum = n /\ p.fs.ic[k].ip = f.ic[k].ip
  BY <1>1, <1>2, <1>3, <1>5 DEF Got
<1>7. p.fs.ents = f.ents /\ \A j \in Slots \ {k} : p.fs.ic[j] = f.ic[j]
  BY <1>2, <1>5 DEF Got
<1>8. QED
  BY <1>5, <1>6, <1>7 DEF p

\* handle_cd looks the name up, lets it go, and cmd_cd goes to the same inode.
LEMMA CdSameInode ==
    ASSUME NEW f, Sane(f), NEW k \in Slots, f.ic[k].inum # -1, NEW name,
           dir_lookup(f, k, name, "dir").k # NULL
    PROVE  LET l == dir_lookup(f, k, name, "dir")
               t == CdTarget(iput(l.fs, l.k), k, name)
           IN  /\ t.k # NULL
               /\ t.fs.ic[t.k].inum = IF name = "." THEN f.ic[k].inum ELSE l.fs.ic[l.k].inum
<1> DEFINE l == dir_lookup(f, k, name, "dir")
           g == iput(l.fs, l.k)
           n == Dir(f, k)[Min(Matches(f, k, name, "dir"))].inum
           p == iget(g, g.ic[k].inum)
           t == CdTarget(g, k, name)
           m == dir_lookup(p.fs, p.k, name, "dir")
<1>1. /\ IsDir(f, k) /\ Matches(f, k, name, "dir") # {} /\ n \in Inums
      /\ l.k \in Slots /\ l.fs.ic[l.k].inum = n
      /\ g.ents = f.ents /\ g.ic[k].ip = f.ic[k].ip /\ g.ic[k].inum = f.ic[k].inum
      /\ g.ic[l.k].inum \in {n, -1}
  BY LookedUp
<1>2. Sane(g) /\ At(g, g, NULL, NULL)
  <2>1. At(f, f, NULL, NULL) /\ k \in Places
    BY AtStart DEF Places
  <2>2. At(f, l.fs, NULL, l.k)
    BY <2>1, AtLookup
  <2>3. At(f, g, NULL, NULL)
    BY <2>2, AtIput
  <2>4. Sane(g)
    BY <2>3 DEF At
  <2>5. QED
    BY <2>4, AtStart
<1>3. t = IF name = "." THEN p ELSE Found(iput(m.fs, p.k), m.k)
  BY DEF CdTarget
<1> HIDE DEF l, g
<1>4. /\ p.k = k /\ p.fs.ents = g.ents /\ p.fs.ic[k].inum = g.ic[k].inum
      /\ p.fs.ic[k].ip = g.ic[k].ip /\ \A j \in Slots \ {k} : p.fs.ic[j] = g.ic[j]
  BY <1>1, <1>2, GetsCached
<1>5. g.ic[k].inum \in Inums \cup {-1}
  BY <1>2, SlotTypes DEF Sane
<1>6. At(g, p.fs, NULL, p.k)
  BY <1>2, <1>5, AtIget
<1> HIDE DEF p
<1>7. CASE name = "."
  <2>1. t = p
    BY <1>3, <1>7
  <2>2. t.k # NULL /\ t.fs.ic[t.k].inum = f.ic[k].inum
    BY <1>1, <1>4, <2>1, Sizes
  <2>3. QED
    BY <1>7, <2>2 DEF l, g
<1>8. CASE name # "."
  <2> DEFINE s == Scanned(p.fs, k)
  <2>1. Dir(p.fs, k) = Dir(f, k) /\ IsDir(p.fs, k)
    BY <1>1, <1>4 DEF Dir, IsDir
  <2>2. Matches(p.fs, k, name, "dir") = Matches(f, k, name, "dir")
    BY <2>1 DEF Matches
  <2>3. m = iget(s, n)
    BY <1>1, <1>4, <2>1, <2>2, LookupIs
  <2>4. p.fs \in FsT
    BY <1>6, AtTypes
  <2>5. Swept(p.fs, k, s)
    BY <2>4, ScannedSweeps
  <2> HIDE DEF s, n
  <2>6. Got(s, n, m.fs, m.k)
    BY <1>1, <2>3, <2>5, Iget DEF Swept
  <2>7. p.fs.ic[l.k].inum \in {n, -1}
    <3>1. CASE l.k = k
      BY <1>1, <1>4, <3>1
    <3>2. CASE l.k # k
      BY <1>1, <1>4, <3>2
    <3>3. QED
      BY <3>1, <3>2
  <2>8. At(g, p.fs, p.k, NULL) /\ p.k \in Places
    BY <1>6, AtSwap, AtTypes
  <2>9. At(g, m.fs, p.k, m.k)
    BY <2>8, AtLookup
  <2> HIDE DEF m
  <2>10. m.k # NULL
    BY <1>1, <2>5, <2>6, <2>7 DEF Got, Swept
  <2>11. m.fs.ic[m.k].inum = n
    BY <2>6, <2>10 DEF Got
  <2>12. At(g, m.fs, m.k, p.k)
    BY <2>9, AtSwap
  <2>13. iput(m.fs, p.k).ic[m.k].inum = n
    BY <2>10, <2>11, <2>12, AtIput
  <2>14. t.k = m.k /\ t.fs = iput(m.fs, p.k)
    BY <1>3, <1>8 DEF Found
  <2>15. t.k # NULL /\ t.fs.ic[t.k].inum = l.fs.ic[l.k].inum
    BY <1>1, <2>10, <2>13, <2>14
  <2>16. QED
    BY <1>8, <2>15 DEF l, g
<1>9. QED
  BY <1>7, <1>8

\* user_login: the session's directory is given up, the root directory taken, and
\* then the home directory given up.
LEMMA LoginMoves ==
    ASSUME NEW b, NEW f, NEW i, At(b, f, NULL, i), NEW k \in Places
    PROVE  LET r == iget(iput(f, k), ROOT_INUM)
           IN  /\ Sane(iput(r.fs, i)) /\ r.k \in Places
               /\ (r.k # NULL /\ (k # NULL => b.ic[k].inum # -1)) =>
                    iput(r.fs, i).ic[r.k].inum = ROOT_INUM /\ iput(r.fs, i).ic[r.k].ref > 0
<1> DEFINE q == iput(f, k)
           r == iget(q, ROOT_INUM)
           g == iput(r.fs, i)
<1>1. Sane(f) /\ i \in Places /\ At(b, f, i, NULL)
  BY AtTypes, AtSwap
<1>2. Sane(q)
  BY <1>1, SanePut
<1>3. At(q, q, NULL, NULL)
  BY <1>2, AtStart
<1>4. q \in FsT
  BY <1>2 DEF Sane
<1>5. At(q, r.fs, NULL, r.k)
  BY <1>3, Sizes, AtIget
<1>6. Got(q, ROOT_INUM, r.fs, r.k)
  BY <1>4, Sizes, Iget
<1>7. Sane(r.fs) /\ r.k \in Places
  BY <1>5, AtTypes
<1>8. Sane(g)
  BY <1>1, <1>7, SanePut
<1>9. ASSUME r.k # NULL, k # NULL => b.ic[k].inum # -1
      PROVE  g.ic[r.k].inum = ROOT_INUM /\ g.ic[r.k].ref > 0
  <2>1. \E x : At(x, f, i, k)
    <3>1. CASE k = NULL
      BY <1>1, <3>1
    <3>2. CASE k # NULL
      BY <1>1, <1>9, <3>2, AtRebase DEF Places
    <3>3. QED
      BY <3>1, <3>2
  <2>2. PICK x : At(x, f, i, k)
    BY <2>1
  <2>3. At(x, q, i, NULL)
    BY <2>2, AtIput
  <2> HIDE DEF q
  <2>4. At(x, r.fs, i, r.k)
    BY <2>3, Sizes, AtIget
  <2> HIDE DEF r
  <2>5. At(x, r.fs, r.k, i)
    BY <2>4, AtSwap
  <2>6. At(x, g, r.k, NULL) /\ g.ic[r.k].inum = r.fs.ic[r.k].inum
    BY <1>9, <2>5, AtIput
  <2> HIDE DEF g
  <2>7. At(x, g, NULL, r.k) /\ r.k \in Slots
    BY <1>9, <2>6, AtSwap, AtTypes
  <2>8. g.ic[r.k].ref > 0
    BY <2>7, AtHeld
  <2>9. r.fs.ic[r.k].inum = ROOT_INUM
    BY <1>6, <1>9 DEF Got
  <2>10. QED
    BY <2>6, <2>8, <2>9
<1>10. QED
  BY <1>7, <1>8, <1>9

-----------------------------------------------------------------------------
(* The invariant, for any number of sessions *)

SessionT == [on : BOOLEAN, uid : Uids, cwd : Places]

\* Types, an inode cache as it should be, and no directory without a connection.
IInv ==
    /\ Sane(fs)
    /\ session \in [Sessions -> SessionT]
    /\ where \in [Sessions -> Inums \cup {-1}]
    /\ fs_initialized \in BOOLEAN
    /\ \A c \in Sessions : ~session[c].on => session[c].cwd = NULL

\* A single connection: with two, a mount takes the slots away from the other.
OneSession == \A c, d \in Sessions : c = d

\* The session holds the inode of the directory it moved to.
Kept ==
    \A c \in Sessions :
        session[c].cwd # NULL =>
            /\ fs.ic[session[c].cwd].inum = where[c] /\ where[c] \in Inums
            /\ fs.ic[session[c].cwd].ref > 0

\* Both hold when the disk has never been formatted.
LEMMA InitInv == Init => IInv /\ Kept
<1> SUFFICES ASSUME Init PROVE IInv /\ Kept
  OBVIOUS
<1>1. fs \in FsT /\ \A k \in Slots : fs.ic[k].inum = -1
  <2>1. /\ [n \in Inums |-> NoInode] \in [Inums -> InodeT]
        /\ [n \in Inums |-> <<>>] \in [Inums -> Seq(EntryT)]
        /\ [k \in Slots |-> FreeSlot] \in [Slots -> SlotT]
    BY Constants
  <2>2. \A k \in Slots : [j \in Slots |-> FreeSlot][k].inum = -1
    BY DEF FreeSlot
  <2>3. fs = [imap |-> {}, inode |-> [n \in Inums |-> NoInode], ents |-> [n \in Inums |-> <<>>],
              ic |-> [k \in Slots |-> FreeSlot]]
    BY DEF Init
  <2>4. QED
    BY <2>1, <2>2, <2>3 DEF FsT
<1>2. Sane(fs)
  BY <1>1 DEF Sane
<1>3. Offline \in SessionT /\ Offline.cwd = NULL
  BY DEF Offline, SessionT, Uids, Places
<1>4. /\ session = [c \in Sessions |-> Offline] /\ where = [c \in Sessions |-> ROOT_INUM]
      /\ fs_initialized = FALSE
  BY DEF Init
<1>5. IInv
  <2>1. session \in [Sessions -> SessionT] /\ where \in [Sessions -> Inums \cup {-1}]
    BY <1>3, <1>4, Sizes
  <2>2. \A c \in Sessions : session[c].cwd = NULL
    BY <1>3, <1>4
  <2>3. QED
    BY <1>2, <1>4, <2>1, <2>2 DEF IInv
<1>6. Kept
  BY <1>3, <1>4 DEF Kept
<1>7. QED
  BY <1>5, <1>6

\* A step that gives back what it takes, with no session that moves.
LEMMA CommandStep ==
    ASSUME IInv, At(fs, fs', NULL, NULL), session' \in [Sessions -> SessionT],
           \A c \in Sessions : session'[c].on = session[c].on /\ session'[c].cwd = session[c].cwd,
           UNCHANGED <<fs_initialized, where>>
    PROVE  IInv' /\ (Kept => Kept')
<1>1. IInv'
  BY AtTypes DEF IInv
<1>2. ASSUME Kept PROVE Kept'
  <2>1. SUFFICES ASSUME NEW c \in Sessions, session'[c].cwd # NULL
                 PROVE  /\ fs'.ic[session'[c].cwd].inum = where'[c] /\ where'[c] \in Inums
                        /\ fs'.ic[session'[c].cwd].ref > 0
    BY DEF Kept
  <2> DEFINE k == session[c].cwd
  <2>2. session'[c].cwd = k /\ k # NULL /\ where'[c] = where[c]
    BY <2>1
  <2>3. k \in Slots
    BY <2>2 DEF IInv, SessionT, Places
  <2>4. fs.ic[k].inum = where[c] /\ where[c] \in Inums
    BY <1>2, <2>2 DEF Kept
  <2> HIDE DEF k
  <2>5. fs.ic[k].inum # -1
    BY <2>4, Sizes
  <2>6. fs'.ic[k].inum = fs.ic[k].inum /\ fs'.ic[k].ref > 0
    BY <2>3, <2>5, AtEnd
  <2>7. QED
    BY <2>2, <2>4, <2>6
<1>3. QED
  BY <1>1, <1>2

\* A step in which session c becomes s, in directory w,
Moves(c, s, w) ==
    /\ Sane(fs') /\ s \in SessionT /\ (~s.on => s.cwd = NULL)
    /\ session' = [session EXCEPT ![c] = s]
    /\ w \in Inums \cup {-1} /\ where' = [where EXCEPT ![c] = w]
    /\ fs_initialized' \in BOOLEAN

\* which it then holds.
Holding(s, w) ==
    s.cwd # NULL => fs'.ic[s.cwd].inum = w /\ w \in Inums /\ fs'.ic[s.cwd].ref > 0

\* Such a step keeps the invariants.
LEMMA SessionStep ==
    ASSUME IInv, NEW c \in Sessions, NEW s, NEW w, Moves(c, s, w)
    PROVE  IInv' /\ (OneSession /\ Holding(s, w) => Kept')
<1>1. session' \in [Sessions -> SessionT] /\ where' \in [Sessions -> Inums \cup {-1}]
  BY DEF IInv, Moves
<1>2. \A d \in Sessions : ~session'[d].on => session'[d].cwd = NULL
  BY DEF IInv, Moves
<1>3. IInv'
  BY <1>1, <1>2 DEF IInv, Moves
<1>4. session'[c] = s /\ where'[c] = w
  BY DEF IInv, Moves
<1>5. ASSUME OneSession, Holding(s, w) PROVE Kept'
  <2>1. \A d \in Sessions : d = c
    BY <1>5 DEF OneSession
  <2>2. QED
    BY <1>4, <1>5, <2>1 DEF Kept, Holding
<1>6. QED
  BY <1>3, <1>5

\* What the invariant says of session c.
LEMMA SessionTypes ==
    ASSUME IInv, NEW c \in Sessions
    PROVE  /\ session[c] \in SessionT /\ session[c].cwd \in Places /\ session[c].uid \in Uids
           /\ where[c] \in Inums \cup {-1} /\ fs \in FsT /\ Sane(fs) /\ At(fs, fs, NULL, NULL)
           /\ \A k \in Places : [session[c] EXCEPT !.cwd = k] \in SessionT
           /\ \A k \in Places : [session[c] EXCEPT !.cwd = k].cwd = k
           /\ \A k \in Places : [session[c] EXCEPT !.cwd = k].on = session[c].on
<1>1. session[c] \in SessionT /\ where[c] \in Inums \cup {-1} /\ fs \in FsT /\ Sane(fs)
  BY DEF IInv, Sane
<1>2. At(fs, fs, NULL, NULL)
  BY <1>1, AtStart
<1>3. QED
  BY <1>1, <1>2 DEF SessionT

\* A mount.
LEMMA ConnectionStep ==
    ASSUME IInv, NEW c \in Sessions, on_connection(c)
    PROVE  IInv' /\ (OneSession => Kept')
<1> DEFINE e == init_inode_cache(fs)
           m == iget(e, ROOT_INUM)
           s == [on |-> TRUE, uid |-> "none", cwd |-> m.k]
           z == [Offline EXCEPT !.on = TRUE]
<1>1. fs \in FsT
  BY SessionTypes
<1>2. where' = [where EXCEPT ![c] = ROOT_INUM]
  BY DEF on_connection
<1>3. CASE ROOT_INUM \in fs.imap
  <2>1. Sane(e)
    BY <1>1, InitCache
  <2>2. /\ fs' = m.fs /\ session' = [session EXCEPT ![c] = s] /\ fs_initialized' = TRUE
    BY <1>3 DEF on_connection
  <2> HIDE DEF e
  <2>3. At(e, e, NULL, NULL) /\ e \in FsT
    BY <2>1, AtStart DEF Sane
  <2>4. At(e, m.fs, NULL, m.k)
    BY <2>3, Sizes, AtIget
  <2>5. Got(e, ROOT_INUM, m.fs, m.k)
    BY <2>3, Sizes, Iget
  <2> HIDE DEF m
  <2>6. Sane(m.fs) /\ m.k \in Places
    BY <2>4, AtTypes
  <2>7. s \in SessionT /\ (~s.on => s.cwd = NULL) /\ s.cwd = m.k
    BY <2>6 DEF SessionT, Uids
  <2>8. m.k # NULL => m.fs.ic[m.k].inum = ROOT_INUM /\ m.fs.ic[m.k].ref > 0
    <3>1. SUFFICES ASSUME m.k # NULL PROVE m.fs.ic[m.k].inum = ROOT_INUM /\ m.fs.ic[m.k].ref > 0
      OBVIOUS
    <3>2. m.k \in Slots
      BY <2>6, <3>1 DEF Places
    <3>3. QED
      BY <2>4, <2>5, <3>1, <3>2, AtHeld DEF Got
  <2> HIDE DEF s
  <2>9. Moves(c, s, ROOT_INUM)
    BY <1>2, <2>2, <2>6, <2>7, Sizes DEF Moves
  <2>10. Holding(s, ROOT_INUM)
    BY <2>2, <2>7, <2>8, Sizes DEF Holding
  <2>11. QED
    BY <2>9, <2>10, SessionStep
<1>4. CASE ROOT_INUM \notin fs.imap
  <2>1. session' = [session EXCEPT ![c] = z] /\ UNCHANGED <<fs, fs_initialized>>
    BY <1>4 DEF on_connection
  <2>2. z \in SessionT /\ z.cwd = NULL
    BY DEF Offline, SessionT, Uids, Places
  <2> HIDE DEF z
  <2>3. Sane(fs') /\ fs_initialized' \in BOOLEAN
    BY <2>1 DEF IInv
  <2>4. Moves(c, z, ROOT_INUM) /\ Holding(z, ROOT_INUM)
    BY <1>2, <2>1, <2>2, <2>3, Sizes DEF Moves, Holding
  <2>5. QED
    BY <2>4, SessionStep
<1>5. QED
  BY <1>3, <1>4

\* A disconnect.
LEMMA CleanupStep ==
    ASSUME IInv, NEW c \in Sessions, cleanup(c)
    PROVE  IInv' /\ (OneSession => Kept')
<1>1. /\ fs' = iput(fs, session[c].cwd) /\ session' = [session EXCEPT ![c] = Offline]
      /\ UNCHANGED <<fs_initialized, where>>
  BY DEF cleanup
<1>2. session[c].cwd \in Places /\ Sane(fs) /\ where[c] \in Inums \cup {-1}
  BY SessionTypes
<1>3. Sane(fs')
  BY <1>1, <1>2, SanePut
<1>4. Offline \in SessionT /\ Offline.cwd = NULL
  BY DEF Offline, SessionT, Uids, Places
<1>5. where' = [where EXCEPT ![c] = where[c]] /\ fs_initialized' \in BOOLEAN
  BY <1>1 DEF IInv
<1>6. Moves(c, Offline, where[c]) /\ Holding(Offline, where[c])
  BY <1>1, <1>2, <1>3, <1>4, <1>5 DEF Moves, Holding
<1>7. QED
  BY <1>6, SessionStep

\* A format.
LEMMA FormatStep ==
    ASSUME IInv, NEW c \in Sessions, handle_f(c)
    PROVE  IInv' /\ (OneSession => Kept')
<1> DEFINE r == Formatted(fs)
           s == [session[c] EXCEPT !.cwd = r.k]
<1>1. /\ session[c].on /\ fs' = r.fs /\ session' = [session EXCEPT ![c].cwd = r.k]
      /\ where' = [where EXCEPT ![c] = ROOT_INUM] /\ fs_initialized' = TRUE
  BY DEF handle_f
<1>2. session' = [session EXCEPT ![c] = s]
  BY <1>1, Zenon
<1>3. fs \in FsT
  BY SessionTypes
<1>4. Sane(r.fs) /\ r.k \in Slots /\ r.fs.ic[r.k].inum = ROOT_INUM /\ r.fs.ic[r.k].ref > 0
  BY <1>3, FormattedIs
<1> HIDE DEF r
<1>5. r.k \in Places
  BY <1>4 DEF Places
<1>6. s \in SessionT /\ s.cwd = r.k /\ s.on = session[c].on
  BY <1>5, SessionTypes
<1> HIDE DEF s
<1>7. s.on
  BY <1>1, <1>6, Zenon
<1>8. Moves(c, s, ROOT_INUM)
  <2>1. ROOT_INUM \in Inums \cup {-1} /\ fs_initialized' \in BOOLEAN
    BY <1>1, Sizes
  <2>2. Sane(fs')
    BY <1>1, <1>4
  <2>3. s \in SessionT /\ (~s.on => s.cwd = NULL)
    BY <1>6, <1>7
  <2>4. QED
    BY <1>1, <1>2, <2>1, <2>2, <2>3, Zenon DEF Moves
<1>9. Holding(s, ROOT_INUM)
  BY <1>1, <1>4, <1>6, Sizes DEF Holding
<1>10. QED
  BY <1>8, <1>9, SessionStep

\* A login of root.
LEMMA RootLoginStep ==
    ASSUME IInv, NEW c \in Sessions, login_root(c)
    PROVE  IInv' /\ (Kept => Kept')
<1>1. /\ session' = [session EXCEPT ![c].uid = "root"]
      /\ UNCHANGED <<fs, fs_initialized, where>>
  BY DEF login_root
<1> DEFINE s == [session[c] EXCEPT !.uid = "root"]
<1>2. session' = [session EXCEPT ![c] = s]
  BY <1>1, Zenon
<1>3. session[c] \in SessionT /\ At(fs, fs', NULL, NULL)
  BY <1>1, SessionTypes
<1>4. s \in SessionT /\ s.on = session[c].on /\ s.cwd = session[c].cwd
  BY <1>3 DEF SessionT, Uids
<1> HIDE DEF s
<1>5. /\ session' \in [Sessions -> SessionT]
      /\ \A d \in Sessions : session'[d].on = session[d].on /\ session'[d].cwd = session[d].cwd
  BY <1>2, <1>4 DEF IInv
<1>6. QED
  BY <1>1, <1>3, <1>5, CommandStep

\* A user's login.
LEMMA LoginStep ==
    ASSUME IInv, NEW c \in Sessions, NEW u \in Users, user_login(c, u)
    PROVE  IInv' /\ (OneSession /\ Kept => Kept')
<1> DEFINE h == get_home_root(fs)
           l == FirstLogin(h, UserDir(h, u), u)
           r == iget(iput(l.fs, session[c].cwd), ROOT_INUM)
           s == [session[c] EXCEPT !.uid = u, !.cwd = r.k]
<1>1. /\ session[c].on /\ Bounded /\ Logged(c, u, l, r) /\ UNCHANGED fs_initialized
  BY DEF user_login
<1>2. MaxInodes \notin fs.imap /\ At(fs, fs, NULL, NULL) /\ session[c].cwd \in Places
  BY <1>1, SessionTypes DEF Bounded
<1>3. At(fs, l.fs, NULL, l.k)
  BY <1>2, FirstLoginKeeps
<1> HIDE DEF l
<1>4. CASE l.k = NULL
  <2>1. fs' = l.fs /\ UNCHANGED <<session, where>>
    BY <1>1, <1>4 DEF Logged
  <2>2. session' \in [Sessions -> SessionT]
    BY <2>1 DEF IInv
  <2>3. QED
    BY <1>1, <1>3, <1>4, <2>1, <2>2, CommandStep
<1>5. CASE l.k # NULL
  <2>1. /\ fs' = iput(r.fs, l.k)
        /\ session' = [session EXCEPT ![c].uid = u, ![c].cwd = r.k]
        /\ where' = [where EXCEPT ![c] = ROOT_INUM]
    BY <1>1, <1>5 DEF Logged
  <2>2. /\ Sane(iput(r.fs, l.k)) /\ r.k \in Places
        /\ (r.k # NULL /\ (session[c].cwd # NULL => fs.ic[session[c].cwd].inum # -1)) =>
             iput(r.fs, l.k).ic[r.k].inum = ROOT_INUM /\ iput(r.fs, l.k).ic[r.k].ref > 0
    BY <1>2, <1>3, LoginMoves
  <2> HIDE DEF r
  <2>3. s \in SessionT /\ s.on = session[c].on /\ s.cwd = r.k
    BY <2>2, SessionTypes DEF SessionT, Uids
  <2>4. session' = [session EXCEPT ![c] = s] /\ s.on
    <3>1. session' = [session EXCEPT ![c] = s]
      BY <2>1 DEF IInv
    <3>2. s.on
      BY <1>1, <2>3, Zenon
    <3>3. QED
      BY <3>1, <3>2
  <2> HIDE DEF s
  <2>5. Kept => (session[c].cwd # NULL => fs.ic[session[c].cwd].inum # -1)
    BY Sizes DEF Kept
  <2>6. fs_initialized' \in BOOLEAN
    BY <1>1 DEF IInv
  <2>7. Moves(c, s, ROOT_INUM)
    <3>1. ROOT_INUM \in Inums \cup {-1}
      BY Sizes
    <3>2. Sane(fs')
      BY <2>1, <2>2
    <3>3. s \in SessionT /\ (~s.on => s.cwd = NULL)
      BY <2>3, <2>4
    <3>4. QED
      BY <2>1, <2>4, <2>6, <3>1, <3>2, <3>3, Zenon DEF Moves
  <2>8. Kept => Holding(s, ROOT_INUM)
    BY <2>1, <2>2, <2>3, <2>5, Sizes DEF Holding
  <2>9. QED
    BY <2>7, <2>8, SessionStep
<1>6. QED
  BY <1>4, <1>5

\* cd.
LEMMA CdStep ==
    ASSUME IInv, NEW c \in Sessions, NEW name, handle_cd(c, name)
    PROVE  IInv' /\ (OneSession /\ Kept => Kept')
<1> DEFINE k == session[c].cwd
           l == dir_lookup(fs, k, name, "dir")
           g == iput(l.fs, l.k)
           t == CdTarget(g, k, name)
           r == cmd_cd(g, k, name)
           s == [session[c] EXCEPT !.cwd = r.k]
           w == IF name = "." THEN where[c] ELSE l.fs.ic[l.k].inum
<1>1. /\ session[c].on /\ k # NULL /\ l.k # NULL /\ fs' = r.fs
      /\ session' = [session EXCEPT ![c].cwd = r.k] /\ where' = [where EXCEPT ![c] = w]
      /\ UNCHANGED fs_initialized
  BY DEF handle_cd, Ready, LoggedIn
<1>2. session' = [session EXCEPT ![c] = s]
  BY <1>1, Zenon
<1>3. k \in Slots /\ k \in Places /\ Sane(fs) /\ At(fs, fs, NULL, NULL) /\ where[c] \in Inums \cup {-1}
  BY <1>1, SessionTypes DEF Places
<1> HIDE DEF k
<1>4. At(fs, l.fs, NULL, l.k)
  BY <1>3, AtLookup
<1>5. At(fs, g, NULL, NULL)
  BY <1>4, AtIput
<1>6. w \in Inums \cup {-1}
  BY <1>1, <1>3, <1>4, AtTypes, SlotTypes
<1>7. Sane(r.fs) /\ r.k \in Slots
  BY <1>3, <1>5, CdSane
<1>8. ASSUME fs.ic[k].inum # -1, fs.ic[k].inum = where[c], where[c] \in Inums
      PROVE  r.fs.ic[r.k].inum = w /\ r.fs.ic[r.k].ref > 0 /\ w \in Inums
  <2>1. t.k # NULL /\ t.fs.ic[t.k].inum = w
    BY <1>1, <1>3, <1>8, CdSameInode
  <2>2. r.k = t.k /\ r.fs.ic[r.k].inum = t.fs.ic[t.k].inum /\ r.fs.ic[r.k].ref > 0
    BY <1>3, <1>5, <1>8, <2>1, CdHolds
  <2>3. w # -1
    <3>1. r.fs.ic[r.k].ref > 0 /\ l.k \in Slots
      BY <1>1, <1>4, <2>2, AtTypes
    <3>2. l.fs.ic[l.k].inum # -1
      BY <1>4, <3>1, AtHeld
    <3>3. QED
      BY <1>8, <3>2
  <2> HIDE DEF w
  <2>4. QED
    BY <1>6, <2>1, <2>2, <2>3
<1> HIDE DEF l, g, t, r
<1>9. r.k \in Places
  BY <1>7 DEF Places
<1>10. s \in SessionT /\ s.on = session[c].on /\ s.cwd = r.k
  BY <1>9, SessionTypes
<1> HIDE DEF s, w
<1>11. Kept => fs.ic[k].inum # -1 /\ fs.ic[k].inum = where[c] /\ where[c] \in Inums
  BY <1>1, Sizes DEF Kept, k
<1>12. fs_initialized' \in BOOLEAN
  BY <1>1 DEF IInv
<1>13. Moves(c, s, w)
  BY <1>1, <1>2, <1>6, <1>7, <1>10, <1>12 DEF Moves
<1>14. Kept => Holding(s, w)
  BY <1>1, <1>8, <1>10, <1>11 DEF Holding
<1>15. QED
  BY <1>13, <1>14, SessionStep

\* A handler that leaves the sessions alone.
LEMMA ChangeStep ==
    ASSUME IInv, NEW g, At(fs, g, NULL, NULL), Change(g)
    PROVE  IInv' /\ (Kept => Kept')
<1>1. fs' = g /\ UNCHANGED <<session, fs_initialized, where>>
  BY DEF Change
<1>2. session' \in [Sessions -> SessionT]
  BY <1>1 DEF IInv
<1>3. At(fs, fs', NULL, NULL)
  BY <1>1
<1>4. QED
  BY <1>1, <1>2, <1>3, CommandStep

\* A name looked up and let go.
LEMMA LetGo ==
    ASSUME NEW f, Sane(f), NEW k \in Slots, NEW name, NEW type
    PROVE  LET l == dir_lookup(f, k, name, type) IN At(f, iput(l.fs, l.k), NULL, NULL)
<1> DEFINE l == dir_lookup(f, k, name, type)
<1>1. At(f, f, NULL, NULL) /\ k \in Places
  BY AtStart DEF Places
<1>2. At(f, l.fs, NULL, l.k)
  BY <1>1, AtLookup
<1>3. At(f, iput(l.fs, l.k), NULL, NULL)
  BY <1>2, AtIput
<1>4. QED
  BY <1>3

\* A session that is ready is in a slot.
LEMMA ReadySlot ==
    ASSUME IInv, NEW c \in Sessions, Ready(c)
    PROVE  /\ session[c].cwd \in Slots /\ session[c].uid \in Uids /\ fs_initialized
           /\ Sane(fs) /\ At(fs, fs, NULL, NULL)
<1>1. session[c].cwd # NULL /\ session[c].cwd \in Places /\ session[c].uid \in Uids
      /\ Sane(fs) /\ At(fs, fs, NULL, NULL)
  BY SessionTypes DEF Ready, LoggedIn
<1>2. QED
  BY <1>1 DEF Ready, LoggedIn, Places

\* Every step keeps the invariant, and with one session its directory.
LEMMA StepInv == IInv /\ [Next]_vars => IInv' /\ (OneSession /\ Kept => Kept')
<1> SUFFICES ASSUME IInv, [Next]_vars PROVE IInv' /\ (OneSession /\ Kept => Kept')
  OBVIOUS
<1>1. CASE UNCHANGED vars
  <2>1. IInv'
    BY <1>1 DEF IInv, vars
  <2>2. Kept => Kept'
    BY <1>1 DEF Kept, vars
  <2>3. QED
    BY <2>1, <2>2
<1>2. CASE Next
  <2>1. PICK c \in Sessions :
          \/ on_connection(c) \/ cleanup(c) \/ handle_f(c) \/ login_root(c)
          \/ \E u \in Users : user_login(c, u) \/ handle_useradd(c, u) \/ handle_userdel(c, u)
          \/ \E n \in FileNames : handle_mk(c, n) \/ handle_rm(c, n)
          \/ \E n \in DirNames : handle_mkdir(c, n) \/ handle_rmdir(c, n)
          \/ \E n \in Names : handle_cd(c, n)
    BY <1>2 DEF Next
  <2> DEFINE k == session[c].cwd
             uid == session[c].uid
  <2>2. CASE on_connection(c)
    BY <2>2, ConnectionStep
  <2>3. CASE cleanup(c)
    BY <2>3, CleanupStep
  <2>4. CASE handle_f(c)
    BY <2>4, FormatStep
  <2>5. CASE login_root(c)
    BY <2>5, RootLoginStep
  <2>6. CASE \E u \in Users : user_login(c, u)
    BY <2>6, LoginStep
  <2>7. CASE \E u \in Users : handle_useradd(c, u)
    <3>1. PICK u \in Users : handle_useradd(c, u)
      BY <2>7
    <3>2. Change(user_add(fs, u)) /\ MaxInodes \notin fs.imap
      BY <3>1 DEF handle_useradd, Change, Bounded
    <3>3. At(fs, user_add(fs, u), NULL, NULL)
      BY <3>2, SessionTypes, UserAddKeeps
    <3>4. QED
      BY <3>2, <3>3, ChangeStep
  <2>8. CASE \E u \in Users : handle_userdel(c, u)
    <3>1. PICK u \in Users : handle_userdel(c, u)
      BY <2>8
    <3>2. Change(user_delete(fs, u))
      BY <3>1 DEF handle_userdel
    <3>3. At(fs, user_delete(fs, u), NULL, NULL)
      BY <3>2, SessionTypes, UserDeleteKeeps
    <3>4. QED
      BY <3>2, <3>3, ChangeStep
  <2>9. CASE \E n \in FileNames : handle_mk(c, n)
    <3>1. PICK n \in FileNames : handle_mk(c, n)
      BY <2>9
    <3>2. Ready(c) /\ Change(cmd_mk(fs, k, uid, n)) /\ MaxInodes \notin fs.imap
      BY <3>1 DEF handle_mk, Change, Bounded
    <3>3. k \in Slots /\ uid \in Uids /\ At(fs, fs, NULL, NULL)
      BY <3>2, ReadySlot
    <3> HIDE DEF k, uid
    <3>4. At(fs, cmd_mk(fs, k, uid, n), NULL, NULL)
      BY <3>2, <3>3, MkKeeps
    <3>5. QED
      BY <3>2, <3>4, ChangeStep
  <2>10. CASE \E n \in FileNames : handle_rm(c, n)
    <3>1. PICK n \in FileNames : handle_rm(c, n)
      BY <2>10
    <3> DEFINE l == dir_lookup(fs, k, n, "file")
               g == iput(l.fs, l.k)
    <3>2. Ready(c) /\ Change(cmd_rm(g, k, n))
      BY <3>1 DEF handle_rm
    <3>3. k \in Slots /\ Sane(fs)
      BY <3>2, ReadySlot
    <3> HIDE DEF k
    <3>4. At(fs, g, NULL, NULL)
      BY <3>3, LetGo
    <3> HIDE DEF g
    <3>5. At(fs, cmd_rm(g, k, n), NULL, NULL)
      BY <3>3, <3>4, RmKeeps
    <3>6. QED
      BY <3>2, <3>5, ChangeStep
  <2>11. CASE \E n \in DirNames : handle_mkdir(c, n)
    <3>1. PICK n \in DirNames : handle_mkdir(c, n)
      BY <2>11
    <3>2. Ready(c) /\ Change(cmd_mkdir(fs, k, uid, n)) /\ MaxInodes \notin fs.imap
      BY <3>1 DEF handle_mkdir, Change, Bounded
    <3>3. k \in Slots /\ uid \in Uids /\ At(fs, fs, NULL, NULL)
      BY <3>2, ReadySlot
    <3> HIDE DEF k, uid
    <3>4. At(fs, cmd_mkdir(fs, k, uid, n), NULL, NULL)
      BY <3>2, <3>3, MkdirKeeps
    <3>5. QED
      BY <3>2, <3>4, ChangeStep
  <2>12. CASE \E n \in DirNames : handle_rmdir(c, n)
    <3>1. PICK n \in DirNames : handle_rmdir(c, n)
      BY <2>12
    <3> DEFINE l == dir_lookup(fs, k, n, "dir")
               g == iput(l.fs, l.k)
    <3>2. Ready(c) /\ Change(cmd_rmdir(g, k, n))
      BY <3>1 DEF handle_rmdir
    <3>3. k \in Slots /\ Sane(fs)
      BY <3>2, ReadySlot
    <3> HIDE DEF k
    <3>4. At(fs, g, NULL, NULL)
      BY <3>3, LetGo
    <3> HIDE DEF g
    <3>5. At(fs, cmd_rmdir(g, k, n), NULL, NULL)
      BY <3>3, <3>4, RmdirKeeps
    <3>6. QED
      BY <3>2, <3>5, ChangeStep
  <2>13. CASE \E n \in Names : handle_cd(c, n)
    BY <2>13, CdStep
  <2>14. QED
    BY <2>1, <2>2, <2>3, <2>4, <2>5, <2>6, <2>7, <2>8, <2>9, <2>10, <2>11, <2>12, <2>13
<1>3. QED
  BY <1>1, <1>2

-----------------------------------------------------------------------------
(* The theorems *)

\* The invariant holds in every reachable state, whatever commands how many
\* sessions give and whenever they connect.
THEOREM Invariance == Spec => []IInv
<1>1. Init => IInv
  BY InitInv
<1>2. IInv /\ [Next]_vars => IInv'
  BY StepInv
<1>3. QED
  BY <1>1, <1>2, PTL DEF Spec

\* Inode numbers, reference counts, link counts and the sessions' slots stay in
\* their ranges, and iget and iput never leave an inode in a slot without a reference.
THEOREM TypesCorrect == Spec => []TypeOK
<1>1. ASSUME IInv PROVE TypeOK
  <2>1. fs \in FsT /\ Sane(fs)
    BY <1>1 DEF IInv, Sane
  <2>2. fs.imap \subseteq 0..MaxInodes
    BY <2>1 DEF FsT
  <2>3. \A k \in Slots : fs.ic[k].inum \in Inums \cup {-1} /\ fs.ic[k].ref \in Nat
    BY <2>1, SlotTypes
  <2>4. \A k \in Slots : fs.ic[k].inum # -1 => fs.ic[k].ref > 0
    BY <2>1 DEF Sane
  <2>5. \A n \in Inums : fs.inode[n].nlink \in 0 .. USHORT - 1
    BY <2>1 DEF FsT, InodeT
  <2>6. \A c \in Sessions : session[c].cwd \in Slots \cup {NULL}
    BY <1>1, SessionTypes DEF Places
  <2>7. QED
    BY <2>2, <2>3, <2>4, <2>5, <2>6 DEF TypeOK
<1>2. QED
  BY <1>1, Invariance, PTL

\* iget never reads an inode into a second slot, whichever references leaked and
\* whatever a mount emptied.
THEOREM CachedAlwaysOnce == Spec => []CachedOnce
<1>1. IInv => CachedOnce
  BY DEF IInv, Sane, CachedOnce
<1>2. QED
  BY <1>1, Invariance, PTL

\* With one connection no command, failed or not, gives up a reference that it did
\* not take: the session's directory stays in its slot until the session moves.
THEOREM SessionAlwaysKeepsCwd == OneSession => (Spec => []SessionKeepsCwd)
<1> SUFFICES ASSUME OneSession PROVE Spec => []SessionKeepsCwd
  OBVIOUS
<1>1. Init => IInv /\ Kept
  BY InitInv
<1>2. (IInv /\ Kept) /\ [Next]_vars => (IInv /\ Kept)'
  BY StepInv
<1>3. Kept => SessionKeepsCwd
  BY DEF Kept, SessionKeepsCwd
<1>4. QED
  BY <1>1, <1>2, <1>3, PTL DEF Spec

=============================================================================

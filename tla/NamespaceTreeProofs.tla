------------------------ MODULE NamespaceTreeProofs -------------------------
(***************************************************************************)
(* Proofs that the directories of Namespace stay a tree, with one          *)
(* connection and a table that does not run out of inodes.                 *)
(***************************************************************************)
EXTENDS NamespaceProofs, FiniteSetTheorems

-----------------------------------------------------------------------------
(* Trees: which inodes are allocated, of which type, and the entries *)

TreeT == [imap : SUBSET Inums, typ : [Inums -> Types], ents : [Inums -> Seq(EntryT)]]

Used(t, d) == {i \in DOMAIN t.ents[d] : t.ents[d][i] # Removed}

\* The entries that a directory is made with.
OwnNames == {".", ".."}

\* An entry by which a directory is a child of the one it is in.
Child(e) == e.type = "dir" /\ e.name \notin OwnNames

\* Every entry leads to an inode of its type.
Leads(t) ==
    \A d \in Inums : \A i \in Used(t, d) :
        t.ents[d][i].inum \in t.imap /\ t.typ[t.ents[d][i].inum] = t.ents[d][i].type

\* No name is twice in a directory.
Once(t) ==
    \A d \in Inums : \A i, j \in Used(t, d) :
        t.ents[d][i].name = t.ents[d][j].name /\ t.ents[d][i].type = t.ents[d][j].type => i = j

\* Where ".." leads to.
Up(t, d) == {t.ents[d][i].inum : i \in {j \in Used(t, d) : t.ents[d][j].name = ".." /\ t.ents[d][j].type = "dir"}}

\* A child's ".." leads to the directory it is in, and to no other.
Back(t) ==
    \A d \in Inums : \A i \in Used(t, d) : Child(t.ents[d][i]) => Up(t, t.ents[d][i].inum) = {d}

\* The root directory is nobody's child.
Rooted(t) == \A d \in Inums : \A i \in Used(t, d) : Child(t.ents[d][i]) => t.ents[d][i].inum # ROOT_INUM

\* An inode that is not allocated has no entries.
Blank(t) == \A d \in Inums : d \notin t.imap => t.ents[d] = <<>>

TreeOK(t) ==
    /\ t \in TreeT /\ Leads(t) /\ Once(t) /\ Back(t) /\ Rooted(t) /\ Blank(t)
    /\ ROOT_INUM \in t.imap => t.typ[ROOT_INUM] = "dir"

\* Inode n allocated.
NewNode(t, n, type, u) ==
    /\ n \in Inums /\ n \notin t.imap /\ type \in {"file", "dir"} /\ u.imap = t.imap \cup {n}
    /\ u \in TreeT /\ u.typ[n] = type /\ u.ents[n] = <<>>
    /\ \A m \in Inums : m # n => u.typ[m] = t.typ[m] /\ u.ents[m] = t.ents[m]

\* Entry e at the end of directory d.
Appended(t, d, e, u) ==
    /\ u \in TreeT /\ u.imap = t.imap /\ u.typ = t.typ /\ d \in Inums /\ d \in t.imap /\ e \in EntryT
    /\ u.ents[d] = Append(t.ents[d], e)
    /\ \A m \in Inums : m # d => u.ents[m] = t.ents[m]

\* Inode n allocated for a directory, with its own two entries and an entry in
\* directory d, in whatever order they were made.
NewSubdir(t, n, d, name, u) ==
    /\ n \in Inums /\ n \notin t.imap /\ u \in TreeT /\ u.imap = t.imap \cup {n} /\ u.typ[n] = "dir"
    /\ d \in Inums /\ d \in t.imap /\ t.typ[d] = "dir" /\ Entry(name, "dir", n) \in EntryT /\ name # ""
    /\ u.ents[n] = Append(Append(<<>>, Entry(".", "dir", n)), Entry("..", "dir", d))
    /\ u.ents[d] = Append(t.ents[d], Entry(name, "dir", n))
    /\ \A m \in Inums : m # n => u.typ[m] = t.typ[m]
    /\ \A m \in Inums : m # n /\ m # d => u.ents[m] = t.ents[m]

\* Entry i of directory d emptied.
Cut(t, d, i, u) ==
    /\ d \in Inums /\ i \in Used(t, d) /\ u \in TreeT /\ u.imap = t.imap /\ u.typ = t.typ
    /\ u.ents[d] = [t.ents[d] EXCEPT ![i] = Removed]
    /\ \A m \in Inums : m # d => u.ents[m] = t.ents[m]

\* No entry of this name and type is in the directory.
Lacks(t, d, name, type) ==
    \A i \in Used(t, d) : ~(t.ents[d][i].name = name /\ t.ents[d][i].type = type)

\* Entry e may be appended to directory d.
Joins(t, d, e) ==
    /\ e.name # "" /\ e.inum \in t.imap /\ t.typ[e.inum] = e.type /\ Lacks(t, d, e.name, e.type)
    /\ Child(e) => e.inum # ROOT_INUM /\ Up(t, e.inum) = {d}

\* What is allocated stays so, of the same type.
Lasts(t, u) == t.imap \subseteq u.imap /\ \A n \in t.imap : u.typ[n] = t.typ[n]

\* Besides, no entry is emptied.
Grows(t, u) ==
    /\ Lasts(t, u)
    /\ \A d \in Inums : \A i \in DOMAIN u.ents[d] :
          u.ents[d][i] = Removed => i \in DOMAIN t.ents[d] /\ t.ents[d][i] = Removed

\* What the types say of a directory.
LEMMA EntsOf ==
    ASSUME NEW t \in TreeT, NEW d \in Inums
    PROVE  /\ t.ents[d] \in Seq(EntryT) /\ Len(t.ents[d]) \in Nat
           /\ DOMAIN t.ents[d] = 1 .. Len(t.ents[d]) /\ Used(t, d) \subseteq 1 .. Len(t.ents[d])
           /\ \A i \in Used(t, d) : t.ents[d][i] \in EntryT
<1>1. t.ents[d] \in Seq(EntryT)
  BY DEF TreeT
<1>2. QED
  BY <1>1 DEF Used

\* An entry appended: the ones before it stay, and it is used unless it is empty.
LEMMA UsedAppend ==
    ASSUME NEW t \in TreeT, NEW u \in TreeT, NEW d \in Inums, NEW e \in EntryT, e # Removed,
           u.ents[d] = Append(t.ents[d], e)
    PROVE  /\ Used(u, d) = Used(t, d) \cup {Len(t.ents[d]) + 1} /\ Len(t.ents[d]) + 1 \notin Used(t, d)
           /\ u.ents[d][Len(t.ents[d]) + 1] = e
           /\ \A i \in Used(t, d) : u.ents[d][i] = t.ents[d][i]
<1>1. /\ t.ents[d] \in Seq(EntryT) /\ Len(t.ents[d]) \in Nat
      /\ DOMAIN t.ents[d] = 1 .. Len(t.ents[d]) /\ Used(t, d) \subseteq 1 .. Len(t.ents[d])
  BY EntsOf
<1> DEFINE s == t.ents[d]
           l == Len(s) + 1
           v == Append(s, e)
<1> HIDE DEF s
<1>2. v \in Seq(EntryT) /\ Len(v) = l /\ v[l] = e /\ \A i \in 1 .. Len(s) : v[i] = s[i]
  BY <1>1 DEF s
<1>3. DOMAIN v = 1 .. l /\ DOMAIN s = 1 .. Len(s) /\ Len(s) \in Nat
  BY <1>1, <1>2 DEF s
<1> HIDE DEF v
<1>4. \A i \in 1 .. l : i = l \/ i \in 1 .. Len(s)
  BY <1>3
<1>5. {i \in DOMAIN v : v[i] # Removed} = {i \in DOMAIN s : s[i] # Removed} \cup {l}
  BY <1>2, <1>3, <1>4
<1>6. l \notin 1 .. Len(s)
  BY <1>3
<1>7. Used(t, d) = {i \in DOMAIN s : s[i] # Removed} /\ Used(u, d) = {i \in DOMAIN v : v[i] # Removed}
      /\ u.ents[d] = v
  BY DEF Used, s, v
<1>8. /\ Used(u, d) = Used(t, d) \cup {l} /\ l \notin Used(t, d) /\ u.ents[d][l] = e
      /\ \A i \in Used(t, d) : u.ents[d][i] = t.ents[d][i]
  BY <1>2, <1>3, <1>5, <1>6, <1>7 DEF s
<1>9. QED
  BY <1>8 DEF s

\* An entry emptied.
LEMMA UsedCut ==
    ASSUME NEW t \in TreeT, NEW u \in TreeT, NEW d \in Inums, NEW i \in Used(t, d),
           u.ents[d] = [t.ents[d] EXCEPT ![i] = Removed]
    PROVE  Used(u, d) = Used(t, d) \ {i} /\ \A j \in Used(u, d) : u.ents[d][j] = t.ents[d][j]
<1>1. DOMAIN u.ents[d] = DOMAIN t.ents[d] /\ i \in DOMAIN t.ents[d]
      /\ \A j \in DOMAIN t.ents[d] : u.ents[d][j] = IF j = i THEN Removed ELSE t.ents[d][j]
  BY EntsOf DEF Used
<1>2. QED
  BY <1>1 DEF Used

-----------------------------------------------------------------------------
(* Steps of trees *)

\* Growing is reflexive and transitive.
LEMMA GrowsOn ==
    ASSUME NEW t, NEW u, NEW v, Grows(t, u), Grows(u, v)
    PROVE  Grows(t, v)
<1>1. Lasts(t, v)
  BY DEF Grows, Lasts
<1>2. ASSUME NEW d \in Inums, NEW i \in DOMAIN v.ents[d], v.ents[d][i] = Removed
      PROVE  i \in DOMAIN t.ents[d] /\ t.ents[d][i] = Removed
  BY <1>2 DEF Grows
<1>3. QED
  BY <1>1, <1>2 DEF Grows

\* A tree grows into itself.
LEMMA GrowsSame ==
    ASSUME NEW t
    PROVE  Grows(t, t)
  BY DEF Grows, Lasts

\* A directory that lacks ".." is nobody's child.
LEMMA Orphan ==
    ASSUME NEW t, TreeOK(t), NEW d \in Inums, Lacks(t, d, "..", "dir"),
           NEW m \in Inums, NEW i \in Used(t, m), Child(t.ents[m][i])
    PROVE  t.ents[m][i].inum # d
<1>1. Up(t, t.ents[m][i].inum) = {m}
  BY DEF TreeOK, Back
<1>2. Up(t, d) = {}
  BY DEF Up, Lacks
<1>3. QED
  BY <1>1, <1>2

\* The entries that are used once e is at the end of directory d.
AlsoUsed(t, d, e, u) ==
    /\ \A m \in Inums : \A i \in Used(u, m) :
          \/ i \in Used(t, m) /\ u.ents[m][i] = t.ents[m][i]
          \/ m = d /\ i = Len(t.ents[d]) + 1 /\ u.ents[m][i] = e
    /\ \A m \in Inums : \A i \in Used(t, m) : i \in Used(u, m) /\ u.ents[m][i] = t.ents[m][i]

\* An entry appended, seen from all directories.
LEMMA AppendedUsed ==
    ASSUME NEW t \in TreeT, NEW d, NEW e, NEW u, Appended(t, d, e, u), e # Removed
    PROVE  AlsoUsed(t, d, e, u)
<1> DEFINE l == Len(t.ents[d]) + 1
<1>1. /\ Used(u, d) = Used(t, d) \cup {l} /\ l \notin Used(t, d) /\ u.ents[d][l] = e
      /\ \A i \in Used(t, d) : u.ents[d][i] = t.ents[d][i]
  <2>1. u \in TreeT /\ d \in Inums /\ e \in EntryT /\ u.ents[d] = Append(t.ents[d], e)
    BY DEF Appended
  <2>2. Used(u, d) = Used(t, d) \cup {l}
    BY <2>1, UsedAppend
  <2>3. l \notin Used(t, d)
    BY <2>1, UsedAppend
  <2>4. u.ents[d][l] = e
    BY <2>1, UsedAppend
  <2>5. ASSUME NEW i \in Used(t, d) PROVE u.ents[d][i] = t.ents[d][i]
    <3>1. t.ents[d] \in Seq(EntryT) /\ i \in 1 .. Len(t.ents[d])
      BY <2>1, EntsOf
    <3>2. Append(t.ents[d], e)[i] = t.ents[d][i]
      BY <3>1, <2>1
    <3>3. QED
      BY <2>1, <3>2
  <2>6. QED
    BY <2>2, <2>3, <2>4, <2>5
<1>2. \A m \in Inums : m # d => Used(u, m) = Used(t, m) /\ u.ents[m] = t.ents[m]
  BY DEF Used, Appended
<1> HIDE DEF l
<1>3. ASSUME NEW m \in Inums, NEW i \in Used(u, m)
      PROVE  \/ i \in Used(t, m) /\ u.ents[m][i] = t.ents[m][i]
             \/ m = d /\ i = l /\ u.ents[m][i] = e
  <2>1. CASE m = d
    BY <1>1, <2>1
  <2>2. CASE m # d
    BY <1>2, <2>2
  <2>3. QED
    BY <2>1, <2>2
<1>4. ASSUME NEW m \in Inums, NEW i \in Used(t, m)
      PROVE  i \in Used(u, m) /\ u.ents[m][i] = t.ents[m][i]
  <2>1. CASE m = d
    BY <1>1, <2>1
  <2>2. CASE m # d
    BY <1>2, <2>2
  <2>3. QED
    BY <2>1, <2>2
<1>5. QED
  BY <1>3, <1>4 DEF l, AlsoUsed

\* Where ".." leads to after an entry is appended.
LEMMA AppendedUp ==
    ASSUME NEW t \in TreeT, NEW d, NEW e, NEW u, Appended(t, d, e, u), e # Removed,
           NEW m \in Inums, m # d \/ ~(e.name = ".." /\ e.type = "dir")
    PROVE  Up(u, m) = Up(t, m)
<1>1. /\ \A i \in Used(u, m) :
            \/ i \in Used(t, m) /\ u.ents[m][i] = t.ents[m][i]
            \/ m = d /\ u.ents[m][i] = e
      /\ \A i \in Used(t, m) : i \in Used(u, m) /\ u.ents[m][i] = t.ents[m][i]
  BY AppendedUsed DEF AlsoUsed
<1>2. ASSUME NEW x \in Up(u, m) PROVE x \in Up(t, m)
  <2>1. PICK i \in Used(u, m) : u.ents[m][i].name = ".." /\ u.ents[m][i].type = "dir" /\ x = u.ents[m][i].inum
    BY <1>2 DEF Up
  <2>2. i \in Used(t, m) /\ u.ents[m][i] = t.ents[m][i]
    BY <1>1, <2>1
  <2>3. QED
    BY <2>1, <2>2 DEF Up
<1>3. ASSUME NEW x \in Up(t, m) PROVE x \in Up(u, m)
  <2>1. PICK i \in Used(t, m) : t.ents[m][i].name = ".." /\ t.ents[m][i].type = "dir" /\ x = t.ents[m][i].inum
    BY <1>3 DEF Up
  <2>2. i \in Used(u, m) /\ u.ents[m][i] = t.ents[m][i]
    BY <1>1, <2>1
  <2>3. QED
    BY <2>1, <2>2 DEF Up
<1>4. QED
  BY <1>2, <1>3

\* An entry that may be appended leaves a tree.
LEMMA AppendedOK ==
    ASSUME NEW t, NEW d, NEW e, NEW u, TreeOK(t), Appended(t, d, e, u), Joins(t, d, e)
    PROVE  TreeOK(u) /\ Grows(t, u)
<1> DEFINE l == Len(t.ents[d]) + 1
<1>1. t \in TreeT /\ u \in TreeT /\ d \in Inums /\ e # Removed /\ u.imap = t.imap /\ u.typ = t.typ
  <2>1. e # Removed
    <3>1. Removed.name = ""
      BY DEF Removed, Entry
    <3>2. e.name # ""
      BY DEF Joins
    <3>3. QED
      BY <3>1, <3>2, Zenon
  <2>2. QED
    BY <2>1 DEF TreeOK, Appended
<1>2. /\ \A m \in Inums : \A i \in Used(u, m) :
            \/ i \in Used(t, m) /\ u.ents[m][i] = t.ents[m][i]
            \/ m = d /\ i = l /\ u.ents[m][i] = e
      /\ \A m \in Inums : \A i \in Used(t, m) : i \in Used(u, m) /\ u.ents[m][i] = t.ents[m][i]
  <2>1. AlsoUsed(t, d, e, u)
    BY <1>1, AppendedUsed
  <2>2. QED
    BY <2>1 DEF AlsoUsed, l
<1> HIDE DEF l
<1>3. Leads(u)
  <2>1. ASSUME NEW m \in Inums, NEW i \in Used(u, m)
        PROVE  u.ents[m][i].inum \in t.imap /\ t.typ[u.ents[m][i].inum] = u.ents[m][i].type
    <3>1. CASE i \in Used(t, m) /\ u.ents[m][i] = t.ents[m][i]
      BY <1>1, <3>1 DEF Leads, TreeOK
    <3>2. CASE u.ents[m][i] = e
      BY <1>1, <3>2 DEF Joins
    <3>3. QED
      BY <1>2, <3>1, <3>2
  <2>2. QED
    BY <1>1, <2>1 DEF Leads
<1>4. Rooted(u)
  BY <1>1, <1>2 DEF Rooted, TreeOK, Joins
<1>5. Blank(u)
  <2>1. SUFFICES ASSUME NEW m \in Inums, m \notin u.imap PROVE u.ents[m] = <<>>
    BY DEF Blank
  <2>2. m # d /\ m \notin t.imap
    BY <1>1, <2>1 DEF Appended
  <2>3. QED
    BY <2>2 DEF Appended, TreeOK, Blank
<1>6. Once(u)
  <2>1. SUFFICES ASSUME NEW m \in Inums, NEW i \in Used(u, m), NEW j \in Used(u, m),
                        u.ents[m][i].name = u.ents[m][j].name, u.ents[m][i].type = u.ents[m][j].type
                 PROVE  i = j
    BY DEF Once
  <2>2. CASE i \in Used(t, m) /\ u.ents[m][i] = t.ents[m][i] /\ j \in Used(t, m) /\ u.ents[m][j] = t.ents[m][j]
    BY <2>1, <2>2 DEF TreeOK, Once
  <2>3. CASE i \in Used(t, m) /\ u.ents[m][i] = t.ents[m][i] /\ m = d /\ u.ents[m][j] = e
    BY <2>1, <2>3 DEF Joins, Lacks
  <2>4. CASE j \in Used(t, m) /\ u.ents[m][j] = t.ents[m][j] /\ m = d /\ u.ents[m][i] = e
    BY <2>1, <2>4 DEF Joins, Lacks
  <2>5. CASE i = l /\ j = l
    BY <2>5
  <2>6. QED
    BY <1>2, <2>2, <2>3, <2>4, <2>5
<1>7. Back(u)
  <2>1. SUFFICES ASSUME NEW m \in Inums, NEW i \in Used(u, m), Child(u.ents[m][i])
                 PROVE  Up(u, u.ents[m][i].inum) = {m}
    BY DEF Back
  <2> DEFINE x == u.ents[m][i]
  <2>2. x.inum \in Inums
    BY <1>1, <1>3 DEF Leads, TreeT
  <2> HIDE DEF x
  <2>3. CASE i \in Used(t, m) /\ x = t.ents[m][i]
    <3>1. Child(t.ents[m][i]) /\ Up(t, x.inum) = {m}
      BY <2>1, <2>3 DEF TreeOK, Back, x
    <3>2. x.inum # d \/ ~(e.name = ".." /\ e.type = "dir")
      <4>1. SUFFICES ASSUME e.name = "..", e.type = "dir" PROVE x.inum # d
        OBVIOUS
      <4>2. Lacks(t, d, "..", "dir")
        BY <4>1 DEF Joins
      <4>3. QED
        BY <4>2, <3>1, <2>3, <1>1, Orphan
    <3>3. Up(u, x.inum) = Up(t, x.inum)
      BY <1>1, <2>2, <3>2, AppendedUp
    <3>4. QED
      BY <3>1, <3>3 DEF x
  <2>4. CASE m = d /\ x = e
    <3>1. Child(e) /\ Up(t, e.inum) = {d}
      BY <2>1, <2>4 DEF Joins, x
    <3>2. ~(e.name = ".." /\ e.type = "dir")
      BY <3>1 DEF Child, OwnNames
    <3>3. Up(u, x.inum) = Up(t, x.inum)
      BY <1>1, <2>2, <3>2, AppendedUp
    <3>4. QED
      BY <3>1, <3>3, <2>4 DEF x
  <2>5. QED
    BY <1>2, <2>3, <2>4 DEF x
<1>8. TreeOK(u)
  BY <1>1, <1>3, <1>4, <1>5, <1>6, <1>7 DEF TreeOK
<1>9. Lasts(t, u)
  BY <1>1 DEF Lasts
<1>10. ASSUME NEW m \in Inums, NEW i \in DOMAIN u.ents[m], u.ents[m][i] = Removed
       PROVE  i \in DOMAIN t.ents[m] /\ t.ents[m][i] = Removed
  <2>1. CASE m # d
    BY <2>1, <1>10 DEF Appended
  <2>2. CASE m = d
    <3>1. u.ents[d] = Append(t.ents[d], e) /\ t.ents[d] \in Seq(EntryT) /\ e \in EntryT
      BY <1>1, EntsOf DEF Appended
    <3>2. CASE i = l
      <4>1. u.ents[m][i] = e
        BY <3>1, <3>2, <2>2 DEF l
      <4>2. QED
        BY <4>1, <1>1, <1>10
    <3>3. CASE i # l
      <4>1. i \in 1 .. Len(t.ents[d]) /\ u.ents[d][i] = t.ents[d][i]
        BY <3>1, <3>3, <2>2, <1>10 DEF l
      <4>2. DOMAIN t.ents[d] = 1 .. Len(t.ents[d])
        BY <3>1
      <4>3. QED
        BY <4>1, <4>2, <2>2, <1>10
    <3>4. QED
      BY <3>2, <3>3
  <2>3. QED
    BY <2>1, <2>2
<1>11. QED
  BY <1>8, <1>9, <1>10 DEF Grows

\* An inode allocated leaves a tree.
LEMMA NewNodeOK ==
    ASSUME NEW t, NEW n, NEW type, NEW u, TreeOK(t), NewNode(t, n, type, u), n = ROOT_INUM => type = "dir"
    PROVE  TreeOK(u) /\ Grows(t, u)
<1>1. t \in TreeT /\ u \in TreeT /\ n \in Inums /\ n \notin t.imap /\ u.imap = t.imap \cup {n}
  BY DEF TreeOK, NewNode
<1>2. \A m \in Inums : u.ents[m] = t.ents[m] /\ Used(u, m) = Used(t, m) /\ Up(u, m) = Up(t, m)
  BY <1>1 DEF NewNode, TreeOK, Blank, Used, Up
<1>3. \A m \in t.imap : m \in Inums /\ u.typ[m] = t.typ[m] /\ m \in u.imap
  BY <1>1 DEF NewNode, TreeT
<1>4. Leads(u)
  BY <1>2, <1>3 DEF TreeOK, Leads
<1>5. Once(u)
  BY <1>2 DEF TreeOK, Once
<1>6. Back(u)
  <2>1. SUFFICES ASSUME NEW m \in Inums, NEW i \in Used(u, m), Child(u.ents[m][i])
                 PROVE  Up(u, u.ents[m][i].inum) = {m}
    BY DEF Back
  <2>2. i \in Used(t, m) /\ Child(t.ents[m][i]) /\ u.ents[m][i] = t.ents[m][i]
    BY <1>2, <2>1
  <2>3. t.ents[m][i].inum \in Inums /\ Up(t, t.ents[m][i].inum) = {m}
    BY <2>2, <1>3 DEF TreeOK, Back, Leads
  <2>4. QED
    BY <2>2, <2>3, <1>2
<1>7. Rooted(u)
  BY <1>2 DEF TreeOK, Rooted
<1>8. Blank(u)
  BY <1>1, <1>2 DEF TreeOK, Blank
<1>9. ROOT_INUM \in u.imap => u.typ[ROOT_INUM] = "dir"
  BY <1>1, <1>3 DEF TreeOK, NewNode
<1>10. TreeOK(u)
  BY <1>1, <1>4, <1>5, <1>6, <1>7, <1>8, <1>9 DEF TreeOK
<1>11. Lasts(t, u)
  BY <1>1, <1>3 DEF Lasts
<1>12. QED
  BY <1>2, <1>10, <1>11 DEF Grows

\* The two entries of a new directory.
LEMMA TwoEntries ==
    ASSUME NEW e1 \in EntryT, NEW e2 \in EntryT
    PROVE  LET s == Append(Append(<<>>, e1), e2)
           IN  s \in Seq(EntryT) /\ DOMAIN s = 1 .. 2 /\ s[1] = e1 /\ s[2] = e2
<1> DEFINE r == Append(<<>>, e1)
<1>1. r \in Seq(EntryT) /\ Len(r) = 1 /\ r[1] = e1
  OBVIOUS
<1> HIDE DEF r
<1> DEFINE s == Append(r, e2)
<1>2. s \in Seq(EntryT) /\ Len(s) = Len(r) + 1 /\ s[Len(r) + 1] = e2 /\ \A i \in 1 .. Len(r) : s[i] = r[i]
  BY <1>1
<1> HIDE DEF s
<1>3. s \in Seq(EntryT) /\ DOMAIN s = 1 .. 2 /\ s[1] = e1 /\ s[2] = e2
  BY <1>1, <1>2
<1>4. QED
  BY <1>3 DEF s, r

\* A new directory leaves a tree.
LEMMA NewSubdirOK ==
    ASSUME NEW t, NEW n, NEW d, NEW name, NEW u, TreeOK(t), NewSubdir(t, n, d, name, u),
           Lacks(t, d, name, "dir"), n # ROOT_INUM
    PROVE  TreeOK(u) /\ Grows(t, u)
<1> DEFINE e1 == Entry(".", "dir", n)
           e2 == Entry("..", "dir", d)
           e3 == Entry(name, "dir", n)
           s1 == Append(<<>>, e1)
           s2 == Append(s1, e2)
           t1 == [imap |-> u.imap, typ |-> u.typ, ents |-> t.ents]
           t2 == [imap |-> u.imap, typ |-> u.typ, ents |-> [t.ents EXCEPT ![n] = s1]]
           t3 == [imap |-> u.imap, typ |-> u.typ, ents |-> [t.ents EXCEPT ![n] = s2]]
<1>1. /\ t \in TreeT /\ u \in TreeT /\ n \in Inums /\ d \in Inums /\ n # d
      /\ t.ents \in [Inums -> Seq(EntryT)] /\ u.imap \in SUBSET Inums /\ u.typ \in [Inums -> Types]
      /\ t.ents[n] = <<>> /\ n \in u.imap /\ d \in u.imap /\ u.typ[n] = "dir" /\ u.typ[d] = "dir"
  BY DEF TreeOK, NewSubdir, TreeT, Blank
<1>2. e1 \in EntryT /\ e2 \in EntryT /\ e3 \in EntryT
  BY <1>1 DEF EntryT, Entry, AllNames, Types, NewSubdir
<1>3. /\ e1.name = "." /\ e1.type = "dir" /\ e1.inum = n
      /\ e2.name = ".." /\ e2.type = "dir" /\ e2.inum = d
      /\ e3.name = name /\ e3.type = "dir" /\ e3.inum = n
  BY DEF Entry
<1>4. u.ents[n] = s2 /\ u.ents[d] = Append(t.ents[d], e3) /\ name # ""
  BY DEF NewSubdir
<1> HIDE DEF e1, e2, e3
<1>5. s1 \in Seq(EntryT) /\ DOMAIN s1 = 1 .. 1 /\ s1[1] = e1
  BY <1>2
<1>6. s2 \in Seq(EntryT) /\ DOMAIN s2 = 1 .. 2 /\ s2[1] = e1 /\ s2[2] = e2
  BY <1>2, TwoEntries
<1>7. t1 \in TreeT /\ t1.ents[n] = <<>> /\ t1.ents = t.ents
  BY <1>1 DEF TreeT
<1> HIDE DEF s1
<1>8. t2 \in TreeT /\ t2.ents[n] = s1 /\ s1 = Append(<<>>, e1) /\ \A m \in Inums : m # n => t2.ents[m] = t.ents[m]
  BY <1>1, <1>5 DEF TreeT, s1
<1> HIDE DEF s2
<1>9. t3 \in TreeT /\ t3.ents[n] = s2 /\ s2 = Append(s1, e2) /\ \A m \in Inums : m # n => t3.ents[m] = t.ents[m]
  BY <1>1, <1>6 DEF TreeT, s2
<1>10. /\ t1.imap = u.imap /\ t2.imap = u.imap /\ t3.imap = u.imap
       /\ t1.typ = u.typ /\ t2.typ = u.typ /\ t3.typ = u.typ
  OBVIOUS
<1> HIDE DEF t1, t2, t3
<1>11. TreeOK(t1) /\ Grows(t, t1)
  <2>1. NewNode(t, n, "dir", t1)
    BY <1>1, <1>7, <1>10 DEF NewSubdir, NewNode
  <2>2. QED
    BY <2>1, NewNodeOK
<1>12. TreeOK(t2) /\ Grows(t1, t2)
  <2>1. Appended(t1, n, e1, t2)
    BY <1>1, <1>2, <1>7, <1>8, <1>10 DEF Appended
  <2>2. Lacks(t1, n, ".", "dir")
    BY <1>7 DEF Lacks, Used
  <2>3. Joins(t1, n, e1)
    BY <2>2, <1>1, <1>3, <1>10 DEF Joins, Child, OwnNames
  <2>4. QED
    BY <2>1, <2>3, <1>11, AppendedOK
<1>13. TreeOK(t3) /\ Grows(t2, t3)
  <2>1. Appended(t2, n, e2, t3)
    BY <1>1, <1>2, <1>8, <1>9, <1>10 DEF Appended
  <2>2. Lacks(t2, n, "..", "dir")
    BY <1>3, <1>5, <1>8 DEF Lacks, Used
  <2>3. Joins(t2, n, e2)
    BY <2>2, <1>1, <1>3, <1>10 DEF Joins, Child, OwnNames
  <2>4. QED
    BY <2>1, <2>3, <1>12, AppendedOK
<1>14. TreeOK(u) /\ Grows(t3, u)
  <2>1. Appended(t3, d, e3, u)
    <3>1. t3.ents[d] = t.ents[d] /\ \A m \in Inums : m # d => u.ents[m] = t3.ents[m]
      BY <1>1, <1>4, <1>9 DEF NewSubdir
    <3>2. QED
      BY <3>1, <1>1, <1>2, <1>4, <1>10 DEF Appended
  <2>2. Lacks(t3, d, name, "dir")
    BY <1>1, <1>9 DEF Lacks, Used
  <2>3. Up(t3, n) = {d}
    <3>1. e1 # Removed /\ e2 # Removed
      <4>1. Removed.name = "" /\ e1.name # "" /\ e2.name # ""
        BY <1>3 DEF Removed, Entry
      <4>2. QED
        BY <4>1, Zenon
    <3>2. Used(t3, n) = 1 .. 2
      BY <3>1, <1>6, <1>9 DEF Used
    <3>3. \A j \in 1 .. 2 : t3.ents[n][j].name = ".." /\ t3.ents[n][j].type = "dir" <=> j = 2
      BY <1>3, <1>6, <1>9
    <3>4. {j \in Used(t3, n) : t3.ents[n][j].name = ".." /\ t3.ents[n][j].type = "dir"} = {2}
      BY <3>2, <3>3
    <3>5. Up(t3, n) = {t3.ents[n][j].inum : j \in {2}}
      BY <3>4 DEF Up
    <3>6. QED
      BY <3>5, <1>3, <1>6, <1>9
  <2>4. Joins(t3, d, e3)
    BY <2>2, <2>3, <1>1, <1>3, <1>4, <1>10 DEF Joins
  <2>5. QED
    BY <2>1, <2>4, <1>13, AppendedOK
<1>15. QED
  BY <1>11, <1>12, <1>13, <1>14, GrowsOn

\* A directory with no entries but its own two.
Bare(t, n) == \A j \in Used(t, n) : t.ents[n][j].name \in OwnNames

\* Entries that go lead to no directory with others.
OnlyEmpty(t, u) ==
    \A d \in Inums : \A i \in Used(t, d) :
        i \in DOMAIN u.ents[d] /\ u.ents[d][i] = Removed /\ t.ents[d][i].type = "dir" => Bare(t, t.ents[d][i].inum)

\* Growth removes nothing.
LEMMA GrowsEmpties ==
    ASSUME NEW t, NEW u, Grows(t, u)
    PROVE  OnlyEmpty(t, u) /\ Lasts(t, u)
  BY DEF Grows, OnlyEmpty, Used

\* An entry taken away, unless it leads to a directory that has others, leaves a tree.
LEMMA CutOK ==
    ASSUME NEW t, NEW d, NEW i, NEW u, TreeOK(t), Cut(t, d, i, u),
           t.ents[d][i].type = "dir" => Bare(t, t.ents[d][i].inum)
    PROVE  TreeOK(u) /\ OnlyEmpty(t, u) /\ Lasts(t, u)
<1> DEFINE x == t.ents[d][i]
<1>1. t \in TreeT /\ u \in TreeT /\ d \in Inums /\ i \in Used(t, d) /\ u.imap = t.imap /\ u.typ = t.typ
  BY DEF TreeOK, Cut
<1>2. /\ Used(u, d) = Used(t, d) \ {i} /\ \A j \in Used(u, d) : u.ents[d][j] = t.ents[d][j]
  <2>1. u.ents[d] = [t.ents[d] EXCEPT ![i] = Removed]
    BY DEF Cut
  <2>2. QED
    BY <1>1, <2>1, UsedCut
<1>3. \A m \in Inums : m # d => u.ents[m] = t.ents[m] /\ Used(u, m) = Used(t, m)
  BY DEF Cut, Used
<1>4. ASSUME NEW m \in Inums, NEW j \in Used(u, m)
      PROVE  j \in Used(t, m) /\ u.ents[m][j] = t.ents[m][j]
  <2>1. CASE m = d
    BY <2>1, <1>2
  <2>2. CASE m # d
    BY <2>2, <1>3
  <2>3. QED
    BY <2>1, <2>2
<1>5. Leads(u)
  BY <1>1, <1>4 DEF Leads, TreeOK
<1>6. Once(u)
  BY <1>1, <1>4 DEF Once, TreeOK
<1>7. Rooted(u)
  BY <1>1, <1>4 DEF Rooted, TreeOK
<1>8. Blank(u)
  BY <1>1, <1>3 DEF Blank, TreeOK, Used
<1>9. Back(u)
  <2>1. SUFFICES ASSUME NEW m \in Inums, NEW j \in Used(u, m), Child(u.ents[m][j])
                 PROVE  Up(u, u.ents[m][j].inum) = {m}
    BY DEF Back
  <2> DEFINE n == u.ents[m][j].inum
  <2>2. j \in Used(t, m) /\ u.ents[m][j] = t.ents[m][j] /\ Child(t.ents[m][j])
    BY <1>4, <2>1
  <2>3. n \in Inums /\ Up(t, n) = {m} /\ n = t.ents[m][j].inum
    BY <1>1, <2>2 DEF Leads, TreeT, TreeOK, Back
  <2> HIDE DEF n
  <2>4. n # d \/ ~(x.name = ".." /\ x.type = "dir")
    <3>1. SUFFICES ASSUME n = d, x.name = "..", x.type = "dir" PROVE FALSE
      OBVIOUS
    <3>2. x.inum \in Up(t, d)
      BY <1>1, <3>1 DEF Up
    <3>3. x.inum = m
      BY <2>3, <3>1, <3>2
    <3>4. Bare(t, m)
      BY <3>1, <3>3
    <3>5. QED
      BY <3>4, <2>2 DEF Bare, Child
  <2>5. ASSUME NEW y \in Up(u, n) PROVE y \in Up(t, n)
    <3>1. PICK l \in Used(u, n) : u.ents[n][l].name = ".." /\ u.ents[n][l].type = "dir" /\ y = u.ents[n][l].inum
      BY <2>5 DEF Up
    <3>2. l \in Used(t, n) /\ u.ents[n][l] = t.ents[n][l]
      BY <1>4, <2>3, <3>1
    <3>3. QED
      BY <3>1, <3>2 DEF Up
  <2>6. ASSUME NEW y \in Up(t, n) PROVE y \in Up(u, n)
    <3>1. PICK l \in Used(t, n) : t.ents[n][l].name = ".." /\ t.ents[n][l].type = "dir" /\ y = t.ents[n][l].inum
      BY <2>6 DEF Up
    <3>2. n # d \/ l # i
      BY <2>4, <3>1
    <3>3. l \in Used(u, n)
      <4>1. CASE n # d
        BY <4>1, <1>3, <2>3
      <4>2. CASE n = d
        BY <4>2, <1>2, <3>2
      <4>3. QED
        BY <4>1, <4>2
    <3>4. u.ents[n][l] = t.ents[n][l]
      BY <3>3, <2>3, <1>4
    <3>5. QED
      BY <3>1, <3>3, <3>4 DEF Up
  <2>7. Up(u, n) = Up(t, n)
    BY <2>5, <2>6
  <2>8. QED
    BY <2>3, <2>7 DEF n
<1>10. TreeOK(u)
  BY <1>1, <1>5, <1>6, <1>7, <1>8, <1>9 DEF TreeOK
<1>11. OnlyEmpty(t, u)
  <2>1. SUFFICES ASSUME NEW m \in Inums, NEW j \in Used(t, m), u.ents[m][j] = Removed, t.ents[m][j].type = "dir"
                 PROVE  Bare(t, t.ents[m][j].inum)
    BY DEF OnlyEmpty
  <2>2. m = d
    BY <1>3, <2>1 DEF Used
  <2>3. j = i
    <3>1. SUFFICES ASSUME j # i PROVE FALSE
      OBVIOUS
    <3>2. j \in Used(u, d) /\ u.ents[d][j] = t.ents[d][j]
      BY <1>2, <2>2, <3>1
    <3>3. QED
      BY <3>2, <2>1, <2>2 DEF Used
  <2>4. QED
    BY <2>1, <2>2, <2>3
<1>12. QED
  BY <1>1, <1>10, <1>11 DEF Lasts

-----------------------------------------------------------------------------
(* The tree that a file system stands for *)

TreeOf(f) == [imap |-> f.imap, typ |-> [n \in Inums |-> f.inode[n].type], ents |-> f.ents]

\* What the inode of directory or file n must say.
Fits(f, n, x) == x.addrs = n /\ x.size = Len(f.ents[n]) /\ x.type = f.inode[n].type

\* The inode table and the cache fit the entries that are stored: a slot that is
\* used and an inode that is allocated say the same but for links and owner.
Cohere(f) ==
    /\ f \in FsT
    /\ \A n \in f.imap : n \in Inums /\ Fits(f, n, f.inode[n])
    /\ \A k \in Slots : f.ic[k].inum # -1 => f.ic[k].inum \in f.imap /\ Fits(f, f.ic[k].inum, f.ic[k].ip)

Alike(x, y) == x.type = y.type /\ x.size = y.size /\ x.addrs = y.addrs

\* Only references, links, owners and what is cached may differ.
Same(f, g) == Cohere(g) /\ TreeOf(g) = TreeOf(f)

\* No slot of the cache is free.
Full(f) == \A k \in Slots : f.ic[k].inum # -1

\* The tree has the types it should.
LEMMA TreeTypes ==
    ASSUME NEW f, Cohere(f)
    PROVE  /\ TreeOf(f) \in TreeT /\ TreeOf(f).imap = f.imap /\ TreeOf(f).ents = f.ents
           /\ \A n \in Inums : TreeOf(f).typ[n] = f.inode[n].type
           /\ f \in FsT /\ f.imap \subseteq Inums
<1>1. f \in FsT /\ f.imap \subseteq Inums
  BY DEF Cohere
<1>2. \A n \in Inums : f.inode[n] \in InodeT /\ f.inode[n].type \in Types
  BY <1>1 DEF FsT, InodeT
<1>3. f.ents \in [Inums -> Seq(EntryT)]
  BY <1>1 DEF FsT
<1>4. QED
  BY <1>1, <1>2, <1>3 DEF TreeOf, TreeT

\* What has to be shown of a file system that stands for the same tree.
LEMMA SameIs ==
    ASSUME NEW f, NEW g \in FsT, Cohere(f), g.imap = f.imap, g.ents = f.ents,
           \A n \in Inums : Alike(g.inode[n], f.inode[n]),
           \A k \in Slots : g.ic[k].inum # -1 => g.ic[k].inum \in f.imap /\ Fits(f, g.ic[k].inum, g.ic[k].ip)
    PROVE  Same(f, g)
<1>1. f.imap \subseteq Inums /\ \A n \in f.imap : Fits(f, n, f.inode[n])
  BY DEF Cohere
<1>2. \A n \in f.imap : Fits(g, n, g.inode[n])
  BY <1>1 DEF Fits, Alike
<1>3. \A k \in Slots : g.ic[k].inum # -1 => g.ic[k].inum \in g.imap /\ Fits(g, g.ic[k].inum, g.ic[k].ip)
  BY <1>1 DEF Fits, Alike
<1>4. Cohere(g)
  BY <1>1, <1>2, <1>3 DEF Cohere
<1>5. [n \in Inums |-> g.inode[n].type] = [n \in Inums |-> f.inode[n].type]
  BY DEF Alike
<1>6. QED
  BY <1>4, <1>5 DEF Same, TreeOf

\* A cached inode and the table say the same.
LEMMA CachedAlike ==
    ASSUME NEW f, Cohere(f), NEW k \in Slots, NEW n \in Inums, f.ic[k].inum = n
    PROVE  Alike(f.ic[k].ip, f.inode[n]) /\ n \in f.imap /\ Fits(f, n, f.ic[k].ip)
<1>1. n # -1
  BY Sizes
<1>2. n \in f.imap /\ Fits(f, n, f.inode[n]) /\ Fits(f, n, f.ic[k].ip)
  BY <1>1 DEF Cohere
<1>3. QED
  BY <1>2 DEF Fits, Alike

\* iget of an inode that is allocated.
LEMMA GotSame ==
    ASSUME NEW f, NEW n, NEW g, NEW k, Cohere(f), Got(f, n, g, k), n \in Inums => n \in f.imap
    PROVE  Same(f, g)
<1>1. /\ g \in FsT /\ g.imap = f.imap /\ g.inode = f.inode /\ g.ents = f.ents
      /\ \A j \in Slots : j # k => g.ic[j] = f.ic[j]
  BY DEF Got
<1>2. \A m \in Inums : Alike(g.inode[m], f.inode[m])
  BY <1>1 DEF Alike
<1>3. ASSUME NEW j \in Slots, g.ic[j].inum # -1
      PROVE  g.ic[j].inum \in f.imap /\ Fits(f, g.ic[j].inum, g.ic[j].ip)
  <2>1. CASE j # k
    BY <1>1, <1>3, <2>1 DEF Cohere
  <2>2. CASE j = k
    <3>1. k # NULL
      BY <2>2, Sizes
    <3>2. n \in f.imap /\ n # -1 /\ g.ic[k].inum = n
      BY <3>1, Sizes DEF Got
    <3>3. Fits(f, n, g.ic[k].ip)
      BY <2>2, <3>1, <3>2 DEF Got, Cohere
    <3>4. QED
      BY <2>2, <3>2, <3>3
  <2>3. QED
    BY <2>1, <2>2
<1>4. QED
  BY <1>1, <1>2, <1>3, SameIs

\* iput.
LEMMA PutSame ==
    ASSUME NEW f, NEW k \in Places, NEW g, Cohere(f), Put(f, k, g)
    PROVE  Same(f, g)
<1>1. /\ g \in FsT /\ g.imap = f.imap /\ g.ents = f.ents
      /\ \A j \in Slots : j # k => g.ic[j] = f.ic[j]
  BY DEF Put
<1>2. k # NULL => k \in Slots /\ f.ic[k].ref \in Nat
  <2>1. k # NULL => k \in Slots
    BY DEF Places
  <2>2. f \in FsT
    BY DEF Cohere
  <2>3. QED
    BY <2>1, <2>2, SlotTypes
<1>3. ASSUME NEW m \in Inums
      PROVE  Alike(g.inode[m], f.inode[m])
  <2>1. g.inode[m] = f.inode[m] \/ (k # NULL /\ f.ic[k].inum = m /\ g.inode[m] = f.ic[k].ip)
    BY <1>2 DEF Put
  <2>2. QED
    BY <2>1, <1>2, CachedAlike DEF Alike
<1>4. ASSUME NEW j \in Slots, g.ic[j].inum # -1
      PROVE  g.ic[j].inum \in f.imap /\ Fits(f, g.ic[j].inum, g.ic[j].ip)
  <2>1. CASE j # k
    BY <1>1, <1>4, <2>1 DEF Cohere
  <2>2. CASE j = k
    <3>1. k # NULL
      BY <2>2, Sizes
    <3>2. g.ic[k].inum = f.ic[k].inum /\ g.ic[k].ip = f.ic[k].ip
      <4>1. CASE f.ic[k].ref > 1
        BY <3>1, <4>1 DEF Put
      <4>2. CASE f.ic[k].ref <= 1
        BY <3>1, <4>2, <2>2, <1>4 DEF Put, FreeSlot
      <4>3. QED
        BY <4>1, <4>2, <3>1, <1>2
    <3>3. QED
      BY <2>2, <3>2, <1>4 DEF Cohere
  <2>3. QED
    BY <2>1, <2>2
<1>5. QED
  BY <1>1, <1>3, <1>4, SameIs

\* Whatever writes a cached inode back.
LEMMA SweptSame ==
    ASSUME NEW f, NEW k \in Slots, NEW g, Cohere(f), Swept(f, k, g)
    PROVE  Same(f, g)
<1>1. g \in FsT /\ g.imap = f.imap /\ g.ents = f.ents /\ g.ic = f.ic
  BY DEF Swept
<1>2. ASSUME NEW m \in Inums
      PROVE  Alike(g.inode[m], f.inode[m])
  <2>1. g.inode[m] = f.inode[m] \/ (f.ic[k].inum = m /\ g.inode[m] = f.ic[k].ip)
    BY DEF Swept
  <2>2. QED
    BY <2>1, CachedAlike DEF Alike
<1>3. QED
  BY <1>1, <1>2, SameIs DEF Cohere

\* Links and owner stored in an inode.
LEMMA StoredSame ==
    ASSUME NEW f, NEW k \in Slots, NEW x, NEW g, Cohere(f), Stored(f, k, x, g), g.ents = f.ents,
           Alike(x, f.ic[k].ip)
    PROVE  Same(f, g)
<1>1. g \in FsT /\ g.imap = f.imap /\ \A j \in Slots : j # k => g.ic[j] = f.ic[j]
  BY DEF Stored
<1>2. ASSUME NEW m \in Inums
      PROVE  Alike(g.inode[m], f.inode[m])
  <2>1. g.inode[m] = IF f.ic[k].inum = m THEN x ELSE f.inode[m]
    BY DEF Stored
  <2>2. QED
    BY <2>1, CachedAlike DEF Alike
<1>3. ASSUME NEW j \in Slots, g.ic[j].inum # -1
      PROVE  g.ic[j].inum \in f.imap /\ Fits(f, g.ic[j].inum, g.ic[j].ip)
  <2>1. g.ic[j].inum = f.ic[j].inum /\ Alike(g.ic[j].ip, f.ic[j].ip)
    BY <1>1 DEF Stored, Alike
  <2>2. f.ic[j].inum \in f.imap /\ Fits(f, f.ic[j].inum, f.ic[j].ip)
    BY <2>1, <1>3 DEF Cohere
  <2>3. QED
    BY <2>1, <2>2 DEF Fits, Alike
<1>4. QED
  BY <1>1, <1>2, <1>3, SameIs

\* It is transitive, and a file system is the same as itself.
LEMMA SameOn ==
    ASSUME NEW f, NEW g, NEW h, Same(f, g), Same(g, h)
    PROVE  Same(f, h)
  BY DEF Same

\* A file system is the same as itself.
LEMMA SameSelf ==
    ASSUME NEW f, Cohere(f)
    PROVE  Same(f, f)
  BY DEF Same

-----------------------------------------------------------------------------
(* The operations on directories *)

\* A slot in use, and the directory or file it holds.
LEMMA DirIs ==
    ASSUME NEW f, Cohere(f), NEW k \in Slots, f.ic[k].inum # -1
    PROVE  /\ f \in FsT /\ f.ic[k].inum \in Inums /\ f.ic[k].inum \in f.imap
           /\ f.ic[k].ip.addrs = f.ic[k].inum /\ f.ic[k].ip.size = Len(f.ents[f.ic[k].inum])
           /\ f.ic[k].ip.type = f.inode[f.ic[k].inum].type
           /\ Dir(f, k) = f.ents[f.ic[k].inum]
<1> DEFINE n == f.ic[k].inum
<1>1. f \in FsT /\ n \in Inums /\ n \in f.imap /\ Fits(f, n, f.ic[k].ip)
  BY DEF Cohere
<1>2. f.ents[n] \in Seq(EntryT) /\ Len(f.ents[n]) \in Nat
  <2>1. f.ents \in [Inums -> Seq(EntryT)]
    BY <1>1 DEF FsT
  <2>2. f.ents[n] \in Seq(EntryT)
    BY <1>1, <2>1
  <2>3. QED
    BY <2>2
<1>3. Upto(f.ents[n], Len(f.ents[n])) = f.ents[n]
  <2> DEFINE s == f.ents[n]
             l == Len(s)
  <2>1. s \in Seq(EntryT) /\ l \in Nat /\ l >= Len(s)
    BY <1>2
  <2> HIDE DEF s
  <2>2. l >= Len(s) => Upto(s, l) = s
    BY <2>1, UptoIs
  <2>3. QED
    BY <2>1, <2>2 DEF s
<1>4. QED
  BY <1>1, <1>3 DEF Fits, Dir

\* A slot is not NULL.
LEMMA SlotPlace ==
    ASSUME NEW k \in Slots
    PROVE  k # NULL /\ k \in Places
  BY Sizes DEF Places

\* Entry i is the one of this name and type.
Hit(t, d, name, type, i) == i \in Used(t, d) /\ t.ents[d][i].name = name /\ t.ents[d][i].type = type

\* An entry that matches is in use.
LEMMA MatchHits ==
    ASSUME NEW f, Cohere(f), NEW k \in Slots, f.ic[k].inum # -1, NEW name, name # "", NEW type, NEW i
    PROVE  i \in Matches(f, k, name, type) <=> Hit(TreeOf(f), f.ic[k].inum, name, type, i)
<1>1. Dir(f, k) = TreeOf(f).ents[f.ic[k].inum]
  <2>1. Dir(f, k) = f.ents[f.ic[k].inum]
    BY DirIs
  <2>2. TreeOf(f).ents = f.ents
    BY DEF TreeOf
  <2>3. QED
    BY <2>1, <2>2
<1>2. Removed.name = ""
  BY DEF Removed, Entry
<1>3. QED
  BY <1>1, <1>2 DEF Matches, Hit, Used

\* What a lookup finds and what it means if it finds nothing.
Answered(f, d, name, type, l) ==
    /\ Same(f, l.fs) /\ l.k \in Places
    /\ l.k # NULL =>
         \E i \in Matches(f, d, name, type) :
            /\ Hit(TreeOf(f), f.ic[d].inum, name, type, i)
            /\ l.fs.ic[l.k].inum = f.ents[f.ic[d].inum][i].inum
    /\ l.k = NULL => Lacks(TreeOf(f), f.ic[d].inum, name, type) \/ Full(f)

\* A lookup leaves the tree, and finds an entry unless there is none or no free slot.
LEMMA LookupTree ==
    ASSUME NEW f, Cohere(f), TreeOK(TreeOf(f)), NEW k \in Slots, f.ic[k].inum # -1,
           f.ic[k].ip.type = "dir", NEW name, name # "", NEW type
    PROVE  Answered(f, k, name, type, dir_lookup(f, k, name, type))
<1> DEFINE l == dir_lookup(f, k, name, type)
           m == Matches(f, k, name, type)
           t == TreeOf(f)
           d == f.ic[k].inum
           n == Dir(f, k)[Min(m)].inum
           s == Scanned(f, k)
<1> HIDE DEF l, m, n, s
<1>1. IsDir(f, k)
  <2>1. k # NULL
    BY SlotPlace
  <2>2. QED
    BY <2>1 DEF IsDir
<1>2. f \in FsT /\ d \in Inums /\ Dir(f, k) = t.ents[d] /\ t.ents = f.ents /\ t.imap \subseteq Inums
  <2>1. f \in FsT /\ d \in Inums /\ Dir(f, k) = f.ents[d]
    BY DirIs
  <2>2. t.ents = f.ents /\ t.imap \subseteq Inums
    BY TreeTypes
  <2>3. QED
    BY <2>1, <2>2
<1>3. Swept(f, k, s) /\ Same(f, s) /\ s.ic = f.ic
  <2>1. Swept(f, k, s)
    BY <1>2, ScannedSweeps DEF s
  <2>2. QED
    BY <2>1, SweptSame DEF Swept
<1>4. \A i : i \in m <=> Hit(t, d, name, type, i)
  BY MatchHits DEF m
<1> HIDE DEF t
<1>5. CASE m = {} /\ l.fs = s /\ l.k = NULL
  <2>1. Lacks(t, d, name, type)
    BY <1>4, <1>5 DEF Hit, Lacks
  <2>2. l.k \in Places
    BY <1>5 DEF Places
  <2>3. QED
    BY <1>3, <1>5, <2>1, <2>2 DEF Answered, l, t
<1>6. CASE m # {} /\ l = iget(s, n)
  <2>1. m \in SUBSET Nat
    BY <1>2, DirTypes DEF m
  <2>2. Min(m) \in m
    BY <2>1, <1>6, HasMin
  <2>3. Hit(t, d, name, type, Min(m))
    BY <2>2, <1>4
  <2>4. n \in t.imap /\ n \in Inums /\ n = t.ents[d][Min(m)].inum
    <3>1. n = t.ents[d][Min(m)].inum
      BY <1>2 DEF n
    <3>2. t.ents[d][Min(m)].inum \in t.imap
      BY <2>3, <1>2 DEF Hit, TreeOK, Leads, t
    <3>3. QED
      BY <3>1, <3>2, <1>2
  <2>5. s \in FsT /\ Cohere(s) /\ s.imap = t.imap
    BY <1>3, TreeTypes DEF Same, t
  <2>6. Got(s, n, l.fs, l.k)
    BY <2>4, <2>5, <1>6, Iget
  <2>7. Same(s, l.fs)
    BY <2>4, <2>5, <2>6, GotSame
  <2>8. Same(f, l.fs) /\ l.k \in Places
    BY <2>7, <1>3, SameOn, <2>6 DEF Got
  <2>9. l.k # NULL => l.fs.ic[l.k].inum = f.ents[d][Min(m)].inum
    BY <2>4, <2>6, <1>2 DEF Got
  <2>10. l.k = NULL => Full(f)
    BY <2>4, <2>6, <1>3 DEF Got, Full
  <2>11. QED
    BY <2>2, <2>3, <2>8, <2>9, <2>10 DEF Answered, l, t, m
<1>7. QED
  BY <1>1, <1>5, <1>6, LookupIs DEF l, m, n, s

\* An inode written for a new file or directory.
LEMMA MadeTree ==
    ASSUME NEW f, Cohere(f), NEW type \in {"file", "dir"}, NEW n, NEW h, Made(f, type, n, h)
    PROVE  Cohere(h) /\ NewNode(TreeOf(f), n, type, TreeOf(h))
<1>1. /\ h \in FsT /\ n \in Inums /\ n \notin f.imap /\ h.imap = f.imap \cup {n} /\ h.ic = f.ic
      /\ h.ents[n] = <<>> /\ \A m \in Inums : m # n => h.inode[m] = f.inode[m] /\ h.ents[m] = f.ents[m]
      /\ h.inode[n] = [NoInode EXCEPT !.type = type, !.nlink = 1, !.oread = TRUE, !.addrs = n]
  BY DEF Made
<1>2. h.inode[n].type = type /\ h.inode[n].size = 0 /\ h.inode[n].addrs = n
  BY <1>1 DEF NoInode
<1>3. Fits(h, n, h.inode[n])
  BY <1>1, <1>2 DEF Fits
<1>4. \A m \in f.imap : m \in Inums /\ m # n /\ Fits(f, m, f.inode[m])
  BY <1>1 DEF Cohere
<1>5. \A m \in f.imap : Fits(h, m, h.inode[m])
  BY <1>1, <1>4 DEF Fits
<1>6. ASSUME NEW k \in Slots, h.ic[k].inum # -1
      PROVE  h.ic[k].inum \in h.imap /\ Fits(h, h.ic[k].inum, h.ic[k].ip)
  <2>1. f.ic[k].inum \in f.imap /\ Fits(f, f.ic[k].inum, f.ic[k].ip)
    BY <1>1, <1>6 DEF Cohere
  <2>2. QED
    BY <2>1, <1>1, <1>4 DEF Fits
<1>7. Cohere(h)
  BY <1>1, <1>3, <1>4, <1>5, <1>6 DEF Cohere
<1>8. NewNode(TreeOf(f), n, type, TreeOf(h))
  <2>1. TreeOf(h) \in TreeT /\ TreeOf(f).imap = f.imap /\ TreeOf(h).imap = h.imap
        /\ TreeOf(h).ents = h.ents /\ TreeOf(f).ents = f.ents
    BY <1>7, TreeTypes DEF TreeOf
  <2>2. \A m \in Inums : TreeOf(h).typ[m] = h.inode[m].type /\ TreeOf(f).typ[m] = f.inode[m].type
    BY DEF TreeOf
  <2>3. \A m \in Inums : m # n => TreeOf(h).typ[m] = TreeOf(f).typ[m] /\ TreeOf(h).ents[m] = TreeOf(f).ents[m]
    BY <2>1, <2>2, <1>1
  <2>4. TreeOf(h).typ[n] = type /\ TreeOf(h).ents[n] = <<>>
    BY <2>1, <2>2, <1>1, <1>2
  <2>5. QED
    BY <2>1, <2>3, <2>4, <1>1 DEF NewNode
<1>9. QED
  BY <1>7, <1>8

\* The table has an inode that is not allocated.
Roomy(f) == Inums \ f.imap # {}

\* What an allocation leaves: a new inode, and if there was a free slot it is there.
Allocated(f, type, n, a) ==
    /\ NewNode(TreeOf(f), n, type, TreeOf(a.fs)) /\ Cohere(a.fs) /\ a.k \in Places
    /\ a.k # NULL =>
         /\ a.fs.ic[a.k].inum = n /\ a.fs.ic[a.k].ip.type = type /\ f.ic[a.k].inum = -1
         /\ \A j \in Slots : j # a.k => a.fs.ic[j] = f.ic[j]

\* An allocation with a free inode.
LEMMA AllocTree ==
    ASSUME NEW f, Cohere(f), Roomy(f), NEW type \in {"file", "dir"}
    PROVE  \E n \in Inums : Allocated(f, type, n, ialloc(f, type))
<1> DEFINE a == ialloc(f, type)
<1>1. f \in FsT /\ f.imap \subseteq Inums /\ MaxInodes \notin f.imap /\ type \in Types
  <2>1. f \in FsT /\ f.imap \subseteq Inums
    BY TreeTypes
  <2>2. MaxInodes \notin Inums
    BY Sizes
  <2>3. QED
    BY <2>1, <2>2 DEF Types
<1> HIDE DEF a
<1>2. \/ \E n \in Inums, h \in FsT : Made(f, type, n, h) /\ a = iget(h, n)
      \/ Inums \subseteq f.imap
  BY <1>1, AllocIs DEF a
<1>3. PICK n \in Inums, h \in FsT : Made(f, type, n, h) /\ a = iget(h, n)
  BY <1>2 DEF Roomy
<1>4. Cohere(h) /\ NewNode(TreeOf(f), n, type, TreeOf(h))
  BY <1>3, MadeTree
<1>5. Got(h, n, a.fs, a.k)
  BY <1>3, Iget
<1>6. n \in h.imap /\ h.ic = f.ic /\ n \notin f.imap /\ h.inode[n].type = type
  BY <1>3 DEF Made, NoInode
<1>7. Same(h, a.fs)
  BY <1>4, <1>5, <1>6, GotSame
<1>8. NewNode(TreeOf(f), n, type, TreeOf(a.fs)) /\ Cohere(a.fs) /\ a.k \in Places
  BY <1>4, <1>5, <1>7 DEF Same, Got
<1>9. ASSUME a.k # NULL
      PROVE  /\ a.fs.ic[a.k].inum = n /\ a.fs.ic[a.k].ip.type = type /\ f.ic[a.k].inum = -1
             /\ \A j \in Slots : j # a.k => a.fs.ic[j] = f.ic[j]
  <2>1. a.k \in Slots
    BY <1>8, <1>9 DEF Places
  <2>2. a.fs.ic[a.k].inum = n /\ \A j \in Slots : j # a.k => a.fs.ic[j] = f.ic[j]
    BY <1>5, <1>6, <1>9 DEF Got
  <2>3. f.ic[a.k].inum # n
    BY <2>1, <1>6, Sizes DEF Cohere
  <2>4. f.ic[a.k].inum = -1 /\ a.fs.ic[a.k].ip = h.inode[n]
    BY <1>5, <1>6, <1>9, <2>3 DEF Got
  <2>5. QED
    BY <2>2, <2>4, <1>6
<1>10. Allocated(f, type, n, a)
  BY <1>8, <1>9 DEF Allocated
<1>11. QED
  BY <1>10 DEF a

\* The names that dir_add stores as they are.
ShortNames == AllNames \ LongNames

\* An entry is added to the directory in slot k: the slots keep what they hold.
Added(f, k, e, g) ==
    /\ Cohere(g) /\ Appended(TreeOf(f), f.ic[k].inum, e, TreeOf(g))
    /\ \A j \in Slots : g.ic[j].inum = f.ic[j].inum /\ g.ic[j].ip.type = f.ic[j].ip.type

\* dir_add.
LEMMA AddTree ==
    ASSUME NEW f, Cohere(f), Sane(f), NEW k \in Slots, f.ic[k].inum # -1, f.ic[k].ip.type = "dir",
           NEW name \in ShortNames, NEW type \in Types, NEW n \in Inums
    PROVE  Added(f, k, Entry(name, type, n), dir_add(f, k, name, type, n))
<1> DEFINE d == f.ic[k].inum
           g == dir_add(f, k, name, type, n)
           e == Entry(name, type, n)
           ip == f.ic[k].ip
           x == [ip EXCEPT !.size = ip.size + 1]
<1>1. /\ f \in FsT /\ d \in Inums /\ d \in f.imap /\ ip.addrs = d /\ ip.size = Len(f.ents[d])
      /\ ip.type = f.inode[d].type /\ d # -1
  BY DirIs
<1>2. IsDir(f, k)
  BY SlotPlace DEF IsDir
<1>3. ip \in InodeT /\ f.ents[d] \in Seq(EntryT) /\ e \in EntryT
  <2>1. ip \in InodeT
    BY <1>1, SlotTypes
  <2>2. f.ents \in [Inums -> Seq(EntryT)]
    BY <1>1 DEF FsT
  <2>3. e \in EntryT
    BY DEF EntryT, Entry, ShortNames
  <2>4. QED
    BY <2>1, <2>2, <2>3, <1>1
<1>4. x.type = ip.type /\ x.addrs = ip.addrs /\ x.size = ip.size + 1
  BY <1>3 DEF InodeT
<1>5. /\ Stored(f, k, x, g) /\ \A m \in Inums : m # d => g.ents[m] = f.ents[m]
      /\ g.ents[d] = Append(f.ents[d], e)
  <2> HIDE DEF x, g, e
  <2>1. n \in Inums \cup {-1} /\ name \in AllNames /\ Clipped(name) = name
    BY DEF ShortNames, Clipped
  <2>2. EntryAdded(f, k, Entry(Clipped(name), type, n), dir_add(f, k, name, type, n))
    BY <1>1, <1>2, <2>1, DirAdd, Zenon
  <2>3. EntryAdded(f, k, e, g)
    BY <2>1, <2>2 DEF e, g
  <2>4. Stored(f, k, x, g) /\ \A m \in Inums : m # f.ic[k].ip.addrs => g.ents[m] = f.ents[m]
    BY <2>3 DEF EntryAdded, x
  <2>5. f.ic[k].ip.size = Len(f.ents[f.ic[k].ip.addrs]) =>
           g.ents[f.ic[k].ip.addrs] = Append(f.ents[f.ic[k].ip.addrs], e)
    BY <2>3 DEF EntryAdded
  <2>6. QED
    BY <1>1, <2>4, <2>5
<1> HIDE DEF g, x, e
<1>6. /\ g \in FsT /\ g.imap = f.imap /\ \A j \in Slots : j # k => g.ic[j] = f.ic[j]
      /\ g.ic[k].inum = d /\ g.ic[k].ip = x
      /\ \A m \in Inums : g.inode[m] = IF d = m THEN x ELSE f.inode[m]
  BY <1>5 DEF Stored
<1>7. Len(g.ents[d]) = Len(f.ents[d]) + 1
  BY <1>3, <1>5
<1>8. Fits(g, d, x) /\ g.inode[d] = x
  BY <1>1, <1>4, <1>6, <1>7 DEF Fits
<1>9. \A m \in Inums : g.inode[m].type = f.inode[m].type
  BY <1>1, <1>4, <1>6
<1>10. ASSUME NEW m \in g.imap
       PROVE  m \in Inums /\ Fits(g, m, g.inode[m])
  <2>1. m \in Inums /\ Fits(f, m, f.inode[m])
    BY <1>6, <1>10 DEF Cohere
  <2>2. QED
    BY <2>1, <1>5, <1>6, <1>8, <1>9 DEF Fits
<1>11. ASSUME NEW j \in Slots, g.ic[j].inum # -1
       PROVE  g.ic[j].inum \in g.imap /\ Fits(g, g.ic[j].inum, g.ic[j].ip)
  <2>1. CASE j = k
    BY <2>1, <1>1, <1>6, <1>8
  <2>2. CASE j # k
    <3>1. f.ic[j].inum \in f.imap /\ Fits(f, f.ic[j].inum, f.ic[j].ip) /\ g.ic[j] = f.ic[j]
      BY <1>6, <1>11, <2>2 DEF Cohere
    <3>2. f.ic[j].inum # d
      BY <2>2, <1>11, <3>1 DEF Sane
    <3>3. f.ic[j].inum \in Inums
      BY <3>1 DEF Cohere
    <3>4. QED
      BY <3>1, <3>2, <3>3, <1>5, <1>6, <1>9 DEF Fits
  <2>3. QED
    BY <2>1, <2>2
<1>12. Cohere(g)
  BY <1>6, <1>10, <1>11 DEF Cohere
<1>13. Appended(TreeOf(f), d, e, TreeOf(g))
  <2>1. TreeOf(g) \in TreeT /\ TreeOf(f).imap = f.imap /\ TreeOf(g).imap = g.imap
        /\ TreeOf(g).ents = g.ents /\ TreeOf(f).ents = f.ents
    BY <1>12, TreeTypes DEF TreeOf
  <2>2. TreeOf(g).typ = TreeOf(f).typ
    BY <1>9 DEF TreeOf
  <2>3. QED
    BY <2>1, <2>2, <1>1, <1>3, <1>5, <1>6 DEF Appended
<1>14. \A j \in Slots : g.ic[j].inum = f.ic[j].inum /\ g.ic[j].ip.type = f.ic[j].ip.type
  BY <1>4, <1>6
<1>15. QED
  BY <1>12, <1>13, <1>14 DEF Added, g, e

\* Sequences with the same domain have the same length.
LEMMA SameDomain ==
    ASSUME NEW S, NEW r \in Seq(S), NEW s \in Seq(S), DOMAIN r = DOMAIN s
    PROVE  Len(r) = Len(s)
<1> DEFINE a == Len(r)
           b == Len(s)
<1>1. a \in Nat /\ b \in Nat /\ 1 .. a = 1 .. b
  BY LenProperties
<1> HIDE DEF a, b
<1>2. (a >= 1 => a \in 1 .. b) /\ (b >= 1 => b \in 1 .. a)
  BY <1>1
<1>3. a = b
  BY <1>1, <1>2
<1>4. QED
  BY <1>3 DEF a, b

\* An entry goes from the directory in slot k, if it can.
Taken(f, k, name, type, g) ==
    /\ Cohere(g) /\ g.ic = f.ic
    /\ Removable(f, k, name, type) = {} => Same(f, g)
    /\ Removable(f, k, name, type) # {} =>
         \E i : Hit(TreeOf(f), f.ic[k].inum, name, type, i) /\ Cut(TreeOf(f), f.ic[k].inum, i, TreeOf(g))

\* dir_remove.
LEMMA RemoveTree ==
    ASSUME NEW f, Cohere(f), NEW k \in Slots, f.ic[k].inum # -1, NEW name, name # "", NEW type
    PROVE  Taken(f, k, name, type, dir_remove(f, k, name, type))
<1> DEFINE d == f.ic[k].inum
           g == dir_remove(f, k, name, type)
           m == Removable(f, k, name, type)
<1>1. f \in FsT /\ d \in Inums /\ d \in f.imap /\ f.ic[k].ip.addrs = d /\ d # -1
  BY DirIs
<1>2. /\ Quiet(f, g) /\ g.ic = f.ic
      /\ \A n \in Inums : g.inode[n] = f.inode[n] \/ (f.ic[k].inum = n /\ g.inode[n] = f.ic[k].ip)
      /\ \A n \in Inums : n # d => g.ents[n] = f.ents[n]
      /\ m = {} => g.ents = f.ents
      /\ m # {} => \E i \in m : g.ents[d] = [f.ents[d] EXCEPT ![i] = Removed]
  <2>1. Dropped(f, k, f.ic[k].ip.addrs, m, g)
    BY <1>1, DirRemove
  <2>2. Dropped(f, k, d, m, g)
    BY <2>1, <1>1
  <2> HIDE DEF m, g, d
  <2>3. QED
    BY <2>2 DEF Dropped
<1>3. \A i \in m : Hit(TreeOf(f), d, name, type, i)
  <2>1. \A i : i \in Matches(f, k, name, type) <=> Hit(TreeOf(f), f.ic[k].inum, name, type, i)
    BY MatchHits
  <2>2. QED
    BY <2>1 DEF Removable
<1> HIDE DEF g, m
<1>4. g \in FsT /\ g.imap = f.imap
  BY <1>2 DEF Quiet, Still
<1>5. ASSUME NEW n \in Inums
      PROVE  Alike(g.inode[n], f.inode[n])
  <2>1. CASE g.inode[n] = f.inode[n]
    BY <2>1 DEF Alike
  <2>2. CASE f.ic[k].inum = n /\ g.inode[n] = f.ic[k].ip
    BY <2>2, CachedAlike
  <2>3. QED
    BY <1>2, <2>1, <2>2
<1>6. CASE m = {}
  <2>1. g.ents = f.ents
    BY <1>2, <1>6
  <2>2. \A j \in Slots : g.ic[j].inum # -1 => g.ic[j].inum \in f.imap /\ Fits(f, g.ic[j].inum, g.ic[j].ip)
    BY <1>2 DEF Cohere
  <2>3. Same(f, g)
    BY <1>4, <1>5, <2>1, <2>2, SameIs
  <2>4. QED
    BY <1>2, <1>6, <2>3 DEF Taken, Same, m, g
<1>7. CASE m # {}
  <2>1. PICK i \in m : g.ents[d] = [f.ents[d] EXCEPT ![i] = Removed]
    BY <1>1, <1>2, <1>7
  <2>2. Len(g.ents[d]) = Len(f.ents[d])
    <3>1. f.ents[d] \in Seq(EntryT) /\ g.ents[d] \in Seq(EntryT)
      BY <1>1, <1>4 DEF FsT
    <3>2. DOMAIN g.ents[d] = DOMAIN f.ents[d]
      BY <2>1
    <3>3. QED
      BY <3>1, <3>2, SameDomain
  <2>3. \A n \in Inums : Len(g.ents[n]) = Len(f.ents[n])
    BY <1>1, <1>2, <2>2
  <2>4. \A n \in Inums : \A x : Fits(f, n, x) => Fits(g, n, x)
    BY <1>5, <2>3 DEF Fits, Alike
  <2>5. \A n \in Inums : Fits(f, n, f.inode[n]) => Fits(f, n, g.inode[n])
    BY <1>5 DEF Fits, Alike
  <2>6. Cohere(g)
    <3>1. \A n \in g.imap : n \in Inums /\ Fits(g, n, g.inode[n])
      BY <1>4, <2>4, <2>5 DEF Cohere
    <3>2. ASSUME NEW j \in Slots, g.ic[j].inum # -1
          PROVE  g.ic[j].inum \in g.imap /\ Fits(g, g.ic[j].inum, g.ic[j].ip)
      <4>1. f.ic[j].inum \in f.imap /\ Fits(f, f.ic[j].inum, f.ic[j].ip) /\ g.ic[j] = f.ic[j]
        BY <1>2, <3>2 DEF Cohere
      <4>2. f.ic[j].inum \in Inums
        BY <4>1 DEF Cohere
      <4>3. QED
        BY <4>1, <4>2, <2>4, <1>4
    <3>3. QED
      BY <1>4, <3>1, <3>2 DEF Cohere
  <2>7. Cut(TreeOf(f), d, i, TreeOf(g))
    <3>1. TreeOf(g) \in TreeT /\ TreeOf(f).imap = f.imap /\ TreeOf(g).imap = g.imap
          /\ TreeOf(g).ents = g.ents /\ TreeOf(f).ents = f.ents
      BY <2>6, TreeTypes DEF TreeOf
    <3>2. TreeOf(g).typ = TreeOf(f).typ
      BY <1>5 DEF TreeOf, Alike
    <3>3. i \in Used(TreeOf(f), d)
      BY <1>3 DEF Hit
    <3>4. \A n \in Inums : n # d => g.ents[n] = f.ents[n]
      BY <1>1, <1>2
    <3>5. QED
      BY <3>1, <3>2, <3>3, <3>4, <1>1, <1>4, <2>1 DEF Cut
  <2>8. QED
    BY <1>2, <1>3, <1>7, <2>6, <2>7 DEF Taken, m, g
<1>8. QED
  BY <1>6, <1>7

-----------------------------------------------------------------------------
(* New directories *)

\* A directory's own two entries appended.
OwnEntries(t, n, p, u) ==
    /\ u \in TreeT /\ u.imap = t.imap /\ u.typ = t.typ /\ n \in Inums
    /\ u.ents[n] = Append(Append(t.ents[n], Entry(".", "dir", n)), Entry("..", "dir", p))
    /\ \A m \in Inums : m # n => u.ents[m] = t.ents[m]

\* A new directory that gets its own entries before its name.
LEMMA SubdirOwnFirst ==
    ASSUME NEW t, NEW n, NEW d, NEW name, NEW t1, NEW t2, NEW u, t.typ[d] = "dir", d \in t.imap, name # "",
           NewNode(t, n, "dir", t1), OwnEntries(t1, n, d, t2), Appended(t2, d, Entry(name, "dir", n), u)
    PROVE  NewSubdir(t, n, d, name, u)
<1>1. n \in Inums /\ n \notin t.imap /\ t1.imap = t.imap \cup {n} /\ d # n
      /\ t1.typ[n] = "dir" /\ t1.ents[n] = <<>>
      /\ \A m \in Inums : m # n => t1.typ[m] = t.typ[m] /\ t1.ents[m] = t.ents[m]
  BY DEF NewNode
<1>2. t2.imap = t1.imap /\ t2.typ = t1.typ
      /\ t2.ents[n] = Append(Append(t1.ents[n], Entry(".", "dir", n)), Entry("..", "dir", d))
      /\ \A m \in Inums : m # n => t2.ents[m] = t1.ents[m]
  BY DEF OwnEntries
<1>3. u \in TreeT /\ u.imap = t2.imap /\ u.typ = t2.typ /\ d \in Inums /\ Entry(name, "dir", n) \in EntryT
      /\ u.ents[d] = Append(t2.ents[d], Entry(name, "dir", n))
      /\ \A m \in Inums : m # d => u.ents[m] = t2.ents[m]
  BY DEF Appended
<1>4. u.ents[n] = Append(Append(<<>>, Entry(".", "dir", n)), Entry("..", "dir", d))
  BY <1>1, <1>2, <1>3
<1>5. u.ents[d] = Append(t.ents[d], Entry(name, "dir", n))
  BY <1>1, <1>2, <1>3
<1>6. \A m \in Inums : m # n => u.typ[m] = t.typ[m]
  <2>1. u.typ = t1.typ
    BY <1>2, <1>3
  <2>2. QED
    BY <1>1, <2>1
<1>7. \A m \in Inums : m # n /\ m # d => u.ents[m] = t.ents[m]
  BY <1>1, <1>2, <1>3
<1>8. QED
  BY <1>1, <1>2, <1>3, <1>4, <1>5, <1>6, <1>7 DEF NewSubdir

\* A new directory that gets its name first.
LEMMA SubdirNameFirst ==
    ASSUME NEW t, NEW n, NEW d, NEW name, NEW t1, NEW t2, NEW u, t.typ[d] = "dir", d \in t.imap, name # "",
           NewNode(t, n, "dir", t1), Appended(t1, d, Entry(name, "dir", n), t2), OwnEntries(t2, n, d, u)
    PROVE  NewSubdir(t, n, d, name, u)
<1>1. n \in Inums /\ n \notin t.imap /\ t1.imap = t.imap \cup {n} /\ d # n
      /\ t1.typ[n] = "dir" /\ t1.ents[n] = <<>>
      /\ \A m \in Inums : m # n => t1.typ[m] = t.typ[m] /\ t1.ents[m] = t.ents[m]
  BY DEF NewNode
<1>2. u \in TreeT /\ u.imap = t2.imap /\ u.typ = t2.typ
      /\ u.ents[n] = Append(Append(t2.ents[n], Entry(".", "dir", n)), Entry("..", "dir", d))
      /\ \A m \in Inums : m # n => u.ents[m] = t2.ents[m]
  BY DEF OwnEntries
<1>3. t2.imap = t1.imap /\ t2.typ = t1.typ /\ d \in Inums /\ Entry(name, "dir", n) \in EntryT
      /\ t2.ents[d] = Append(t1.ents[d], Entry(name, "dir", n))
      /\ \A m \in Inums : m # d => t2.ents[m] = t1.ents[m]
  BY DEF Appended
<1>4. u.ents[n] = Append(Append(<<>>, Entry(".", "dir", n)), Entry("..", "dir", d))
  BY <1>1, <1>2, <1>3
<1>5. u.ents[d] = Append(t.ents[d], Entry(name, "dir", n))
  BY <1>1, <1>2, <1>3
<1>6. \A m \in Inums : m # n => u.typ[m] = t.typ[m]
  <2>1. u.typ = t1.typ
    BY <1>2, <1>3
  <2>2. QED
    BY <1>1, <2>1
<1>7. \A m \in Inums : m # n /\ m # d => u.ents[m] = t.ents[m]
  BY <1>1, <1>2, <1>3
<1>8. QED
  BY <1>1, <1>2, <1>3, <1>4, <1>5, <1>6, <1>7 DEF NewSubdir

\* What keeps the slots keeps them sane.
LEMMA StillSane ==
    ASSUME NEW f, NEW g, Sane(f), Still(f, g)
    PROVE  Sane(g)
  BY AtStart, AtStill, AtTypes

\* A directory that NewDir makes.
OwnMade(f, k, p, g) ==
    /\ Cohere(g) /\ Sane(g) /\ OwnEntries(TreeOf(f), f.ic[k].inum, p, TreeOf(g))
    /\ \A j \in Slots : g.ic[j].inum = f.ic[j].inum /\ g.ic[j].ip.type = f.ic[j].ip.type

\* NewDir.
LEMMA NewDirTree ==
    ASSUME NEW f, Cohere(f), Sane(f), NEW k \in Slots, f.ic[k].inum # -1, f.ic[k].ip.type = "dir",
           NEW uid \in Uids, NEW oread \in BOOLEAN, NEW p \in Inums
    PROVE  OwnMade(f, k, p, NewDir(f, k, uid, oread, p))
<1> DEFINE n == f.ic[k].inum
           o == Owned(f, k, 2, uid, oread)
           x == OwnedIp(f.ic[k].ip, 2, uid, oread)
           g == dir_add(o, k, ".", "dir", n)
           h == dir_add(g, k, "..", "dir", p)
<1>1. f \in FsT /\ n \in Inums /\ "." \in ShortNames /\ ".." \in ShortNames /\ "dir" \in Types /\ 2 \in LinkT
  <2>1. f \in FsT /\ n \in Inums
    BY DirIs
  <2>2. 2 \in LinkT
    BY Sizes DEF LinkT
  <2>3. QED
    BY <2>1, <2>2, NamespaceAssumption DEF ShortNames, AllNames, Types
<1>2. NewDir(f, k, uid, oread, p) = h
  BY DEF NewDir
<1>3. /\ Stored(f, k, x, o) /\ o.ents = f.ents /\ Quiet(f, o)
      /\ x.type = f.ic[k].ip.type /\ x.size = f.ic[k].ip.size /\ x.addrs = f.ic[k].ip.addrs
  BY <1>1, OwnedStores
<1> HIDE DEF o, x
<1>4. Same(f, o) /\ Sane(o)
  BY <1>3, StoredSame, StillSane DEF Alike, Quiet
<1>5. \A j \in Slots : o.ic[j].inum = f.ic[j].inum /\ o.ic[j].ip.type = f.ic[j].ip.type
  BY <1>3 DEF Stored
<1>6. Added(o, k, Entry(".", "dir", n), g) /\ Quiet(o, g)
  <2>1. Cohere(o) /\ o \in FsT /\ o.ic[k].inum # -1 /\ o.ic[k].ip.type = "dir"
    BY <1>4, <1>5 DEF Same, Cohere
  <2>2. Added(o, k, Entry(".", "dir", n), g)
    BY <1>1, <1>4, <2>1, AddTree
  <2>3. Quiet(o, g)
    BY <1>1, <2>1, SlotPlace, DirAddQuiet DEF ShortNames
  <2>4. QED
    BY <2>2, <2>3
<1> HIDE DEF g
<1>7. Cohere(g) /\ Sane(g) /\ g.ic[k].inum = n /\ g.ic[k].ip.type = "dir"
  BY <1>4, <1>5, <1>6, StillSane DEF Added, Quiet
<1>8. Added(g, k, Entry("..", "dir", p), h) /\ Quiet(g, h)
  <2>1. g \in FsT /\ g.ic[k].inum # -1
    BY <1>7 DEF Cohere
  <2>2. Added(g, k, Entry("..", "dir", p), h)
    BY <1>1, <1>7, <2>1, AddTree
  <2>3. Quiet(g, h)
    BY <1>1, <2>1, SlotPlace, DirAddQuiet DEF ShortNames
  <2>4. QED
    BY <2>2, <2>3
<1> HIDE DEF h
<1>9. Cohere(h) /\ Sane(h)
  BY <1>7, <1>8, StillSane DEF Added, Quiet
<1>10. \A j \in Slots : h.ic[j].inum = f.ic[j].inum /\ h.ic[j].ip.type = f.ic[j].ip.type
  BY <1>5, <1>6, <1>8 DEF Added
<1>11. OwnEntries(TreeOf(f), n, p, TreeOf(h))
  <2>1. Appended(TreeOf(f), n, Entry(".", "dir", n), TreeOf(g))
    BY <1>4, <1>5, <1>6 DEF Added, Same
  <2>2. Appended(TreeOf(g), n, Entry("..", "dir", p), TreeOf(h))
    BY <1>7, <1>8 DEF Added
  <2>3. QED
    BY <2>1, <2>2 DEF Appended, OwnEntries
<1>12. QED
  BY <1>2, <1>9, <1>10, <1>11 DEF OwnMade

-----------------------------------------------------------------------------
(* What the commands keep *)

Good(f) == Sane(f) /\ Cohere(f) /\ TreeOK(TreeOf(f))

\* A good file system becomes one that has all it had.
Grown(f, g) == Good(g) /\ Grows(TreeOf(f), TreeOf(g))

\* Directory d is held in slot k.
HeldDir(f, k, d) == k \in Slots /\ d \in Inums /\ f.ic[k].inum = d /\ TreeOf(f).typ[d] = "dir"

\* What it means that a directory is held.
LEMMA HeldDirIs ==
    ASSUME NEW f, Cohere(f), NEW k, NEW d, HeldDir(f, k, d)
    PROVE  /\ k \in Slots /\ k # NULL /\ k \in Places /\ d \in Inums /\ d # -1 /\ f.ic[k].inum = d
           /\ f.ic[k].inum # -1 /\ f.ic[k].ip.type = "dir" /\ d \in f.imap /\ TreeOf(f).typ[d] = "dir"
<1>1. k \in Slots /\ d \in Inums /\ f.ic[k].inum = d /\ TreeOf(f).typ[d] = "dir" /\ d # -1
  BY Sizes DEF HeldDir
<1>2. f.ic[k].ip.type = f.inode[d].type /\ d \in f.imap
  BY <1>1, DirIs
<1>3. TreeOf(f).typ[d] = f.inode[d].type
  BY <1>1, TreeTypes
<1>4. QED
  BY <1>1, <1>2, <1>3, SlotPlace

\* It stays held where the tree grows and the slot does not change.
LEMMA HeldDirLasts ==
    ASSUME NEW f, NEW g, NEW k, NEW d, Cohere(f), HeldDir(f, k, d), Lasts(TreeOf(f), TreeOf(g)), g.ic[k].inum = f.ic[k].inum
    PROVE  HeldDir(g, k, d)
<1>1. d \in TreeOf(f).imap
  BY HeldDirIs, TreeTypes
<1>2. TreeOf(g).typ[d] = TreeOf(f).typ[d]
  BY <1>1 DEF Lasts
<1>3. QED
  BY <1>2 DEF HeldDir

\* A file system that stands for the same tree.
LEMMA SameGrown ==
    ASSUME NEW f, NEW g, Good(f), Same(f, g), Sane(g)
    PROVE  Grown(f, g) /\ Good(g)
  BY GrowsSame DEF Good, Grown, Same

\* Growth goes on.
LEMMA GrownOn ==
    ASSUME NEW f, NEW g, NEW h, Grown(f, g), Grown(g, h)
    PROVE  Grown(f, h)
  BY GrowsOn DEF Grown

\* What is allocated stays so.
LEMMA GrownLasts ==
    ASSUME NEW f, NEW g, Grown(f, g)
    PROVE  Good(g) /\ Lasts(TreeOf(f), TreeOf(g)) /\ f.imap \subseteq g.imap
<1>1. Good(g) /\ Lasts(TreeOf(f), TreeOf(g))
  BY DEF Grown, Grows
<1>2. TreeOf(f).imap = f.imap /\ TreeOf(g).imap = g.imap
  BY DEF TreeOf
<1>3. QED
  BY <1>1, <1>2 DEF Lasts

\* An allocation keeps the cache sane.
LEMMA AllocSane ==
    ASSUME NEW f, Good(f), NEW type \in {"file", "dir"}
    PROVE  Sane(ialloc(f, type).fs) /\ ialloc(f, type).k \in Places
<1>1. At(f, f, NULL, NULL)
  BY AtStart DEF Good
<1>2. MaxInodes \notin f.imap
  <2>1. f.imap \subseteq Inums
    BY TreeTypes DEF Good
  <2>2. MaxInodes \notin Inums
    BY Sizes
  <2>3. QED
    BY <2>1, <2>2
<1>3. type \in Types
  BY DEF Types
<1>4. At(f, ialloc(f, type).fs, NULL, ialloc(f, type).k)
  BY <1>1, <1>2, <1>3, AtAlloc
<1>5. QED
  BY <1>4, AtTypes

\* An allocation grows the tree by an inode that nothing leads to.
LEMMA AllocGrown ==
    ASSUME NEW f, Good(f), Roomy(f), NEW type \in {"file", "dir"}, ROOT_INUM \in f.imap \/ type = "dir"
    PROVE  Grown(f, ialloc(f, type).fs)
<1>1. PICK n \in Inums : Allocated(f, type, n, ialloc(f, type))
  BY AllocTree DEF Good
<1> DEFINE a == ialloc(f, type)
<1> HIDE DEF a
<1>2. NewNode(TreeOf(f), n, type, TreeOf(a.fs)) /\ Cohere(a.fs)
  BY <1>1 DEF Allocated, a
<1>3. n = ROOT_INUM => type = "dir"
  <2>1. n \notin f.imap
    BY <1>2 DEF NewNode, TreeOf
  <2>2. QED
    BY <2>1
<1>4. TreeOK(TreeOf(a.fs)) /\ Grows(TreeOf(f), TreeOf(a.fs))
  BY <1>2, <1>3, NewNodeOK DEF Good
<1>5. QED
  BY <1>2, <1>4, AllocSane DEF Grown, Good, a

\* An allocation has put the new inode n into a slot.
Fresh(f, type, a, n) ==
    /\ NewNode(TreeOf(f), n, type, TreeOf(a.fs)) /\ Cohere(a.fs) /\ Sane(a.fs) /\ a.k \in Slots
    /\ a.fs.ic[a.k].inum = n /\ a.fs.ic[a.k].ip.type = type /\ n \in Inums /\ n # -1 /\ n # ROOT_INUM
    /\ n \notin f.imap /\ n \in a.fs.imap /\ f.ic[a.k].inum = -1 /\ \A j \in Slots : j # a.k => a.fs.ic[j] = f.ic[j]

\* The new inode of an allocation that succeeds.
LEMMA AllocHeld ==
    ASSUME NEW f, Good(f), Roomy(f), NEW type \in {"file", "dir"}, ROOT_INUM \in f.imap, NEW a,
           a = ialloc(f, type), a.k # NULL
    PROVE  Fresh(f, type, a, a.fs.ic[a.k].inum)
<1>1. PICK n \in Inums : Allocated(f, type, n, a)
  BY AllocTree DEF Good
<1>2. Sane(a.fs) /\ a.k \in Places
  BY AllocSane
<1>3. a.k # NULL
  OBVIOUS
<1>4. /\ NewNode(TreeOf(f), n, type, TreeOf(a.fs)) /\ Cohere(a.fs) /\ a.fs.ic[a.k].inum = n
      /\ a.fs.ic[a.k].ip.type = type /\ f.ic[a.k].inum = -1 /\ \A j \in Slots : j # a.k => a.fs.ic[j] = f.ic[j]
  BY <1>1, <1>3 DEF Allocated
<1>5. n \notin f.imap /\ n \in a.fs.imap
  BY <1>4 DEF NewNode, TreeOf
<1>6. a.k \in Slots /\ n # -1
  BY <1>2, <1>3, Sizes DEF Places
<1>7. QED
  BY <1>2, <1>4, <1>5, <1>6 DEF Fresh

\* Slot k holds another inode than the new one, and still the directory it held.
Beside(f, a, n, k, d) ==
    /\ k # a.k /\ a.fs.ic[k].inum = d /\ a.fs.ic[k].ip.type = "dir" /\ d # n /\ k \in Slots
    /\ d \in Inums /\ d \in f.imap /\ d # -1 /\ TreeOf(f).typ[d] = "dir"

\* A new inode is put into a slot of its own.
LEMMA FreshOther ==
    ASSUME NEW f, Good(f), NEW type, NEW a, NEW n, Fresh(f, type, a, n), NEW k, NEW d, HeldDir(f, k, d)
    PROVE  Beside(f, a, n, k, d)
<1>1. k \in Slots /\ f.ic[k].inum = d /\ d \in f.imap /\ f.ic[k].ip.type = "dir" /\ d \in Inums /\ d # -1
      /\ TreeOf(f).typ[d] = "dir"
  BY HeldDirIs DEF Good
<1>2. n \notin f.imap /\ a.k \in Slots /\ n # -1 /\ a.fs.ic[a.k].inum = n /\ Sane(a.fs) /\ n \in Inums
  BY DEF Fresh
<1>3. d # n
  BY <1>1, <1>2
<1>4. k # a.k
  <2>1. f.ic[a.k].inum = -1
    BY DEF Fresh
  <2>2. QED
    BY <2>1, <1>1
<1>5. QED
  BY <1>1, <1>3, <1>4 DEF Fresh, Beside

\* The links that the commands store.
LEMMA LinkTypes == 1 \in LinkT /\ 2 \in LinkT
  BY Sizes DEF LinkT

\* A new file in the directory in slot k.
LEMMA FileGrown ==
    ASSUME NEW f, Good(f), NEW a, NEW n, Fresh(f, "file", a, n), NEW k, NEW d, HeldDir(f, k, d),
           NEW uid \in Uids, NEW name \in ShortNames, name # "", Lacks(TreeOf(f), d, name, "file")
    PROVE  Grown(f, dir_add(Owned(a.fs, a.k, 1, uid, FALSE), k, name, "file", n))
<1> DEFINE o == Owned(a.fs, a.k, 1, uid, FALSE)
           x == OwnedIp(a.fs.ic[a.k].ip, 1, uid, FALSE)
           g == dir_add(o, k, name, "file", n)
           e == Entry(name, "file", n)
<1> HIDE DEF o, x, g, e
<1>1. /\ k # a.k /\ a.fs.ic[k].inum = d /\ a.fs.ic[k].ip.type = "dir" /\ d # n /\ k \in Slots
      /\ d \in Inums /\ d \in f.imap /\ d # -1 /\ TreeOf(f).typ[d] = "dir"
  <2>1. Beside(f, a, n, k, d)
    BY FreshOther, Zenon
  <2>2. QED
    BY <2>1 DEF Beside
<1>2. /\ NewNode(TreeOf(f), n, "file", TreeOf(a.fs)) /\ Cohere(a.fs) /\ Sane(a.fs) /\ a.k \in Slots
      /\ n \in Inums /\ n # ROOT_INUM /\ a.fs \in FsT
  BY DEF Fresh, Cohere
<1>3. TreeOK(TreeOf(a.fs)) /\ Grows(TreeOf(f), TreeOf(a.fs))
  BY <1>2, NewNodeOK DEF Good
<1>4. /\ Stored(a.fs, a.k, x, o) /\ o.ents = a.fs.ents /\ Quiet(a.fs, o)
      /\ x.type = a.fs.ic[a.k].ip.type /\ x.size = a.fs.ic[a.k].ip.size /\ x.addrs = a.fs.ic[a.k].ip.addrs
  <2>1. 1 \in LinkT /\ FALSE \in BOOLEAN
    BY LinkTypes
  <2>2. QED
    BY <1>2, <2>1, OwnedStores DEF o, x
<1>5. Same(a.fs, o) /\ Sane(o)
  BY <1>2, <1>4, StoredSame, StillSane DEF Alike, Quiet
<1>6. o.ic[k] = a.fs.ic[k] /\ TreeOf(o) = TreeOf(a.fs) /\ Cohere(o) /\ o \in FsT
  BY <1>1, <1>4, <1>5 DEF Stored, Same, Cohere
<1>7. Added(o, k, e, g) /\ Quiet(o, g)
  <2>1. o.ic[k].inum # -1 /\ o.ic[k].ip.type = "dir" /\ "file" \in Types /\ n \in Inums \cup {-1} /\ name \in AllNames
    BY <1>1, <1>2, <1>6 DEF Types, ShortNames
  <2>2. Added(o, k, e, g)
    BY <1>1, <1>2, <1>5, <1>6, <2>1, AddTree DEF g, e
  <2>3. Quiet(o, g)
    BY <1>1, <1>6, <2>1, SlotPlace, DirAddQuiet DEF g
  <2>4. QED
    BY <2>2, <2>3
<1>8. Appended(TreeOf(a.fs), d, e, TreeOf(g)) /\ Cohere(g) /\ Sane(g)
  BY <1>1, <1>5, <1>6, <1>7, StillSane DEF Added, Quiet
<1>9. Joins(TreeOf(a.fs), d, e)
  <2>1. e.name = name /\ e.type = "file" /\ e.inum = n
    BY DEF Entry, e
  <2>2. TreeOf(a.fs).ents[d] = TreeOf(f).ents[d] /\ TreeOf(a.fs).typ[n] = "file" /\ n \in TreeOf(a.fs).imap
    BY <1>1, <1>2 DEF NewNode
  <2>3. Lacks(TreeOf(a.fs), d, name, "file")
    BY <2>2 DEF Lacks, Used
  <2>4. ~Child(e)
    BY <2>1 DEF Child
  <2>5. QED
    BY <2>1, <2>2, <2>3, <2>4 DEF Joins
<1>10. TreeOK(TreeOf(g)) /\ Grows(TreeOf(a.fs), TreeOf(g))
  BY <1>3, <1>8, <1>9, AppendedOK
<1>11. QED
  BY <1>3, <1>8, <1>10, GrowsOn DEF Grown, Good, g, o

\* A new directory in the one in slot k, which gets its own entries first.
LEMMA OwnFirstGrown ==
    ASSUME NEW f, Good(f), NEW a, NEW n, Fresh(f, "dir", a, n), NEW k, NEW d, HeldDir(f, k, d),
           NEW uid \in Uids, NEW oread \in BOOLEAN, NEW name \in ShortNames, name # "",
           Lacks(TreeOf(f), d, name, "dir")
    PROVE  Grown(f, dir_add(NewDir(a.fs, a.k, uid, oread, d), k, name, "dir", n))
<1> DEFINE o == NewDir(a.fs, a.k, uid, oread, d)
           g == dir_add(o, k, name, "dir", n)
           e == Entry(name, "dir", n)
<1>1. /\ k # a.k /\ a.fs.ic[k].inum = d /\ a.fs.ic[k].ip.type = "dir" /\ d # n /\ k \in Slots
      /\ d \in Inums /\ d \in f.imap /\ d # -1 /\ TreeOf(f).typ[d] = "dir"
  <2>1. Beside(f, a, n, k, d)
    BY FreshOther, Zenon
  <2>2. QED
    BY <2>1 DEF Beside
<1>2. /\ NewNode(TreeOf(f), n, "dir", TreeOf(a.fs)) /\ Cohere(a.fs) /\ Sane(a.fs) /\ a.k \in Slots
      /\ a.fs.ic[a.k].inum = n /\ a.fs.ic[a.k].ip.type = "dir" /\ n \in Inums /\ n # ROOT_INUM /\ n # -1
  BY DEF Fresh
<1>3. OwnMade(a.fs, a.k, d, o)
  BY <1>1, <1>2, NewDirTree
<1> HIDE DEF o
<1>4. /\ Cohere(o) /\ Sane(o) /\ OwnEntries(TreeOf(a.fs), n, d, TreeOf(o)) /\ o \in FsT
      /\ o.ic[k].inum = d /\ o.ic[k].ip.type = "dir"
  BY <1>1, <1>2, <1>3 DEF OwnMade, Cohere
<1>5. Added(o, k, e, g) /\ Quiet(o, g)
  <2>1. "dir" \in Types /\ n \in Inums \cup {-1} /\ name \in AllNames
    BY <1>2 DEF Types, ShortNames
  <2>2. Added(o, k, e, g)
    BY <1>1, <1>2, <1>4, <2>1, AddTree
  <2>3. Quiet(o, g)
    BY <1>1, <1>4, <2>1, SlotPlace, DirAddQuiet
  <2>4. QED
    BY <2>2, <2>3
<1> HIDE DEF g
<1>6. Appended(TreeOf(o), d, e, TreeOf(g)) /\ Cohere(g) /\ Sane(g)
  BY <1>4, <1>5, StillSane DEF Added, Quiet
<1>7. NewSubdir(TreeOf(f), n, d, name, TreeOf(g))
  <2>1. d \in TreeOf(f).imap
    BY <1>1 DEF TreeOf
  <2>2. QED
    BY <1>1, <1>2, <1>4, <1>6, <2>1, SubdirOwnFirst
<1>8. TreeOK(TreeOf(g)) /\ Grows(TreeOf(f), TreeOf(g))
  BY <1>2, <1>7, NewSubdirOK DEF Good
<1>9. QED
  BY <1>6, <1>8 DEF Grown, Good, g, o

\* It grows by one inode.
GrownBy(f, n, g) == Grown(f, g) /\ g.imap = f.imap \cup {n}

\* A new directory in the one in slot k, which gets its name first.
LEMMA NameFirstGrown ==
    ASSUME NEW f, Good(f), NEW a, NEW n, Fresh(f, "dir", a, n), NEW k, NEW d, HeldDir(f, k, d),
           NEW uid \in Uids, NEW oread \in BOOLEAN, NEW name \in ShortNames, name # "",
           Lacks(TreeOf(f), d, name, "dir")
    PROVE  GrownBy(f, n, NewDir(dir_add(a.fs, k, name, "dir", n), a.k, uid, oread, d))
<1> DEFINE o == dir_add(a.fs, k, name, "dir", n)
           g == NewDir(o, a.k, uid, oread, d)
           e == Entry(name, "dir", n)
<1>1. /\ k # a.k /\ a.fs.ic[k].inum = d /\ a.fs.ic[k].ip.type = "dir" /\ d # n /\ k \in Slots
      /\ d \in Inums /\ d \in f.imap /\ d # -1 /\ TreeOf(f).typ[d] = "dir"
  <2>1. Beside(f, a, n, k, d)
    BY FreshOther, Zenon
  <2>2. QED
    BY <2>1 DEF Beside
<1>2. /\ NewNode(TreeOf(f), n, "dir", TreeOf(a.fs)) /\ Cohere(a.fs) /\ Sane(a.fs) /\ a.k \in Slots
      /\ a.fs.ic[a.k].inum = n /\ a.fs.ic[a.k].ip.type = "dir" /\ n \in Inums /\ n # ROOT_INUM /\ n # -1
      /\ a.fs \in FsT
  BY DEF Fresh, Cohere
<1>3. Added(a.fs, k, e, o) /\ Quiet(a.fs, o)
  <2>1. "dir" \in Types /\ n \in Inums \cup {-1} /\ name \in AllNames
    BY <1>2 DEF Types, ShortNames
  <2>2. Added(a.fs, k, e, o)
    BY <1>1, <1>2, <2>1, AddTree
  <2>3. Quiet(a.fs, o)
    BY <1>1, <1>2, <2>1, SlotPlace, DirAddQuiet
  <2>4. QED
    BY <2>2, <2>3
<1> HIDE DEF o
<1>4. /\ Cohere(o) /\ Sane(o) /\ Appended(TreeOf(a.fs), d, e, TreeOf(o))
      /\ o.ic[a.k].inum = n /\ o.ic[a.k].ip.type = "dir"
  BY <1>1, <1>2, <1>3, StillSane DEF Added, Quiet
<1>5. OwnMade(o, a.k, d, g)
  BY <1>1, <1>2, <1>4, NewDirTree
<1> HIDE DEF g
<1>6. OwnEntries(TreeOf(o), n, d, TreeOf(g)) /\ Cohere(g) /\ Sane(g)
  BY <1>4, <1>5 DEF OwnMade
<1>7. NewSubdir(TreeOf(f), n, d, name, TreeOf(g))
  <2>1. d \in TreeOf(f).imap
    BY <1>1 DEF TreeOf
  <2>2. QED
    BY <1>1, <1>2, <1>4, <1>6, <2>1, SubdirNameFirst
<1>8. TreeOK(TreeOf(g)) /\ Grows(TreeOf(f), TreeOf(g))
  BY <1>2, <1>7, NewSubdirOK DEF Good
<1>9. g.imap = f.imap \cup {n}
  BY <1>7 DEF NewSubdir, TreeOf
<1>10. QED
  BY <1>6, <1>8, <1>9 DEF GrownBy, Grown, Good, g, o

\* iput loses nothing.
LEMMA PutGrown ==
    ASSUME NEW f, Good(f), NEW k \in Places
    PROVE  Same(f, iput(f, k)) /\ Grown(f, iput(f, k)) /\ Good(iput(f, k))
<1>1. f \in FsT
  BY DEF Good, Cohere
<1>2. Same(f, iput(f, k))
  BY <1>1, Iput, PutSame DEF Good
<1>3. Sane(iput(f, k))
  BY SanePut DEF Good
<1>4. QED
  BY <1>2, <1>3, SameGrown

\* What iput leaves in another slot.
LEMMA PutHeld ==
    ASSUME NEW f, Good(f), NEW j \in Places, NEW k, NEW d, HeldDir(f, k, d), j # k
    PROVE  HeldDir(iput(f, j), k, d)
<1>1. Put(f, j, iput(f, j)) /\ Same(f, iput(f, j)) /\ k \in Slots
  BY PutGrown, Iput DEF Good, Cohere, HeldDir
<1>2. iput(f, j).ic[k] = f.ic[k]
  BY <1>1 DEF Put
<1>3. QED
  BY <1>1, <1>2 DEF HeldDir, Same

\* Whatever is in use stays where it is.
KeepsSlots(f, g) == \A j \in Slots : f.ic[j].inum # -1 => g.ic[j].inum = f.ic[j].inum

\* What a lookup does to the slots.
Took(f, l) == Sane(l.fs) /\ l.k \in Places /\ KeepsSlots(f, l.fs)

\* A lookup takes the slot it returns.
LEMMA LookupKeeps ==
    ASSUME NEW f, Sane(f), NEW k, k \in Places, NEW name, NEW type, NEW l, l = dir_lookup(f, k, name, type)
    PROVE  Took(f, l)
<1>1. At(f, f, NULL, NULL)
  BY AtStart
<1>2. At(f, l.fs, NULL, l.k)
  BY <1>1, AtLookup
<1>3. Sane(l.fs) /\ l.k \in Places
  BY <1>2 DEF At
<1>4. KeepsSlots(f, l.fs)
  <2>1. Holds(f, l.fs, NULL, l.k)
    BY <1>2 DEF At
  <2>2. ASSUME NEW j \in Slots, f.ic[j].inum # -1
        PROVE  l.fs.ic[j].inum = f.ic[j].inum
    BY <2>1, <2>2 DEF Holds
  <2>3. QED
    BY <2>2 DEF KeepsSlots
<1>5. QED
  BY <1>3, <1>4 DEF Took

\* A lookup in directory d, for a command that goes on.
Sought(f, d, name, type, l) ==
    /\ Same(f, l.fs) /\ Grown(f, l.fs) /\ Good(l.fs) /\ l.k \in Places /\ KeepsSlots(f, l.fs)
    /\ l.k # NULL =>
         \E i : /\ Hit(TreeOf(l.fs), d, name, type, i)
                /\ l.fs.ic[l.k].inum = TreeOf(l.fs).ents[d][i].inum
    /\ l.k = NULL => Lacks(TreeOf(l.fs), d, name, type) \/ Full(l.fs)

\* dir_lookup in a directory that is held.
LEMMA Seeks ==
    ASSUME NEW f, Good(f), NEW k, NEW d, HeldDir(f, k, d), NEW name, name # "", NEW type
    PROVE  Sought(f, d, name, type, dir_lookup(f, k, name, type))
<1> DEFINE l == dir_lookup(f, k, name, type)
<1> HIDE DEF l
<1>1. /\ k \in Slots /\ k # NULL /\ k \in Places /\ d \in Inums /\ d # -1 /\ f.ic[k].inum = d
      /\ f.ic[k].inum # -1 /\ f.ic[k].ip.type = "dir" /\ d \in f.imap /\ TreeOf(f).typ[d] = "dir"
  BY HeldDirIs DEF Good
<1>2. Answered(f, k, name, type, l)
  BY <1>1, LookupTree DEF Good, l
<1>3. k \in Places /\ Sane(f) /\ l = dir_lookup(f, k, name, type)
  BY <1>1 DEF Good, l
<1>4. Took(f, l)
  BY <1>3, LookupKeeps
<1>5. Sane(l.fs) /\ KeepsSlots(f, l.fs) /\ l.k \in Places
  BY <1>4 DEF Took
<1>6. Same(f, l.fs) /\ TreeOf(l.fs) = TreeOf(f) /\ TreeOf(f).ents = f.ents
  BY <1>2 DEF Answered, Same, TreeOf
<1>7. Grown(f, l.fs) /\ Good(l.fs)
  BY <1>5, <1>6, SameGrown
<1>8. ASSUME l.k # NULL
      PROVE  \E i : /\ Hit(TreeOf(l.fs), d, name, type, i)
                    /\ l.fs.ic[l.k].inum = TreeOf(l.fs).ents[d][i].inum
  <2>1. PICK i \in Matches(f, k, name, type) : /\ Hit(TreeOf(f), f.ic[k].inum, name, type, i)
                                               /\ l.fs.ic[l.k].inum = f.ents[f.ic[k].inum][i].inum
    BY <1>2, <1>8 DEF Answered
  <2>2. QED
    BY <2>1, <1>1, <1>6
<1>9. ASSUME l.k = NULL
      PROVE  Lacks(TreeOf(l.fs), d, name, type) \/ Full(l.fs)
  <2>1. Lacks(TreeOf(f), d, name, type) \/ Full(f)
    BY <1>1, <1>2, <1>9 DEF Answered
  <2>2. Full(f) => Full(l.fs)
    BY <1>5 DEF Full, KeepsSlots
  <2>3. QED
    BY <2>1, <2>2, <1>6
<1>10. QED
  BY <1>5, <1>6, <1>7, <1>8, <1>9 DEF Sought, l

\* A directory stays held where slots in use stay and the tree grows.
LEMMA HeldKept ==
    ASSUME NEW f, NEW g, Grown(f, g), Cohere(f), KeepsSlots(f, g), NEW k, NEW d, HeldDir(f, k, d)
    PROVE  HeldDir(g, k, d)
<1>1. k \in Slots /\ f.ic[k].inum # -1
  BY HeldDirIs
<1>2. g.ic[k].inum = f.ic[k].inum
  BY <1>1 DEF KeepsSlots
<1>3. Lasts(TreeOf(f), TreeOf(g))
  BY GrownLasts
<1>4. QED
  BY <1>2, <1>3, HeldDirLasts

\* Room for an inode depends on the bitmap only.
LEMMA RoomySame ==
    ASSUME NEW f, NEW g, Same(f, g)
    PROVE  g.imap = f.imap /\ (Roomy(f) => Roomy(g))
  BY DEF Same, TreeOf, Roomy

\* A slot given to a new inode was free.
LEMMA FreshLacks ==
    ASSUME NEW f, NEW type, NEW a, NEW n, Fresh(f, type, a, n), NEW d, NEW name,
           Lacks(TreeOf(f), d, name, type) \/ Full(f)
    PROVE  Lacks(TreeOf(f), d, name, type)
  BY DEF Fresh, Full

\* cmd_mk.
LEMMA MkGrown ==
    ASSUME NEW f, Good(f), Roomy(f), ROOT_INUM \in f.imap, NEW k, NEW d, HeldDir(f, k, d),
           NEW uid \in Uids, NEW name \in FileNames \ LongNames
    PROVE  Grown(f, cmd_mk(f, k, uid, name))
<1> DEFINE l == dir_lookup(f, k, name, "file")
           a == ialloc(l.fs, "file")
           n == a.fs.ic[a.k].inum
           e == dir_add(Owned(a.fs, a.k, 1, uid, FALSE), k, name, "file", n)
<1>1. cmd_mk(f, k, uid, name) = IF l.k # NULL THEN l.fs ELSE IF a.k = NULL THEN a.fs ELSE iput(e, a.k)
  BY DEF cmd_mk
<1>2. name # "" /\ name \in ShortNames
  BY NamespaceAssumption DEF ShortNames, AllNames
<1> HIDE DEF a, e, n
<1>3. Sought(f, d, name, "file", l)
  BY <1>2, Seeks
<1> HIDE DEF l
<1>4. Same(f, l.fs) /\ Grown(f, l.fs) /\ Good(l.fs) /\ KeepsSlots(f, l.fs)
  BY <1>3 DEF Sought
<1>5. Roomy(l.fs) /\ ROOT_INUM \in l.fs.imap
  BY <1>4, RoomySame
<1>6. HeldDir(l.fs, k, d)
  BY <1>4, HeldKept DEF Good
<1>7. Grown(l.fs, a.fs)
  BY <1>4, <1>5, AllocGrown DEF a
<1>8. ASSUME l.k = NULL, a.k # NULL
      PROVE  Grown(f, iput(e, a.k))
  <2>1. Fresh(l.fs, "file", a, n)
    BY <1>4, <1>5, <1>8, AllocHeld DEF a, n
  <2>2. Lacks(TreeOf(l.fs), d, name, "file")
    BY <1>3, <1>8, <2>1, FreshLacks DEF Sought
  <2>3. Grown(l.fs, e)
    BY <1>2, <1>4, <1>6, <2>1, <2>2, FileGrown DEF e
  <2>4. Grown(e, iput(e, a.k))
    BY <2>1, <2>3, SlotPlace, PutGrown DEF Fresh, Grown
  <2>5. QED
    BY <1>4, <2>3, <2>4, GrownOn
<1>9. QED
  BY <1>1, <1>4, <1>7, <1>8, GrownOn

\* cmd_mkdir.
LEMMA MkdirGrown ==
    ASSUME NEW f, Good(f), Roomy(f), ROOT_INUM \in f.imap, NEW k, NEW d, HeldDir(f, k, d),
           NEW uid \in Uids, NEW name \in DirNames \ LongNames
    PROVE  Grown(f, cmd_mkdir(f, k, uid, name))
<1> DEFINE l == dir_lookup(f, k, name, "dir")
           a == ialloc(l.fs, "dir")
           n == a.fs.ic[a.k].inum
           e == dir_add(NewDir(a.fs, a.k, uid, FALSE, a.fs.ic[k].inum), k, name, "dir", n)
<1>1. cmd_mkdir(f, k, uid, name) = IF l.k # NULL THEN l.fs ELSE IF a.k = NULL THEN a.fs ELSE iput(e, a.k)
  BY DEF cmd_mkdir
<1>2. name # "" /\ name \in ShortNames
  BY NamespaceAssumption DEF ShortNames, AllNames
<1> HIDE DEF a, e, n
<1>3. Sought(f, d, name, "dir", l)
  BY <1>2, Seeks
<1> HIDE DEF l
<1>4. Same(f, l.fs) /\ Grown(f, l.fs) /\ Good(l.fs) /\ KeepsSlots(f, l.fs)
  BY <1>3 DEF Sought
<1>5. Roomy(l.fs) /\ ROOT_INUM \in l.fs.imap
  BY <1>4, RoomySame
<1>6. HeldDir(l.fs, k, d)
  BY <1>4, HeldKept DEF Good
<1>7. Grown(l.fs, a.fs)
  BY <1>4, <1>5, AllocGrown DEF a
<1>8. ASSUME l.k = NULL, a.k # NULL
      PROVE  Grown(f, iput(e, a.k))
  <2>1. Fresh(l.fs, "dir", a, n)
    BY <1>4, <1>5, <1>8, AllocHeld DEF a, n
  <2>2. Lacks(TreeOf(l.fs), d, name, "dir")
    BY <1>3, <1>8, <2>1, FreshLacks DEF Sought
  <2>3. a.fs.ic[k].inum = d
    BY <1>4, <1>6, <2>1, FreshOther DEF Beside
  <2>4. Grown(l.fs, e)
    <3>1. Grown(l.fs, dir_add(NewDir(a.fs, a.k, uid, FALSE, d), k, name, "dir", n))
      BY <1>2, <1>4, <1>6, <2>1, <2>2, OwnFirstGrown
    <3>2. QED
      BY <2>3, <3>1 DEF e
  <2>5. Grown(e, iput(e, a.k))
    BY <2>1, <2>4, SlotPlace, PutGrown DEF Fresh, Grown
  <2>6. QED
    BY <1>4, <2>4, <2>5, GrownOn
<1>9. QED
  BY <1>1, <1>4, <1>7, <1>8, GrownOn

-----------------------------------------------------------------------------
(* /home *)

\* A lookup of a directory takes a slot that holds one, and not the root
\* directory unless by "." or "..".
LEMMA SoughtDir ==
    ASSUME NEW f, NEW d \in Inums, NEW name, NEW l, Sought(f, d, name, "dir", l), l.k # NULL
    PROVE  /\ HeldDir(l.fs, l.k, l.fs.ic[l.k].inum)
           /\ name \notin OwnNames => l.fs.ic[l.k].inum # ROOT_INUM
<1>1. Good(l.fs) /\ l.k \in Slots
  BY DEF Sought, Places
<1> DEFINE t == TreeOf(l.fs)
<1>2. PICK i : Hit(t, d, name, "dir", i) /\ l.fs.ic[l.k].inum = t.ents[d][i].inum
  BY DEF Sought
<1>3. TreeOK(t)
  BY <1>1 DEF Good
<1> HIDE DEF t
<1>4. i \in Used(t, d) /\ t.ents[d][i].name = name /\ t.ents[d][i].type = "dir"
  BY <1>2 DEF Hit
<1>5. t.ents[d][i].inum \in t.imap /\ t.typ[t.ents[d][i].inum] = "dir" /\ t.imap \subseteq Inums
  BY <1>3, <1>4 DEF TreeOK, Leads, TreeT
<1>6. name \notin OwnNames => t.ents[d][i].inum # ROOT_INUM
  BY <1>3, <1>4 DEF TreeOK, Rooted, Child
<1>7. QED
  BY <1>1, <1>2, <1>5, <1>6 DEF HeldDir, t

\* No slot is left for a second inode besides that of the root directory.
Stuck(f) ==
    \A i, j \in Slots : f.ic[i].inum = -1 => f.ic[j].inum # ROOT_INUM /\ (f.ic[j].inum = -1 => i = j)

\* What iget of the root directory leaves.
RootGot(f, r) ==
    /\ Same(f, r.fs) /\ Grown(f, r.fs) /\ Good(r.fs) /\ r.k \in Places
    /\ r.k # NULL => HeldDir(r.fs, r.k, ROOT_INUM)
    /\ r.k = NULL \/ Stuck(f) => Full(r.fs)

\* The cache is full once it has got the root directory.
LEMMA StuckFull ==
    ASSUME NEW f, NEW g, NEW k, Got(f, ROOT_INUM, g, k), k = NULL \/ Stuck(f)
    PROVE  Full(g)
<1>1. ROOT_INUM # -1 /\ ROOT_INUM \in Inums
  BY Sizes DEF ROOT_INUM
<1>2. k \in Places /\ \A j \in Slots : j # k => g.ic[j] = f.ic[j]
  BY DEF Got
<1>3. CASE k = NULL
  <2>1. \A j \in Slots : f.ic[j].inum # -1 /\ j # k
    BY <1>1, <1>3, SlotPlace DEF Got
  <2>2. QED
    BY <1>2, <2>1 DEF Full
<1>4. CASE k # NULL /\ Stuck(f)
  <2>1. k \in Slots /\ g.ic[k].inum = ROOT_INUM /\ (f.ic[k].inum = ROOT_INUM \/ f.ic[k].inum = -1)
    BY <1>2, <1>4 DEF Got, Places
  <2>2. \A j \in Slots : j # k => f.ic[j].inum # -1
    BY <1>4, <2>1 DEF Stuck
  <2>3. QED
    BY <1>1, <1>2, <2>1, <2>2 DEF Full
<1>5. QED
  BY <1>3, <1>4

\* It is stuck when it puts it back.
LEMMA FullStuck ==
    ASSUME NEW f, Sane(f), Full(f), NEW k \in Slots, f.ic[k].inum = ROOT_INUM, NEW g, Put(f, k, g)
    PROVE  Stuck(g)
<1>1. ROOT_INUM # -1 /\ k # NULL /\ f.ic[k].ref \in Nat
  BY SlotTypes, SlotPlace DEF ROOT_INUM, Sane
<1>2. \A j \in Slots : j # k => g.ic[j].inum = f.ic[j].inum /\ g.ic[j].inum # -1 /\ g.ic[j].inum # ROOT_INUM
  BY <1>1 DEF Put, Full, Sane
<1>3. g.ic[k].inum = f.ic[k].inum \/ g.ic[k].inum = -1
  BY <1>1 DEF Put, FreeSlot
<1>4. QED
  BY <1>1, <1>2, <1>3 DEF Stuck

\* iget of the root directory.
LEMMA GetsRoot ==
    ASSUME NEW f, Good(f), ROOT_INUM \in f.imap
    PROVE  RootGot(f, iget(f, ROOT_INUM))
<1> DEFINE r == iget(f, ROOT_INUM)
<1>1. f \in FsT /\ ROOT_INUM \in Inums
  BY Sizes DEF Good, Cohere, ROOT_INUM
<1>2. Got(f, ROOT_INUM, r.fs, r.k)
  BY <1>1, Iget
<1>3. Sane(r.fs)
  <2>1. At(f, f, NULL, NULL)
    BY AtStart DEF Good
  <2>2. ROOT_INUM \in Inums \cup {-1}
    BY <1>1
  <2>3. At(f, r.fs, NULL, r.k)
    BY <2>1, <2>2, AtIget
  <2>4. QED
    BY <2>3 DEF At
<1> HIDE DEF r
<1>4. Same(f, r.fs)
  BY <1>1, <1>2, GotSame DEF Good
<1>5. Grown(f, r.fs) /\ Good(r.fs)
  BY <1>3, <1>4, SameGrown
<1>6. r.k = NULL \/ Stuck(f) => Full(r.fs)
  BY <1>2, StuckFull
<1>7. r.k \in Places
  BY <1>2 DEF Got
<1>8. ASSUME r.k # NULL
      PROVE  HeldDir(r.fs, r.k, ROOT_INUM)
  <2>1. r.k \in Slots /\ r.fs.ic[r.k].inum = ROOT_INUM
    BY <1>2, <1>8 DEF Got, Places
  <2>2. TreeOf(f).imap = f.imap /\ TreeOK(TreeOf(f)) /\ TreeOf(r.fs) = TreeOf(f)
    BY <1>4 DEF Same, Good, TreeOf
  <2>3. TreeOf(r.fs).typ[ROOT_INUM] = "dir"
    BY <2>2 DEF TreeOK
  <2>4. QED
    BY <1>1, <2>1, <2>3 DEF HeldDir
<1>9. QED
  BY <1>4, <1>5, <1>6, <1>7, <1>8 DEF RootGot, r

\* What get_home_root finds.
Home(f, h) ==
    /\ Same(f, h.fs) /\ Grown(f, h.fs) /\ Good(h.fs) /\ h.k \in Places
    /\ h.k # NULL => HeldDir(h.fs, h.k, h.fs.ic[h.k].inum)
    /\ h.k = NULL => Lacks(TreeOf(h.fs), ROOT_INUM, "home", "dir") \/ Stuck(h.fs)

\* get_home_root.
LEMMA HomeTree ==
    ASSUME NEW f, Good(f), ROOT_INUM \in f.imap
    PROVE  Home(f, get_home_root(f))
<1> DEFINE r == iget(f, ROOT_INUM)
           l == dir_lookup(r.fs, r.k, "home", "dir")
           h == iput(l.fs, r.k)
<1>1. get_home_root(f).fs = h /\ get_home_root(f).k = l.k
  BY DEF get_home_root, Found
<1>2. RootGot(f, r)
  BY GetsRoot
<1> HIDE DEF r
<1>3. Same(f, r.fs) /\ Grown(f, r.fs) /\ Good(r.fs) /\ r.k \in Places
  BY <1>2 DEF RootGot
<1>4. CASE r.k = NULL
  <2>1. l.fs = r.fs /\ l.k = NULL
    BY <1>4 DEF dir_lookup, IsDir, Found
  <2> HIDE DEF l
  <2>2. h = r.fs
    BY <1>4, <2>1 DEF iput
  <2>3. Full(r.fs)
    BY <1>2, <1>4 DEF RootGot
  <2>4. Stuck(r.fs)
    BY <2>3 DEF Full, Stuck
  <2> HIDE DEF h
  <2>5. QED
    BY <1>1, <1>3, <2>1, <2>2, <2>4, SlotPlace DEF Home, Places
<1>5. CASE r.k # NULL
  <2>1. HeldDir(r.fs, r.k, ROOT_INUM)
    BY <1>2, <1>5 DEF RootGot
  <2>2. ROOT_INUM \in Inums /\ r.k \in Slots /\ r.fs.ic[r.k].inum = ROOT_INUM /\ ROOT_INUM # -1
    BY <2>1 DEF HeldDir, ROOT_INUM
  <2>3. Sought(r.fs, ROOT_INUM, "home", "dir", l)
    BY <1>3, <2>1, Seeks
  <2> HIDE DEF l
  <2>4. Same(r.fs, l.fs) /\ Grown(r.fs, l.fs) /\ Good(l.fs) /\ l.k \in Places /\ KeepsSlots(r.fs, l.fs)
    BY <2>3 DEF Sought
  <2>5. Same(l.fs, h) /\ Grown(l.fs, h) /\ Good(h)
    BY <1>3, <2>4, PutGrown
  <2>6. l.fs.ic[r.k].inum = ROOT_INUM
    BY <2>2, <2>4 DEF KeepsSlots
  <2>7. ASSUME l.k # NULL
        PROVE  HeldDir(h, l.k, h.ic[l.k].inum)
    <3>1. "home" \notin OwnNames
      BY DEF OwnNames
    <3>2. HeldDir(l.fs, l.k, l.fs.ic[l.k].inum) /\ l.fs.ic[l.k].inum # ROOT_INUM
      BY <2>2, <2>3, <2>7, <3>1, SoughtDir
    <3>3. r.k # l.k
      BY <2>6, <3>2
    <3>4. HeldDir(h, l.k, l.fs.ic[l.k].inum)
      BY <1>3, <2>4, <3>2, <3>3, PutHeld
    <3>5. QED
      BY <3>4 DEF HeldDir
  <2>8. ASSUME l.k = NULL
        PROVE  Lacks(TreeOf(h), ROOT_INUM, "home", "dir") \/ Stuck(h)
    <3>1. Lacks(TreeOf(l.fs), ROOT_INUM, "home", "dir") \/ Full(l.fs)
      BY <2>3, <2>8 DEF Sought
    <3>2. TreeOf(h) = TreeOf(l.fs)
      BY <2>5 DEF Same
    <3>3. Full(l.fs) => Stuck(h)
      <4>1. Put(l.fs, r.k, h)
        BY <1>3, <2>4, Iput DEF Good, Cohere
      <4>2. QED
        BY <2>2, <2>4, <2>6, <4>1, FullStuck DEF Good
    <3>4. QED
      BY <3>1, <3>2, <3>3
  <2>9. Same(f, h) /\ Grown(f, h)
    BY <1>3, <2>4, <2>5, SameOn, GrownOn
  <2> HIDE DEF h
  <2>10. QED
    BY <1>1, <2>4, <2>5, <2>7, <2>8, <2>9 DEF Home
<1>6. QED
  BY <1>4, <1>5

\* Two inodes of the table are not allocated: room for /home and for the
\* directory of a user in it.
Two(f) == \E i, j \in Inums \ f.imap : i # j

\* No more than one inode is allocated.
Takes(f, g) == \E n : g.imap \subseteq f.imap \cup {n}

\* Where there are two, one is left.
LEMMA TwoLeft ==
    ASSUME NEW f, Two(f), NEW g, Takes(f, g)
    PROVE  Roomy(f) /\ Roomy(g)
<1>1. PICK i \in Inums \ f.imap, j \in Inums \ f.imap : i # j
  BY DEF Two
<1>2. PICK n : g.imap \subseteq f.imap \cup {n}
  BY DEF Takes
<1>3. i \notin g.imap \/ j \notin g.imap
  BY <1>1, <1>2
<1>4. QED
  BY <1>1, <1>3 DEF Roomy

\* /home, found or made, or a failure.
HomeMade(f, h) ==
    /\ Grown(f, h.fs) /\ h.k \in Places /\ Takes(f, h.fs)
    /\ h.k # NULL => HeldDir(h.fs, h.k, h.fs.ic[h.k].inum)

\* An allocation takes one inode.
LEMMA AllocTakes ==
    ASSUME NEW f, Good(f), Roomy(f), NEW type \in {"file", "dir"}
    PROVE  Takes(f, ialloc(f, type).fs)
<1> DEFINE a == ialloc(f, type)
<1>1. PICK n \in Inums : Allocated(f, type, n, a)
  BY AllocTree DEF Good
<1> HIDE DEF a
<1>2. TreeOf(a.fs).imap = TreeOf(f).imap \cup {n}
  BY <1>1 DEF Allocated, NewNode
<1>3. QED
  BY <1>2 DEF Takes, TreeOf, a

\* CreateHome.
LEMMA CreateHomeTree ==
    ASSUME NEW f, Good(f), Roomy(f), ROOT_INUM \in f.imap,
           Lacks(TreeOf(f), ROOT_INUM, "home", "dir") \/ Stuck(f)
    PROVE  HomeMade(f, CreateHome(f))
<1> DEFINE r == iget(f, ROOT_INUM)
           a == ialloc(r.fs, "dir")
           n == a.fs.ic[a.k].inum
           e == NewDir(dir_add(a.fs, r.k, "home", "dir", n), a.k, "root", TRUE, ROOT_INUM)
           p == iput(e, a.k)
           q == iput(p, r.k)
           c == CreateHome(f)
<1>1. c = IF a.k = NULL THEN Found(iput(a.fs, r.k), NULL) ELSE get_home_root(q)
  BY DEF CreateHome
<1> HIDE DEF c
<1>2. RootGot(f, r)
  BY GetsRoot
<1> HIDE DEF r
<1>3. Same(f, r.fs) /\ Grown(f, r.fs) /\ Good(r.fs) /\ r.k \in Places
  BY <1>2 DEF RootGot
<1>4. Roomy(r.fs) /\ ROOT_INUM \in r.fs.imap /\ r.fs.imap = f.imap
  BY <1>3, RoomySame
<1>5. Grown(r.fs, a.fs) /\ Takes(r.fs, a.fs)
  BY <1>3, <1>4, AllocGrown, AllocTakes
<1>6. CASE a.k = NULL
  <2> HIDE DEF a
  <2>1. Good(a.fs)
    BY <1>5 DEF Grown
  <2>2. Grown(a.fs, iput(a.fs, r.k)) /\ Same(a.fs, iput(a.fs, r.k))
    BY <1>3, <2>1, PutGrown
  <2>3. c.fs = iput(a.fs, r.k) /\ c.k = NULL
    BY <1>1, <1>6 DEF Found
  <2>4. Grown(f, c.fs)
    BY <1>3, <1>5, <2>2, <2>3, GrownOn
  <2>5. Takes(f, c.fs)
    BY <1>4, <1>5, <2>2, <2>3, RoomySame DEF Takes
  <2>6. QED
    BY <2>3, <2>4, <2>5 DEF HomeMade, Places, c
<1>7. CASE a.k # NULL
  <2>1. Fresh(r.fs, "dir", a, n)
    BY <1>3, <1>4, <1>7, AllocHeld
  <2> HIDE DEF a, n
  <2>2. ~Full(r.fs) /\ a.k \in Places
    BY <2>1, SlotPlace DEF Fresh, Full
  <2>3. r.k # NULL /\ ~Stuck(f)
    BY <1>2, <2>2 DEF RootGot
  <2>4. HeldDir(r.fs, r.k, ROOT_INUM)
    BY <1>2, <2>3 DEF RootGot
  <2>5. Lacks(TreeOf(r.fs), ROOT_INUM, "home", "dir")
    BY <1>3, <2>3 DEF Same
  <2>6. Grown(r.fs, e) /\ e.imap = r.fs.imap \cup {n}
    <3>1. "home" \in ShortNames /\ "home" # "" /\ "root" \in Uids
      BY NamespaceAssumption DEF ShortNames, AllNames, Uids
    <3>2. GrownBy(r.fs, n, NewDir(dir_add(a.fs, r.k, "home", "dir", n), a.k, "root", TRUE, ROOT_INUM))
      BY <1>3, <2>1, <2>4, <2>5, <3>1, NameFirstGrown
    <3>3. QED
      BY <3>2 DEF GrownBy
  <2> HIDE DEF e
  <2>7. Grown(e, p) /\ Same(e, p) /\ Good(p)
    BY <2>2, <2>6, PutGrown DEF Grown
  <2> HIDE DEF p
  <2>8. Grown(p, q) /\ Same(p, q) /\ Good(q)
    BY <1>3, <2>7, PutGrown
  <2> HIDE DEF q
  <2>9. q.imap = f.imap \cup {n}
    BY <1>4, <2>6, <2>7, <2>8, RoomySame
  <2>10. Home(q, c)
    BY <1>1, <1>4, <1>7, <2>8, <2>9, HomeTree
  <2>11. Same(q, c.fs) /\ Grown(q, c.fs) /\ c.k \in Places /\ (c.k # NULL => HeldDir(c.fs, c.k, c.fs.ic[c.k].inum))
    BY <2>10 DEF Home
  <2>12. Takes(f, c.fs)
    BY <2>9, <2>11, RoomySame DEF Takes
  <2>13. Grown(f, c.fs)
    BY <1>3, <2>6, <2>7, <2>8, <2>11, GrownOn
  <2>14. QED
    BY <2>11, <2>12, <2>13 DEF HomeMade, c
<1>8. QED
  BY <1>6, <1>7

\* HomeRoot.
LEMMA HomeRootTree ==
    ASSUME NEW f, Good(f), Roomy(f), ROOT_INUM \in f.imap
    PROVE  HomeMade(f, HomeRoot(get_home_root(f)))
<1> DEFINE h == get_home_root(f)
           c == CreateHome(h.fs)
<1>1. HomeRoot(h) = IF h.k # NULL THEN h ELSE c
  BY DEF HomeRoot
<1>2. Home(f, h)
  BY HomeTree
<1> HIDE DEF h
<1>3. Same(f, h.fs) /\ Grown(f, h.fs) /\ Good(h.fs) /\ h.k \in Places
  BY <1>2 DEF Home
<1>4. h.fs.imap = f.imap /\ Roomy(h.fs)
  BY <1>3, RoomySame
<1>5. CASE h.k # NULL
  <2>1. HeldDir(h.fs, h.k, h.fs.ic[h.k].inum)
    BY <1>2, <1>5 DEF Home
  <2>2. QED
    BY <1>1, <1>3, <1>4, <1>5, <2>1 DEF HomeMade, Takes, h
<1>6. CASE h.k = NULL
  <2>1. Lacks(TreeOf(h.fs), ROOT_INUM, "home", "dir") \/ Stuck(h.fs)
    BY <1>2, <1>6 DEF Home
  <2>2. HomeMade(h.fs, c)
    BY <1>3, <1>4, <2>1, CreateHomeTree
  <2> HIDE DEF c
  <2>3. Grown(f, c.fs) /\ Takes(f, c.fs)
    BY <1>3, <1>4, <2>2, GrownOn DEF HomeMade, Takes
  <2>4. QED
    BY <1>1, <1>6, <2>2, <2>3 DEF HomeMade, h, c
<1>7. QED
  BY <1>5, <1>6

-----------------------------------------------------------------------------
(* Users *)

\* The name of a user can be an entry's, and is none of the directory's own.
LEMMA UserNames ==
    ASSUME NEW u \in Users
    PROVE  u # "" /\ u \in ShortNames /\ u \in Uids /\ u \notin OwnNames
  BY NamespaceAssumption DEF ShortNames, AllNames, Uids, OwnNames

\* AddUserDir, with /home in slot h.k.
LEMMA AddUserDirTree ==
    ASSUME NEW h, Good(h.fs), ROOT_INUM \in h.fs.imap, Roomy(h.fs), h.k # NULL,
           HeldDir(h.fs, h.k, h.fs.ic[h.k].inum), NEW u \in Users
    PROVE  Grown(h.fs, AddUserDir(h, u))
<1> DEFINE f == h.fs
           k == h.k
           d == f.ic[k].inum
           l == dir_lookup(f, k, u, "dir")
           a == ialloc(l.fs, "dir")
           n == a.fs.ic[a.k].inum
           e == dir_add(NewDir(a.fs, a.k, u, FALSE, a.fs.ic[k].inum), k, u, "dir", n)
           p == iput(e, a.k)
           r == AddUserDir(h, u)
<1>1. r = IF l.k # NULL THEN iput(l.fs, k) ELSE IF a.k = NULL THEN iput(a.fs, k) ELSE iput(p, k)
  BY DEF AddUserDir
<1> HIDE DEF r
<1>2. u # "" /\ u \in ShortNames /\ u \in Uids
  BY UserNames
<1>3. HeldDir(f, k, d) /\ Good(f) /\ Roomy(f) /\ ROOT_INUM \in f.imap /\ k \in Places
  BY SlotPlace DEF HeldDir
<1> HIDE DEF f, k, d, a, e, n, p
<1>4. Sought(f, d, u, "dir", l)
  BY <1>2, <1>3, Seeks
<1> HIDE DEF l
<1>5. Same(f, l.fs) /\ Grown(f, l.fs) /\ Good(l.fs) /\ KeepsSlots(f, l.fs)
  BY <1>4 DEF Sought
<1>6. Roomy(l.fs) /\ ROOT_INUM \in l.fs.imap
  BY <1>3, <1>5, RoomySame
<1>7. HeldDir(l.fs, k, d)
  BY <1>3, <1>5, HeldKept DEF Good
<1>8. Grown(l.fs, a.fs)
  BY <1>5, <1>6, AllocGrown DEF a
<1>9. CASE l.k # NULL
  <2>1. Grown(l.fs, iput(l.fs, k))
    BY <1>3, <1>5, PutGrown
  <2>2. QED
    BY <1>1, <1>5, <1>9, <2>1, GrownOn DEF r, f
<1>10. CASE l.k = NULL /\ a.k = NULL
  <2>1. Grown(a.fs, iput(a.fs, k))
    BY <1>3, <1>8, PutGrown DEF Grown
  <2>2. QED
    BY <1>1, <1>5, <1>8, <1>10, <2>1, GrownOn DEF r, f
<1>11. CASE l.k = NULL /\ a.k # NULL
  <2>1. Fresh(l.fs, "dir", a, n)
    BY <1>5, <1>6, <1>11, AllocHeld DEF a, n
  <2>2. Lacks(TreeOf(l.fs), d, u, "dir")
    BY <1>4, <1>11, <2>1, FreshLacks DEF Sought
  <2>3. a.fs.ic[k].inum = d
    BY <1>5, <1>7, <2>1, FreshOther DEF Beside
  <2>4. Grown(l.fs, e)
    <3>1. Grown(l.fs, dir_add(NewDir(a.fs, a.k, u, FALSE, d), k, u, "dir", n))
      BY <1>2, <1>5, <1>7, <2>1, <2>2, OwnFirstGrown
    <3>2. QED
      BY <2>3, <3>1 DEF e
  <2>5. Grown(e, p)
    BY <2>1, <2>4, SlotPlace, PutGrown DEF Fresh, Grown, p
  <2>6. Grown(p, iput(p, k))
    BY <1>3, <2>5, PutGrown DEF Grown
  <2>7. Grown(l.fs, iput(p, k))
    BY <2>4, <2>5, <2>6, GrownOn
  <2>8. QED
    BY <1>1, <1>5, <1>11, <2>7, GrownOn DEF r, f
<1>12. QED
  BY <1>9, <1>10, <1>11

\* user_add.
LEMMA UserAddTree ==
    ASSUME NEW f, Good(f), Two(f), ROOT_INUM \in f.imap, NEW u \in Users
    PROVE  Grown(f, user_add(f, u))
<1> DEFINE h == HomeRoot(get_home_root(f))
<1>1. user_add(f, u) = AddUserDir(h, u)
  BY DEF user_add
<1>2. HomeMade(f, h)
  <2>1. Roomy(f)
    BY DEF Two, Roomy
  <2>2. QED
    BY <2>1, HomeRootTree
<1> HIDE DEF h
<1>3. Grown(f, h.fs) /\ Good(h.fs) /\ Roomy(h.fs) /\ ROOT_INUM \in h.fs.imap
  BY <1>2, TwoLeft, GrownLasts DEF HomeMade
<1>4. CASE h.k = NULL
  BY <1>1, <1>3, <1>4 DEF AddUserDir
<1>5. CASE h.k # NULL
  <2>1. HeldDir(h.fs, h.k, h.fs.ic[h.k].inum)
    BY <1>2, <1>5 DEF HomeMade
  <2>2. Grown(h.fs, AddUserDir(h, u))
    BY <1>3, <1>5, <2>1, AddUserDirTree
  <2>3. QED
    BY <1>1, <1>3, <2>2, GrownOn
<1>6. QED
  BY <1>4, <1>5

\* The directory of a user, looked up in /home.
DirOfUser(f, l) == Same(f, l.fs) /\ Grown(f, l.fs) /\ Good(l.fs) /\ l.k \in Places

\* UserDir.
LEMMA UserDirTree ==
    ASSUME NEW f, NEW h, Home(f, h), NEW u \in Users
    PROVE  DirOfUser(f, UserDir(h, u))
<1> DEFINE l == dir_lookup(h.fs, h.k, u, "dir")
           g == iput(l.fs, h.k)
           r == UserDir(h, u)
<1>1. r.fs = g /\ r.k = l.k
  BY DEF UserDir, Found
<1> HIDE DEF r
<1>2. Same(f, h.fs) /\ Grown(f, h.fs) /\ Good(h.fs) /\ h.k \in Places
  BY DEF Home
<1>3. Same(h.fs, l.fs) /\ Grown(h.fs, l.fs) /\ Good(l.fs) /\ l.k \in Places
  <2>1. CASE h.k = NULL
    <3>1. l.fs = h.fs /\ l.k = NULL
      BY <2>1 DEF dir_lookup, IsDir, Found
    <3> HIDE DEF l
    <3>2. Same(h.fs, h.fs) /\ Grown(h.fs, h.fs)
      BY <1>2, SameSelf, SameGrown DEF Good
    <3>3. QED
      BY <1>2, <3>1, <3>2 DEF Places
  <2>2. CASE h.k # NULL
    <3>1. HeldDir(h.fs, h.k, h.fs.ic[h.k].inum) /\ u # ""
      BY <2>2, UserNames DEF Home
    <3>2. Sought(h.fs, h.fs.ic[h.k].inum, u, "dir", l)
      BY <1>2, <3>1, Seeks
    <3>3. QED
      BY <3>2 DEF Sought
  <2>3. QED
    BY <2>1, <2>2
<1> HIDE DEF l
<1>4. Same(l.fs, g) /\ Grown(l.fs, g) /\ Good(g)
  BY <1>2, <1>3, PutGrown
<1> HIDE DEF g
<1>5. Same(f, g) /\ Grown(f, g)
  BY <1>2, <1>3, <1>4, SameOn, GrownOn
<1>6. QED
  BY <1>1, <1>3, <1>4, <1>5 DEF DirOfUser, r

\* FirstLogin.
LEMMA FirstLoginTree ==
    ASSUME NEW f, Good(f), Two(f), ROOT_INUM \in f.imap, NEW u \in Users, NEW h, NEW l,
           h = get_home_root(f), l = UserDir(h, u)
    PROVE  Grown(f, FirstLogin(h, l, u).fs) /\ FirstLogin(h, l, u).k \in Places
<1> DEFINE g == user_add(l.fs, u)
           i == get_home_root(g)
           r == UserDir(i, u)
<1>1. FirstLogin(h, l, u) = IF h.k = NULL \/ l.k # NULL THEN l ELSE r
  BY DEF FirstLogin
<1>2. Home(f, h)
  BY HomeTree
<1>3. Same(f, l.fs) /\ Grown(f, l.fs) /\ Good(l.fs) /\ l.k \in Places
  BY <1>2, UserDirTree DEF DirOfUser
<1>4. Two(l.fs) /\ ROOT_INUM \in l.fs.imap
  BY <1>3, RoomySame DEF Two
<1>5. Grown(l.fs, g)
  BY <1>3, <1>4, UserAddTree
<1> HIDE DEF g
<1>6. Good(g) /\ ROOT_INUM \in g.imap
  BY <1>4, <1>5, GrownLasts
<1>7. Home(g, i)
  BY <1>6, HomeTree
<1> HIDE DEF i
<1>8. Grown(g, r.fs) /\ r.k \in Places
  BY <1>7, UserDirTree DEF DirOfUser
<1> HIDE DEF r
<1>9. Grown(f, r.fs)
  BY <1>3, <1>5, <1>8, GrownOn
<1>10. QED
  BY <1>1, <1>3, <1>8, <1>9

-----------------------------------------------------------------------------
(* What the commands take away *)

\* A good file system remains, in which only empty directories have lost their name.
Shrunk(f, g) == Good(g) /\ OnlyEmpty(TreeOf(f), TreeOf(g)) /\ Lasts(TreeOf(f), TreeOf(g))

\* Growth loses nothing.
LEMMA GrownShrunk ==
    ASSUME NEW f, NEW g, Grown(f, g)
    PROVE  Shrunk(f, g)
  BY GrowsEmpties DEF Grown, Shrunk

\* A directory of this name has no entries but its own two.
BareHits(t, d, name, type) ==
    type = "dir" => \A i : Hit(t, d, name, type, i) => Bare(t, t.ents[d][i].inum)

\* A directory has one entry of a name and type.
LEMMA OneHit ==
    ASSUME NEW t, TreeOK(t), NEW d \in Inums, NEW name, NEW type, NEW i, NEW j,
           Hit(t, d, name, type, i), Hit(t, d, name, type, j)
    PROVE  i = j
  BY DEF TreeOK, Once, Hit

\* The directory in slot k is empty: no entry leads to inode 0, the root directory,
\* but "." and "..".
LEMMA EmptyBare ==
    ASSUME NEW f, Good(f), NEW k \in Slots, f.ic[k].inum # -1, dir_is_empty(f, k)
    PROVE  Bare(TreeOf(f), f.ic[k].inum)
<1> DEFINE t == TreeOf(f)
           n == f.ic[k].inum
<1>1. Dir(f, k) = t.ents[n] /\ n \in Inums
  BY DirIs DEF Good, TreeOf
<1>2. TreeOK(t)
  BY DEF Good
<1> HIDE DEF t, n
<1>3. ASSUME NEW j \in Used(t, n), t.ents[n][j].name \notin OwnNames
      PROVE  FALSE
  <2>1. j \in DOMAIN Dir(f, k) /\ Dir(f, k)[j] = t.ents[n][j]
    BY <1>1 DEF Used
  <2>2. t.ents[n][j].inum = ROOT_INUM
    BY <1>3, <2>1 DEF dir_is_empty, OwnNames, ROOT_INUM
  <2>3. ROOT_INUM \in t.imap /\ t.typ[ROOT_INUM] = t.ents[n][j].type
    BY <1>1, <1>2, <2>2 DEF TreeOK, Leads
  <2>4. t.ents[n][j].type = "dir"
    BY <1>2, <2>3 DEF TreeOK
  <2>5. QED
    BY <1>1, <1>2, <1>3, <2>2, <2>4 DEF TreeOK, Rooted, Child
<1>4. QED
  BY <1>3 DEF Bare, t, n

\* Scanned leaves the tree.
LEMMA ScannedGood ==
    ASSUME NEW f, Good(f), NEW k \in Slots
    PROVE  Same(f, Scanned(f, k)) /\ Good(Scanned(f, k)) /\ Scanned(f, k).ic = f.ic
<1> DEFINE g == Scanned(f, k)
<1>1. f \in FsT
  BY DEF Good, Cohere
<1>2. Swept(f, k, g) /\ Quiet(f, g)
  BY <1>1, ScannedSweeps
<1> HIDE DEF g
<1>3. Same(f, g) /\ g.ic = f.ic
  BY <1>2, SweptSame DEF Good, Swept
<1>4. Sane(g)
  BY <1>2, StillSane DEF Good, Quiet
<1>5. QED
  BY <1>3, <1>4, SameGrown DEF g

\* The cache stays as it was.
ShrunkOnDisk(f, g) == Shrunk(f, g) /\ g.ic = f.ic

\* dir_remove, of what is not a directory with entries.
LEMMA RemoveShrinks ==
    ASSUME NEW f, Good(f), NEW k, NEW d, HeldDir(f, k, d), NEW name, name # "", NEW type,
           BareHits(TreeOf(f), d, name, type)
    PROVE  ShrunkOnDisk(f, dir_remove(f, k, name, type))
<1> DEFINE g == dir_remove(f, k, name, type)
           m == Removable(f, k, name, type)
<1>1. k \in Slots /\ f.ic[k].inum = d /\ d # -1 /\ f \in FsT /\ d \in Inums
  BY HeldDirIs DEF Good, Cohere
<1>2. Taken(f, k, name, type, g)
  BY <1>1, RemoveTree DEF Good
<1>3. Quiet(f, g)
  BY <1>1, DirRemove DEF Dropped
<1> HIDE DEF g, m
<1>4. Sane(g) /\ g.ic = f.ic
  BY <1>2, <1>3, StillSane DEF Quiet, Good, Taken
<1>5. CASE m = {}
  <2>1. Same(f, g)
    BY <1>2, <1>5 DEF Taken, m
  <2>2. QED
    BY <1>4, <2>1, SameGrown, GrownShrunk DEF g, ShrunkOnDisk
<1>6. CASE m # {}
  <2>1. PICK i : Hit(TreeOf(f), d, name, type, i) /\ Cut(TreeOf(f), d, i, TreeOf(g))
    BY <1>1, <1>2, <1>6 DEF Taken, m
  <2>2. TreeOf(f).ents[d][i].type = "dir" => Bare(TreeOf(f), TreeOf(f).ents[d][i].inum)
    BY <2>1 DEF BareHits, Hit
  <2>3. TreeOK(TreeOf(g)) /\ OnlyEmpty(TreeOf(f), TreeOf(g)) /\ Lasts(TreeOf(f), TreeOf(g))
    BY <2>1, <2>2, CutOK DEF Good
  <2>4. Cohere(g)
    BY <1>2 DEF Taken
  <2>5. QED
    BY <1>4, <2>3, <2>4 DEF Shrunk, ShrunkOnDisk, Good, g
<1>7. QED
  BY <1>5, <1>6

\* Dropping links leaves the tree.
LEMMA RelinkedSame ==
    ASSUME NEW g, Good(g), NEW ip \in Slots, NEW r, Relinked(g, ip, r)
    PROVE  Same(g, r) /\ Good(r)
<1>1. /\ r \in FsT /\ r.imap = g.imap /\ r.inode = g.inode /\ r.ents = g.ents
      /\ \A j \in Slots \ {ip} : r.ic[j] = g.ic[j]
      /\ r.ic[ip].inum = g.ic[ip].inum /\ r.ic[ip].ref = g.ic[ip].ref
      /\ Alike(r.ic[ip].ip, g.ic[ip].ip)
  BY DEF Relinked, Alike
<1>2. ASSUME NEW j \in Slots, r.ic[j].inum # -1
      PROVE  r.ic[j].inum \in g.imap /\ Fits(g, r.ic[j].inum, r.ic[j].ip)
  <2>1. r.ic[j].inum = g.ic[j].inum /\ Alike(r.ic[j].ip, g.ic[j].ip)
    BY <1>1 DEF Alike
  <2>2. g.ic[j].inum \in g.imap /\ Fits(g, g.ic[j].inum, g.ic[j].ip)
    BY <1>2, <2>1 DEF Good, Cohere
  <2>3. QED
    BY <2>1, <2>2 DEF Fits, Alike
<1>3. \A n \in Inums : Alike(r.inode[n], g.inode[n])
  BY <1>1 DEF Alike
<1>4. Same(g, r)
  BY <1>1, <1>2, <1>3, SameIs DEF Good
<1>5. Still(g, r)
  BY <1>1 DEF Still
<1>6. Sane(r)
  BY <1>5, StillSane DEF Good
<1>7. QED
  BY <1>4, <1>6, SameGrown

\* Unlink.
LEMMA UnlinkShrinks ==
    ASSUME NEW f, Good(f), NEW k, NEW d, HeldDir(f, k, d), NEW ip \in Slots, f.ic[ip].inum # -1,
           NEW name, name # "", NEW type, BareHits(TreeOf(f), d, name, type), NEW links \in Nat
    PROVE  Shrunk(f, Unlink(f, k, ip, name, type, links))
<1> DEFINE g == dir_remove(f, k, name, type)
           m == Removable(f, k, name, type)
           u == Unlink(f, k, ip, name, type, links)
<1>1. ShrunkOnDisk(f, g)
  BY RemoveShrinks
<1>2. Good(g) /\ g \in FsT /\ g.ic[ip].ref > 0
  BY <1>1 DEF ShrunkOnDisk, Shrunk, Good, Cohere, Sane
<1>3. Unlinked(g, m, ip, u)
  BY <1>2, UnlinkIs
<1> HIDE DEF g, m, u
<1>4. ip \in Places
  BY SlotPlace
<1>5. CASE u = iput(g, ip)
  <2>1. Same(g, u) /\ Good(u)
    BY <1>2, <1>4, <1>5, PutGrown
  <2>2. QED
    BY <1>1, <2>1 DEF Same, ShrunkOnDisk, Shrunk, u
<1>6. ASSUME NEW r, Relinked(g, ip, r), u = iput(r, ip)
      PROVE  Shrunk(f, u)
  <2>1. Same(g, r) /\ Good(r)
    BY <1>2, <1>6, RelinkedSame
  <2>2. Same(r, u) /\ Good(u)
    BY <1>4, <1>6, <2>1, PutGrown
  <2>3. QED
    BY <1>1, <2>1, <2>2 DEF Same, ShrunkOnDisk, Shrunk
<1>7. QED
  BY <1>3, <1>5, <1>6 DEF Unlinked, u

\* The slot that a lookup takes is in use.
LEMMA SoughtSlot ==
    ASSUME NEW f, NEW d \in Inums, NEW name, NEW type, NEW l, Sought(f, d, name, type, l), l.k # NULL
    PROVE  l.k \in Slots /\ l.fs.ic[l.k].inum \in Inums /\ l.fs.ic[l.k].inum # -1
<1>1. Good(l.fs) /\ l.k \in Slots
  BY DEF Sought, Places
<1> DEFINE t == TreeOf(l.fs)
<1>2. PICK i : Hit(t, d, name, type, i) /\ l.fs.ic[l.k].inum = t.ents[d][i].inum
  BY DEF Sought
<1>3. TreeOK(t)
  BY <1>1 DEF Good
<1> HIDE DEF t
<1>4. t.ents[d][i].inum \in t.imap /\ t.imap \subseteq Inums
  BY <1>2, <1>3 DEF TreeOK, Leads, TreeT, Hit
<1>5. l.fs.ic[l.k].inum \in Inums
  BY <1>2, <1>4
<1>6. l.fs.ic[l.k].inum # -1
  BY <1>5, Sizes
<1>7. QED
  BY <1>1, <1>5, <1>6

\* A name that a handler has looked up and let go.
Returned(f, k, d, g) == Same(f, g) /\ Good(g) /\ HeldDir(g, k, d)

\* The handlers of rm, rmdir and cd do so.
LEMMA LetGoTree ==
    ASSUME NEW f, Good(f), NEW k, NEW d, HeldDir(f, k, d), NEW name, name # "", NEW type, NEW l,
           l = dir_lookup(f, k, name, type)
    PROVE  Returned(f, k, d, iput(l.fs, l.k))
<1> DEFINE g == iput(l.fs, l.k)
<1>1. k \in Slots /\ d # -1 /\ f.ic[k].inum = d
  BY HeldDirIs DEF Good
<1>2. At(f, g, NULL, NULL)
  BY <1>1, LetGo DEF Good
<1>3. g.ic[k].inum = f.ic[k].inum
  BY <1>1, <1>2, AtEnd
<1> HIDE DEF g
<1>4. Sought(f, d, name, type, l)
  BY Seeks
<1>5. Same(f, l.fs) /\ Good(l.fs) /\ l.k \in Places
  BY <1>4 DEF Sought
<1>6. Same(l.fs, g) /\ Good(g)
  BY <1>5, PutGrown DEF g
<1>7. Same(f, g)
  BY <1>5, <1>6, SameOn
<1>8. HeldDir(g, k, d)
  BY <1>3, <1>7 DEF HeldDir, Same
<1>9. QED
  BY <1>6, <1>7, <1>8 DEF Returned, g

\* cmd_rm takes no directory away.
LEMMA RmShrinks ==
    ASSUME NEW f, Good(f), NEW k, NEW d, HeldDir(f, k, d), NEW name \in FileNames
    PROVE  Shrunk(f, cmd_rm(f, k, name))
<1> DEFINE l == dir_lookup(f, k, name, "file")
           u == Unlink(l.fs, k, l.k, name, "file", 1)
           r == cmd_rm(f, k, name)
<1>1. r = IF l.k = NULL THEN l.fs ELSE u
  BY DEF cmd_rm
<1> HIDE DEF r
<1>2. name # ""
  BY NamespaceAssumption
<1>3. Sought(f, d, name, "file", l)
  BY <1>2, Seeks
<1> HIDE DEF l
<1>4. Same(f, l.fs) /\ Grown(f, l.fs) /\ Good(l.fs) /\ KeepsSlots(f, l.fs)
  BY <1>3 DEF Sought
<1>5. CASE l.k = NULL
  BY <1>1, <1>4, <1>5, GrownShrunk DEF r
<1>6. CASE l.k # NULL
  <2>1. HeldDir(l.fs, k, d) /\ d \in Inums
    BY <1>4, HeldKept DEF Good, HeldDir
  <2>2. l.k \in Slots /\ l.fs.ic[l.k].inum # -1
    BY <1>3, <1>6, <2>1, SoughtSlot
  <2>3. BareHits(TreeOf(l.fs), d, name, "file") /\ 1 \in Nat
    BY DEF BareHits
  <2>4. Shrunk(l.fs, u)
    BY <1>2, <1>4, <2>1, <2>2, <2>3, UnlinkShrinks
  <2> HIDE DEF u
  <2>5. QED
    BY <1>1, <1>4, <1>6, <2>4 DEF Same, Shrunk, r
<1>7. QED
  BY <1>5, <1>6

\* The one entry of this name leads to the empty directory that was found.
LEMMA FoundBare ==
    ASSUME NEW f, NEW d \in Inums, NEW name, NEW l, Sought(f, d, name, "dir", l), l.k # NULL,
           NEW g, Same(l.fs, g), Good(g), g.ic = l.fs.ic, dir_is_empty(g, l.k)
    PROVE  BareHits(TreeOf(g), d, name, "dir")
<1> DEFINE t == TreeOf(g)
<1>1. l.k \in Slots /\ l.fs.ic[l.k].inum # -1
  BY SoughtSlot
<1>2. Bare(t, l.fs.ic[l.k].inum)
  BY <1>1, EmptyBare
<1>3. t = TreeOf(l.fs) /\ TreeOK(t)
  BY DEF Same, Good
<1>4. PICK i : Hit(t, d, name, "dir", i) /\ l.fs.ic[l.k].inum = t.ents[d][i].inum
  BY <1>3 DEF Sought
<1> HIDE DEF t
<1>5. ASSUME NEW j, Hit(t, d, name, "dir", j)
      PROVE  Bare(t, t.ents[d][j].inum)
  <2>1. i = j
    BY <1>3, <1>4, <1>5, OneHit
  <2>2. QED
    BY <1>2, <1>4, <2>1
<1>6. QED
  BY <1>5 DEF BareHits, t

\* cmd_rmdir takes only an empty directory away.
LEMMA RmdirShrinks ==
    ASSUME NEW f, Good(f), NEW k, NEW d, HeldDir(f, k, d), NEW name \in DirNames
    PROVE  Shrunk(f, cmd_rmdir(f, k, name))
<1> DEFINE l == dir_lookup(f, k, name, "dir")
           g == Scanned(l.fs, l.k)
           u == Unlink(g, k, l.k, name, "dir", 2)
           r == cmd_rmdir(f, k, name)
<1>1. r = IF l.k = NULL THEN l.fs ELSE IF ~dir_is_empty(g, l.k) THEN iput(g, l.k) ELSE u
  BY DEF cmd_rmdir
<1> HIDE DEF r
<1>2. name # ""
  BY NamespaceAssumption
<1>3. Sought(f, d, name, "dir", l)
  BY <1>2, Seeks
<1> HIDE DEF l
<1>4. Same(f, l.fs) /\ Grown(f, l.fs) /\ Good(l.fs) /\ KeepsSlots(f, l.fs) /\ l.k \in Places
  BY <1>3 DEF Sought
<1>5. CASE l.k = NULL
  BY <1>1, <1>4, <1>5, GrownShrunk DEF r
<1>6. CASE l.k # NULL
  <2>1. HeldDir(l.fs, k, d) /\ d \in Inums
    BY <1>4, HeldKept DEF Good, HeldDir
  <2>2. l.k \in Slots /\ l.fs.ic[l.k].inum # -1
    BY <1>3, <1>6, <2>1, SoughtSlot
  <2>3. Same(l.fs, g) /\ Good(g) /\ g.ic = l.fs.ic
    BY <1>4, <2>2, ScannedGood
  <2> HIDE DEF g
  <2>4. HeldDir(g, k, d) /\ g.ic[l.k].inum # -1
    BY <2>1, <2>2, <2>3 DEF HeldDir, Same
  <2>5. ASSUME ~dir_is_empty(g, l.k) PROVE Shrunk(f, r)
    <3>1. Same(g, iput(g, l.k)) /\ Good(iput(g, l.k))
      BY <1>4, <2>3, PutGrown
    <3>2. Same(f, r) /\ Good(r)
      BY <1>1, <1>4, <1>6, <2>3, <2>5, <3>1, SameOn
    <3>3. QED
      BY <3>2, SameGrown, GrownShrunk DEF Good
  <2>6. ASSUME dir_is_empty(g, l.k) PROVE Shrunk(f, r)
    <3>1. BareHits(TreeOf(g), d, name, "dir") /\ 2 \in Nat
      BY <1>3, <1>6, <2>1, <2>3, <2>6, FoundBare
    <3>2. Shrunk(g, u)
      BY <1>2, <2>2, <2>3, <2>4, <3>1, UnlinkShrinks
    <3> HIDE DEF u
    <3>3. QED
      BY <1>1, <1>4, <1>6, <2>3, <2>6, <3>2 DEF Same, Shrunk
  <2>7. QED
    BY <2>5, <2>6 DEF r
<1>7. QED
  BY <1>5, <1>6

\* user_delete takes only an empty directory out of /home.
LEMMA UserDeleteShrinks ==
    ASSUME NEW f, Good(f), ROOT_INUM \in f.imap, NEW u \in Users
    PROVE  Shrunk(f, user_delete(f, u))
<1> DEFINE h == get_home_root(f)
           k == h.k
           d == h.fs.ic[k].inum
           l == dir_lookup(h.fs, k, u, "dir")
           e == Scanned(l.fs, l.k)
           m == dir_remove(e, k, u, "dir")
           g == IF dir_is_empty(e, l.k) THEN m ELSE e
           p == iput(g, l.k)
           q == iput(p, k)
           r == user_delete(f, u)
<1>1. r = IF k = NULL THEN h.fs ELSE IF l.k = NULL THEN iput(l.fs, k) ELSE q
  BY DEF user_delete
<1> HIDE DEF r
<1>2. Home(f, h)
  BY HomeTree
<1> HIDE DEF h
<1>3. Same(f, h.fs) /\ Grown(f, h.fs) /\ Good(h.fs) /\ k \in Places
  BY <1>2 DEF Home
<1>4. CASE k = NULL
  BY <1>1, <1>3, <1>4, GrownShrunk DEF r
<1>5. CASE k # NULL
  <2>1. HeldDir(h.fs, k, d) /\ d \in Inums /\ u # ""
    BY <1>2, <1>5, UserNames DEF Home, HeldDir
  <2> HIDE DEF k, d
  <2>2. Sought(h.fs, d, u, "dir", l)
    BY <1>3, <2>1, Seeks
  <2> HIDE DEF l
  <2>3. Same(h.fs, l.fs) /\ Grown(h.fs, l.fs) /\ Good(l.fs) /\ KeepsSlots(h.fs, l.fs) /\ l.k \in Places
    BY <2>2 DEF Sought
  <2>4. HeldDir(l.fs, k, d) /\ Same(f, l.fs)
    BY <1>3, <2>1, <2>3, HeldKept, SameOn DEF Good
  <2>5. CASE l.k = NULL
    <3>1. Same(l.fs, iput(l.fs, k)) /\ Good(iput(l.fs, k))
      BY <1>3, <2>3, PutGrown
    <3>2. Same(f, r) /\ Good(r)
      BY <1>1, <1>5, <2>4, <2>5, <3>1, SameOn
    <3>3. QED
      BY <3>2, SameGrown, GrownShrunk DEF r, Good
  <2>6. CASE l.k # NULL
    <3>1. l.k \in Slots /\ l.fs.ic[l.k].inum # -1
      BY <2>1, <2>2, <2>6, SoughtSlot
    <3>2. Same(l.fs, e) /\ Good(e) /\ e.ic = l.fs.ic
      BY <2>3, <3>1, ScannedGood
    <3> HIDE DEF e
    <3>3. HeldDir(e, k, d)
      BY <2>4, <3>2 DEF HeldDir, Same
    <3>4. Shrunk(e, g)
      <4>1. CASE dir_is_empty(e, l.k)
        <5>1. BareHits(TreeOf(e), d, u, "dir")
          BY <2>1, <2>2, <2>6, <3>2, <4>1, FoundBare
        <5>2. ShrunkOnDisk(e, m)
          BY <2>1, <3>2, <3>3, <5>1, RemoveShrinks
        <5>3. QED
          BY <4>1, <5>2 DEF ShrunkOnDisk
      <4>2. CASE ~dir_is_empty(e, l.k)
        BY <3>2, <4>2, SameSelf, SameGrown, GrownShrunk DEF Good
      <4>3. QED
        BY <4>1, <4>2
    <3> HIDE DEF g
    <3>5. Same(g, p) /\ Good(p)
      BY <2>3, <3>4, PutGrown DEF Shrunk
    <3> HIDE DEF p
    <3>6. Same(p, q) /\ Good(q)
      BY <1>3, <3>5, PutGrown
    <3> HIDE DEF q
    <3>7. Shrunk(f, q)
      BY <2>4, <3>2, <3>4, <3>5, <3>6 DEF Same, Shrunk
    <3>8. QED
      BY <1>1, <1>5, <2>6, <3>7 DEF r
  <2>7. QED
    BY <2>5, <2>6
<1>6. QED
  BY <1>4, <1>5

-----------------------------------------------------------------------------
(* cd, mount and format *)

\* iget of the directory in slot k.
LEMMA GetsHeld ==
    ASSUME NEW f, Good(f), NEW k, NEW d, HeldDir(f, k, d), NEW p, p = iget(f, f.ic[k].inum)
    PROVE  Returned(f, k, d, p.fs) /\ p.k = k
<1>1. k \in Slots /\ f.ic[k].inum = d /\ f.ic[k].inum # -1 /\ d \in Inums /\ d \in f.imap /\ f \in FsT
  BY HeldDirIs DEF Good, Cohere
<1>2. p.k = k /\ p.fs.ic[k].inum = d
  BY <1>1, GetsCached DEF Good
<1>3. d \in Inums \cup {-1} /\ p = iget(f, d)
  BY <1>1
<1>4. Got(f, d, p.fs, p.k)
  BY <1>1, <1>3, Iget
<1>5. Same(f, p.fs)
  BY <1>1, <1>4, GotSame DEF Good
<1>6. Sane(p.fs)
  <2>1. At(f, f, NULL, NULL)
    BY AtStart DEF Good
  <2>2. At(f, p.fs, NULL, p.k)
    BY <1>3, <2>1, AtIget
  <2>3. QED
    BY <2>2 DEF At
<1>7. Good(p.fs)
  BY <1>5, <1>6, SameGrown
<1>8. HeldDir(p.fs, k, d)
  BY <1>1, <1>2, <1>5 DEF HeldDir, Same
<1>9. QED
  BY <1>2, <1>5, <1>7, <1>8 DEF Returned

\* cmd_cd leaves the tree.
LEMMA CdTree ==
    ASSUME NEW f, Good(f), NEW k, NEW d, HeldDir(f, k, d), NEW name, name # ""
    PROVE  Same(f, cmd_cd(f, k, name).fs) /\ Good(cmd_cd(f, k, name).fs)
<1> DEFINE p == iget(f, f.ic[k].inum)
           l == dir_lookup(p.fs, p.k, name, "dir")
           g == iput(l.fs, p.k)
           t == IF name = "." THEN p ELSE Found(g, l.k)
           q == iput(t.fs, k)
           r == cmd_cd(f, k, name)
<1>1. r = IF t.k = NULL THEN Found(t.fs, k) ELSE Found(q, t.k)
  BY DEF cmd_cd
<1> HIDE DEF r
<1>2. Returned(f, k, d, p.fs) /\ p.k = k
  BY GetsHeld
<1> HIDE DEF p
<1>3. Same(f, p.fs) /\ Good(p.fs) /\ HeldDir(p.fs, k, d) /\ k \in Places
  BY <1>2, SlotPlace DEF Returned, HeldDir
<1>4. Sought(p.fs, d, name, "dir", l)
  BY <1>2, <1>3, Seeks
<1> HIDE DEF l
<1>5. Same(p.fs, l.fs) /\ Good(l.fs)
  BY <1>4 DEF Sought
<1>6. Same(l.fs, g) /\ Good(g)
  BY <1>2, <1>3, <1>5, PutGrown
<1>7. t.fs = p.fs \/ t.fs = g
  BY DEF Found
<1> HIDE DEF g, t
<1>8. Same(f, t.fs) /\ Good(t.fs)
  BY <1>3, <1>5, <1>6, <1>7, SameOn
<1>9. Same(t.fs, q) /\ Good(q)
  BY <1>3, <1>8, PutGrown
<1> HIDE DEF q
<1>10. r.fs = t.fs \/ r.fs = q
  BY <1>1 DEF Found
<1>11. Same(f, q)
  BY <1>8, <1>9, SameOn
<1>12. QED
  BY <1>8, <1>9, <1>10, <1>11 DEF r

\* A mount that finds the root directory.
LEMMA MountTree ==
    ASSUME NEW f, Good(f), ROOT_INUM \in f.imap
    PROVE  Grown(f, iget(init_inode_cache(f), ROOT_INUM).fs)
<1> DEFINE e == init_inode_cache(f)
           r == iget(e, ROOT_INUM)
<1>1. f \in FsT
  BY DEF Good, Cohere
<1>2. Sane(e) /\ e.imap = f.imap /\ e.inode = f.inode /\ e.ents = f.ents /\ \A k \in Slots : e.ic[k].inum = -1
  BY <1>1, InitCache
<1> HIDE DEF e
<1>3. e \in FsT /\ \A n \in Inums : Alike(e.inode[n], f.inode[n])
  BY <1>2 DEF Sane, Alike
<1>4. Same(f, e)
  BY <1>2, <1>3, SameIs DEF Good
<1>5. Grown(f, e) /\ Good(e)
  BY <1>2, <1>4, SameGrown
<1>6. RootGot(e, r)
  BY <1>2, <1>5, GetsRoot
<1>7. Grown(e, r.fs)
  BY <1>6 DEF RootGot
<1>8. QED
  BY <1>5, <1>7, GrownOn DEF e

\* A file system without an inode.
LEMMA EmptyGood ==
    ASSUME NEW f, Sane(f), f.imap = {}, \A k \in Slots : f.ic[k].inum = -1,
           \A n \in Inums : f.ents[n] = <<>>
    PROVE  Good(f)
<1>1. Cohere(f)
  BY DEF Sane, Cohere
<1> DEFINE t == TreeOf(f)
<1>2. t \in TreeT /\ t.imap = {} /\ t.ents = f.ents
  BY <1>1, TreeTypes
<1> HIDE DEF t
<1>3. \A d \in Inums : Used(t, d) = {}
  BY <1>2 DEF Used
<1>4. TreeOK(t)
  BY <1>2, <1>3 DEF TreeOK, Leads, Once, Back, Rooted, Blank
<1>5. QED
  BY <1>1, <1>4 DEF Good, t

\* The root directory, in slot k, with its own entry.
RootReady(e, f) ==
    /\ Grown(e, f) /\ f.imap = {ROOT_INUM} /\ Lacks(TreeOf(f), ROOT_INUM, "home", "dir")

\* A new root directory.
LEMMA RootTree ==
    ASSUME NEW e, Good(e), e.imap = {}, \A k \in Slots : e.ic[k].inum = -1, NEW r, r = ialloc(e, "dir")
    PROVE  RootReady(e, dir_add(Owned(r.fs, r.k, 1, "root", TRUE), r.k, ".", "dir", ROOT_INUM))
<1> DEFINE o == Owned(r.fs, r.k, 1, "root", TRUE)
           x == OwnedIp(r.fs.ic[r.k].ip, 1, "root", TRUE)
           g == dir_add(o, r.k, ".", "dir", ROOT_INUM)
           a == Entry(".", "dir", ROOT_INUM)
<1> HIDE DEF o, x, g, a
<1>1. r.k \in Slots /\ r.fs.ic[r.k].inum = ROOT_INUM
  BY RootMade DEF Good
<1>2. ROOT_INUM \in Inums /\ ROOT_INUM # -1 /\ Roomy(e) /\ r.k # NULL
  <2>1. ROOT_INUM \in Inums /\ ROOT_INUM # -1
    BY Sizes DEF ROOT_INUM
  <2>2. Roomy(e)
    BY <2>1 DEF Roomy
  <2>3. QED
    BY <1>1, <2>1, <2>2, SlotPlace
<1>3. PICK n \in Inums : Allocated(e, "dir", n, r)
  BY <1>2, AllocTree DEF Good
<1>4. NewNode(TreeOf(e), ROOT_INUM, "dir", TreeOf(r.fs)) /\ Cohere(r.fs) /\ r.fs.ic[r.k].ip.type = "dir"
  BY <1>1, <1>2, <1>3 DEF Allocated
<1>5. Grown(e, r.fs)
  BY <1>2, AllocGrown
<1>6. Good(r.fs) /\ Sane(r.fs) /\ r.fs \in FsT
  BY <1>5 DEF Grown, Good, Sane
<1>7. /\ Stored(r.fs, r.k, x, o) /\ o.ents = r.fs.ents /\ Quiet(r.fs, o)
      /\ x.type = r.fs.ic[r.k].ip.type /\ x.size = r.fs.ic[r.k].ip.size /\ x.addrs = r.fs.ic[r.k].ip.addrs
  <2>1. 1 \in LinkT /\ "root" \in Uids
    BY LinkTypes DEF Uids
  <2>2. QED
    BY <1>1, <1>6, <2>1, OwnedStores DEF o, x
<1>8. Same(r.fs, o) /\ Sane(o)
  BY <1>1, <1>4, <1>6, <1>7, StoredSame, StillSane DEF Alike, Quiet
<1>9. Grown(r.fs, o) /\ Good(o) /\ TreeOf(o) = TreeOf(r.fs)
  BY <1>6, <1>8, SameGrown DEF Same
<1>10. o.ic[r.k].inum = ROOT_INUM /\ o.ic[r.k].ip.type = "dir" /\ Cohere(o) /\ o \in FsT
  BY <1>1, <1>4, <1>7, <1>9 DEF Stored, Good, Cohere
<1>11. Added(o, r.k, a, g) /\ Quiet(o, g)
  <2>1. "." \in AllNames /\ "." \in ShortNames /\ "dir" \in Types
    BY NamespaceAssumption DEF ShortNames, AllNames, Types
  <2>2. Added(o, r.k, a, g)
    BY <1>1, <1>2, <1>8, <1>10, <2>1, AddTree DEF a, g
  <2>3. ROOT_INUM \in Inums \cup {-1} /\ r.k \in Places
    BY <1>1, <1>2, SlotPlace
  <2>4. Quiet(o, g)
    BY <1>1, <1>10, <2>1, <2>3, DirAddQuiet DEF g
  <2>5. QED
    BY <2>2, <2>4
<1> DEFINE t == TreeOf(r.fs)
           u == TreeOf(g)
<1>12. Appended(t, ROOT_INUM, a, u) /\ Cohere(g) /\ Sane(g)
  BY <1>8, <1>9, <1>10, <1>11, StillSane DEF Added, Quiet
<1>13. t.ents[ROOT_INUM] = <<>> /\ t.typ[ROOT_INUM] = "dir" /\ t.imap = {ROOT_INUM} /\ TreeOK(t)
  BY <1>4, <1>6 DEF NewNode, TreeOf, Good
<1>14. a.name = "." /\ a.type = "dir" /\ a.inum = ROOT_INUM
  BY DEF a, Entry
<1> HIDE DEF t, u
<1>15. Joins(t, ROOT_INUM, a)
  BY <1>13, <1>14 DEF Joins, Lacks, Used, Child, OwnNames
<1>16. TreeOK(u) /\ Grows(t, u)
  BY <1>12, <1>13, <1>15, AppendedOK
<1>17. u.imap = {ROOT_INUM} /\ u.ents[ROOT_INUM] = Append(<<>>, a)
  BY <1>12, <1>13 DEF Appended
<1>18. Lacks(u, ROOT_INUM, "home", "dir")
  <2>1. Append(<<>>, a) = <<a>>
    OBVIOUS
  <2>2. \A i \in Used(u, ROOT_INUM) : u.ents[ROOT_INUM][i] = a
    BY <1>17, <2>1 DEF Used
  <2>3. QED
    BY <1>14, <2>2 DEF Lacks
<1>19. Grown(e, g)
  BY <1>5, <1>12, <1>16, GrowsOn DEF Grown, Good, t, u
<1>20. g.imap = {ROOT_INUM}
  BY <1>17 DEF u, TreeOf
<1>21. QED
  BY <1>18, <1>19, <1>20 DEF RootReady, o, g, u

\* What a format leaves: nothing was taken away from the new tree.
NewlyMade(g) ==
    /\ Good(g) /\ ROOT_INUM \in g.imap
    /\ \A d \in Inums : \A i \in DOMAIN TreeOf(g).ents[d] : TreeOf(g).ents[d][i] # Removed

\* A format.
LEMMA FormattedTree ==
    ASSUME MaxInodes >= 2, NEW f \in FsT
    PROVE  NewlyMade(Formatted(f).fs)
<1> DEFINE e == Cleared(f)
           r == ialloc(e, "dir")
           d == dir_add(Owned(r.fs, r.k, 1, "root", TRUE), r.k, ".", "dir", ROOT_INUM)
           h == CreateHome(d)
           g == iput(h.fs, h.k)
<1>1. Formatted(f).fs = g
  BY DEF Formatted, Found, Cleared
<1>2. /\ Sane(e) /\ e.imap = {} /\ \A k \in Slots : e.ic[k].inum = -1
      /\ \A n \in Inums : e.ents[n] = <<>>
  BY ClearedIs
<1> HIDE DEF e
<1>3. Good(e)
  BY <1>2, EmptyGood
<1>4. RootReady(e, d)
  BY <1>2, <1>3, RootTree
<1> HIDE DEF d
<1>5. Grown(e, d) /\ d.imap = {ROOT_INUM} /\ Lacks(TreeOf(d), ROOT_INUM, "home", "dir")
  BY <1>4 DEF RootReady
<1>6. Roomy(d) /\ ROOT_INUM \in d.imap
  <2>1. 1 \in Inums /\ 1 # ROOT_INUM
    BY Sizes DEF Inums, ROOT_INUM
  <2>2. QED
    BY <1>5, <2>1 DEF Roomy
<1>7. HomeMade(d, h)
  BY <1>5, <1>6, CreateHomeTree DEF Grown
<1> HIDE DEF h
<1>8. Grown(d, h.fs) /\ h.k \in Places
  BY <1>7 DEF HomeMade
<1>9. Grown(h.fs, g)
  BY <1>8, PutGrown DEF Grown
<1> HIDE DEF g
<1>10. Grown(d, g) /\ Grown(e, g)
  BY <1>5, <1>8, <1>9, GrownOn
<1>11. Good(g) /\ ROOT_INUM \in g.imap
  BY <1>6, <1>10, GrownLasts
<1>12. ASSUME NEW m \in Inums, NEW i \in DOMAIN TreeOf(g).ents[m], TreeOf(g).ents[m][i] = Removed
       PROVE  FALSE
  <2>1. i \in DOMAIN TreeOf(e).ents[m]
    BY <1>10, <1>12 DEF Grown, Grows
  <2>2. TreeOf(e).ents[m] = <<>>
    BY <1>2 DEF TreeOf
  <2>3. QED
    BY <2>1, <2>2
<1>13. QED
  BY <1>1, <1>11, <1>12 DEF NewlyMade

-----------------------------------------------------------------------------
(* The invariant, for one session *)

\* One session, a table with room for a root directory and /home, commands that
\* start only with enough inodes left (two for the first login of a user), and no
\* name so long that it is stored as another one.
Enough == OneSession /\ MaxInodes >= 2 /\ Spare >= 2 /\ LongNames = {}

\* A good file system; once mounted it has a root directory; sessions are in directories.
TInv ==
    /\ Good(fs)
    /\ fs_initialized => ROOT_INUM \in fs.imap
    /\ \A c \in Sessions : session[c].cwd # NULL => TreeOf(fs).typ[where[c]] = "dir"

\* A step that takes only empty directories away.
Stepped == TInv' /\ OnlyEmpty(TreeOf(fs), TreeOf(fs'))

\* Room means two inodes.
LEMMA RoomTwo ==
    ASSUME Enough, Room
    PROVE  Two(fs)
<1> DEFINE S == Inums \ fs.imap
<1>1. IsFiniteSet(S)
  <2>1. IsFiniteSet(0 .. MaxInodes - 1)
    BY Sizes, FS_Interval
  <2>2. S \in SUBSET (0 .. MaxInodes - 1)
    BY DEF Inums
  <2> HIDE DEF S
  <2>3. QED
    BY <2>1, <2>2, FS_Subset
<1>2. Cardinality(S) \in Nat /\ Cardinality(S) >= 2
  <2>1. Cardinality(S) \in Nat
    BY <1>1, FS_CardinalityType
  <2>2. Cardinality(S) >= Spare /\ Spare \in Nat /\ Spare >= 2
    BY NamespaceAssumption DEF Room, Enough
  <2> HIDE DEF S
  <2>3. QED
    BY <2>1, <2>2
<1> HIDE DEF S
<1>3. S # {} /\ ~\E x : S = {x}
  <2>1. Cardinality(S) # 0 /\ Cardinality(S) # 1
    BY <1>2
  <2>2. QED
    BY <1>1, <2>1, FS_EmptySet, FS_Singleton
<1>4. PICK i \in S : TRUE
  BY <1>3
<1>5. PICK j \in S : j # i
  BY <1>3, <1>4
<1>6. QED
  BY <1>4, <1>5 DEF Two, S

\* The directory that a session is in.
LEMMA InHeld ==
    ASSUME IInv, Kept, TInv, NEW c \in Sessions, session[c].cwd # NULL
    PROVE  HeldDir(fs, session[c].cwd, where[c]) /\ where[c] \in fs.imap
<1> DEFINE k == session[c].cwd
<1>1. k \in Slots
  BY SessionTypes DEF Places
<1>2. fs.ic[k].inum = where[c] /\ where[c] \in Inums
  BY DEF Kept
<1>3. TreeOf(fs).typ[where[c]] = "dir" /\ Good(fs)
  BY DEF TInv
<1> HIDE DEF k
<1>4. HeldDir(fs, k, where[c])
  BY <1>1, <1>2, <1>3 DEF HeldDir
<1>5. QED
  BY <1>3, <1>4, HeldDirIs DEF Good, k

\* Where a session may be after a step.
Placed(c) ==
    session'[c].cwd # NULL =>
        \/ session[c].cwd # NULL /\ where'[c] = where[c]
        \/ where'[c] = ROOT_INUM /\ ROOT_INUM \in fs.imap
        \/ where'[c] \in Inums /\ TreeOf(fs').typ[where'[c]] = "dir"

\* A step that shrinks the tree or lets it grow.
LEMMA ShrunkStep ==
    ASSUME IInv, Kept, TInv, Shrunk(fs, fs'), fs_initialized' => ROOT_INUM \in fs.imap,
           \A c \in Sessions : Placed(c)
    PROVE  Stepped
<1> DEFINE t == TreeOf(fs)
           u == TreeOf(fs')
<1>1. Good(fs') /\ OnlyEmpty(t, u) /\ Lasts(t, u) /\ t.imap = fs.imap /\ u.imap = fs'.imap
  BY DEF Shrunk, TreeOf
<1>2. TreeOK(u)
  BY <1>1 DEF Good
<1> HIDE DEF t, u
<1>3. fs.imap \subseteq fs'.imap /\ \A n \in fs.imap : u.typ[n] = t.typ[n]
  BY <1>1 DEF Lasts
<1>4. ROOT_INUM \in fs.imap => u.typ[ROOT_INUM] = "dir"
  BY <1>1, <1>2, <1>3 DEF TreeOK
<1>5. ASSUME NEW c \in Sessions, session'[c].cwd # NULL
      PROVE  u.typ[where'[c]] = "dir"
  <2>1. CASE session[c].cwd # NULL /\ where'[c] = where[c]
    <3>1. where[c] \in fs.imap
      BY <2>1, InHeld
    <3>2. t.typ[where[c]] = "dir"
      BY <2>1 DEF TInv, t
    <3>3. QED
      BY <1>3, <2>1, <3>1, <3>2
  <2>2. CASE where'[c] = ROOT_INUM /\ ROOT_INUM \in fs.imap
    BY <1>4, <2>2
  <2>3. CASE where'[c] \in Inums /\ TreeOf(fs').typ[where'[c]] = "dir"
    BY <2>3 DEF u
  <2>4. QED
    BY <1>5, <2>1, <2>2, <2>3 DEF Placed
<1>6. fs_initialized' => ROOT_INUM \in fs'.imap
  BY <1>3
<1>7. TInv'
  BY <1>1, <1>5, <1>6 DEF TInv, u
<1>8. QED
  BY <1>1, <1>7 DEF Stepped, t, u

\* The same file system as before is no loss.
LEMMA NoLoss ==
    ASSUME NEW f, Good(f)
    PROVE  Shrunk(f, f)
<1>1. Same(f, f)
  BY SameSelf DEF Good
<1>2. Grown(f, f)
  BY <1>1, SameGrown DEF Good
<1>3. QED
  BY <1>2, GrownShrunk

\* A mount.
LEMMA ConnectionTree ==
    ASSUME IInv, Kept, TInv, OneSession, NEW c \in Sessions, on_connection(c)
    PROVE  Stepped
<1> DEFINE m == iget(init_inode_cache(fs), ROOT_INUM)
<1>1. where' = [where EXCEPT ![c] = ROOT_INUM] /\ where \in [Sessions -> Inums \cup {-1}]
  BY DEF on_connection, IInv
<1>2. \A d \in Sessions : d = c /\ where'[d] = ROOT_INUM
  BY <1>1 DEF OneSession
<1>3. CASE ROOT_INUM \in fs.imap
  <2>1. fs' = m.fs
    BY <1>3 DEF on_connection
  <2>2. Grown(fs, m.fs)
    BY <1>3, MountTree DEF TInv
  <2> HIDE DEF m
  <2>3. Shrunk(fs, fs')
    BY <2>1, <2>2, GrownShrunk
  <2>4. \A d \in Sessions : Placed(d)
    BY <1>2, <1>3 DEF Placed
  <2>5. QED
    BY <1>3, <2>3, <2>4, ShrunkStep
<1>4. CASE ROOT_INUM \notin fs.imap
  <2> DEFINE z == [Offline EXCEPT !.on = TRUE]
  <2>1. fs' = fs /\ session' = [session EXCEPT ![c] = z] /\ fs_initialized' = fs_initialized
    BY <1>4 DEF on_connection
  <2>2. z.cwd = NULL
    BY DEF Offline
  <2> HIDE DEF z
  <2>3. session'[c].cwd = NULL
    BY <2>1, <2>2 DEF IInv
  <2>4. \A d \in Sessions : Placed(d)
    BY <1>2, <2>3 DEF Placed
  <2>5. Shrunk(fs, fs')
    BY <2>1, NoLoss DEF TInv
  <2>6. fs_initialized' => ROOT_INUM \in fs.imap
    BY <2>1 DEF TInv
  <2>7. QED
    BY <2>4, <2>5, <2>6, ShrunkStep
<1>5. QED
  BY <1>3, <1>4

\* A disconnect.
LEMMA CleanupTree ==
    ASSUME IInv, Kept, TInv, NEW c \in Sessions, cleanup(c)
    PROVE  Stepped
<1>1. /\ fs' = iput(fs, session[c].cwd) /\ session' = [session EXCEPT ![c] = Offline]
      /\ fs_initialized' = fs_initialized /\ where' = where
  BY DEF cleanup
<1>2. session[c].cwd \in Places
  BY SessionTypes
<1>3. Grown(fs, fs')
  BY <1>1, <1>2, PutGrown DEF TInv
<1>4. Shrunk(fs, fs')
  BY <1>3, GrownShrunk
<1>5. Offline.cwd = NULL
  BY DEF Offline
<1>6. ASSUME NEW d \in Sessions PROVE Placed(d)
  <2>1. d = c => session'[d].cwd = NULL
    BY <1>1, <1>5 DEF IInv
  <2>2. d # c => session'[d] = session[d]
    BY <1>1 DEF IInv
  <2>3. QED
    BY <1>1, <2>1, <2>2 DEF Placed
<1>7. fs_initialized' => ROOT_INUM \in fs.imap
  BY <1>1 DEF TInv
<1>8. QED
  BY <1>4, <1>6, <1>7, ShrunkStep

\* A format: nothing that was there is there with its name gone.
LEMMA FormatTree ==
    ASSUME IInv, TInv, Enough, NEW c \in Sessions, handle_f(c)
    PROVE  Stepped
<1>1. fs' = Formatted(fs).fs /\ where' = [where EXCEPT ![c] = ROOT_INUM]
  BY DEF handle_f
<1>2. fs \in FsT /\ MaxInodes >= 2
  BY SessionTypes DEF Enough
<1>3. NewlyMade(fs')
  BY <1>1, <1>2, FormattedTree
<1>4. Good(fs') /\ ROOT_INUM \in fs'.imap
  BY <1>3 DEF NewlyMade
<1>5. TreeOf(fs').typ[ROOT_INUM] = "dir"
  BY <1>4 DEF Good, TreeOK, TreeOf
<1>6. \A d \in Sessions : where'[d] = ROOT_INUM
  BY <1>1 DEF Enough, OneSession, IInv
<1>7. TInv'
  BY <1>4, <1>5, <1>6 DEF TInv
<1>8. OnlyEmpty(TreeOf(fs), TreeOf(fs'))
  BY <1>3 DEF NewlyMade, OnlyEmpty
<1>9. QED
  BY <1>7, <1>8 DEF Stepped

\* A login of root.
LEMMA RootLoginTree ==
    ASSUME IInv, Kept, TInv, NEW c \in Sessions, login_root(c)
    PROVE  Stepped
<1>1. session' = [session EXCEPT ![c].uid = "root"] /\ fs' = fs /\ fs_initialized' = fs_initialized /\ where' = where
  BY DEF login_root
<1> DEFINE s == [session[c] EXCEPT !.uid = "root"]
<1>2. session' = [session EXCEPT ![c] = s]
  BY <1>1, Zenon
<1>3. session[c] \in SessionT
  BY SessionTypes
<1>4. s.cwd = session[c].cwd
  BY <1>3 DEF SessionT
<1> HIDE DEF s
<1>5. \A d \in Sessions : session'[d].cwd = session[d].cwd
  BY <1>2, <1>4 DEF IInv
<1>6. \A d \in Sessions : Placed(d)
  BY <1>1, <1>5 DEF Placed
<1>7. Shrunk(fs, fs')
  BY <1>1, NoLoss DEF TInv
<1>8. fs_initialized' => ROOT_INUM \in fs.imap
  BY <1>1 DEF TInv
<1>9. QED
  BY <1>6, <1>7, <1>8, ShrunkStep

\* A user's login.
LEMMA LoginTree ==
    ASSUME IInv, Kept, TInv, Enough, NEW c \in Sessions, NEW u \in Users, user_login(c, u)
    PROVE  Stepped
<1> DEFINE h == get_home_root(fs)
           l == FirstLogin(h, UserDir(h, u), u)
           p == iput(l.fs, session[c].cwd)
           r == iget(p, ROOT_INUM)
           q == iput(r.fs, l.k)
<1>1. Logged(c, u, l, r) /\ fs_initialized' = fs_initialized /\ fs_initialized /\ Room
  BY DEF user_login
<1>2. Two(fs) /\ Good(fs) /\ ROOT_INUM \in fs.imap /\ session[c].cwd \in Places
  BY <1>1, RoomTwo, SessionTypes DEF TInv
<1>3. Grown(fs, l.fs) /\ l.k \in Places
  BY <1>2, FirstLoginTree
<1> HIDE DEF l
<1>4. CASE l.k = NULL
  <2>1. fs' = l.fs /\ session' = session /\ where' = where
    BY <1>1, <1>4 DEF Logged
  <2>2. Shrunk(fs, fs')
    BY <1>3, <2>1, GrownShrunk
  <2>3. \A d \in Sessions : Placed(d)
    BY <2>1 DEF Placed
  <2>4. QED
    BY <1>2, <2>2, <2>3, ShrunkStep
<1>5. CASE l.k # NULL
  <2>1. fs' = q /\ where' = [where EXCEPT ![c] = ROOT_INUM]
    BY <1>1, <1>5 DEF Logged
  <2>2. Good(p) /\ Grown(fs, p) /\ ROOT_INUM \in p.imap
    <3>1. Good(l.fs)
      BY <1>3 DEF Grown
    <3>2. Grown(l.fs, p)
      BY <1>2, <3>1, PutGrown
    <3>3. Grown(fs, p)
      BY <1>3, <3>2, GrownOn
    <3>4. QED
      BY <1>2, <3>3, GrownLasts
  <2> HIDE DEF p
  <2>3. RootGot(p, r)
    BY <2>2, GetsRoot
  <2> HIDE DEF r
  <2>4. Grown(p, r.fs) /\ Good(r.fs)
    BY <2>3 DEF RootGot
  <2>5. Grown(r.fs, q)
    BY <1>3, <2>4, PutGrown
  <2> HIDE DEF q
  <2>6. Shrunk(fs, fs')
    BY <2>1, <2>2, <2>4, <2>5, GrownOn, GrownShrunk
  <2>7. \A d \in Sessions : where'[d] = ROOT_INUM
    BY <2>1 DEF Enough, OneSession, IInv
  <2>8. \A d \in Sessions : Placed(d)
    BY <1>2, <2>7 DEF Placed
  <2>9. QED
    BY <1>2, <2>6, <2>8, ShrunkStep
<1>6. QED
  BY <1>4, <1>5

\* cd.
LEMMA CdTreeStep ==
    ASSUME IInv, Kept, TInv, Enough, NEW c \in Sessions, NEW name \in Names, handle_cd(c, name)
    PROVE  Stepped
<1> DEFINE k == session[c].cwd
           d == where[c]
           l == dir_lookup(fs, k, name, "dir")
           g == iput(l.fs, l.k)
           r == cmd_cd(g, k, name)
           w == IF name = "." THEN where[c] ELSE l.fs.ic[l.k].inum
<1>1. /\ k # NULL /\ l.k # NULL /\ fs' = r.fs /\ fs_initialized
      /\ where' = [where EXCEPT ![c] = w] /\ fs_initialized' = fs_initialized
  BY DEF handle_cd, Ready, LoggedIn
<1>2. HeldDir(fs, k, d) /\ Good(fs) /\ d \in Inums /\ d \in fs.imap
  BY <1>1, InHeld DEF TInv, HeldDir
<1>3. name # ""
  BY NamespaceAssumption
<1>4. Sought(fs, d, name, "dir", l)
  BY <1>2, <1>3, Seeks
<1>5. Returned(fs, k, d, g)
  BY <1>2, <1>3, LetGoTree
<1> HIDE DEF k, g
<1>6. Same(fs, g) /\ Good(g) /\ HeldDir(g, k, d)
  BY <1>5 DEF Returned
<1>7. Same(g, r.fs) /\ Good(r.fs)
  BY <1>3, <1>6, CdTree
<1> HIDE DEF r
<1>8. Same(fs, fs') /\ Good(fs')
  BY <1>1, <1>6, <1>7, SameOn
<1>9. Shrunk(fs, fs') /\ TreeOf(fs') = TreeOf(fs)
  BY <1>2, <1>8, SameGrown, GrownShrunk DEF Good, Same
<1>10. w \in Inums /\ TreeOf(fs).typ[w] = "dir"
  <2>1. CASE name = "."
    BY <1>2, <2>1 DEF HeldDir
  <2>2. CASE name # "."
    <3>1. HeldDir(l.fs, l.k, l.fs.ic[l.k].inum)
      BY <1>1, <1>2, <1>4, SoughtDir
    <3>2. TreeOf(l.fs) = TreeOf(fs)
      BY <1>4 DEF Sought, Same
    <3>3. QED
      BY <2>2, <3>1, <3>2 DEF HeldDir
  <2>3. QED
    BY <2>1, <2>2
<1> HIDE DEF w
<1>11. \A e \in Sessions : where'[e] = w
  BY <1>1 DEF Enough, OneSession, IInv
<1>12. \A e \in Sessions : Placed(e)
  BY <1>9, <1>10, <1>11 DEF Placed
<1>13. fs_initialized' => ROOT_INUM \in fs.imap
  BY <1>1 DEF TInv
<1>14. QED
  BY <1>9, <1>12, <1>13, ShrunkStep

\* A handler that leaves the sessions alone.
LEMMA ChangeTree ==
    ASSUME IInv, Kept, TInv, NEW g, Shrunk(fs, g), Change(g)
    PROVE  Stepped
<1>1. fs' = g /\ session' = session /\ fs_initialized' = fs_initialized /\ where' = where
  BY DEF Change
<1>2. Shrunk(fs, fs') /\ \A c \in Sessions : Placed(c)
  BY <1>1 DEF Placed
<1>3. fs_initialized' => ROOT_INUM \in fs.imap
  BY <1>1 DEF TInv
<1>4. QED
  BY <1>2, <1>3, ShrunkStep

\* What a handler starts from.
LEMMA ReadyHeld ==
    ASSUME IInv, Kept, TInv, NEW c \in Sessions, Ready(c)
    PROVE  /\ HeldDir(fs, session[c].cwd, where[c]) /\ Good(fs) /\ ROOT_INUM \in fs.imap
           /\ session[c].uid \in Uids
  BY InHeld, ReadySlot DEF Ready, LoggedIn, TInv

\* Every step keeps the tree.
LEMMA StepTree ==
    ASSUME IInv, Kept, TInv, Enough, [Next]_vars
    PROVE  Stepped
<1>1. CASE UNCHANGED vars
  <2>1. fs' = fs /\ session' = session /\ where' = where /\ fs_initialized' = fs_initialized
    BY <1>1 DEF vars
  <2>2. Shrunk(fs, fs')
    BY <2>1, NoLoss DEF TInv
  <2>3. \A c \in Sessions : Placed(c)
    BY <2>1 DEF Placed
  <2>4. QED
    BY <2>1, <2>2, <2>3, ShrunkStep DEF TInv
<1>2. CASE Next
  <2>1. PICK c \in Sessions :
          \/ on_connection(c) \/ cleanup(c) \/ handle_f(c) \/ login_root(c)
          \/ \E u \in Users : user_login(c, u) \/ handle_useradd(c, u) \/ handle_userdel(c, u)
          \/ \E n \in FileNames : handle_mk(c, n) \/ handle_rm(c, n)
          \/ \E n \in DirNames : handle_mkdir(c, n) \/ handle_rmdir(c, n)
          \/ \E n \in Names : handle_cd(c, n)
    BY <1>2 DEF Next
  <2> DEFINE k == session[c].cwd
             uid == session[c].uid
             d == where[c]
  <2>2. Ready(c) => HeldDir(fs, k, d) /\ Good(fs) /\ ROOT_INUM \in fs.imap /\ uid \in Uids
    BY ReadyHeld
  <2>3. Room => Two(fs) /\ Roomy(fs)
    BY RoomTwo DEF Two, Roomy
  <2>17. LoggedIn(c) => Good(fs) /\ ROOT_INUM \in fs.imap
    BY DEF LoggedIn, TInv
  <2>4. CASE on_connection(c)
    BY <2>4, ConnectionTree DEF Enough
  <2>5. CASE cleanup(c)
    BY <2>5, CleanupTree
  <2>6. CASE handle_f(c)
    BY <2>6, FormatTree
  <2>7. CASE login_root(c)
    BY <2>7, RootLoginTree
  <2>8. CASE \E u \in Users : user_login(c, u)
    BY <2>8, LoginTree
  <2>9. CASE \E u \in Users : handle_useradd(c, u)
    <3>1. PICK u \in Users : handle_useradd(c, u)
      BY <2>9
    <3>2. LoggedIn(c) /\ Room /\ Change(user_add(fs, u))
      BY <3>1 DEF handle_useradd
    <3>3. Shrunk(fs, user_add(fs, u))
      BY <2>17, <2>3, <3>2, UserAddTree, GrownShrunk
    <3>4. QED
      BY <3>2, <3>3, ChangeTree
  <2>10. CASE \E u \in Users : handle_userdel(c, u)
    <3>1. PICK u \in Users : handle_userdel(c, u)
      BY <2>10
    <3>2. LoggedIn(c) /\ Change(user_delete(fs, u))
      BY <3>1 DEF handle_userdel
    <3>3. Shrunk(fs, user_delete(fs, u))
      BY <2>17, <3>2, UserDeleteShrinks
    <3>4. QED
      BY <3>2, <3>3, ChangeTree
  <2>11. CASE \E n \in FileNames : handle_mk(c, n)
    <3>1. PICK n \in FileNames : handle_mk(c, n)
      BY <2>11
    <3>2. Ready(c) /\ Room /\ Change(cmd_mk(fs, k, uid, n))
      BY <3>1 DEF handle_mk
    <3> HIDE DEF k, uid, d
    <3>3. Shrunk(fs, cmd_mk(fs, k, uid, n))
      BY <2>2, <2>3, <3>2, MkGrown, GrownShrunk DEF Enough
    <3>4. QED
      BY <3>2, <3>3, ChangeTree
  <2>12. CASE \E n \in DirNames : handle_mkdir(c, n)
    <3>1. PICK n \in DirNames : handle_mkdir(c, n)
      BY <2>12
    <3>2. Ready(c) /\ Room /\ Change(cmd_mkdir(fs, k, uid, n))
      BY <3>1 DEF handle_mkdir
    <3> HIDE DEF k, uid, d
    <3>3. Shrunk(fs, cmd_mkdir(fs, k, uid, n))
      BY <2>2, <2>3, <3>2, MkdirGrown, GrownShrunk DEF Enough
    <3>4. QED
      BY <3>2, <3>3, ChangeTree
  <2>13. CASE \E n \in FileNames : handle_rm(c, n)
    <3>1. PICK n \in FileNames : handle_rm(c, n)
      BY <2>13
    <3> DEFINE l == dir_lookup(fs, k, n, "file")
               g == iput(l.fs, l.k)
    <3>2. Ready(c) /\ Change(cmd_rm(g, k, n))
      BY <3>1 DEF handle_rm
    <3> HIDE DEF k, uid, d
    <3>3. Returned(fs, k, d, g)
      BY <2>2, <3>2, NamespaceAssumption, LetGoTree
    <3> HIDE DEF g
    <3>4. Shrunk(g, cmd_rm(g, k, n))
      BY <3>3, RmShrinks DEF Returned
    <3>5. Shrunk(fs, cmd_rm(g, k, n))
      BY <3>3, <3>4 DEF Returned, Same, Shrunk
    <3>6. QED
      BY <3>2, <3>5, ChangeTree
  <2>14. CASE \E n \in DirNames : handle_rmdir(c, n)
    <3>1. PICK n \in DirNames : handle_rmdir(c, n)
      BY <2>14
    <3> DEFINE l == dir_lookup(fs, k, n, "dir")
               g == iput(l.fs, l.k)
    <3>2. Ready(c) /\ Change(cmd_rmdir(g, k, n))
      BY <3>1 DEF handle_rmdir
    <3> HIDE DEF k, uid, d
    <3>3. Returned(fs, k, d, g)
      BY <2>2, <3>2, NamespaceAssumption, LetGoTree
    <3> HIDE DEF g
    <3>4. Shrunk(g, cmd_rmdir(g, k, n))
      BY <3>3, RmdirShrinks DEF Returned
    <3>5. Shrunk(fs, cmd_rmdir(g, k, n))
      BY <3>3, <3>4 DEF Returned, Same, Shrunk
    <3>6. QED
      BY <3>2, <3>5, ChangeTree
  <2>15. CASE \E n \in Names : handle_cd(c, n)
    BY <2>15, CdTreeStep
  <2>16. QED
    BY <2>1, <2>4, <2>5, <2>6, <2>7, <2>8, <2>9, <2>10, <2>11, <2>12, <2>13, <2>14, <2>15
<1>3. QED
  BY <1>1, <1>2

\* A disk that has never been formatted is the tree without inodes.
LEMMA InitTree ==
    ASSUME Init
    PROVE  IInv /\ Kept /\ TInv
<1>1. IInv /\ Kept
  BY InitInv
<1>2. /\ fs.imap = {} /\ \A n \in Inums : fs.ents[n] = <<>>
      /\ \A k \in Slots : fs.ic[k] = FreeSlot
  BY DEF Init
<1>3. \A k \in Slots : fs.ic[k].inum = -1
  BY <1>2 DEF FreeSlot
<1>4. Good(fs)
  BY <1>1, <1>2, <1>3, EmptyGood DEF IInv
<1>5. ~fs_initialized /\ \A c \in Sessions : session[c].cwd = NULL
  BY DEF Init, Offline
<1>6. QED
  BY <1>1, <1>4, <1>5 DEF TInv

-----------------------------------------------------------------------------
(* The theorems *)

\* With one session and inodes to spare, in every reachable state the inode table,
\* the cache and the directories fit together, and the directories are a tree.
THEOREM TreeInvariance == Enough => (Spec => [](IInv /\ Kept /\ TInv))
<1> SUFFICES ASSUME Enough PROVE Spec => [](IInv /\ Kept /\ TInv)
  OBVIOUS
<1>1. Init => IInv /\ Kept /\ TInv
  BY InitTree
<1>2. (IInv /\ Kept /\ TInv) /\ [Next]_vars => (IInv /\ Kept /\ TInv)'
  <2> SUFFICES ASSUME IInv, Kept, TInv, [Next]_vars PROVE IInv' /\ Kept' /\ TInv'
    OBVIOUS
  <2>1. IInv' /\ Kept'
    BY StepInv DEF Enough
  <2>2. TInv'
    BY StepTree DEF Stepped
  <2>3. QED
    BY <2>1, <2>2
<1>3. QED
  BY <1>1, <1>2, PTL DEF Spec

\* No entry leads to an inode that ialloc has not allocated or that has another
\* type: cmd_mk, cmd_mkdir and user_add name what they allocate, and no command
\* frees what an entry leads to.
THEOREM EntriesAlwaysLive == Enough => (Spec => []EntriesLive)
<1> SUFFICES ASSUME Enough PROVE Spec => []EntriesLive
  OBVIOUS
<1>1. ASSUME TInv PROVE EntriesLive
  <2> DEFINE t == TreeOf(fs)
  <2>1. TreeOK(t) /\ t.imap = fs.imap /\ t.ents = fs.ents /\ (\A n \in Inums : t.typ[n] = fs.inode[n].type)
    BY <1>1, TreeTypes DEF TInv, Good
  <2> HIDE DEF t
  <2>2. SUFFICES ASSUME NEW d \in Inums, NEW i \in Live(d)
                 PROVE  /\ fs.ents[d][i].inum \in fs.imap \cap Inums
                        /\ fs.inode[fs.ents[d][i].inum].type = fs.ents[d][i].type
    BY DEF EntriesLive
  <2>3. i \in Used(t, d)
    BY <2>1, <2>2 DEF Live, Used
  <2>4. t.ents[d][i].inum \in t.imap /\ t.typ[t.ents[d][i].inum] = t.ents[d][i].type /\ t.imap \subseteq Inums
    BY <2>1, <2>3 DEF TreeOK, Leads, TreeT
  <2>5. QED
    BY <2>1, <2>4
<1>2. QED
  BY <1>1, TreeInvariance, PTL

\* A command that makes a file or directory never makes a second one of the name,
\* although its lookup also fails when the cache is full: then ialloc fails as well.
THEOREM AlwaysOneName == Enough => (Spec => []OneName)
<1> SUFFICES ASSUME Enough PROVE Spec => []OneName
  OBVIOUS
<1>1. ASSUME TInv PROVE OneName
  <2>1. TreeOK(TreeOf(fs)) /\ TreeOf(fs).ents = fs.ents
    BY <1>1 DEF TInv, Good, TreeOf
  <2>2. QED
    BY <2>1 DEF OneName, TreeOK, Once, Live, Used
<1>2. QED
  BY <1>1, TreeInvariance, PTL

\* From a directory that has a name in another one, ".." leads back to that one,
\* and to no other, whichever of the two entries was written first.
THEOREM DotDotAlwaysBack == Enough => (Spec => []DotDot)
<1> SUFFICES ASSUME Enough PROVE Spec => []DotDot
  OBVIOUS
<1>1. ASSUME TInv PROVE DotDot
  <2> DEFINE t == TreeOf(fs)
  <2>1. TreeOK(t) /\ t.ents = fs.ents
    BY <1>1 DEF TInv, Good, TreeOf
  <2> HIDE DEF t
  <2>2. \A d : Live(d) = Used(t, d)
    BY <2>1 DEF Live, Used
  <2>3. \A d : Parents(d) = Up(t, d)
    BY <2>1, <2>2 DEF Parents, Up
  <2>4. SUFFICES ASSUME NEW d \in Inums, NEW i \in Live(d), fs.ents[d][i].type = "dir",
                        fs.ents[d][i].name \notin {".", ".."}
                 PROVE  Parents(fs.ents[d][i].inum) = {d}
    BY DEF DotDot
  <2>5. i \in Used(t, d) /\ Child(t.ents[d][i])
    BY <2>1, <2>2, <2>4 DEF Child, OwnNames
  <2>6. Up(t, t.ents[d][i].inum) = {d}
    BY <2>1, <2>5 DEF TreeOK, Back
  <2>7. QED
    BY <2>1, <2>3, <2>6
<1>2. QED
  BY <1>1, TreeInvariance, PTL

\* No step, of cmd_rmdir, user_delete or any other, empties the entry of a directory
\* that has other entries than "." and "..": dir_is_empty takes an entry of inode 0
\* for none, but only "." and ".." lead to the root directory.
THEOREM OnlyEmptyRemoved == Enough => (Spec => RemovesOnlyEmpty)
<1> SUFFICES ASSUME Enough PROVE Spec => RemovesOnlyEmpty
  OBVIOUS
<1> DEFINE A == \A d \in Inums : \A i \in Live(d) :
                  /\ i \in DOMAIN fs'.ents[d] /\ fs'.ents[d][i] = Removed
                  /\ fs.ents[d][i].type = "dir"
                  => \A j \in Live(fs.ents[d][i].inum) :
                        fs.ents[fs.ents[d][i].inum][j].name \in {".", ".."}
<1>1. (IInv /\ Kept /\ TInv) /\ [Next]_vars => [A]_(fs.ents)
  <2> SUFFICES ASSUME IInv, Kept, TInv, [Next]_vars PROVE A
    OBVIOUS
  <2> DEFINE t == TreeOf(fs)
             u == TreeOf(fs')
  <2>1. OnlyEmpty(t, u)
    BY StepTree DEF Stepped
  <2>2. t.ents = fs.ents /\ u.ents = fs'.ents
    BY DEF TreeOf
  <2> HIDE DEF t, u
  <2>3. \A d : Live(d) = Used(t, d)
    BY <2>2 DEF Live, Used
  <2>4. QED
    BY <2>1, <2>2, <2>3 DEF OnlyEmpty, Bare, OwnNames
<1>2. QED
  BY <1>1, TreeInvariance, PTL DEF Spec, RemovesOnlyEmpty

=============================================================================

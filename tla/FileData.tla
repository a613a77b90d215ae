------------------------------ MODULE FileData ------------------------------
(***************************************************************************)
(* File contents: the block map of an inode (bmap of fs/src/inode.c), the  *)
(* data block bitmap (allocate_block of fs/src/block.c), reading and       *)
(* writing through them (readi, writei) and the commands w, i, d and cat   *)
(* of fs/src/fs.c, on files that exist.  Blocks are those of BlockStore.   *)
(*                                                                         *)
(* A command runs as the code does: it reads what it has to keep, then     *)
(* performs one or two writei calls, one block per iteration, then settles *)
(* the size.  Each iteration is a step.  The in-memory inode and its copy  *)
(* in the inode table are one here, since iget gives every command the     *)
(* cached one; the copy is older only after a writei that has run out of   *)
(* blocks, while somebody else holds the inode.                            *)
(***************************************************************************)
EXTENDS Integers, Sequences, FiniteSetsExt

CONSTANTS
    Files,        \* inodes
    Byte,         \* byte values, kept apart from block numbers
    Old,          \* the byte unused blocks hold
    SbByte,       \* the byte standing for the superblock's contents
    BSIZE,        \* cells of a block: bytes of a data block, pointers of an index block
    NDIRECT,      \* direct block pointers
    Disks,        \* numbers of data blocks a disk may have
    WORD,         \* 2^32: one more than the largest uint
    Strings,      \* data of w and i commands
    Positions,    \* positions of i and d commands
    Lengths,      \* lengths of d commands
    MaxCommands   \* bound on the number of commands

ASSUME FileAssumption ==
    /\ BSIZE \in Nat \ {0} /\ NDIRECT \in Nat \ {0} /\ Disks \subseteq Nat
    /\ WORD \in Nat \ {0} /\ MaxCommands \in Nat
    /\ Old \in Byte /\ SbByte \in Byte /\ \A n \in Disks : Byte \cap (0..n) = {}
    /\ Strings \subseteq Seq(Byte)
    /\ Positions \subseteq 0 .. WORD - 1 /\ Lengths \subseteq 0 .. WORD - 1

VARIABLES
    ndataBlocks,\* of the superblock
    store,      \* the blocks: 0 is the superblock, behind it the data area
    bitmap,     \* the data blocks marked used
    ino,        \* the inodes
    job,        \* the command in progress
    content,    \* history: what each file should hold
    count       \* history: commands started

vars == <<ndataBlocks, store, bitmap, ino, job, content, count>>

IPTRS  == BSIZE                  \* pointers in an index block
DPTRS  == IPTRS * IPTRS
Cells  == 0 .. BSIZE - 1
Addrs  == 0 .. NDIRECT + 2
Area   == 1..ndataBlocks         \* blockStart is 1 here
MaxFileBlocks == NDIRECT + 2 * IPTRS + DPTRS

Zeros      == [i \in Cells |-> 0]
Superblock == [i \in Cells |-> SbByte]

EmptyInode == [size |-> 0, blocks |-> 0, addrs |-> [i \in Addrs |-> 0]]

-----------------------------------------------------------------------------
(* Block allocation and the block map.  An s record is what they change:   *)
(* the inode, the blocks and the bitmap.                                   *)

\* Mutant: a full bitmap yields the last block.
allocate_block_last(used) == IF Area \subseteq used THEN ndataBlocks ELSE Min(Area \ used)

\* allocate_block: the lowest block not marked used, 0 when there is none.
allocate_block(used) == IF Area \subseteq used THEN 0 ELSE Min(Area \ used)

\* The bitmap allocate_block leaves.
Marked(used) == used \cup ({allocate_block(used)} \ {0})

\* A missing pointer of the inode is allocated, and counted even on failure.
AllocAddr(s, n) ==
    [ip    |-> [size |-> s.ip.size, blocks |-> s.ip.blocks + 1,
                addrs |-> [s.ip.addrs EXCEPT ![n] = allocate_block(s.used)]],
     store |-> s.store,
     used  |-> Marked(s.used)]

\* A missing pointer i of the index block b is allocated likewise.
AllocPtr(s, b, i) ==
    [ip    |-> [s.ip EXCEPT !.blocks = s.ip.blocks + 1],
     store |-> [s.store EXCEPT ![b][i] = allocate_block(s.used)],
     used  |-> Marked(s.used)]

\* Mutant: the write of zeros is missing.
Cleared_not(s, b) == s

\* A new index block is cleared on disk: block 0 if the allocation failed.
Cleared(s, b) == [s EXCEPT !.store[b] = Zeros]

EnsureDirect(s, n) == IF s.ip.addrs[n] # 0 THEN s ELSE AllocAddr(s, n)

\* Mutant: the block is cleared before its address is set.
EnsureIndex_early(s, n) ==
    IF s.ip.addrs[n] # 0 THEN s ELSE AllocAddr(Cleared(s, s.ip.addrs[n]), n)

EnsureIndex(s, n) ==
    IF s.ip.addrs[n] # 0 THEN s
    ELSE LET t == AllocAddr(s, n) IN Cleared(t, t.ip.addrs[n])

EnsurePtr(s, b, i) == IF s.store[b][i] # 0 THEN s ELSE AllocPtr(s, b, i)

\* An index block below the double indirect block.
EnsureSubIndex(s, b, i) ==
    IF s.store[b][i] # 0 THEN s
    ELSE LET t == AllocPtr(s, b, i) IN Cleared(t, t.store[b][i])

\* The pointers bmap follows to logical block n: the address in the inode,
\* then the entries of the index blocks.
Path(n) ==
    LET n1 == n - NDIRECT
        n2 == n1 - IPTRS
        n3 == n2 - IPTRS
    IN  IF n < NDIRECT THEN <<n>>
        ELSE IF n1 < IPTRS THEN <<NDIRECT, n1>>
        ELSE IF n2 < IPTRS THEN <<NDIRECT + 1, n2>>
        ELSE <<NDIRECT + 2, n3 \div IPTRS, n3 % IPTRS>>

\* bmap with alloc = 0.
bmap(ip, st, n) ==
    LET p  == Path(n)
        b1 == ip.addrs[p[1]]
        b2 == IF b1 = 0 THEN 0 ELSE st[b1][p[2]]
    IN  IF n >= MaxFileBlocks THEN 0
        ELSE IF Len(p) = 1 THEN b1
        ELSE IF Len(p) = 2 THEN b2
        ELSE IF b2 = 0 THEN 0 ELSE st[b2][p[3]]

\* bmap with alloc = 1: the state it leaves; the block is bmap of that state.
bmap_alloc(s, n) ==
    LET p == Path(n)
    IN  IF n >= MaxFileBlocks THEN s
        ELSE IF Len(p) = 1 THEN EnsureDirect(s, p[1])
        ELSE LET s1 == EnsureIndex(s, p[1])
                 b1 == s1.ip.addrs[p[1]]
             IN  IF b1 = 0 THEN s1
                 ELSE IF Len(p) = 2 THEN EnsurePtr(s1, b1, p[2])
                 ELSE LET s2 == EnsureSubIndex(s1, b1, p[2])
                          b2 == s2.store[b1][p[2]]
                      IN  IF b2 = 0 THEN s2 ELSE EnsurePtr(s2, b2, p[3])

-----------------------------------------------------------------------------
(* Reading and writing *)

ByteAt(ip, st, i) == st[bmap(ip, st, i \div BSIZE)][i % BSIZE]

\* readi: n bytes from off, cut at the end of the file and at the first
\* unmapped block.  The access time is left out.
readi(ip, st, off, n) ==
    IF off > ip.size THEN <<>>
    ELSE LET m    == IF (off + n) % WORD > ip.size THEN ip.size - off ELSE n
             hole == {k \in 0 .. m - 1 : bmap(ip, st, (off + k) \div BSIZE) = 0}
             r    == IF hole = {} THEN m ELSE Min(hole)
         IN  [k \in 1..r |-> ByteAt(ip, st, off + k - 1)]

\* The whole file, as cat returns it.
cmd_cat(f) == readi(ino[f], store, 0, ino[f].size)

Idle == [op |-> "none", f |-> "none", todo |-> <<>>, tot |-> 0, trunc |-> -1,
         reply |-> "Yes", intent |-> <<>>]

\* One call of writei that is still to run.
Call(off, src) == [off |-> off, src |-> src]

\* The commands compute what they keep and queue their writei calls.  trunc is
\* the size cmd_d sets at its end, intent what the command is to achieve.
Start(op, f, inode, calls, trunc, intent) ==
    /\ job = Idle
    /\ count < MaxCommands
    /\ count' = count + 1
    /\ ino' = [ino EXCEPT ![f] = inode]
    /\ job' = [op |-> op, f |-> f, todo |-> calls, tot |-> 0, trunc |-> trunc,
               reply |-> "Yes", intent |-> intent]
    /\ UNCHANGED <<ndataBlocks, store, bitmap, content>>

\* Mutant: truncation forgets the addresses.
cmd_w_forgets(f, data) ==
    Start("w", f, EmptyInode, <<Call(0, data)>>, -1, data)

\* w: truncate, then write from the start.  The addresses are kept.
cmd_w(f, data) ==
    Start("w", f, [ino[f] EXCEPT !.size = 0, !.blocks = 0], <<Call(0, data)>>, -1, data)

\* i: the tail is read, the data written over it, the tail written behind.
cmd_i(f, pos0, data) ==
    LET size == ino[f].size
        pos  == IF pos0 > size THEN size ELSE pos0
        tail == readi(ino[f], store, pos, size - pos)
        old  == content[f]
    IN  Start("i", f, ino[f],
              <<Call(pos, data), Call((pos + Len(data)) % WORD, tail)>>, -1,
              SubSeq(old, 1, pos) \o data \o SubSeq(old, pos + 1, Len(old)))

\* Mutant: the size is left to writei, which never lowers it.
cmd_d_keeps_size(f, pos, len) ==
    LET size     == ino[f].size
        end      == (pos + len) % WORD
        tail_pos == IF end > size THEN size ELSE end
        tail     == readi(ino[f], store, tail_pos, size - tail_pos)
        old      == content[f]
    IN  /\ pos <= size
        /\ Start("d", f, ino[f], <<Call(pos, tail)>>, -1,
                 SubSeq(old, 1, pos) \o SubSeq(old, pos + len + 1, Len(old)))

\* d: the tail is written over what is deleted and the size set.
cmd_d(f, pos, len) ==
    LET size     == ino[f].size
        end      == (pos + len) % WORD
        tail_pos == IF end > size THEN size ELSE end
        tail     == readi(ino[f], store, tail_pos, size - tail_pos)
        old      == content[f]
    IN  /\ pos <= size
        /\ Start("d", f, ino[f], <<Call(pos, tail)>>, (pos + (size - tail_pos)) % WORD,
                 SubSeq(old, 1, pos) \o SubSeq(old, pos + len + 1, Len(old)))

-----------------------------------------------------------------------------
(* The steps of a command *)

Cur == Head(job.todo)

NextCall == [job EXCEPT !.todo = Tail(job.todo), !.tot = 0]

TooLarge(c) == (c.off + Len(c.src)) % WORD > BSIZE * MaxFileBlocks

\* writei does nothing for n = 0 and refuses a write beyond the largest file;
\* only cmd_w looks at what it returns.
writei_refused ==
    /\ job.todo # <<>>
    /\ job.tot = 0
    /\ Cur.src = <<>> \/ TooLarge(Cur)
    /\ job' = [NextCall EXCEPT !.reply =
                   IF job.op = "w" /\ Cur.src # <<>> THEN "No" ELSE job.reply]
    /\ UNCHANGED <<ndataBlocks, store, bitmap, ino, content, count>>

\* One iteration of writei's loop: map the block, read it, change it, write it;
\* unmapped is the job that is left if the block cannot be mapped.
Iteration(unmapped) ==
    LET f   == job.f
        c   == Cur
        n   == (c.off + job.tot) \div BSIZE
        s   == bmap_alloc([ip |-> ino[f], store |-> store, used |-> bitmap], n)
        b   == bmap(s.ip, s.store, n)
        o   == (c.off + job.tot) % BSIZE
        m   == Min({BSIZE - o, Len(c.src) - job.tot})
    IN  /\ job.todo # <<>>
        /\ job.tot < Len(c.src) /\ ~TooLarge(c)
        /\ bitmap' = s.used
        /\ ino' = [ino EXCEPT ![f] = s.ip]
        /\ IF b = 0
           THEN store' = s.store /\ job' = unmapped
           ELSE /\ store' = [s.store EXCEPT ![b] =
                     [i \in Cells |-> IF i \in o .. o + m - 1
                                      THEN c.src[job.tot + i - o + 1] ELSE s.store[b][i]]]
                /\ job' = [job EXCEPT !.tot = job.tot + m]
        /\ UNCHANGED <<ndataBlocks, content, count>>

\* Mutant: the loop is left with break, so that the size is still raised.
writei_block_break == Iteration([job EXCEPT !.tot = Len(Cur.src)])

\* If the block cannot be mapped writei returns, the size as it was.
writei_block == Iteration(NextCall)

\* After its last iteration writei raises the size.
writei_done ==
    /\ job.todo # <<>>
    /\ Cur.src # <<>> /\ job.tot = Len(Cur.src)
    /\ LET end == (Cur.off + Len(Cur.src)) % WORD
       IN  ino' = [ino EXCEPT ![job.f].size =
                      IF end > ino[job.f].size THEN end ELSE ino[job.f].size]
    /\ job' = NextCall
    /\ UNCHANGED <<ndataBlocks, store, bitmap, content, count>>

\* The command is over: d sets the size.  A command that reports success owes
\* its caller what it set out to do.
Finish ==
    /\ job # Idle
    /\ job.todo = <<>>
    /\ ino' = IF job.trunc = -1 THEN ino ELSE [ino EXCEPT ![job.f].size = job.trunc]
    /\ content' = [content EXCEPT ![job.f] =
                      IF job.reply = "Yes" THEN job.intent ELSE cmd_cat(job.f)]
    /\ job' = Idle
    /\ UNCHANGED <<ndataBlocks, store, bitmap, count>>

\* A freshly formatted disk with one empty inode per file; the blocks of the
\* data area are not cleared by a format.
Init ==
    /\ ndataBlocks \in Disks
    /\ store = [b \in 0..ndataBlocks |-> IF b = 0 THEN Superblock ELSE [i \in Cells |-> Old]]
    /\ bitmap = {}
    /\ ino = [f \in Files |-> EmptyInode]
    /\ job = Idle
    /\ content = [f \in Files |-> <<>>]
    /\ count = 0

Next ==
    \/ \E f \in Files, d \in Strings : cmd_w(f, d)
    \/ \E f \in Files, p \in Positions, d \in Strings : cmd_i(f, p, d)
    \/ \E f \in Files, p \in Positions, n \in Lengths : cmd_d(f, p, n)
    \/ writei_refused \/ writei_block \/ writei_done \/ Finish

Spec == Init /\ [][Next]_vars

-----------------------------------------------------------------------------
(* Properties *)

\* The blocks the inodes point to, directly or through their index blocks.
InodePtrs   == {ino[f].addrs[n] : f \in Files, n \in Addrs} \ {0}
TopIndex    == {ino[f].addrs[n] : f \in Files, n \in NDIRECT .. NDIRECT + 2} \ {0}
DoubleIndex == {ino[f].addrs[NDIRECT + 2] : f \in Files} \ {0}
SubIndex    == {store[b][i] : b \in DoubleIndex, i \in Cells} \ {0}
IndexBlocks == TopIndex \cup SubIndex
IndexPtrs   == {store[b][i] : b \in IndexBlocks, i \in Cells} \ {0}

\* Types: every pointer leads into the data area.
TypeOK ==
    /\ DOMAIN store = 0..ndataBlocks
    /\ bitmap \subseteq Area
    /\ \A f \in Files : /\ ino[f].size \in Nat /\ ino[f].blocks \in Nat
                         /\ \A n \in Addrs : ino[f].addrs[n] \in 0..ndataBlocks
    /\ SubIndex \subseteq Area /\ IndexPtrs \subseteq Area
    /\ job.f \in Files \cup {"none"}

\* No two pointers, of one inode or of two, lead to the same block, at any
\* level: a write to one file cannot reach another file or an index block.
BlocksExclusive ==
    /\ \A f, g \in Files : \A m, n \in Addrs :
          ino[f].addrs[m] = ino[g].addrs[n] /\ ino[f].addrs[m] # 0 => f = g /\ m = n
    /\ \A b, c \in IndexBlocks : \A i, j \in Cells :
          store[b][i] = store[c][j] /\ store[b][i] # 0 => b = c /\ i = j
    /\ InodePtrs \cap IndexPtrs = {}

\* The bitmap marks exactly the blocks some inode reaches: none is handed out
\* twice and none is lost, in the middle of a command and on a full disk too.
BitmapExact == bitmap = InodePtrs \cup IndexPtrs

\* No allocation has failed yet: blocks are never freed.
BlocksLast == Area \ bitmap # {}

\* While blocks last, a file no command is working on holds what the last
\* successful command on it asked for, whatever has been done to other files.
FileHoldsContent == BlocksLast => \A f \in Files : job.f # f => cmd_cat(f) = content[f]

\* A file has no holes: every block below its size is mapped, even after writes
\* that ran out of blocks half way.  The inserting and deleting commands rely on
\* it: they write back a buffer of which readi may have filled only a part.
NoHoles ==
    \A f \in Files : \A i \in 0 .. ino[f].size - 1 :
        bmap(ino[f], store, i \div BSIZE) # 0

\* Block 0 belongs to the superblock ("write the superblock to block 0",
\* cmd_f): no file operation writes to it.
SuperblockIntact == store[0] = Superblock

\* The same while blocks last: no address of 0 is taken for a block.
SuperblockKept == BlocksLast => SuperblockIntact

=============================================================================

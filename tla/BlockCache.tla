----------------------------- MODULE BlockCache -----------------------------
(***************************************************************************)
(* The block layer of the file server: read_block and write_block of       *)
(* fs/src/block.c, the write-back cache of fs/src/cache.c below them, and   *)
(* the connection over which the cache talks to the disk server.           *)
(*                                                                         *)
(* The server handles one command at a time and waits for every reply, so  *)
(* a call is one step.  The connection may break at any request inside it, *)
(* and the process may die between two calls.  The cache's doubly linked   *)
(* list is in LruList.                                                     *)
(***************************************************************************)
EXTENDS Disk, LruList, Sequences

CONSTANTS
    Data,             \* the contents the inode layer writes
    BlockNos,         \* the block numbers callers pass
    SbSizes,          \* the values sb.size takes: 0 before a mount, else from block 0
    MaxPending        \* bound on replies left unread on the connection

ASSUME CacheAssumption ==
    /\ CACHE_CAPACITY \in Nat \ {0}
    /\ Data \subseteq Block
    /\ BlockNos \subseteq Int
    /\ SbSizes \subseteq Nat
    /\ MaxPending \in Nat \ {0}

VARIABLES
    disk,         \* the disk image of the BDS process
    cache_arr,    \* the entries
    cache_size,   \* how many of them are in use
    lru,          \* list head, tail and the entries' prev and next pointers
    rbuf,         \* bds_rbuf: replies received and not consumed
    link,         \* the connection to the BDS
    sb_size,      \* sb.size, the superblock's block count
    out           \* the buffer handed back to the caller

vars == <<disk, cache_arr, cache_size, lru, rbuf, link, sb_size, out>>

Used == 1..cache_size

Entry  == [blockno : Nat, data : Block, dirty : BOOLEAN]
NoData == [blockno |-> -1, data |-> ZeroBlock]

\* Static storage: zeroed.
EmptyEntry == [blockno |-> 0, data |-> ZeroBlock, dirty |-> FALSE]

-----------------------------------------------------------------------------
(* Requests to the disk server.  An io record is the part of the state a    *)
(* request touches: the disk, the unread replies and the connection.        *)

Io(d, q, l) == [disk |-> d, rbuf |-> q, link |-> l]

LinkLost(io) == Io(io.disk, io.rbuf, "down")

\* fetch_block_from_server that forgets to consume the reply it copied.
fetch_keeps_reply(io, b, old) ==
    IF io.link = "down"
    THEN {[io |-> io, data |-> old]}
    ELSE LET q == Append(io.rbuf, handle_r(io.disk, b \div Nsec, b % Nsec))
         IN  {[io |-> LinkLost(io), data |-> old],
              [io |-> Io(io.disk, q, "up"),
               data |-> IF Head(q).kind = "data" THEN Head(q).data ELSE old]}

(***************************************************************************)
(* The outcomes of fetch_block_from_server into a buffer that holds old.   *)
(* A broken connection leaves the buffer as it is; so does a reply that is *)
(* not "Yes " with a whole block, and that reply is left in bds_rbuf, where *)
(* the next request finds it before its own.                               *)
(***************************************************************************)
fetch_block_from_server(io, b, old) ==
    IF io.link = "down"
    THEN {[io |-> io, data |-> old]}
    ELSE LET q == Append(io.rbuf, handle_r(io.disk, b \div Nsec, b % Nsec))
         IN  {[io |-> LinkLost(io), data |-> old],
              IF Head(q).kind = "data"
              THEN [io |-> Io(io.disk, Tail(q), "up"), data |-> Head(q).data]
              ELSE [io |-> Io(io.disk, q, "up"), data |-> old]}

\* push_block_to_server with cylinder and sector swapped.
push_swapped(io, b, data) ==
    IF io.link = "down"
    THEN {io}
    ELSE {LinkLost(io)} \cup
         UNION {{Io(w.disk, Tail(Append(io.rbuf, w.reply)), "up"),
                 Io(w.disk, io.rbuf, "down")} :
                w \in handle_w(io.disk, b % Nsec, b \div Nsec, BSIZE, data)}

\* The outcomes of push_block_to_server.  The first reply in bds_rbuf is
\* consumed as the acknowledgement, whatever it says; if the connection
\* breaks the disk may or may not have got the block.
push_block_to_server(io, b, data) ==
    IF io.link = "down"
    THEN {io}
    ELSE {LinkLost(io)} \cup
         UNION {{Io(w.disk, Tail(Append(io.rbuf, w.reply)), "up"),
                 Io(w.disk, io.rbuf, "down")} :
                w \in handle_w(io.disk, b \div Nsec, b % Nsec, BSIZE, data)}

-----------------------------------------------------------------------------
(* The cache *)

IO == Io(disk, rbuf, link)

\* alloc_entry that forgets to write a dirty victim back.
alloc_entry_no_push ==
    IF cache_size < CACHE_CAPACITY
    THEN LET e == cache_size + 1
         IN  {[e |-> e, size |-> e, io |-> IO,
               lru |-> [head |-> lru.head, tail |-> lru.tail,
                        prev |-> [lru.prev EXCEPT ![e] = NULL],
                        next |-> [lru.next EXCEPT ![e] = NULL]]]}
    ELSE {[e |-> lru.head, size |-> cache_size, lru |-> detach(lru, lru.head), io |-> IO]}

\* The outcomes of alloc_entry: the next unused entry, or the head of the list,
\* written back if it is dirty.  Either way the entry e is no longer dirty.
alloc_entry ==
    IF cache_size < CACHE_CAPACITY
    THEN LET e == cache_size + 1
         IN  {[e |-> e, size |-> e, io |-> IO,
               lru |-> [head |-> lru.head, tail |-> lru.tail,
                        prev |-> [lru.prev EXCEPT ![e] = NULL],
                        next |-> [lru.next EXCEPT ![e] = NULL]]]}
    ELSE LET victim == lru.head
             v      == cache_arr[victim]
         IN  {[e |-> victim, size |-> cache_size, lru |-> detach(lru, victim), io |-> io] :
              io \in IF v.dirty THEN push_block_to_server(IO, v.blockno, v.data) ELSE {IO}}

\* A missing block b gets an entry and is loaded into it: the miss path that
\* cache_read and cache_write share, the list and the entry still to be set.
Load(b) ==
    UNION {{[e |-> a.e, size |-> a.size, lru |-> a.lru, io |-> f.io, data |-> f.data] :
            f \in fetch_block_from_server(a.io, b, cache_arr[a.e].data)} :
           a \in alloc_entry}

\* The lookup loop that stops one entry short.
lookup_short(b) == {e \in 1 .. cache_size - 1 : cache_arr[e].blockno = b}

\* The entries the lookup loop of cache_read and cache_write can stop at.
lookup(b) == {e \in Used : cache_arr[e].blockno = b}

\* It stops at the first one.
Hit(b, e) ==
    /\ e \in lookup(b)
    /\ \A f \in lookup(b) : e <= f

SetIO(io) == disk' = io.disk /\ rbuf' = io.rbuf /\ link' = io.link

cache_read(b) ==
    \/ \E e \in Used :
          /\ Hit(b, e)
          /\ lru' = attach_tail(detach(lru, e), e)
          /\ out' = [blockno |-> b, data |-> cache_arr[e].data]
          /\ UNCHANGED <<disk, cache_arr, cache_size, rbuf, link>>
    \/ /\ lookup(b) = {}
       /\ \E a \in Load(b) :
             /\ cache_arr' = [cache_arr EXCEPT
                    ![a.e] = [blockno |-> b, data |-> a.data, dirty |-> FALSE]]
             /\ cache_size' = a.size
             /\ lru' = attach_tail(a.lru, a.e)
             /\ out' = [blockno |-> b, data |-> a.data]
             /\ SetIO(a.io)

\* cache_write that forgets to mark the entry of a hit dirty.
cache_write_clean(b, d) ==
    \/ \E e \in Used :
          /\ Hit(b, e)
          /\ lru' = attach_tail(detach(lru, e), e)
          /\ cache_arr' = [cache_arr EXCEPT ![e].data = d]
          /\ UNCHANGED <<disk, cache_size, rbuf, link>>
    \/ /\ lookup(b) = {}
       /\ \E a \in Load(b) :
             /\ cache_arr' = [cache_arr EXCEPT
                    ![a.e] = [blockno |-> b, data |-> d, dirty |-> TRUE]]
             /\ cache_size' = a.size
             /\ lru' = attach_tail(detach(a.lru, a.e), a.e)
             /\ SetIO(a.io)

\* cache_write loads a missing block before overwriting all of it, and
\* detaches the new entry although it is on no list.
cache_write(b, d) ==
    \/ \E e \in Used :
          /\ Hit(b, e)
          /\ lru' = attach_tail(detach(lru, e), e)
          /\ cache_arr' = [cache_arr EXCEPT
                 ![e] = [blockno |-> b, data |-> d, dirty |-> TRUE]]
          /\ UNCHANGED <<disk, cache_size, rbuf, link>>
    \/ /\ lookup(b) = {}
       /\ \E a \in Load(b) :
             /\ cache_arr' = [cache_arr EXCEPT
                    ![a.e] = [blockno |-> b, data |-> d, dirty |-> TRUE]]
             /\ cache_size' = a.size
             /\ lru' = attach_tail(detach(a.lru, a.e), a.e)
             /\ SetIO(a.io)

-----------------------------------------------------------------------------
(* The block interface *)

\* read_block's test for a block number that cannot be negative.
ReadRejected_unsigned(b) == b # 0 /\ b >= sb_size

ReadRejected(b)  == b < 0 \/ (b # 0 /\ b >= sb_size)
WriteRejected(b) == b < 0 \/ b >= sb_size

\* A rejected read leaves the caller's buffer as it was.
read_block(b) ==
    /\ Len(rbuf) < MaxPending
    /\ UNCHANGED sb_size
    /\ \/ /\ ReadRejected(b)
          /\ out' = NoData
          /\ UNCHANGED <<disk, cache_arr, cache_size, lru, rbuf, link>>
       \/ /\ ~ReadRejected(b)
          /\ cache_read(b)

write_block(b, d) ==
    /\ Len(rbuf) < MaxPending
    /\ out' = NoData
    /\ UNCHANGED sb_size
    /\ \/ /\ WriteRejected(b)
          /\ UNCHANGED <<disk, cache_arr, cache_size, lru, rbuf, link>>
       \/ /\ ~WriteRejected(b)
          /\ cache_write(b, d)

\* sbinit, during a format, and fs_mount, from block 0, assign the superblock.
set_superblock(n) ==
    /\ sb_size' = n
    /\ out' = NoData
    /\ UNCHANGED <<disk, cache_arr, cache_size, lru, rbuf, link>>

\* The process has just started: cache_init ran on zeroed storage, over a
\* fresh connection, and nothing is mounted yet.
Init ==
    /\ disk \in [Sectors -> Data]
    /\ cache_arr = [s \in Slots |-> EmptyEntry]
    /\ cache_size = 0
    /\ lru = EmptyList
    /\ rbuf = <<>>
    /\ link = "up"
    /\ sb_size = 0
    /\ out = NoData

\* The server dies, on a signal or on a send to a closed connection, and is
\* started again: no dirty block is written back on the way.
Restart ==
    /\ cache_arr' = [s \in Slots |-> EmptyEntry]
    /\ cache_size' = 0
    /\ lru' = EmptyList
    /\ rbuf' = <<>>
    /\ link' = "up"
    /\ sb_size' = 0
    /\ out' = NoData
    /\ UNCHANGED disk

Next ==
    \/ \E b \in BlockNos : read_block(b)
    \/ \E b \in BlockNos, d \in Data : write_block(b, d)
    \/ \E n \in SbSizes : set_superblock(n)
    \/ Restart

Spec == Init /\ [][Next]_vars

-----------------------------------------------------------------------------
(* Properties *)

\* What the inode layer may write without the disk server misreading it:
\* blocks whose first byte is not white space.
NoLeadingSpace == \A d \in Data : d[1] \notin Space

\* The superblock never claims more blocks than the disk has.
FitsDisk == \A n \in SbSizes : n <= NBlocks

\* Every variable has its type: pointers are NULL or entries of cache_arr,
\* the cache never outgrows CACHE_CAPACITY.
TypeOK ==
    /\ disk \in [Sectors -> Block]
    /\ cache_arr \in [Slots -> Entry]
    /\ cache_size \in 0..CACHE_CAPACITY
    /\ lru \in List
    /\ rbuf \in Seq(Reply)
    /\ link \in {"up", "down"}
    /\ sb_size \in SbSizes \cup {0}
    /\ out \in [blockno : Int, data : Block]

\* No block has two entries, so a hit in cache_read and a hit in cache_write
\* always meet the same copy of it (the lookup loops stop at the first match).
NoDuplicateEntries ==
    \A e, f \in Used : cache_arr[e].blockno = cache_arr[f].blockno => e = f

\* As soon as the cache holds something, lru_head points to an entry in use:
\* alloc_entry, which dereferences it without a test, always has a victim,
\* whatever cache_write's extra detach does to the list.
VictimExists == cache_size > 0 => lru.head \in Used

\* Every reply has been consumed when a call returns, so the next request is
\* answered by its own reply (fetch_block_from_server skips recycle_read on a
\* reply it does not like).
RepliesInSync == link = "up" => rbuf = <<>>

\* An entry that is not dirty can be dropped: the disk holds the same data for
\* its block.  In particular a miss loads the block it was asked for, not what
\* the entry held before and not the answer to an older request.
CleanMatchesDisk ==
    link = "up" =>
        \A e \in Used : LET c == cache_arr[e]
                        IN  ~c.dirty /\ c.blockno \in Sectors => c.data = disk[c.blockno]

\* What a caller of read_block must see in block b.
Current(b) ==
    IF lookup(b) # {} THEN cache_arr[CHOOSE e \in lookup(b) : TRUE].data ELSE disk[b]

\* A sector only ever changes to the data a dirty entry holds for it: the
\* write-back of a victim reaches the victim's sector, whole and unshifted.
WriteBackExact ==
    [][\A s \in Sectors : disk'[s] # disk[s] =>
          \E e \in Used : /\ cache_arr[e].blockno = s
                          /\ cache_arr[e].dirty
                          /\ disk'[s] = cache_arr[e].data]_vars

\* The block layer implements the abstract store: whatever is cached, dirty or
\* evicted, a read returns the last write until the server restarts or the
\* connection breaks, and the disk always holds some earlier contents.
Abstract == INSTANCE BlockStore
    WITH Blocks <- Sectors, Contents <- Block, Written <- Data, NoData <- NoData,
         store <- [b \in Sectors |-> Current(b)], durable <- disk, out <- out,
         ok <- (link = "up")

ImplementsBlockStore == Abstract!Spec

=============================================================================

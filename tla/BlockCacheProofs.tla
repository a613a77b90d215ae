-------------------------- MODULE BlockCacheProofs --------------------------
(***************************************************************************)
(* Proofs about BlockCache, for every geometry, cache capacity and set of  *)
(* block contents.                                                         *)
(***************************************************************************)
EXTENDS BlockCache, TLAPS

-----------------------------------------------------------------------------
(* The disk *)

\* Every cylinder/sector pair the cache computes for a block number the disk
\* has is in range, and addresses the sector of that number.
LEMMA Geometry ==
    ASSUME NEW b \in Sectors
    PROVE  /\ InRange(b \div Nsec, b % Nsec)
           /\ Offset(b \div Nsec, b % Nsec) = b
<1> DEFINE c == b \div Nsec
           s == b % Nsec
<1>1. Ncyl \in Nat \ {0} /\ Nsec \in Nat \ {0} /\ b \in Nat /\ b < Ncyl * Nsec
  BY DiskAssumption DEF Sectors, NBlocks
<1>2. c \in Int /\ s \in 0 .. Nsec - 1 /\ b = Nsec * c + s
  BY <1>1
<1> HIDE DEF c, s
<1>3. c >= 0
  BY <1>1, <1>2
<1>4. c < Ncyl
  BY <1>1, <1>2
<1>5. QED
  BY <1>1, <1>2, <1>3, <1>4 DEF InRange, Offset, c, s

\* A block that does not start with white space reaches the disk as it was
\* sent; any other block is still a block.
LEMMA ParseWrite ==
    ASSUME NEW data \in Block
    PROVE  /\ parse_args_w(data) \subseteq Block
           /\ data[1] \notin Space => parse_args_w(data) = {data}
<1>1. parse_args_w(data) \subseteq Block
  BY DEF parse_args_w
<1>2. ASSUME data[1] \notin Space PROVE Leading(data) = 0
  <2>1. BSIZE \in Nat \ {0}
    BY DiskAssumption
  <2> DEFINE P(k) == /\ \A i \in 1..k : data[i] \in Space
                     /\ k < BSIZE => data[k + 1] \notin Space
  <2>2. 0 \in 0..BSIZE /\ P(0)
    BY <2>1, <1>2
  <2>3. ASSUME NEW k \in 0..BSIZE, P(k) PROVE k = 0
    BY <2>1, <2>3, <1>2
  <2> HIDE DEF P
  <2>4. (CHOOSE k \in 0..BSIZE : P(k)) = 0
    BY <2>2, <2>3
  <2>5. QED
    BY <2>4 DEF Leading, P
<1>3. QED
  BY <1>1, <1>2 DEF parse_args_w

\* A whole block is stored without padding.
LEMMA PaddedWhole ==
    ASSUME NEW data \in Block
    PROVE  Padded(BSIZE, data) = data
  BY DiskAssumption DEF Block, Padded

\* A block of zeros is a block.
LEMMA ZeroBlockType == ZeroBlock \in Block
  BY DiskAssumption DEF ZeroBlock, Block

\* The three replies of the disk server are replies.
LEMMA ReplyTypes ==
    /\ Ack \in Reply /\ No \in Reply
    /\ \A d \in Block : Yes(d) \in Reply /\ Yes(d).kind = "data" /\ Yes(d).data = d
  BY ZeroBlockType DEF Ack, No, Yes, Reply

\* The reply to a read of an existing sector carries its contents.
LEMMA HandleRead ==
    ASSUME NEW d \in [Sectors -> Block], NEW b \in Sectors
    PROVE  handle_r(d, b \div Nsec, b % Nsec) = Yes(d[b])
  BY Geometry DEF handle_r, cmd_r

\* A write to an existing sector is acknowledged and changes that sector only.
LEMMA HandleWrite ==
    ASSUME NEW d \in [Sectors -> Block], NEW b \in Sectors, NEW data \in Block,
           NEW w \in handle_w(d, b \div Nsec, b % Nsec, BSIZE, data)
    PROVE  /\ w.reply = Ack
           /\ \E x \in parse_args_w(data) : w.disk = [d EXCEPT ![b] = x]
           /\ w.disk \in [Sectors -> Block]
<1>1. InRange(b \div Nsec, b % Nsec) /\ BSIZE <= BSIZE
  BY Geometry, DiskAssumption
<1>2. PICK x \in parse_args_w(data) :
        w = [disk |-> cmd_w(d, b \div Nsec, b % Nsec, BSIZE, x), reply |-> Ack]
  BY <1>1 DEF handle_w
<1>3. x \in Block
  BY ParseWrite
<1>4. cmd_w(d, b \div Nsec, b % Nsec, BSIZE, x) = [d EXCEPT ![b] = x]
  BY <1>3, Geometry, PaddedWhole DEF cmd_w
<1>5. w.reply = Ack /\ w.disk = [d EXCEPT ![b] = x]
  BY <1>2, <1>4
<1>6. QED
  BY <1>3, <1>5

-----------------------------------------------------------------------------
(* Requests *)

IOType == [disk : [Sectors -> Block], rbuf : Seq(Reply), link : {"up", "down"}]

InSync(io) == io.link = "up" => io.rbuf = <<>>

\* With no reply left over, a request finds its own at the front.
LEMMA OneReply ==
    ASSUME NEW r \in Reply
    PROVE  /\ Append(<<>>, r) \in Seq(Reply)
           /\ Head(Append(<<>>, r)) = r
           /\ Tail(Append(<<>>, r)) = <<>>
  OBVIOUS

\* A fetch leaves the disk alone; as long as the connection holds it returns
\* the sector asked for and leaves no reply behind.
LEMMA Fetch ==
    ASSUME NEW io \in IOType, InSync(io), NEW b \in Sectors, NEW old \in Block,
           NEW f \in fetch_block_from_server(io, b, old)
    PROVE  /\ f.io \in IOType /\ InSync(f.io)
           /\ f.io.disk = io.disk
           /\ f.io.link = "up" => io.link = "up" /\ f.data = io.disk[b]
           /\ f.data \in Block
<1>1. LinkLost(io) \in IOType /\ LinkLost(io).disk = io.disk /\ LinkLost(io).link = "down"
  BY DEF IOType, LinkLost, Io
<1>2. CASE io.link = "down"
  BY <1>2 DEF fetch_block_from_server, IOType, InSync
<1>3. CASE io.link = "up"
  <2> DEFINE r == Yes(io.disk[b])
             done == [io |-> Io(io.disk, Tail(Append(io.rbuf, r)), "up"), data |-> r.data]
  <2>1. io.rbuf = <<>> /\ io.disk \in [Sectors -> Block] /\ io.disk[b] \in Block
    BY <1>3 DEF InSync, IOType
  <2>2. r \in Reply /\ r.kind = "data" /\ r.data = io.disk[b]
    BY <2>1, ReplyTypes
  <2>3. handle_r(io.disk, b \div Nsec, b % Nsec) = r
    BY <2>1, HandleRead
  <2> HIDE DEF r
  <2>4. Head(Append(io.rbuf, r)) = r /\ Tail(Append(io.rbuf, r)) = <<>>
    BY <2>1, <2>2, OneReply
  <2>5. f = [io |-> LinkLost(io), data |-> old] \/ f = done
    BY <1>3, <2>2, <2>3, <2>4 DEF fetch_block_from_server
  <2>6. CASE f = [io |-> LinkLost(io), data |-> old]
    BY <2>6, <1>1 DEF InSync
  <2>7. CASE f = done
    <3>1. f.io = Io(io.disk, <<>>, "up") /\ f.data = io.disk[b]
      BY <2>7, <2>2, <2>4
    <3>2. QED
      BY <3>1, <2>1, <1>3 DEF Io, IOType, InSync
  <2>8. QED
    BY <2>5, <2>6, <2>7
<1>4. QED
  BY <1>2, <1>3 DEF IOType

\* A push changes at most the sector of its block, to what the disk server
\* makes of the data, and certainly does so when the connection holds.
LEMMA Push ==
    ASSUME NEW io \in IOType, InSync(io), NEW b \in Sectors, NEW data \in Block,
           NEW r \in push_block_to_server(io, b, data)
    PROVE  /\ r \in IOType /\ InSync(r)
           /\ r.link = "up" => io.link = "up"
           /\ \/ r.link = "down" /\ r.disk = io.disk
              \/ \E x \in parse_args_w(data) : r.disk = [io.disk EXCEPT ![b] = x]
           /\ io.link = "down" => r = io
<1>1. LinkLost(io) \in IOType /\ LinkLost(io).disk = io.disk /\ LinkLost(io).link = "down"
  BY DEF IOType, LinkLost, Io
<1>2. CASE io.link = "down"
  BY <1>2 DEF push_block_to_server, IOType, InSync
<1>3. CASE io.link = "up"
  <2>1. io.rbuf = <<>> /\ io.disk \in [Sectors -> Block]
    BY <1>3 DEF InSync, IOType
  <2>2. CASE r = LinkLost(io)
    BY <2>2, <1>1, <1>3 DEF InSync
  <2>3. CASE r # LinkLost(io)
    <3>1. PICK w \in handle_w(io.disk, b \div Nsec, b % Nsec, BSIZE, data) :
            \/ r = Io(w.disk, Tail(Append(io.rbuf, w.reply)), "up")
            \/ r = Io(w.disk, io.rbuf, "down")
      BY <1>3, <2>3 DEF push_block_to_server
    <3>2. /\ w.reply = Ack
          /\ \E x \in parse_args_w(data) : w.disk = [io.disk EXCEPT ![b] = x]
          /\ w.disk \in [Sectors -> Block]
      BY <2>1, HandleWrite
    <3>3. Tail(Append(io.rbuf, w.reply)) = <<>>
      BY <2>1, <3>2, OneReply, ReplyTypes
    <3>4. CASE r = Io(w.disk, Tail(Append(io.rbuf, w.reply)), "up")
      <4>1. r = Io(w.disk, <<>>, "up")
        BY <3>3, <3>4
      <4>2. r \in IOType /\ r.disk = w.disk /\ r.rbuf = <<>> /\ r.link = "up"
        BY <4>1, <3>2 DEF Io, IOType
      <4>3. QED
        BY <4>2, <3>2, <1>3 DEF InSync
    <3>5. CASE r = Io(w.disk, io.rbuf, "down")
      <4>1. r \in IOType /\ r.disk = w.disk /\ r.link = "down"
        BY <3>5, <3>2, <2>1 DEF Io, IOType
      <4>2. QED
        BY <4>1, <3>2, <1>3 DEF InSync
    <3>6. QED
      BY <3>1, <3>4, <3>5
  <2>4. QED
    BY <2>2, <2>3
<1>4. QED
  BY <1>2, <1>3 DEF IOType

-----------------------------------------------------------------------------
(* The list *)

\* Lists whose pointers all lead to the first n entries.
ListIn(n) == [head : 0..n, tail : 0..n, prev : [Slots -> 0..n], next : [Slots -> 0..n]]

\* A list with pointers of the right type is a list.
LEMMA ListInType ==
    ASSUME NEW n \in 0..CACHE_CAPACITY, NEW l \in ListIn(n)
    PROVE  l \in List
<1>1. 0..n \subseteq Ptr
  BY CacheAssumption DEF Ptr, Slots, NULL
<1>2. QED
  BY <1>1 DEF ListIn, List

\* Detaching an entry, on the list or not, leaves a list.
LEMMA DetachType ==
    ASSUME NEW n \in 0..CACHE_CAPACITY, NEW l \in ListIn(n), NEW e \in 1..n
    PROVE  detach(l, e) \in ListIn(n)
  BY CacheAssumption DEF ListIn, detach, Slots, NULL

\* Attaching an entry leaves the list with a head.
LEMMA AttachType ==
    ASSUME NEW n \in 0..CACHE_CAPACITY, NEW l \in ListIn(n), NEW e \in 1..n
    PROVE  attach_tail(l, e) \in ListIn(n) /\ attach_tail(l, e).head \in 1..n
  BY CacheAssumption DEF ListIn, attach_tail, Slots, NULL

-----------------------------------------------------------------------------
(* The inductive invariant *)

\* The list only links entries in use.
ListInUse == lru \in ListIn(cache_size)

\* Only blocks the disk has are cached.
CachedInRange == \A e \in Used : cache_arr[e].blockno \in Sectors

\* What waits to be written back was written by the inode layer.
DirtyFromData == \A e \in Used : cache_arr[e].dirty => cache_arr[e].data \in Data

IInv ==
    /\ TypeOK
    /\ NoDuplicateEntries
    /\ VictimExists
    /\ RepliesInSync
    /\ CleanMatchesDisk
    /\ ListInUse
    /\ CachedInRange
    /\ DirtyFromData

\* alloc_entry yields an entry that was not in use, or one that was; in the
\* second case its block is on the disk if it was dirty and the connection holds.
LEMMA Alloc ==
    ASSUME IInv, NEW a \in alloc_entry
    PROVE  /\ a.size \in 0..CACHE_CAPACITY /\ a.e \in 1..a.size
           /\ a.lru \in ListIn(a.size)
           /\ a.io \in IOType /\ InSync(a.io)
           /\ a.io.link = "up" => link = "up"
           /\ link = "down" => a.io.disk = disk
           /\ \/ a.e = cache_size + 1 /\ a.size = cache_size + 1 /\ a.io.disk = disk
              \/ /\ a.e \in Used /\ a.size = cache_size
                 /\ \/ a.io.disk = disk /\ (a.io.link = "up" => ~cache_arr[a.e].dirty)
                    \/ /\ cache_arr[a.e].dirty
                       /\ \E x \in parse_args_w(cache_arr[a.e].data) :
                             a.io.disk = [disk EXCEPT ![cache_arr[a.e].blockno] = x]
<1>1. /\ CACHE_CAPACITY \in Nat \ {0} /\ cache_size \in 0..CACHE_CAPACITY
      /\ lru \in ListIn(cache_size)
      /\ cache_arr \in [Slots -> Entry]
  BY CacheAssumption DEF IInv, TypeOK, ListInUse
<1>2. /\ IO \in IOType /\ InSync(IO)
      /\ IO.disk = disk /\ IO.link = link
  BY DEF IInv, TypeOK, RepliesInSync, IO, Io, IOType, InSync
<1>3. CASE cache_size < CACHE_CAPACITY
  <2> DEFINE e == cache_size + 1
             l == [head |-> lru.head, tail |-> lru.tail,
                   prev |-> [lru.prev EXCEPT ![e] = NULL],
                   next |-> [lru.next EXCEPT ![e] = NULL]]
  <2>1. a = [e |-> e, size |-> e, io |-> IO, lru |-> l]
    BY <1>3 DEF alloc_entry
  <2>2. l \in ListIn(e)
    BY <1>1, <1>3 DEF ListIn, NULL, Slots
  <2>3. a.e = e /\ a.size = e /\ a.io = IO /\ a.lru = l
    BY <2>1
  <2>4. e \in 0..CACHE_CAPACITY /\ e \in 1..e
    BY <1>1, <1>3
  <2> HIDE DEF l
  <2>5. QED
    BY <2>2, <2>3, <2>4, <1>2
<1>4. CASE ~(cache_size < CACHE_CAPACITY)
  <2> DEFINE victim == lru.head
             v == cache_arr[victim]
  <2>1. victim \in Used /\ victim \in 1..cache_size /\ victim \in Slots
    BY <1>1, <1>4 DEF IInv, VictimExists, Used, Slots
  <2>2. v \in Entry /\ v.blockno \in Sectors /\ v.data \in Block /\ v.dirty \in BOOLEAN
    BY <1>1, <2>1 DEF IInv, CachedInRange, Entry
  <2>3. PICK io \in IF v.dirty THEN push_block_to_server(IO, v.blockno, v.data) ELSE {IO} :
          a = [e |-> victim, size |-> cache_size, lru |-> detach(lru, victim), io |-> io]
    BY <1>4 DEF alloc_entry
  <2>4. /\ a.e = victim /\ a.size = cache_size /\ a.lru = detach(lru, victim) /\ a.io = io
    BY <2>3
  <2>5. detach(lru, victim) \in ListIn(cache_size)
    BY <1>1, <2>1, DetachType
  <2> HIDE DEF v, victim
  <2>6. CASE ~v.dirty
    <3>1. io = IO
      BY <2>3, <2>6
    <3>2. QED
      BY <3>1, <2>1, <2>4, <2>5, <2>6, <1>1, <1>2 DEF v
  <2>7. CASE v.dirty
    <3>1. io \in push_block_to_server(IO, v.blockno, v.data)
      BY <2>3, <2>7
    <3>2. /\ io \in IOType /\ InSync(io)
          /\ io.link = "up" => IO.link = "up"
          /\ \/ io.link = "down" /\ io.disk = IO.disk
             \/ \E x \in parse_args_w(v.data) : io.disk = [IO.disk EXCEPT ![v.blockno] = x]
          /\ IO.link = "down" => io = IO
      BY <3>1, <2>2, <1>2, Push
    <3>3. QED
      BY <3>2, <2>1, <2>4, <2>5, <2>7, <1>1, <1>2 DEF v
  <2>8. QED
    BY <2>2, <2>6, <2>7
<1>5. QED
  BY <1>3, <1>4

\* The miss path: as Alloc, and the data loaded are those of the sector.
LEMMA LoadBlock ==
    ASSUME IInv, NEW b \in Sectors, NEW a \in Load(b)
    PROVE  /\ a.size \in 0..CACHE_CAPACITY /\ a.e \in 1..a.size
           /\ a.lru \in ListIn(a.size)
           /\ a.io \in IOType /\ InSync(a.io)
           /\ a.io.link = "up" => link = "up" /\ a.data = a.io.disk[b]
           /\ link = "down" => a.io.disk = disk
           /\ a.data \in Block
           /\ \/ a.e = cache_size + 1 /\ a.size = cache_size + 1 /\ a.io.disk = disk
              \/ /\ a.e \in Used /\ a.size = cache_size
                 /\ \/ a.io.disk = disk /\ (a.io.link = "up" => ~cache_arr[a.e].dirty)
                    \/ /\ cache_arr[a.e].dirty
                       /\ \E x \in parse_args_w(cache_arr[a.e].data) :
                             a.io.disk = [disk EXCEPT ![cache_arr[a.e].blockno] = x]
<1>1. PICK q \in alloc_entry :
        \E f \in fetch_block_from_server(q.io, b, cache_arr[q.e].data) :
           a = [e |-> q.e, size |-> q.size, lru |-> q.lru, io |-> f.io, data |-> f.data]
  BY DEF Load
<1>2. PICK f \in fetch_block_from_server(q.io, b, cache_arr[q.e].data) :
        a = [e |-> q.e, size |-> q.size, lru |-> q.lru, io |-> f.io, data |-> f.data]
  BY <1>1
<1>3. /\ a.e = q.e /\ a.size = q.size /\ a.lru = q.lru /\ a.io = f.io /\ a.data = f.data
  BY <1>2
<1>4. /\ q.size \in 0..CACHE_CAPACITY /\ q.e \in 1..q.size
      /\ q.lru \in ListIn(q.size)
      /\ q.io \in IOType /\ InSync(q.io)
      /\ q.io.link = "up" => link = "up"
      /\ link = "down" => q.io.disk = disk
      /\ \/ q.e = cache_size + 1 /\ q.size = cache_size + 1 /\ q.io.disk = disk
         \/ /\ q.e \in Used /\ q.size = cache_size
            /\ \/ q.io.disk = disk /\ (q.io.link = "up" => ~cache_arr[q.e].dirty)
               \/ /\ cache_arr[q.e].dirty
                  /\ \E x \in parse_args_w(cache_arr[q.e].data) :
                        q.io.disk = [disk EXCEPT ![cache_arr[q.e].blockno] = x]
  BY Alloc
<1>5. cache_arr[q.e].data \in Block
  BY <1>4, CacheAssumption DEF IInv, TypeOK, Entry, Slots
<1>6. /\ f.io \in IOType /\ InSync(f.io)
      /\ f.io.disk = q.io.disk
      /\ f.io.link = "up" => q.io.link = "up" /\ f.data = q.io.disk[b]
      /\ f.data \in Block
  BY <1>4, <1>5, Fetch
<1>7. QED
  BY <1>3, <1>4, <1>6

-----------------------------------------------------------------------------
(* The steps *)

\* A block number that passes the range tests is one the disk has.
LEMMA AcceptedInRange ==
    ASSUME FitsDisk, TypeOK, NEW b \in BlockNos
    PROVE  /\ ~ReadRejected(b) => b \in Sectors
           /\ ~WriteRejected(b) => b \in Sectors
<1>1. /\ Ncyl \in Nat \ {0} /\ Nsec \in Nat \ {0} /\ b \in Int
      /\ sb_size \in Nat
  BY DiskAssumption, CacheAssumption DEF TypeOK
<1>2. NBlocks \in Nat /\ NBlocks > 0
  BY <1>1 DEF NBlocks
<1>3. sb_size <= NBlocks
  BY <1>1, <1>2, CacheAssumption DEF FitsDisk, TypeOK
<1>4. QED
  BY <1>1, <1>2, <1>3 DEF ReadRejected, WriteRejected, Sectors

\* The miss path of cache_read and of cache_write: an entry is taken, loaded
\* and given the block's data.
LEMMA MissStep ==
    ASSUME IInv, NEW b \in Sectors, lookup(b) = {}, NEW a \in Load(b),
           NEW d \in Block, NEW dty \in BOOLEAN,
           dty => d \in Data,
           ~dty => d = a.data,
           NEW l \in ListIn(a.size),
           cache_arr' = [cache_arr EXCEPT ![a.e] = [blockno |-> b, data |-> d, dirty |-> dty]],
           cache_size' = a.size,
           lru' = attach_tail(l, a.e),
           SetIO(a.io),
           sb_size' = sb_size,
           out' \in [blockno : Int, data : Block]
    PROVE  IInv'
<1> DEFINE new == [blockno |-> b, data |-> d, dirty |-> dty]
<1>1. /\ a.size \in 0..CACHE_CAPACITY /\ a.e \in 1..a.size
      /\ a.io \in IOType /\ InSync(a.io)
      /\ a.io.link = "up" => link = "up" /\ a.data = a.io.disk[b]
      /\ \/ a.e = cache_size + 1 /\ a.size = cache_size + 1 /\ a.io.disk = disk
         \/ /\ a.e \in Used /\ a.size = cache_size
            /\ \/ a.io.disk = disk
               \/ \E x \in Block : a.io.disk = [disk EXCEPT ![cache_arr[a.e].blockno] = x]
  <2>1. a.e \in Used => cache_arr[a.e].data \in Block
    BY CacheAssumption DEF IInv, TypeOK, Entry, Used, Slots
  <2>2. a.e \in Used => parse_args_w(cache_arr[a.e].data) \subseteq Block
    BY <2>1, ParseWrite
  <2>3. QED
    BY <2>2, LoadBlock
<1>2. /\ cache_size \in 0..CACHE_CAPACITY /\ CACHE_CAPACITY \in Nat \ {0}
      /\ cache_arr \in [Slots -> Entry] /\ disk \in [Sectors -> Block]
  BY CacheAssumption DEF IInv, TypeOK
<1>3. a.e \in Slots /\ Used' = 1..a.size
  BY <1>1, <1>2 DEF Slots, Used
<1>4. new \in Entry /\ Sectors \subseteq Nat
  BY DEF Entry, Sectors
<1>5. /\ cache_arr' \in [Slots -> Entry]
      /\ cache_arr'[a.e] = new
      /\ \A e \in Slots : e # a.e => cache_arr'[e] = cache_arr[e]
  BY <1>2, <1>3, <1>4
<1>6. \A e \in Used' : e # a.e => e \in Used /\ e \in Slots
  BY <1>1, <1>2, <1>3 DEF Used, Slots
<1>7. \A e \in Used : cache_arr[e].blockno # b
  BY DEF lookup
<1>8. disk' \in [Sectors -> Block] /\ rbuf' \in Seq(Reply) /\ link' \in {"up", "down"}
  BY <1>1 DEF SetIO, IOType
<1>9. attach_tail(l, a.e) \in ListIn(a.size) /\ attach_tail(l, a.e).head \in 1..a.size
  BY <1>1, AttachType
<1>10. ListInUse' /\ lru' \in List
  BY <1>1, <1>9, ListInType DEF ListInUse
<1>11. TypeOK'
  BY <1>1, <1>5, <1>8, <1>10 DEF IInv, TypeOK
<1>12. NoDuplicateEntries'
  BY <1>3, <1>5, <1>6, <1>7 DEF IInv, NoDuplicateEntries
<1>13. VictimExists'
  BY <1>3, <1>9 DEF VictimExists
<1>14. RepliesInSync'
  BY <1>1 DEF RepliesInSync, SetIO, InSync
<1>15. CleanMatchesDisk'
  <2> SUFFICES ASSUME link' = "up", NEW e \in Used',
                      ~cache_arr'[e].dirty, cache_arr'[e].blockno \in Sectors
               PROVE  cache_arr'[e].data = disk'[cache_arr'[e].blockno]
    BY DEF CleanMatchesDisk
  <2>1. link = "up" /\ a.data = disk'[b] /\ disk' = a.io.disk
    BY <1>1 DEF SetIO
  <2>2. CASE e = a.e
    BY <2>1, <2>2, <1>5
  <2>3. CASE e # a.e
    <3>1. e \in Used /\ cache_arr'[e] = cache_arr[e]
      BY <2>3, <1>5, <1>6
    <3>2. cache_arr[e].data = disk[cache_arr[e].blockno]
      BY <2>1, <3>1 DEF IInv, CleanMatchesDisk
    <3>3. disk'[cache_arr[e].blockno] = disk[cache_arr[e].blockno]
      <4>1. a.e \in Used => cache_arr[e].blockno # cache_arr[a.e].blockno
        BY <2>3, <3>1 DEF IInv, NoDuplicateEntries
      <4>2. QED
        BY <4>1, <3>1, <2>1, <1>1, <1>2
    <3>4. QED
      BY <3>1, <3>2, <3>3
  <2>4. QED
    BY <2>2, <2>3
<1>16. CachedInRange'
  BY <1>3, <1>5, <1>6 DEF IInv, CachedInRange
<1>17. DirtyFromData'
  BY <1>3, <1>5, <1>6 DEF IInv, DirtyFromData
<1>18. QED
  BY <1>10, <1>11, <1>12, <1>13, <1>14, <1>15, <1>16, <1>17 DEF IInv

\* A hit only moves the entry to the tail; a write also gives it new data.
LEMMA HitStep ==
    ASSUME IInv, NEW e \in Used, NEW b \in Sectors, e \in lookup(b),
           \/ cache_arr' = cache_arr
           \/ \E d \in Data : cache_arr' = [cache_arr EXCEPT
                                 ![e] = [blockno |-> b, data |-> d, dirty |-> TRUE]],
           lru' = attach_tail(detach(lru, e), e),
           UNCHANGED <<disk, cache_size, rbuf, link, sb_size>>,
           out' \in [blockno : Int, data : Block]
    PROVE  IInv'
<1>1. /\ cache_size \in 0..CACHE_CAPACITY /\ CACHE_CAPACITY \in Nat \ {0}
      /\ cache_arr \in [Slots -> Entry] /\ lru \in ListIn(cache_size)
      /\ e \in 1..cache_size /\ Used = 1..cache_size /\ e \in Slots
      /\ Used' = Used /\ Used \subseteq Slots
  BY CacheAssumption DEF IInv, TypeOK, ListInUse, Used, Slots
<1>2. cache_arr[e].blockno = b
  BY DEF lookup
<1>3. /\ cache_arr' \in [Slots -> Entry]
      /\ cache_arr'[e].blockno = b
      /\ \/ cache_arr'[e] = cache_arr[e]
         \/ cache_arr'[e].dirty /\ cache_arr'[e].data \in Data
      /\ \A f \in Slots : f # e => cache_arr'[f] = cache_arr[f]
  <2>1. Data \subseteq Block /\ Sectors \subseteq Nat
    BY CacheAssumption DEF Sectors
  <2>2. CASE cache_arr' = cache_arr
    BY <2>2, <1>1, <1>2
  <2>3. ASSUME NEW d \in Data,
               cache_arr' = [cache_arr EXCEPT ![e] = [blockno |-> b, data |-> d, dirty |-> TRUE]]
        PROVE  <1>3!:
    <3>1. [blockno |-> b, data |-> d, dirty |-> TRUE] \in Entry
      BY <2>1 DEF Entry
    <3>2. QED
      BY <2>3, <3>1, <1>1
  <2>4. QED
    BY <2>2, <2>3
<1>4. \A f \in Used : cache_arr'[f].blockno = cache_arr[f].blockno
  BY <1>1, <1>2, <1>3
<1>5. lru' \in ListIn(cache_size) /\ lru'.head \in 1..cache_size
  BY <1>1, DetachType, AttachType
<1>6. lru' \in List
  BY <1>1, <1>5, ListInType
<1>7. TypeOK'
  BY <1>3, <1>6 DEF IInv, TypeOK
<1>8. NoDuplicateEntries' /\ VictimExists' /\ RepliesInSync' /\ ListInUse' /\ CachedInRange'
  BY <1>1, <1>4, <1>5
  DEF IInv, NoDuplicateEntries, VictimExists, RepliesInSync, ListInUse, CachedInRange
<1>9. CleanMatchesDisk' /\ DirtyFromData'
  BY <1>1, <1>3 DEF IInv, CleanMatchesDisk, DirtyFromData
<1>10. QED
  BY <1>7, <1>8, <1>9 DEF IInv

\* The initial states satisfy the invariant.
LEMMA InitIInv == Init => IInv
<1> SUFFICES ASSUME Init PROVE IInv
  OBVIOUS
<1>1. EmptyEntry \in Entry
  BY ZeroBlockType DEF EmptyEntry, Entry
<1>2. EmptyList \in ListIn(0)
  BY DEF EmptyList, ListIn, NULL
<1>3. CACHE_CAPACITY \in Nat \ {0} /\ cache_size = 0 /\ Used = {}
  BY CacheAssumption DEF Init, Used
<1>4. lru \in List
  BY <1>2, <1>3, ListInType DEF Init
<1>5. TypeOK
  BY <1>1, <1>3, <1>4, ZeroBlockType, CacheAssumption DEF Init, TypeOK, NoData
<1>6. QED
  BY <1>2, <1>3, <1>5
  DEF Init, IInv, NoDuplicateEntries, VictimExists, RepliesInSync, CleanMatchesDisk,
      ListInUse, CachedInRange, DirtyFromData

\* Every step preserves it, provided the superblock fits the disk.
LEMMA NextIInv ==
    ASSUME FitsDisk, IInv, [Next]_vars
    PROVE  IInv'
<1>1. ASSUME NEW b \in BlockNos, read_block(b) PROVE IInv'
  <2>1. CASE ReadRejected(b)
    <3>1. /\ out' = NoData
          /\ UNCHANGED <<disk, cache_arr, cache_size, lru, rbuf, link, sb_size>>
      BY <1>1, <2>1 DEF read_block
    <3>2. out' \in [blockno : Int, data : Block]
      BY <3>1, ZeroBlockType DEF NoData
    <3>3. QED
      BY <3>1, <3>2
      DEF IInv, TypeOK, NoDuplicateEntries, VictimExists, RepliesInSync, CleanMatchesDisk,
          ListInUse, CachedInRange, DirtyFromData, Used
  <2>2. CASE ~ReadRejected(b)
    <3>1. b \in Sectors /\ b \in Int
      BY <2>2, AcceptedInRange, CacheAssumption DEF IInv
    <3>2. cache_read(b) /\ UNCHANGED sb_size
      BY <1>1, <2>2 DEF read_block
    <3>3. ASSUME NEW e \in Used, Hit(b, e),
                 lru' = attach_tail(detach(lru, e), e),
                 out' = [blockno |-> b, data |-> cache_arr[e].data],
                 UNCHANGED <<disk, cache_arr, cache_size, rbuf, link>>
          PROVE  IInv'
      <4>1. out' \in [blockno : Int, data : Block]
        BY <3>1, <3>3, CacheAssumption DEF IInv, TypeOK, Entry, Used, Slots
      <4>2. QED
        BY <3>1, <3>2, <3>3, <4>1, HitStep DEF Hit
    <3>4. ASSUME lookup(b) = {}, NEW a \in Load(b),
                 cache_arr' = [cache_arr EXCEPT
                    ![a.e] = [blockno |-> b, data |-> a.data, dirty |-> FALSE]],
                 cache_size' = a.size,
                 lru' = attach_tail(a.lru, a.e),
                 out' = [blockno |-> b, data |-> a.data],
                 SetIO(a.io)
          PROVE  IInv'
      <4>1. a.data \in Block /\ a.lru \in ListIn(a.size)
        BY <3>1, LoadBlock
      <4>2. out' \in [blockno : Int, data : Block]
        BY <3>1, <3>4, <4>1
      <4>3. QED
        BY <3>1, <3>2, <3>4, <4>1, <4>2, MissStep
    <3>5. QED
      BY <3>2, <3>3, <3>4 DEF cache_read
  <2>3. QED
    BY <2>1, <2>2
<1>2. ASSUME NEW b \in BlockNos, NEW d \in Data, write_block(b, d) PROVE IInv'
  <2>1. out' \in [blockno : Int, data : Block] /\ UNCHANGED sb_size
    BY <1>2, ZeroBlockType DEF write_block, NoData
  <2>2. CASE WriteRejected(b)
    <3>1. UNCHANGED <<disk, cache_arr, cache_size, lru, rbuf, link, sb_size>>
      BY <1>2, <2>2 DEF write_block
    <3>2. QED
      BY <3>1, <2>1
      DEF IInv, TypeOK, NoDuplicateEntries, VictimExists, RepliesInSync, CleanMatchesDisk,
          ListInUse, CachedInRange, DirtyFromData, Used
  <2>3. CASE ~WriteRejected(b)
    <3>1. b \in Sectors /\ d \in Block
      BY <2>3, AcceptedInRange, CacheAssumption DEF IInv
    <3>2. cache_write(b, d)
      BY <1>2, <2>3 DEF write_block
    <3>3. ASSUME NEW e \in Used, Hit(b, e),
                 lru' = attach_tail(detach(lru, e), e),
                 cache_arr' = [cache_arr EXCEPT
                    ![e] = [blockno |-> b, data |-> d, dirty |-> TRUE]],
                 UNCHANGED <<disk, cache_size, rbuf, link>>
          PROVE  IInv'
      BY <3>1, <3>3, <2>1, HitStep DEF Hit
    <3>4. ASSUME lookup(b) = {}, NEW a \in Load(b),
                 cache_arr' = [cache_arr EXCEPT
                    ![a.e] = [blockno |-> b, data |-> d, dirty |-> TRUE]],
                 cache_size' = a.size,
                 lru' = attach_tail(detach(a.lru, a.e), a.e),
                 SetIO(a.io)
          PROVE  IInv'
      <4>1. detach(a.lru, a.e) \in ListIn(a.size)
        BY <3>1, LoadBlock, DetachType
      <4>2. QED
        BY <3>1, <3>4, <4>1, <2>1, MissStep
    <3>5. QED
      BY <3>2, <3>3, <3>4 DEF cache_write
  <2>4. QED
    BY <2>2, <2>3
<1>3. ASSUME NEW n \in SbSizes, set_superblock(n) PROVE IInv'
  BY <1>3, ZeroBlockType
  DEF set_superblock, NoData, IInv, TypeOK, NoDuplicateEntries, VictimExists,
      RepliesInSync, CleanMatchesDisk, ListInUse, CachedInRange, DirtyFromData, Used
<1>4. ASSUME Restart PROVE IInv'
  <2>1. EmptyEntry \in Entry
    BY ZeroBlockType DEF EmptyEntry, Entry
  <2>2. EmptyList \in ListIn(0)
    BY DEF EmptyList, ListIn, NULL
  <2>3. CACHE_CAPACITY \in Nat \ {0} /\ cache_size' = 0 /\ Used' = {}
    BY <1>4, CacheAssumption DEF Restart, Used
  <2>4. lru' \in List
    BY <1>4, <2>2, <2>3, ListInType DEF Restart
  <2>5. TypeOK'
    BY <1>4, <2>1, <2>3, <2>4, ZeroBlockType DEF Restart, IInv, TypeOK, NoData
  <2>6. QED
    BY <1>4, <2>2, <2>3, <2>5
    DEF Restart, IInv, NoDuplicateEntries, VictimExists, RepliesInSync, CleanMatchesDisk,
        ListInUse, CachedInRange, DirtyFromData
<1>5. CASE UNCHANGED vars
  BY <1>5
  DEF vars, IInv, TypeOK, NoDuplicateEntries, VictimExists, RepliesInSync,
      CleanMatchesDisk, ListInUse, CachedInRange, DirtyFromData, Used
<1>6. QED
  BY <1>1, <1>2, <1>3, <1>4, <1>5 DEF Next

-----------------------------------------------------------------------------
(* The theorems *)

\* The inductive invariant holds throughout, for every capacity and geometry,
\* when the superblock fits the disk.
THEOREM Invariance == FitsDisk => (Spec => []IInv)
<1> SUFFICES ASSUME FitsDisk PROVE Spec => []IInv
  OBVIOUS
<1>1. IInv /\ [Next]_vars => IInv'
  BY NextIInv
<1>2. QED
  BY <1>1, InitIInv, PTL DEF Spec

\* Type correctness of the block layer: in particular every list pointer the
\* code follows is NULL or an entry of cache_arr.
THEOREM TypeCorrect == FitsDisk => (Spec => []TypeOK)
  BY Invariance, PTL DEF IInv

\* No block is ever cached twice, whatever is evicted, lost or written.
THEOREM SingleCopy == FitsDisk => (Spec => []NoDuplicateEntries)
  BY Invariance, PTL DEF IInv

\* alloc_entry always finds a victim, although cache_write breaks the list.
THEOREM VictimAlways == FitsDisk => (Spec => []VictimExists)
  BY Invariance, PTL DEF IInv

\* No reply is left over while the connection holds.
THEOREM RepliesConsumed == FitsDisk => (Spec => []RepliesInSync)
  BY Invariance, PTL DEF IInv

\* Clean entries agree with the disk while the connection holds.
THEOREM CleanEntries == FitsDisk => (Spec => []CleanMatchesDisk)
  BY Invariance, PTL DEF IInv

-----------------------------------------------------------------------------
(* What a step does to the disk *)

\* What a dirty entry holds is stored as it is.
LEMMA DirtyStored ==
    ASSUME NoLeadingSpace, IInv, NEW e \in Used, cache_arr[e].dirty
    PROVE  parse_args_w(cache_arr[e].data) = {cache_arr[e].data}
<1>1. cache_arr[e].data \in Data /\ Data \subseteq Block
  BY CacheAssumption DEF IInv, DirtyFromData
<1>2. QED
  BY <1>1, ParseWrite DEF NoLeadingSpace

\* One sector changes at most, to what a dirty entry holds for it; none does
\* when the connection is down.
SyncsOne(d) ==
    \/ d = disk
    \/ /\ link = "up"
       /\ \E e \in Used : cache_arr[e].dirty
                          /\ d = [disk EXCEPT ![cache_arr[e].blockno] = cache_arr[e].data]

\* A miss writes at most its victim back; while the connection holds, it
\* certainly does so.
LEMMA LoadSyncs ==
    ASSUME NoLeadingSpace, IInv, NEW b \in Sectors, NEW a \in Load(b)
    PROVE  /\ SyncsOne(a.io.disk)
           /\ a.io.link = "up" /\ a.e \in Used =>
                a.io.disk = IF cache_arr[a.e].dirty
                            THEN [disk EXCEPT ![cache_arr[a.e].blockno] = cache_arr[a.e].data]
                            ELSE disk
           /\ a.e \notin Used => a.io.disk = disk
<1>0. link \in {"up", "down"} /\ cache_size \in Nat
  BY CacheAssumption DEF IInv, TypeOK
<1>1. /\ a.io.link = "up" => link = "up"
      /\ link = "down" => a.io.disk = disk
      /\ \/ a.e = cache_size + 1 /\ a.size = cache_size + 1 /\ a.io.disk = disk
         \/ /\ a.e \in Used /\ a.size = cache_size
            /\ \/ a.io.disk = disk /\ (a.io.link = "up" => ~cache_arr[a.e].dirty)
               \/ /\ cache_arr[a.e].dirty
                  /\ \E x \in parse_args_w(cache_arr[a.e].data) :
                        a.io.disk = [disk EXCEPT ![cache_arr[a.e].blockno] = x]
  BY LoadBlock
<1>2. CASE a.e = cache_size + 1 /\ a.io.disk = disk
  BY <1>0, <1>2 DEF SyncsOne, Used
<1>3. CASE a.e \in Used /\ a.io.disk = disk /\ (a.io.link = "up" => ~cache_arr[a.e].dirty)
  BY <1>3 DEF SyncsOne
<1>4. CASE /\ a.e \in Used /\ cache_arr[a.e].dirty
           /\ \E x \in parse_args_w(cache_arr[a.e].data) :
                 a.io.disk = [disk EXCEPT ![cache_arr[a.e].blockno] = x]
  <2>1. PICK x \in parse_args_w(cache_arr[a.e].data) :
          a.io.disk = [disk EXCEPT ![cache_arr[a.e].blockno] = x]
    BY <1>4
  <2>2. x = cache_arr[a.e].data
    BY <1>4, DirtyStored
  <2>3. QED
    BY <1>0, <1>1, <1>4, <2>1, <2>2 DEF SyncsOne
<1>5. QED
  BY <1>1, <1>2, <1>3, <1>4

\* Every step of the block layer.
LEMMA StepSyncs ==
    ASSUME NoLeadingSpace, FitsDisk, IInv, Next
    PROVE  SyncsOne(disk')
<1>1. ASSUME NEW b \in BlockNos, read_block(b) PROVE SyncsOne(disk')
  <2>1. CASE ReadRejected(b)
    BY <1>1, <2>1 DEF read_block, SyncsOne
  <2>2. CASE ~ReadRejected(b)
    <3>1. b \in Sectors /\ cache_read(b)
      BY <1>1, <2>2, AcceptedInRange DEF IInv, read_block
    <3>2. disk' = disk \/ \E a \in Load(b) : disk' = a.io.disk
      BY <3>1 DEF cache_read, SetIO
    <3>3. ASSUME NEW a \in Load(b), disk' = a.io.disk PROVE SyncsOne(disk')
      <4>1. SyncsOne(a.io.disk)
        BY <3>1, LoadSyncs
      <4>2. QED
        BY <3>3, <4>1
    <3>4. SyncsOne(disk)
      BY DEF SyncsOne
    <3>5. QED
      BY <3>2, <3>3, <3>4
  <2>3. QED
    BY <2>1, <2>2
<1>2. ASSUME NEW b \in BlockNos, NEW d \in Data, write_block(b, d) PROVE SyncsOne(disk')
  <2>1. CASE WriteRejected(b)
    BY <1>2, <2>1 DEF write_block, SyncsOne
  <2>2. CASE ~WriteRejected(b)
    <3>1. b \in Sectors /\ cache_write(b, d)
      BY <1>2, <2>2, AcceptedInRange DEF IInv, write_block
    <3>2. disk' = disk \/ \E a \in Load(b) : disk' = a.io.disk
      BY <3>1 DEF cache_write, SetIO
    <3>3. ASSUME NEW a \in Load(b), disk' = a.io.disk PROVE SyncsOne(disk')
      <4>1. SyncsOne(a.io.disk)
        BY <3>1, LoadSyncs
      <4>2. QED
        BY <3>3, <4>1
    <3>4. SyncsOne(disk)
      BY DEF SyncsOne
    <3>5. QED
      BY <3>2, <3>3, <3>4
  <2>3. QED
    BY <2>1, <2>2
<1>3. ASSUME NEW n \in SbSizes, set_superblock(n) PROVE SyncsOne(disk')
  BY <1>3 DEF set_superblock, SyncsOne
<1>4. ASSUME Restart PROVE SyncsOne(disk')
  BY <1>4 DEF Restart, SyncsOne
<1>5. QED
  BY <1>1, <1>2, <1>3, <1>4 DEF Next

\* Write-back is exact: a sector only changes to what a dirty entry holds for it.
THEOREM ExactWriteBack == NoLeadingSpace /\ FitsDisk => (Spec => WriteBackExact)
<1> SUFFICES ASSUME NoLeadingSpace, FitsDisk PROVE Spec => WriteBackExact
  OBVIOUS
<1> DEFINE Exact == \A s \in Sectors : disk'[s] # disk[s] =>
                       \E e \in Used : /\ cache_arr[e].blockno = s
                                       /\ cache_arr[e].dirty
                                       /\ disk'[s] = cache_arr[e].data
<1>1. IInv /\ [Next]_vars => [Exact]_vars
  <2> SUFFICES ASSUME IInv, Next PROVE Exact
    OBVIOUS
  <2> SUFFICES ASSUME NEW s \in Sectors, disk'[s] # disk[s]
               PROVE  \E e \in Used : /\ cache_arr[e].blockno = s
                                      /\ cache_arr[e].dirty
                                      /\ disk'[s] = cache_arr[e].data
    OBVIOUS
  <2>1. disk \in [Sectors -> Block]
    BY DEF IInv, TypeOK
  <2>2. PICK e \in Used : cache_arr[e].dirty
                          /\ disk' = [disk EXCEPT ![cache_arr[e].blockno] = cache_arr[e].data]
    BY StepSyncs DEF SyncsOne
  <2>3. QED
    BY <2>1, <2>2
<1>2. QED
  BY <1>1, Invariance, PTL DEF Spec, WriteBackExact

-----------------------------------------------------------------------------
(* Refinement *)

View == [b \in Sectors |-> Current(b)]

\* What a caller sees: the entry's data if the block has one, else the sector.
LEMMA CurrentValue ==
    ASSUME IInv, NEW b \in Sectors
    PROVE  /\ \A e \in Used : cache_arr[e].blockno = b => Current(b) = cache_arr[e].data
           /\ (\A e \in Used : cache_arr[e].blockno # b) => Current(b) = disk[b]
           /\ Current(b) \in Block
<1>1. cache_arr \in [Slots -> Entry] /\ Used \subseteq Slots /\ disk \in [Sectors -> Block]
  BY CacheAssumption DEF IInv, TypeOK, Used, Slots
<1>2. ASSUME NEW e \in Used, cache_arr[e].blockno = b
      PROVE  Current(b) = cache_arr[e].data
  <2>1. lookup(b) = {e}
    BY <1>2 DEF lookup, IInv, NoDuplicateEntries
  <2>2. QED
    BY <2>1 DEF Current
<1>3. ASSUME \A e \in Used : cache_arr[e].blockno # b
      PROVE  Current(b) = disk[b]
  BY <1>3 DEF Current, lookup
<1>4. Current(b) \in Block
  <2>1. CASE \E e \in Used : cache_arr[e].blockno = b
    BY <2>1, <1>1, <1>2 DEF Entry
  <2>2. CASE \A e \in Used : cache_arr[e].blockno # b
    BY <2>2, <1>1, <1>3
  <2>3. QED
    BY <2>1, <2>2
<1>5. QED
  BY <1>2, <1>3, <1>4

ViewIsCurrent ==
    \A b \in Sectors :
        /\ \A e \in Used : cache_arr[e].blockno = b => Current(b) = cache_arr[e].data
        /\ (\A e \in Used : cache_arr[e].blockno # b) => Current(b) = disk[b]
        /\ Current(b) \in Block

\* The same, before and after a step.
LEMMA CurrentValues == (IInv => ViewIsCurrent) /\ (IInv' => ViewIsCurrent')
<1>1. IInv => ViewIsCurrent
  BY CurrentValue DEF ViewIsCurrent
<1>2. QED
  BY <1>1, PTL

\* What callers see of every block is a block.
LEMMA ViewType ==
    ASSUME IInv
    PROVE  View \in [Sectors -> Block]
  BY CurrentValue DEF View

\* A miss that keeps the connection changes what callers see in block b only,
\* even as it evicts another block; before it, they saw what it loads.
LEMMA MissView ==
    ASSUME NoLeadingSpace, IInv, IInv', NEW b \in Sectors, lookup(b) = {},
           NEW a \in Load(b), NEW d \in Block, NEW dty \in BOOLEAN,
           cache_arr' = [cache_arr EXCEPT ![a.e] = [blockno |-> b, data |-> d, dirty |-> dty]],
           cache_size' = a.size,
           SetIO(a.io),
           link' = "up"
    PROVE  /\ View' = [View EXCEPT ![b] = d]
           /\ View[b] = a.data
<1>1. /\ a.size \in 0..CACHE_CAPACITY /\ a.e \in 1..a.size
      /\ a.io.link = "up" => link = "up" /\ a.data = a.io.disk[b]
      /\ \/ a.e = cache_size + 1 /\ a.size = cache_size + 1
         \/ a.e \in Used /\ a.size = cache_size
  BY LoadBlock
<1>2. link = "up" /\ a.io.link = "up" /\ disk' = a.io.disk
  BY <1>1 DEF SetIO
<1>3. /\ cache_size \in 0..CACHE_CAPACITY /\ CACHE_CAPACITY \in Nat \ {0}
      /\ cache_arr \in [Slots -> Entry] /\ disk \in [Sectors -> Block]
  BY CacheAssumption DEF IInv, TypeOK
<1>4. /\ a.e \in Slots /\ a.e \in Used'
      /\ Used' = Used \cup {a.e}
  BY <1>1, <1>3 DEF Slots, Used
<1>5. /\ cache_arr'[a.e] = [blockno |-> b, data |-> d, dirty |-> dty]
      /\ \A e \in Used : e # a.e => cache_arr'[e] = cache_arr[e]
  BY <1>3, <1>4 DEF Used, Slots
<1>6. \A e \in Used : cache_arr[e].blockno # b
  BY DEF lookup
<1>7. /\ a.e \in Used => disk' = IF cache_arr[a.e].dirty
                                 THEN [disk EXCEPT ![cache_arr[a.e].blockno] = cache_arr[a.e].data]
                                 ELSE disk
      /\ a.e \notin Used => disk' = disk
  BY <1>2, LoadSyncs
<1>8. disk'[b] = disk[b]
  BY <1>3, <1>6, <1>7
<1>9. Current(b) = disk[b]
  BY <1>6, CurrentValue
<1>10. Current(b)' = d
  <2>1. cache_arr'[a.e].blockno = b /\ cache_arr'[a.e].data = d
    BY <1>5
  <2>2. (\A e \in Used : cache_arr[e].blockno = b => Current(b) = cache_arr[e].data)'
    BY CurrentValues DEF ViewIsCurrent
  <2>3. QED
    BY <2>1, <2>2, <1>4
<1>11. ASSUME NEW s \in Sectors, s # b PROVE Current(s)' = Current(s)
  <2>0. /\ (\A e \in Used : cache_arr[e].blockno = s => Current(s) = cache_arr[e].data)'
        /\ ((\A e \in Used : cache_arr[e].blockno # s) => Current(s) = disk[s])'
    BY CurrentValues DEF ViewIsCurrent
  <2>1. CASE \E e \in Used : e # a.e /\ cache_arr[e].blockno = s
    <3>1. PICK e \in Used : e # a.e /\ cache_arr[e].blockno = s
      BY <2>1
    <3>2. Current(s) = cache_arr[e].data
      BY <3>1, CurrentValue
    <3>3. cache_arr'[e] = cache_arr[e] /\ e \in Used'
      BY <3>1, <1>4, <1>5
    <3>4. QED
      BY <3>1, <3>2, <3>3, <2>0
  <2>2. CASE \A e \in Used : e # a.e => cache_arr[e].blockno # s
    <3>1. \A e \in Used' : cache_arr'[e].blockno # s
      BY <2>2, <1>4, <1>5, <1>11
    <3>2. Current(s)' = disk'[s]
      BY <3>1, <2>0
    <3>3. CASE a.e \in Used /\ cache_arr[a.e].blockno = s
      <4>1. Current(s) = cache_arr[a.e].data
        BY <3>3, CurrentValue
      <4>2. disk'[s] = cache_arr[a.e].data
        <5>1. CASE cache_arr[a.e].dirty
          BY <5>1, <3>3, <1>7, <1>3
        <5>2. CASE ~cache_arr[a.e].dirty
          BY <5>2, <3>3, <1>7, <1>2 DEF IInv, CleanMatchesDisk
        <5>3. QED
          BY <5>1, <5>2
      <4>3. QED
        BY <4>1, <4>2, <3>2
    <3>4. CASE ~(a.e \in Used /\ cache_arr[a.e].blockno = s)
      <4>1. Current(s) = disk[s]
        BY <3>4, <2>2, CurrentValue
      <4>2. disk'[s] = disk[s]
        BY <3>4, <1>3, <1>7
      <4>3. QED
        BY <4>1, <4>2, <3>2
    <3>5. QED
      BY <3>3, <3>4
  <2>3. QED
    BY <2>1, <2>2
<1>12. View' = [s \in Sectors |-> Current(s)']
  BY DEF View
<1>13. View' = [View EXCEPT ![b] = d]
  BY <1>10, <1>11, <1>12 DEF View
<1>14. View[b] = a.data
  BY <1>1, <1>2, <1>8, <1>9 DEF View
<1>15. QED
  BY <1>13, <1>14

\* At most one block becomes durable, as its callers see it.
LEMMA AbstractSync ==
    ASSUME IInv, SyncsOne(disk')
    PROVE  Abstract!SyncOne
<1>1. CASE disk' = disk
  BY <1>1 DEF Abstract!SyncOne
<1>2. CASE disk' # disk
  <2>1. PICK e \in Used : disk' = [disk EXCEPT ![cache_arr[e].blockno] = cache_arr[e].data]
    BY <1>2 DEF SyncsOne
  <2>2. cache_arr[e].blockno \in Sectors
    BY DEF IInv, CachedInRange
  <2>3. Current(cache_arr[e].blockno) = cache_arr[e].data
    BY <2>2, CurrentValue
  <2>4. QED
    BY <2>1, <2>2, <2>3 DEF Abstract!SyncOne
<1>3. QED
  BY <1>1, <1>2

\* Once the connection is down nothing is promised but types and the disk.
LEMMA DownStep ==
    ASSUME IInv, IInv', SyncsOne(disk'), link' = "down",
           out' = NoData \/ out'.blockno \in Sectors
    PROVE  Abstract!Next
<1>1. View' \in [Sectors -> Block]
  <2>1. View' = [b \in Sectors |-> Current(b)']
    BY DEF View
  <2>2. \A b \in Sectors : Current(b)' \in Block
    BY CurrentValues DEF ViewIsCurrent
  <2>3. QED
    BY <2>1, <2>2
<1>2. out' \in Abstract!Outcomes
  BY DEF Abstract!Outcomes, IInv, TypeOK
<1>3. CASE link = "down"
  <2>1. disk' = disk
    BY <1>3 DEF SyncsOne
  <2>2. Abstract!Degraded
    BY <1>1, <1>2, <1>3, <2>1 DEF Abstract!Degraded, View
  <2>3. QED
    BY <2>2 DEF Abstract!Next
<1>4. CASE link = "up"
  <2>1. Abstract!SyncOne
    BY AbstractSync
  <2>2. Abstract!LoseLink
    BY <1>1, <1>2, <1>4, <2>1 DEF Abstract!LoseLink, View
  <2>3. QED
    BY <2>2 DEF Abstract!Next
<1>5. QED
  BY <1>3, <1>4 DEF IInv, TypeOK

\* A call that is turned away.
LEMMA RejectedStep ==
    ASSUME out' = NoData, UNCHANGED <<disk, cache_arr, cache_size, rbuf, link>>
    PROVE  Abstract!Next
<1>1. \A b \in Sectors : Current(b)' = Current(b)
  BY DEF Current, lookup, Used
<1>2. Abstract!Reject
  BY <1>1 DEF Abstract!Reject
<1>3. QED
  BY <1>2 DEF Abstract!Next

\* read_block with the connection up is a read of the abstract store.
LEMMA ReadRefines ==
    ASSUME NoLeadingSpace, FitsDisk, IInv, IInv', SyncsOne(disk'),
           NEW b \in BlockNos, read_block(b)
    PROVE  Abstract!Next
<1>1. CASE ReadRejected(b)
  BY <1>1, RejectedStep DEF read_block
<1>2. CASE ~ReadRejected(b)
  <2>1. b \in Sectors /\ cache_read(b)
    BY <1>2, AcceptedInRange DEF read_block, IInv
  <2>2. out'.blockno = b
    <3>1. \/ \E e \in Used : out' = [blockno |-> b, data |-> cache_arr[e].data]
          \/ \E a \in Load(b) : out' = [blockno |-> b, data |-> a.data]
      BY <2>1, Zenon DEF cache_read
    <3>2. QED
      BY <3>1
  <2>3. CASE link' = "down"
    BY <2>1, <2>2, <2>3, DownStep
  <2>4. CASE link' = "up"
    <3>1. link = "up" /\ View' = View /\ out' = [blockno |-> b, data |-> View[b]]
      <4>1. ASSUME NEW e \in Used, Hit(b, e),
                   out' = [blockno |-> b, data |-> cache_arr[e].data],
                   UNCHANGED <<disk, cache_arr, cache_size, rbuf, link>>
            PROVE  <3>1!:
        <5>1. cache_arr[e].blockno = b
          BY <4>1 DEF Hit, lookup
        <5>2. Current(b) = cache_arr[e].data
          BY <2>1, <5>1, CurrentValue
        <5>3. View' = View
          BY <4>1 DEF View, Current, lookup, Used
        <5>4. QED
          BY <2>1, <2>4, <4>1, <5>2, <5>3 DEF View
      <4>2. ASSUME lookup(b) = {}, NEW a \in Load(b),
                   cache_arr' = [cache_arr EXCEPT
                      ![a.e] = [blockno |-> b, data |-> a.data, dirty |-> FALSE]],
                   cache_size' = a.size,
                   out' = [blockno |-> b, data |-> a.data],
                   SetIO(a.io)
            PROVE  <3>1!:
        <5>1. a.data \in Block /\ (a.io.link = "up" => link = "up")
          BY <2>1, LoadBlock
        <5>2. View' = [View EXCEPT ![b] = a.data] /\ View[b] = a.data
          BY <2>1, <2>4, <4>2, <5>1, MissView
        <5>3. View' = View
          BY <2>1, <5>2, ViewType
        <5>4. QED
          BY <2>4, <4>2, <5>1, <5>2, <5>3 DEF SetIO
      <4>3. QED
        BY <2>1, <4>1, <4>2 DEF cache_read
    <3>2. Abstract!Read(b)
      BY <2>1, <2>4, <3>1, AbstractSync DEF Abstract!Read, Abstract!Result, View
    <3>3. QED
      BY <2>1, <3>2 DEF Abstract!Next
  <2>5. QED
    BY <2>3, <2>4 DEF IInv, TypeOK
<1>3. QED
  BY <1>1, <1>2

\* write_block with the connection up is a write of the abstract store.
LEMMA WriteRefines ==
    ASSUME NoLeadingSpace, FitsDisk, IInv, IInv', SyncsOne(disk'),
           NEW b \in BlockNos, NEW d \in Data, write_block(b, d)
    PROVE  Abstract!Next
<1>0. out' = NoData
  BY DEF write_block
<1>1. CASE WriteRejected(b)
  BY <1>1, RejectedStep DEF write_block
<1>2. CASE ~WriteRejected(b)
  <2>1. b \in Sectors /\ cache_write(b, d) /\ d \in Block
    BY <1>2, AcceptedInRange, CacheAssumption DEF write_block, IInv
  <2>2. CASE link' = "down"
    BY <1>0, <2>2, DownStep
  <2>3. CASE link' = "up"
    <3>1. link = "up" /\ View' = [View EXCEPT ![b] = d]
      <4>1. ASSUME NEW e \in Used, Hit(b, e),
                   cache_arr' = [cache_arr EXCEPT
                      ![e] = [blockno |-> b, data |-> d, dirty |-> TRUE]],
                   UNCHANGED <<disk, cache_size, rbuf, link>>
            PROVE  <3>1!:
        <5>1. /\ cache_arr[e].blockno = b /\ Used' = Used /\ disk' = disk
              /\ cache_arr \in [Slots -> Entry] /\ Used \subseteq Slots
          BY <4>1, CacheAssumption DEF Hit, lookup, Used, IInv, TypeOK, Slots
        <5>2. /\ cache_arr'[e].blockno = b /\ cache_arr'[e].data = d
              /\ \A f \in Used : f # e => cache_arr'[f] = cache_arr[f]
          BY <4>1, <5>1
        <5>3. Current(b)' = d
          BY <2>1, <5>1, <5>2, CurrentValues DEF ViewIsCurrent
        <5>4. ASSUME NEW s \in Sectors, s # b PROVE Current(s)' = Current(s)
          <6>1. CASE \E f \in Used : cache_arr[f].blockno = s
            <7>1. PICK f \in Used : cache_arr[f].blockno = s
              BY <6>1
            <7>2. f # e /\ cache_arr'[f] = cache_arr[f]
              BY <7>1, <5>1, <5>2, <5>4
            <7>3. QED
              BY <7>1, <7>2, <5>1, CurrentValues DEF ViewIsCurrent
          <6>2. CASE \A f \in Used : cache_arr[f].blockno # s
            <7>1. \A f \in Used' : cache_arr'[f].blockno # s
              BY <6>2, <5>1, <5>2, <5>4
            <7>2. QED
              BY <6>2, <7>1, <5>1, CurrentValues DEF ViewIsCurrent
          <6>3. QED
            BY <6>1, <6>2
        <5>5. View' = [s \in Sectors |-> Current(s)']
          BY DEF View
        <5>6. QED
          BY <2>3, <4>1, <5>3, <5>4, <5>5 DEF View
      <4>2. ASSUME lookup(b) = {}, NEW a \in Load(b),
                   cache_arr' = [cache_arr EXCEPT
                      ![a.e] = [blockno |-> b, data |-> d, dirty |-> TRUE]],
                   cache_size' = a.size,
                   SetIO(a.io)
            PROVE  <3>1!:
        <5>1. a.io.link = "up" => link = "up"
          BY <2>1, LoadBlock
        <5>2. View' = [View EXCEPT ![b] = d]
          BY <2>1, <2>3, <4>2, MissView
        <5>3. QED
          BY <2>3, <4>2, <5>1, <5>2 DEF SetIO
      <4>3. QED
        BY <2>1, <4>1, <4>2 DEF cache_write
    <3>2. Abstract!Write(b, d)
      BY <1>0, <2>3, <3>1, AbstractSync DEF Abstract!Write, View
    <3>3. QED
      BY <2>1, <3>2 DEF Abstract!Next
  <2>4. QED
    BY <2>2, <2>3 DEF IInv, TypeOK
<1>3. QED
  BY <1>1, <1>2

\* The block layer implements the abstract store: for every geometry, capacity
\* and set of contents, under the two conditions the code relies on.
THEOREM Refinement == NoLeadingSpace /\ FitsDisk => (Spec => ImplementsBlockStore)
<1> SUFFICES ASSUME NoLeadingSpace, FitsDisk PROVE Spec => ImplementsBlockStore
  OBVIOUS
<1>1. Init => Abstract!Init
  <2> SUFFICES ASSUME Init PROVE Abstract!Init
    OBVIOUS
  <2>1. disk \in [Sectors -> Block]
    BY CacheAssumption DEF Init
  <2>2. \A b \in Sectors : Current(b) = disk[b]
    BY DEF Init, Current, lookup, Used
  <2>3. QED
    BY <2>1, <2>2 DEF Init, Abstract!Init
<1>2. IInv /\ IInv' /\ [Next]_vars => [Abstract!Next]_Abstract!vars
  <2> SUFFICES ASSUME IInv, IInv', [Next]_vars PROVE [Abstract!Next]_Abstract!vars
    OBVIOUS
  <2>1. Next => SyncsOne(disk')
    BY StepSyncs
  <2>2. ASSUME NEW b \in BlockNos, read_block(b) PROVE Abstract!Next
    BY <2>1, <2>2, ReadRefines DEF Next
  <2>3. ASSUME NEW b \in BlockNos, NEW d \in Data, write_block(b, d) PROVE Abstract!Next
    BY <2>1, <2>3, WriteRefines DEF Next
  <2>4. ASSUME NEW n \in SbSizes, set_superblock(n) PROVE Abstract!Next
    BY <2>4, RejectedStep DEF set_superblock
  <2>5. ASSUME Restart PROVE Abstract!Next
    <3>1. Used' = {} /\ disk' = disk /\ link' = "up" /\ out' = NoData
      BY <2>5 DEF Restart, Used
    <3>2. \A b \in Sectors : Current(b)' = disk[b]
      BY <3>1, CurrentValues DEF ViewIsCurrent
    <3>3. disk \in [Sectors -> Block]
      BY DEF IInv, TypeOK
    <3>4. Abstract!Restart
      BY <3>1, <3>2, <3>3 DEF Abstract!Restart
    <3>5. QED
      BY <3>4 DEF Abstract!Next
  <2>6. CASE UNCHANGED vars
    <3>1. \A b \in Sectors : Current(b)' = Current(b)
      BY <2>6 DEF vars, Current, lookup, Used
    <3>2. QED
      BY <2>6, <3>1 DEF vars, Abstract!vars
  <2>7. QED
    BY <2>2, <2>3, <2>4, <2>5, <2>6 DEF Next
<1>3. QED
  BY <1>1, <1>2, Invariance, PTL DEF Spec, Abstract!Spec, ImplementsBlockStore

=============================================================================

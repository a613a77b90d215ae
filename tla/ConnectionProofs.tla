-------------------------- MODULE ConnectionProofs --------------------------
(***************************************************************************)
(* Proofs about Connection, for every size of buffer, header, kernel       *)
(* buffer, and for messages of every length: its safety invariants.        *)
(***************************************************************************)
EXTENDS Connection, SequenceTheorems, TLAPS

\* What a message and what a reply is a sequence of.
Byte == Nat \X Nat

Buf == Buffer(Byte)

Fit(b) == b.read_index <= Half /\ write_index(b) <= TCP_BUF_SIZE

-----------------------------------------------------------------------------
(* Sequences cut and joined *)

\* A sequence is its first n elements and the others.
LEMMA Cut ==
    ASSUME NEW S, NEW b \in Seq(S), NEW n \in 0 .. Len(b)
    PROVE  /\ SubSeq(b, 1, n) \in Seq(S) /\ SubSeq(b, n + 1, Len(b)) \in Seq(S)
           /\ Len(SubSeq(b, 1, n)) = n
           /\ SubSeq(b, 1, n) \o SubSeq(b, n + 1, Len(b)) = b
<1>1. SubSeq(b, 1, n) \in Seq(S) /\ SubSeq(b, n + 1, Len(b)) \in Seq(S) /\ Len(SubSeq(b, 1, n)) = n
  <2>1. \A i \in 1 .. Len(b) : b[i] \in S
    BY ElementOfSeq
  <2>2. Len(b) \in Nat /\ n \in Nat
    OBVIOUS
  <2>3. (\A i \in 1 .. n : b[i] \in S) /\ (\A i \in n + 1 .. Len(b) : b[i] \in S)
    BY <2>1, <2>2
  <2>4. QED
    BY <2>2, <2>3, SubSeqProperties
<1>2. SubSeq(b, 1, n) \o SubSeq(b, n + 1, Len(b)) = SubSeq(b, 1, Len(b))
  <2>1. /\ Len(b) \in Nat /\ 1 \in 1 .. Len(b) + 1
        /\ n \in 1 - 1 .. Len(b) /\ Len(b) \in n .. Len(b)
    OBVIOUS
  <2>2. QED
    BY <2>1, ConcatAdjacentSubSeq
<1>3. QED
  BY <1>1, <1>2, SubSeqFull

\* The rest of a sequence, element by element.
LEMMA Rest ==
    ASSUME NEW S, NEW s \in Seq(S), NEW n \in 0 .. Len(s)
    PROVE  /\ SubSeq(s, n + 1, Len(s)) \in Seq(S)
           /\ Len(SubSeq(s, n + 1, Len(s))) = Len(s) - n
           /\ \A i \in 1 .. Len(s) - n : SubSeq(s, n + 1, Len(s))[i] = s[n + i]
<1>1. \A i \in n + 1 .. Len(s) : s[i] \in S
  BY ElementOfSeq
<1>2. Len(s) \in Nat /\ n + 1 \in Int
  OBVIOUS
<1>3. QED
  BY <1>1, <1>2, SubSeqProperties

\* What is cut off at the front is cut off whatever follows.
LEMMA Front ==
    ASSUME NEW S, NEW a \in Seq(S), NEW b \in Seq(S), NEW n \in 0 .. Len(a)
    PROVE  SubSeq(a, n + 1, Len(a)) \o b = SubSeq(a \o b, n + 1, Len(a \o b))
<1> DEFINE c == SubSeq(a, n + 1, Len(a))
           d == SubSeq(a \o b, n + 1, Len(a \o b))
<1>1. c \in Seq(S) /\ Len(c) = Len(a) - n /\ \A i \in 1 .. Len(a) - n : c[i] = a[n + i]
  BY Rest
<1>2. /\ a \o b \in Seq(S) /\ Len(a \o b) = Len(a) + Len(b)
      /\ \A i \in 1 .. Len(a) + Len(b) :
            (a \o b)[i] = IF i <= Len(a) THEN a[i] ELSE b[i - Len(a)]
  BY ConcatProperties
<1>3. /\ d \in Seq(S) /\ Len(d) = Len(a) + Len(b) - n
      /\ \A i \in 1 .. Len(a) + Len(b) - n : d[i] = (a \o b)[n + i]
  <2>1. n \in 0 .. Len(a \o b)
    BY <1>2
  <2>2. QED
    BY <1>2, <2>1, Rest
<1>4. /\ c \o b \in Seq(S) /\ Len(c \o b) = Len(c) + Len(b)
      /\ \A i \in 1 .. Len(c) + Len(b) :
            (c \o b)[i] = IF i <= Len(c) THEN c[i] ELSE b[i - Len(c)]
  BY <1>1, ConcatProperties
<1> HIDE DEF c, d
<1>5. Len(c \o b) = Len(d)
  BY <1>1, <1>3, <1>4
<1>6. ASSUME NEW i \in 1 .. Len(c \o b) PROVE (c \o b)[i] = d[i]
  <2>1. i \in 1 .. Len(a) + Len(b) - n /\ n + i \in 1 .. Len(a) + Len(b)
    BY <1>1, <1>4
  <2>2. d[i] = IF n + i <= Len(a) THEN a[n + i] ELSE b[n + i - Len(a)]
    BY <1>2, <1>3, <2>1
  <2>3. CASE n + i <= Len(a)
    <3>1. i \in 1 .. Len(a) - n /\ i <= Len(c)
      BY <1>1, <2>1, <2>3
    <3>2. QED
      BY <1>1, <1>4, <2>1, <2>2, <2>3, <3>1
  <2>4. CASE ~(n + i <= Len(a))
    <3>1. ~(i <= Len(c)) /\ i - Len(c) = n + i - Len(a)
      <4>1. Len(a) \in Nat /\ n \in Nat /\ i \in Nat /\ Len(c) = Len(a) - n
        BY <1>1, <2>1
      <4>2. QED
        BY <4>1, <2>4
    <3>2. QED
      BY <1>1, <1>4, <2>1, <2>2, <2>4, <3>1
  <2>5. QED
    BY <2>3, <2>4
<1>7. QED
  BY <1>3, <1>4, <1>5, <1>6, SeqEqual DEF c, d

-----------------------------------------------------------------------------
(* The operations of tcp_buffer.c: a buffer stays a buffer with its indices in *)
(* their places, and its bytes become what they should. *)

\* Half a buffer, twice, is no more than a buffer.
LEMMA Halves == Half \in Nat /\ Half + Half <= TCP_BUF_SIZE /\ TCP_BUF_SIZE - Half >= Half
  BY BufferAssumption DEF Half

\* adjust_buffer brings the read index back to its half and keeps the bytes.
LEMMA AdjustFits ==
    ASSUME NEW b \in Buf, write_index(b) <= TCP_BUF_SIZE
    PROVE  adjust_buffer(b) \in Buf /\ Fit(adjust_buffer(b)) /\ adjust_buffer(b).bytes = b.bytes
<1> USE Halves DEF Buf, Buffer, Fit, write_index, adjust_buffer
<1>1. b.read_index \in Nat /\ Len(b.bytes) \in Nat /\ TCP_BUF_SIZE \in Nat
  BY BufferAssumption
<1>2. CASE b.read_index > Half
  <2>1. adjust_buffer(b) = [b EXCEPT !.read_index = 0]
    BY <1>2
  <2>2. adjust_buffer(b) = [read_index |-> 0, bytes |-> b.bytes]
    BY <2>1
  <2>3. QED
    BY <1>1, <2>2
<1>3. CASE ~(b.read_index > Half)
  BY <1>1, <1>3
<1>4. QED
  BY <1>2, <1>3

\* recycle_write appends bytes that fit and keeps the indices in their places.
LEMMA WriteFits ==
    ASSUME NEW b \in Buf, Fit(b), NEW s \in Seq(Byte), Len(s) <= Writeable(b)
    PROVE  /\ recycle_write(b, s) \in Buf /\ Fit(recycle_write(b, s))
           /\ recycle_write(b, s).bytes = b.bytes \o s
<1> DEFINE c == [read_index |-> b.read_index, bytes |-> b.bytes \o s]
<1>1. /\ b.read_index \in Nat /\ b.bytes \in Seq(Byte) /\ Len(b.bytes) \in Nat
      /\ Len(s) \in Nat /\ TCP_BUF_SIZE \in Nat
  BY BufferAssumption DEF Buf, Buffer
<1>2. b.bytes \o s \in Seq(Byte) /\ Len(b.bytes \o s) = Len(b.bytes) + Len(s)
  BY <1>1, ConcatProperties
<1> HIDE DEF c
<1>3. c \in Buf /\ write_index(c) = write_index(b) + Len(s)
  <2>1. c \in Buf /\ c.read_index = b.read_index /\ c.bytes = b.bytes \o s
    BY <1>1, <1>2 DEF Buf, Buffer, c
  <2>2. QED
    BY <1>1, <1>2, <2>1 DEF write_index
<1>5. write_index(b) + Len(s) <= TCP_BUF_SIZE
  BY <1>1 DEF write_index, Writeable
<1>6. recycle_write(b, s) = adjust_buffer(c)
  BY <1>1, <1>5 DEF recycle_write, write_index, c
<1>7. QED
  <2>1. c.bytes = b.bytes \o s
    BY DEF c
  <2>2. QED
    BY <1>3, <1>5, <1>6, <2>1, AdjustFits

\* recycle_read takes bytes that are there and keeps the indices in their places.
LEMMA ReadFits ==
    ASSUME NEW b \in Buf, Fit(b), NEW n \in Nat, n <= Len(b.bytes)
    PROVE  /\ recycle_read(b, n) \in Buf /\ Fit(recycle_read(b, n))
           /\ recycle_read(b, n).bytes = SubSeq(b.bytes, n + 1, Len(b.bytes))
<1> DEFINE c == [read_index |-> b.read_index + n,
                 bytes |-> SubSeq(b.bytes, n + 1, Len(b.bytes))]
<1>1. /\ b.read_index \in Nat /\ b.bytes \in Seq(Byte) /\ Len(b.bytes) \in Nat
      /\ TCP_BUF_SIZE \in Nat
  BY BufferAssumption DEF Buf, Buffer
<1>2. c.bytes \in Seq(Byte) /\ Len(c.bytes) = Len(b.bytes) - n
  BY <1>1, Rest
<1>3. c \in Buf /\ write_index(c) = write_index(b)
  BY <1>1, <1>2 DEF Buf, Buffer, write_index
<1>4. b.read_index + n <= TCP_BUF_SIZE
  BY <1>1 DEF Fit, write_index
<1>5. recycle_read(b, n) = adjust_buffer(c)
  BY <1>1, <1>4 DEF recycle_read
<1>6. QED
  BY <1>3, <1>5, AdjustFits DEF Fit

\* buffer_append appends a packet whole or not at all.
LEMMA AppendFits ==
    ASSUME NEW b \in Buf, Fit(b), NEW p \in Seq(Byte)
    PROVE  /\ buffer_append(b, p) \in Buf /\ Fit(buffer_append(b, p))
           /\ buffer_append(b, p).bytes = IF Writeable(b) < Len(p) THEN b.bytes ELSE b.bytes \o p
<1>1. Writeable(b) \in Int /\ Len(p) \in Nat
  BY BufferAssumption DEF Buf, Buffer, Writeable, write_index
<1>2. CASE Writeable(b) < Len(p)
  BY <1>2 DEF buffer_append
<1>3. CASE ~(Writeable(b) < Len(p))
  BY <1>1, <1>3, WriteFits DEF buffer_append
<1>4. QED
  BY <1>2, <1>3

\* An empty buffer whose indices fit has room for half its size.
LEMMA EmptyHasRoom ==
    ASSUME NEW b \in Buf, Fit(b), b.bytes = <<>>
    PROVE  Writeable(b) >= Half
  BY Halves, BufferAssumption DEF Buf, Buffer, Fit, Writeable, write_index

\* init_buffer makes an empty buffer.
LEMMA EmptyBuffer == init_buffer \in Buf /\ Fit(init_buffer) /\ init_buffer.bytes = <<>>
  BY Halves, BufferAssumption DEF Buf, Buffer, Fit, init_buffer, write_index

-----------------------------------------------------------------------------
(* Streams of packets *)

Size(lens, n) == lens[n] + HEADER

\* Byte k of stream s belongs to packet n, is byte i of it, and the rest of the
\* packet follows; behind it a later packet begins.
InPacket(s, lens, k, n, i) ==
    /\ n \in 1 .. Len(lens) /\ i \in 1 .. Size(lens, n)
    /\ \A j \in Nat : i + j <= Size(lens, n) => k + j <= Len(s) /\ s[k + j] = <<n, i + j>>
    /\ k < Len(s) /\ i = Size(lens, n) => s[k + 1][1] > n /\ s[k + 1][2] = 1

\* A stream is a sequence of whole packets, later ones behind earlier ones.
Framed(s, lens) ==
    /\ s \in Seq(Byte)
    /\ \A k \in 1 .. Len(s) : InPacket(s, lens, k, s[k][1], s[k][2])
    /\ s # <<>> => s[1][2] = 1

\* None is missing from number from + 1 to the last one.
Contiguous(s, lens, from) ==
    /\ s = <<>> => from = Len(lens)
    /\ s # <<>> => s[1][1] = from + 1 /\ s[Len(s)][1] = Len(lens)
    /\ \A k \in 1 .. Len(s) - 1 : s[k + 1][1] <= s[k][1] + 1

\* A packet's bytes.
LEMMA PacketBytes ==
    ASSUME NEW n \in Nat, NEW len \in Nat
    PROVE  /\ Packet(n, len) \in Seq(Byte) /\ Len(Packet(n, len)) = HEADER + len
           /\ \A i \in 1 .. HEADER + len : Packet(n, len)[i] = <<n, i>>
<1>1. HEADER + len \in Nat
  BY BufferAssumption
<1>2. \A i \in 1 .. HEADER + len : <<n, i>> \in Byte
  BY <1>1 DEF Byte
<1>3. QED
  BY <1>1, <1>2 DEF Packet

\* A stream begins with a whole packet.
LEMMA FirstPacket ==
    ASSUME NEW lens \in Seq(Nat), NEW s, Framed(s, lens), s # <<>>
    PROVE  /\ Len(s) \in Nat \ {0} /\ s[1][1] \in 1 .. Len(lens)
           /\ Size(lens, s[1][1]) \in HEADER .. Len(s)
           /\ \A j \in 1 .. Size(lens, s[1][1]) : s[j] = <<s[1][1], j>>
<1> DEFINE n == s[1][1]
           z == Size(lens, n)
<1>1. Len(s) \in Nat \ {0}
  BY DEF Framed
<1>2. InPacket(s, lens, 1, n, 1)
  BY <1>1 DEF Framed
<1>3. n \in 1 .. Len(lens) /\ lens[n] \in Nat
  BY <1>2, ElementOfSeq DEF InPacket
<1>4. z \in Nat /\ z >= HEADER /\ HEADER \in Nat \ {0}
  BY <1>3, BufferAssumption DEF Size
<1> HIDE DEF z
<1>5. ASSUME NEW j \in 1 .. z PROVE j <= Len(s) /\ s[j] = <<n, j>>
  <2>1. j - 1 \in Nat /\ 1 + (j - 1) = j /\ j <= z
    BY <1>4
  <2>2. QED
    BY <1>2, <2>1 DEF InPacket, z
<1>6. z <= Len(s)
  BY <1>4, <1>5
<1>7. QED
  BY <1>1, <1>3, <1>4, <1>5, <1>6 DEF z

\* What follows the first packet of a stream is a stream, and begins with a later
\* packet.
LEMMA PacketCut ==
    ASSUME NEW lens \in Seq(Nat), NEW s, Framed(s, lens), s # <<>>,
           NEW z \in Nat \ {0}, z <= Len(s), z = Size(lens, s[1][1]),
           s[z] = <<s[1][1], z>>,
           NEW r \in Seq(Byte), Len(r) = Len(s) - z,
           \A k \in 1 .. Len(s) - z : r[k] = s[z + k]
    PROVE  Framed(r, lens) /\ (r # <<>> => r[1][1] > s[1][1])
<1>1. Len(s) \in Nat \ {0} /\ s \in Seq(Byte)
  BY DEF Framed
<1>2. Len(r) \in Nat
  OBVIOUS
<1>3. ASSUME NEW k \in 1 .. Len(r) PROVE InPacket(r, lens, k, r[k][1], r[k][2])
  <2> DEFINE n == s[z + k][1]
             i == s[z + k][2]
  <2>1. z + k \in 1 .. Len(s) /\ k \in 1 .. Len(s) - z /\ r[k] = s[z + k]
    BY <1>1, <1>2
  <2>2. InPacket(s, lens, z + k, n, i)
    BY <2>1 DEF Framed
  <2>3. s[z + k] \in Byte
    BY <2>1, ElementOfSeq DEF Framed
  <2>4. n \in Nat /\ i \in Nat
    BY <2>3 DEF Byte
  <2> HIDE DEF n, i
  <2>5. ASSUME NEW j \in Nat, i + j <= Size(lens, n)
        PROVE  k + j <= Len(r) /\ r[k + j] = <<n, i + j>>
    <3>1. z + k + j <= Len(s) /\ s[z + k + j] = <<n, i + j>>
      BY <2>2, <2>5 DEF InPacket
    <3>2. k + j \in 1 .. Len(s) - z /\ z + (k + j) = z + k + j
      <4>1. Len(s) \in Nat /\ z \in Nat /\ k \in Nat \ {0} /\ j \in Nat
        BY <1>1, <1>2
      <4>2. QED
        BY <3>1, <4>1
    <3>3. r[k + j] = s[z + (k + j)]
      BY <1>2, <3>2
    <3>4. QED
      BY <1>2, <3>1, <3>2, <3>3
  <2>6. ASSUME k < Len(r), i = Size(lens, n)
        PROVE  r[k + 1][1] > n /\ r[k + 1][2] = 1
    <3>1. k + 1 \in 1 .. Len(s) - z /\ z + (k + 1) = z + k + 1 /\ z + k < Len(s)
      BY <1>1, <1>2, <2>6
    <3>2. r[k + 1] = s[z + k + 1]
      BY <1>2, <3>1
    <3>3. QED
      BY <2>2, <2>6, <3>1, <3>2 DEF InPacket
  <2>7. r[k][1] = n /\ r[k][2] = i
    BY <2>1 DEF n, i
  <2>8. QED
    BY <2>2, <2>5, <2>6, <2>7 DEF InPacket
<1>4. ASSUME r # <<>> PROVE r[1][1] > s[1][1] /\ r[1][2] = 1
  <2>1. Len(r) \in Nat \ {0}
    BY <1>2, <1>4
  <2>2. z < Len(s) /\ 1 \in 1 .. Len(s) - z /\ z \in 1 .. Len(s)
    BY <1>1, <1>2, <2>1
  <2>3. InPacket(s, lens, z, s[1][1], z)
    BY <1>1, <2>2 DEF Framed
  <2>4. r[1] = s[z + 1]
    BY <1>2, <2>2
  <2>5. QED
    BY <2>2, <2>3, <2>4 DEF InPacket
<1>5. QED
  BY <1>2, <1>3, <1>4 DEF Framed

\* Without its first packet a stream is still one, and begins with a later packet.
LEMMA PacketTaken ==
    ASSUME NEW lens \in Seq(Nat), NEW s, Framed(s, lens), s # <<>>
    PROVE  LET z == Size(lens, s[1][1])
               r == SubSeq(s, z + 1, Len(s))
           IN  /\ Framed(r, lens) /\ Len(r) = Len(s) - z
               /\ \A k \in 1 .. Len(s) - z : r[k] = s[z + k]
               /\ r # <<>> => r[1][1] > s[1][1]
<1> DEFINE z == Size(lens, s[1][1])
           r == SubSeq(s, z + 1, Len(s))
<1>1. /\ Len(s) \in Nat \ {0} /\ z \in HEADER .. Len(s)
      /\ \A j \in 1 .. z : s[j] = <<s[1][1], j>>
  BY FirstPacket, Zenon
<1>2. z = Size(lens, s[1][1])
  OBVIOUS
<1> HIDE DEF z
<1>3. HEADER \in Nat \ {0}
  BY BufferAssumption
<1>4. z \in Nat \ {0} /\ z <= Len(s) /\ z \in 0 .. Len(s) /\ z \in 1 .. z
  BY <1>1, <1>3
<1>5. s[z] = <<s[1][1], z>>
  BY <1>1, <1>4, Zenon
<1>6. s \in Seq(Byte)
  BY DEF Framed
<1>7. r \in Seq(Byte) /\ Len(r) = Len(s) - z /\ \A k \in 1 .. Len(s) - z : r[k] = s[z + k]
  BY <1>4, <1>6, Rest, Zenon
<1> HIDE DEF r
<1>8. Framed(r, lens) /\ (r # <<>> => r[1][1] > s[1][1])
  BY <1>2, <1>4, <1>5, <1>7, PacketCut
<1>9. QED
  BY <1>7, <1>8, Zenon DEF z, r

\* A stream stays one when a packet is given a length but not sent.
LEMMA PacketDropped ==
    ASSUME NEW lens \in Seq(Nat), NEW s, Framed(s, lens), NEW len \in Nat
    PROVE  Framed(s, Append(lens, len))
<1> DEFINE more == Append(lens, len)
<1>1. /\ more \in Seq(Nat) /\ Len(more) = Len(lens) + 1 /\ Len(lens) \in Nat
      /\ \A n \in 1 .. Len(lens) : n \in 1 .. Len(more) /\ more[n] = lens[n]
  BY AppendProperties
<1> HIDE DEF more
<1>2. ASSUME NEW k \in 1 .. Len(s) PROVE InPacket(s, more, k, s[k][1], s[k][2])
  <2>1. InPacket(s, lens, k, s[k][1], s[k][2])
    BY DEF Framed
  <2>2. s[k][1] \in 1 .. Len(lens)
    BY <2>1 DEF InPacket
  <2>3. s[k][1] \in 1 .. Len(more) /\ Size(more, s[k][1]) = Size(lens, s[k][1])
    BY <1>1, <2>2 DEF Size
  <2>4. QED
    BY <2>1, <2>3 DEF InPacket
<1>3. QED
  BY <1>2 DEF Framed, more

\* A packet put behind a stream continues it.
LEMMA PacketAdded ==
    ASSUME NEW lens \in Seq(Nat), NEW s, Framed(s, lens), NEW len \in Nat
    PROVE  Framed(s \o Packet(Len(lens) + 1, len), Append(lens, len))
<1> DEFINE more == Append(lens, len)
           m == Len(lens) + 1
           p == Packet(m, len)
           t == s \o p
           z == HEADER + len
<1>1. /\ more \in Seq(Nat) /\ Len(more) = m /\ m \in Nat \ {0} /\ more[m] = len
  BY AppendProperties
<1>2. p \in Seq(Byte) /\ Len(p) = z /\ z \in Nat \ {0} /\ \A i \in 1 .. z : p[i] = <<m, i>>
  <2>1. m \in Nat /\ z \in Nat \ {0}
    BY <1>1, BufferAssumption
  <2>2. Packet(m, len) \in Seq(Byte) /\ Len(Packet(m, len)) = HEADER + len
        /\ \A i \in 1 .. HEADER + len : Packet(m, len)[i] = <<m, i>>
    <3> HIDE DEF m
    <3>1. QED
      BY <2>1, PacketBytes
  <2>3. QED
    BY <2>1, <2>2, Zenon
<1>3. s \in Seq(Byte) /\ Len(s) \in Nat
  BY DEF Framed
<1>4. Framed(s, more)
  BY PacketDropped
<1>5. \A k \in 1 .. Len(s) : s[k][1] < m
  BY DEF Framed, InPacket
<1> HIDE DEF more, p, z
<1>6. /\ t \in Seq(Byte) /\ Len(t) = Len(s) + z
      /\ \A i \in 1 .. Len(s) + z : t[i] = IF i <= Len(s) THEN s[i] ELSE p[i - Len(s)]
  BY <1>2, <1>3, ConcatProperties
<1>7. \A i \in 1 .. z : t[Len(s) + i] = <<m, i>>
  <2> TAKE i \in 1 .. z
  <2>1. Len(s) + i \in 1 .. Len(s) + z /\ ~(Len(s) + i <= Len(s)) /\ Len(s) + i - Len(s) = i
    BY <1>2, <1>3
  <2>2. QED
    BY <1>2, <1>6, <2>1
<1>8. \A i \in 1 .. Len(s) : t[i] = s[i]
  BY <1>2, <1>3, <1>6
<1> HIDE DEF t, m
<1>9. Size(more, m) = z
  BY <1>1, BufferAssumption DEF Size, z
<1>10. ASSUME NEW k \in 1 .. Len(s) PROVE InPacket(t, more, k, t[k][1], t[k][2])
  <2> DEFINE n == s[k][1]
             i == s[k][2]
  <2>1. InPacket(s, more, k, n, i) /\ t[k] = s[k]
    BY <1>4, <1>8 DEF Framed
  <2>2. s[k] \in Byte
    BY <1>3, ElementOfSeq
  <2>3. n \in Nat /\ i \in Nat /\ n < m
    BY <1>5, <2>2 DEF Byte
  <2> HIDE DEF n, i
  <2>4. ASSUME NEW j \in Nat, i + j <= Size(more, n)
        PROVE  k + j <= Len(t) /\ t[k + j] = <<n, i + j>>
    <3>1. k + j <= Len(s) /\ s[k + j] = <<n, i + j>>
      BY <2>1, <2>4 DEF InPacket
    <3>2. k + j \in 1 .. Len(s)
      BY <1>3, <3>1
    <3>3. QED
      BY <1>2, <1>3, <1>6, <1>8, <3>1, <3>2
  <2>5. ASSUME k < Len(t), i = Size(more, n)
        PROVE  t[k + 1][1] > n /\ t[k + 1][2] = 1
    <3>1. CASE k < Len(s)
      <4>1. k + 1 \in 1 .. Len(s)
        BY <1>3, <3>1
      <4>2. QED
        BY <1>8, <2>1, <2>5, <3>1, <4>1 DEF InPacket
    <3>2. CASE ~(k < Len(s))
      <4>1. k = Len(s) /\ 1 \in 1 .. z
        BY <1>2, <1>3, <3>2
      <4>2. t[k + 1] = <<m, 1>>
        BY <1>7, <4>1
      <4>3. QED
        BY <1>1, <2>3, <4>2
    <3>3. QED
      BY <3>1, <3>2
  <2>6. t[k][1] = n /\ t[k][2] = i
    BY <2>1 DEF n, i
  <2>7. QED
    BY <2>1, <2>4, <2>5, <2>6 DEF InPacket
<1>11. ASSUME NEW i \in 1 .. z PROVE InPacket(t, more, Len(s) + i, m, i)
  <2>1. i \in 1 .. Size(more, m) /\ m \in 1 .. Len(more)
    BY <1>1, <1>9
  <2>2. ASSUME NEW j \in Nat, i + j <= Size(more, m)
        PROVE  Len(s) + i + j <= Len(t) /\ t[Len(s) + i + j] = <<m, i + j>>
    <3>1. i + j \in 1 .. z /\ Len(s) + (i + j) = Len(s) + i + j
      BY <1>2, <1>3, <1>9, <2>2
    <3>2. t[Len(s) + (i + j)] = <<m, i + j>>
      BY <1>7, <3>1
    <3>3. QED
      BY <1>2, <1>3, <1>6, <3>1, <3>2
  <2>3. ~(Len(s) + i < Len(t) /\ i = Size(more, m))
    BY <1>2, <1>3, <1>6, <1>9
  <2>4. QED
    BY <2>1, <2>2, <2>3 DEF InPacket
<1>12. ASSUME NEW k \in 1 .. Len(t) PROVE InPacket(t, more, k, t[k][1], t[k][2])
  <2>1. CASE k <= Len(s)
    BY <1>3, <1>10, <2>1
  <2>2. CASE ~(k <= Len(s))
    <3>1. k - Len(s) \in 1 .. z /\ Len(s) + (k - Len(s)) = k
      BY <1>2, <1>3, <1>6, <2>2
    <3>2. t[k] = <<m, k - Len(s)>>
      BY <1>7, <3>1
    <3>3. QED
      BY <1>11, <3>1, <3>2
  <2>3. QED
    BY <2>1, <2>2
<1>13. t # <<>> => t[1][2] = 1
  <2>1. CASE s = <<>>
    <3>1. Len(s) = 0 /\ 1 \in 1 .. z
      BY <1>2, <2>1
    <3>2. t[0 + 1] = <<m, 1>>
      BY <1>7, <3>1
    <3>3. QED
      BY <3>2
  <2>2. CASE s # <<>>
    <3>1. 1 \in 1 .. Len(s)
      BY <1>3, <2>2
    <3>2. QED
      BY <1>8, <2>2, <3>1 DEF Framed
  <2>3. QED
    BY <2>1, <2>2
<1>14. Framed(t, more)
  BY <1>6, <1>12, <1>13 DEF Framed
<1>15. QED
  BY <1>14 DEF t, p, m, more

\* A reader whose buffer holds the whole first packet of the stream, from the
\* buffer and from what is behind it, gets that packet's text and leaves the rest.
LEMMA FrontPacket ==
    ASSUME NEW lens \in Seq(Nat), NEW b \in Seq(Byte), NEW w \in Seq(Byte),
           Framed(b \o w, lens), Len(b) >= HEADER, Len(b) >= lens[b[1][1]] + HEADER
    PROVE  LET n == b[1][1]
               z == lens[n] + HEADER
               s == b \o w
           IN  /\ s # <<>> /\ s[1][1] = n /\ n \in 1 .. Len(lens) /\ lens[n] \in Nat
               /\ z \in Nat /\ z <= Len(b)
               /\ SubSeq(b, HEADER + 1, HEADER + lens[n]) = Text(n, lens[n])
               /\ Text(n, lens[n]) \in Seq(Byte)
               /\ SubSeq(b, z + 1, Len(b)) \o w = SubSeq(s, Size(lens, n) + 1, Len(s))
<1> DEFINE n == b[1][1]
           z == lens[n] + HEADER
           s == b \o w
<1>1. HEADER \in Nat \ {0} /\ Len(b) \in Nat \ {0} /\ Len(w) \in Nat
  BY BufferAssumption
<1>2. /\ s \in Seq(Byte) /\ Len(s) = Len(b) + Len(w)
      /\ \A i \in 1 .. Len(b) + Len(w) : s[i] = IF i <= Len(b) THEN b[i] ELSE w[i - Len(b)]
  BY ConcatProperties
<1>3. Framed(s, lens) /\ Len(b) >= lens[n] + HEADER
  OBVIOUS
<1> HIDE DEF s
<1>4. \A i \in 1 .. Len(b) : s[i] = b[i]
  BY <1>1, <1>2
<1>5. s # <<>> /\ s[1] = b[1]
  BY <1>1, <1>2, <1>4
<1>6. s[1][1] = n
  BY <1>5
<1> HIDE DEF n
<1>7. /\ n \in 1 .. Len(lens) /\ Size(lens, n) \in HEADER .. Len(s)
      /\ \A j \in 1 .. Size(lens, n) : s[j] = <<n, j>>
  BY <1>3, <1>5, <1>6, FirstPacket, Zenon
<1>8. lens[n] \in Nat /\ n \in Nat /\ Size(lens, n) = z /\ z \in Nat /\ z <= Len(b)
  BY <1>1, <1>3, <1>7, ElementOfSeq DEF Size
<1>9. SubSeq(b, HEADER + 1, HEADER + lens[n]) = Text(n, lens[n]) /\ Text(n, lens[n]) \in Seq(Byte)
  <2> DEFINE len == lens[n]
             t == SubSeq(b, HEADER + 1, HEADER + len)
  <2>1. len \in Nat /\ HEADER + len \in Nat /\ HEADER + len <= Len(b)
    BY <1>1, <1>8
  <2> HIDE DEF len, z
  <2>2. \A i \in HEADER + 1 .. HEADER + len : i \in 1 .. Len(b) /\ b[i] \in Byte
    BY <1>1, <2>1, ElementOfSeq
  <2> DEFINE first == HEADER + 1
             last == HEADER + len
  <2>3. /\ first \in Int /\ last \in Int /\ last - first + 1 = len
        /\ (IF first <= last THEN last - first + 1 ELSE 0) = len
        /\ \A i \in 1 .. len : first + i - 1 = HEADER + i
    BY <1>1, <2>1
  <2> HIDE DEF first, last
  <2>a. \A i \in first .. last : b[i] \in Byte
    BY <2>2 DEF first, last
  <2>4. /\ SubSeq(b, first, last) \in Seq(Byte)
        /\ Len(SubSeq(b, first, last)) = IF first <= last THEN last - first + 1 ELSE 0
        /\ \A i \in 1 .. last - first + 1 : SubSeq(b, first, last)[i] = b[first + i - 1]
    BY <2>3, <2>a, SubSeqProperties
  <2>b. t = SubSeq(b, first, last)
    BY DEF first, last
  <2> HIDE DEF t
  <2>5. t \in Seq(Byte) /\ Len(t) = len /\ \A i \in 1 .. len : t[i] = b[HEADER + i]
    <3>1. t \in Seq(Byte) /\ Len(t) = len /\ \A i \in 1 .. len : t[i] = b[first + i - 1]
      BY <2>3, <2>4, <2>b, Zenon
    <3>2. QED
      BY <2>3, <3>1
  <2>6. \A i \in 1 .. len : b[HEADER + i] = <<n, HEADER + i>>
    <3> TAKE i \in 1 .. len
    <3>1. HEADER + i \in 1 .. z /\ HEADER + i \in 1 .. Len(b)
      BY <1>1, <2>1 DEF z, len
    <3>2. QED
      BY <1>4, <1>7, <1>8, <3>1
  <2>7. Text(n, len) \in Seq(Byte) /\ Len(Text(n, len)) = len
        /\ \A i \in 1 .. len : Text(n, len)[i] = <<n, HEADER + i>>
    <3>1. \A i \in 1 .. len : <<n, HEADER + i>> \in Byte
      <4>1. n \in Nat /\ \A i \in 1 .. len : HEADER + i \in Nat
        BY <1>1, <1>8, <2>1
      <4>2. QED
        BY <4>1 DEF Byte
    <3>2. QED
      BY <2>1, <3>1 DEF Text
  <2>8. t = Text(n, len)
    <3>1. Len(t) = Len(Text(n, len)) /\ \A i \in 1 .. Len(t) : t[i] = Text(n, len)[i]
      BY <2>5, <2>6, <2>7
    <3>2. QED
      BY <2>5, <2>7, <3>1, SeqEqual
  <2>9. QED
    BY <2>7, <2>8 DEF t, len
<1>10. SubSeq(b, z + 1, Len(b)) \o w = SubSeq(s, z + 1, Len(s))
  <2> HIDE DEF z
  <2>1. z \in 0 .. Len(b)
    BY <1>1, <1>8
  <2>2. QED
    BY <2>1, Front DEF s
<1>11. QED
  BY <1>5, <1>6, <1>7, <1>8, <1>9, <1>10, Zenon DEF s, n, z

-----------------------------------------------------------------------------
(* Every step as a step on the two streams *)

\* What is on its way to the server and not handled, and to the client and not
\* returned by client_recv.
ToServer == sread.bytes \o c2s
ToClient == cread.bytes \o (s2c \o swrite.bytes)

Types ==
    /\ window \in Windows
    /\ sent \in Seq(Lengths) /\ replied \in Seq(ReplyLengths)
    /\ client \in [pc : {"idle", "recv", "look", "gone"}, count : Nat]
    /\ server \in [pc : {"idle", "recv", "handle", "send"}, count : Nat]
    /\ cwrite \in Buf /\ cread \in Buf /\ sread \in Buf /\ swrite \in Buf
    /\ c2s \in Seq(Byte) /\ s2c \in Seq(Byte)
    /\ handled \in Seq(Seq(Byte)) /\ received \in Seq(Seq(Byte))

\* Between two calls the indices are in their places and the client has sent all.
Buffers ==
    /\ Fit(cwrite) /\ Fit(cread) /\ Fit(sread) /\ Fit(swrite)
    /\ cwrite.bytes = <<>> /\ Len(s2c) <= KERNEL

Streams == Framed(ToServer, sent) /\ Framed(ToClient, replied)

\* A message is put on its way, or dropped if it is longer than half a buffer.
SendStep(len) ==
    /\ Len(sent) < MaxSent /\ Len(sent) < Len(received) + window
    /\ sent' = Append(sent, len)
    /\ \/ ToServer' = ToServer \o Packet(Len(sent) + 1, len)
       \/ ToServer' = ToServer /\ HEADER + len > Half
    /\ UNCHANGED <<window, replied, handled, received, ToClient>>

\* The first message is handled, and its reply put on its way or dropped.
HandleStep(rlen) ==
    LET n == ToServer[1][1]
    IN  /\ ToServer # <<>>
        /\ handled' = Append(handled, Text(n, sent[n]))
        /\ replied' = Append(replied, rlen)
        /\ ToServer' = SubSeq(ToServer, Size(sent, n) + 1, Len(ToServer))
        /\ \/ ToClient' = ToClient \o Packet(Len(replied) + 1, rlen)
           \/ ToClient' = ToClient
        /\ UNCHANGED <<window, sent, received>>

\* The client returns the first reply.
ReceiveStep ==
    LET n == ToClient[1][1]
    IN  /\ ToClient # <<>>
        /\ received' = Append(received, Text(n, replied[n]))
        /\ ToClient' = SubSeq(ToClient, Size(replied, n) + 1, Len(ToClient))
        /\ UNCHANGED <<window, sent, replied, handled, ToServer>>

\* Bytes only move.
MoveStep == UNCHANGED <<window, sent, replied, handled, received, ToServer, ToClient>>

Step == \/ \E len \in Lengths : SendStep(len)
        \/ \E rlen \in ReplyLengths : HandleStep(rlen)
        \/ ReceiveStep
        \/ MoveStep

\* Lengths are numbers.
LEMMA NatLengths ==
    /\ \A s \in Seq(Lengths) : s \in Seq(Nat)
    /\ \A s \in Seq(ReplyLengths) : s \in Seq(Nat)
  BY ConnectionAssumption, SeqMonotonic

\* A turn of read_to_buffer keeps buffer and socket together as they were.
LEMMA ReadKeeps ==
    ASSUME NEW P, NEW p \in [pc : P, count : Nat], NEW then \in P,
           NEW b \in Buf, Fit(b), NEW w \in Seq(Byte),
           NEW r \in read_to_buffer(p, b, w, then)
    PROVE  /\ r.proc \in [pc : P, count : Nat]
           /\ r.buf \in Buf /\ Fit(r.buf) /\ r.wire \in Seq(Byte)
           /\ r.buf.bytes \o r.wire = b.bytes \o w /\ Len(r.wire) <= Len(w)
<1>1. CASE Writeable(b) = 0
  <2>1. r = Outcome([p EXCEPT !.pc = then], b, w)
    BY <1>1, Zenon DEF read_to_buffer
  <2>2. r.proc = [p EXCEPT !.pc = then] /\ r.buf = b /\ r.wire = w
    BY <2>1 DEF Outcome
  <2>3. [p EXCEPT !.pc = then] \in [pc : P, count : Nat]
    OBVIOUS
  <2>4. QED
    BY <2>2, <2>3
<1>2. CASE Writeable(b) # 0
  <2>1. PICK n \in 1 .. Len(w) :
          /\ n <= Writeable(b)
          /\ r = Outcome([pc |-> IF n < Writeable(b) THEN then ELSE p.pc, count |-> p.count + n],
                         recycle_write(b, SubSeq(w, 1, n)), SubSeq(w, n + 1, Len(w)))
    BY <1>2, Zenon DEF read_to_buffer
  <2>2. n \in 0 .. Len(w) /\ n \in Nat /\ b.bytes \in Seq(Byte)
    BY DEF Buf, Buffer
  <2> DEFINE c == SubSeq(w, 1, n)
             d == SubSeq(w, n + 1, Len(w))
  <2>d. Len(d) <= Len(w)
    <3>1. d \in Seq(Byte) /\ Len(d) = Len(w) - n /\ \A i \in 1 .. Len(w) - n : d[i] = w[n + i]
      BY <2>2, Rest, Zenon
    <3>2. Len(w) \in Nat /\ Len(w) - n <= Len(w)
      BY <2>2
    <3>3. QED
      BY <3>1, <3>2, Zenon
  <2>3. c \in Seq(Byte) /\ d \in Seq(Byte) /\ Len(c) = n /\ (b.bytes \o c) \o d = b.bytes \o w
    <3>1. /\ SubSeq(w, 1, n) \in Seq(Byte) /\ SubSeq(w, n + 1, Len(w)) \in Seq(Byte)
          /\ Len(SubSeq(w, 1, n)) = n /\ SubSeq(w, 1, n) \o SubSeq(w, n + 1, Len(w)) = w
      BY <2>2, Cut, Zenon
    <3>2. c \in Seq(Byte) /\ d \in Seq(Byte) /\ Len(c) = n /\ c \o d = w
      BY <3>1, Zenon
    <3> HIDE DEF c, d
    <3>3. ASSUME NEW a \in Seq(Byte) PROVE (a \o c) \o d = a \o w
      <4>1. c \in Seq(Byte) /\ d \in Seq(Byte)
        BY <3>2, Zenon
      <4>2. (a \o c) \o d = a \o (c \o d)
        BY <4>1
      <4>3. QED
        BY <3>2, <4>2, Zenon
    <3>4. QED
      BY <2>2, <3>2, <3>3, Zenon
  <2>4. /\ r.proc = [pc |-> IF n < Writeable(b) THEN then ELSE p.pc, count |-> p.count + n]
        /\ r.buf = recycle_write(b, c) /\ r.wire = d
    BY <2>1 DEF Outcome
  <2> HIDE DEF c, d
  <2>5. r.buf \in Buf /\ Fit(r.buf) /\ r.buf.bytes = b.bytes \o c
    <3>1. Len(c) <= Writeable(b)
      BY <2>1, <2>3
    <3>2. QED
      BY <2>3, <2>4, <3>1, WriteFits
  <2>6. r.proc \in [pc : P, count : Nat]
    BY <2>2, <2>4
  <2>7. QED
    BY <2>d, <2>3, <2>4, <2>5, <2>6
<1>3. QED
  BY <1>1, <1>2

-----------------------------------------------------------------------------
(* The actions, one by one *)

\* Joining a third sequence to the second joins it to both.
LEMMA Joined ==
    ASSUME NEW a \in Seq(Byte), NEW b \in Seq(Byte), NEW c \in Seq(Byte)
    PROVE  a \o (b \o c) = (a \o b) \o c /\ b \o c \in Seq(Byte)
  OBVIOUS

\* client_send: the message goes behind those on their way; the write buffer is
\* empty again.
LEMMA Sends ==
    ASSUME Types, Buffers, NEW len \in Lengths, client_send(len)
    PROVE  Types' /\ Buffers' /\ SendStep(len)
<1> DEFINE p == Packet(Len(sent) + 1, len)
           buf == buffer_append(cwrite, p)
           bb == buf.bytes
<1>1. /\ Len(sent) \in Nat /\ len \in Nat /\ HEADER \in Nat
      /\ cwrite \in Buf /\ Fit(cwrite) /\ cwrite.bytes = <<>>
  BY ConnectionAssumption, BufferAssumption DEF Types, Buffers
<1>2. p \in Seq(Byte) /\ Len(p) = HEADER + len
  <2>1. Len(sent) + 1 \in Nat
    BY <1>1
  <2>2. QED
    BY <1>1, <2>1, PacketBytes, Zenon
<1>3. p = Packet(Len(sent) + 1, len)
  OBVIOUS
<1> HIDE DEF p
<1>4. buf \in Buf /\ Fit(buf) /\ bb = IF Writeable(cwrite) < Len(p) THEN cwrite.bytes ELSE cwrite.bytes \o p
  BY <1>1, <1>2, AppendFits
<1>5. bb = p \/ (bb = <<>> /\ HEADER + len > Half)
  <2>1. Writeable(cwrite) >= Half /\ Writeable(cwrite) \in Int
    BY <1>1, EmptyHasRoom, BufferAssumption DEF Writeable, write_index, Buf, Buffer
  <2>2. cwrite.bytes \o p = p
    BY <1>1, <1>2, ConcatEmptySeq
  <2>3. Half \in Nat
    BY Halves
  <2>4. QED
    BY <1>1, <1>2, <1>4, <2>1, <2>2, <2>3
<1>6. /\ client.pc = "idle"
      /\ Len(sent) < MaxSent /\ Len(sent) < Len(received) + window
      /\ sent' = Append(sent, len)
      /\ c2s' = c2s \o bb
      /\ cwrite' = recycle_read(buf, Len(bb))
      /\ UNCHANGED <<window, client, cread, received, replied, server, sread, swrite, handled, s2c>>
  BY DEF client_send, svars, p
<1> HIDE DEF buf
<1>7. bb \in Seq(Byte) /\ Len(bb) \in Nat
  <2>1. buf \in Buf
    BY <1>4, Zenon
  <2>2. QED
    BY <2>1 DEF Buf, Buffer
<1>8. cwrite' \in Buf /\ Fit(cwrite') /\ cwrite'.bytes = <<>>
  <2>1. SubSeq(bb, Len(bb) + 1, Len(bb)) = <<>>
    BY <1>7, SubSeqEmpty
  <2>2. Len(bb) <= Len(buf.bytes)
    BY <1>7
  <2>3. recycle_read(buf, Len(bb)) \in Buf /\ Fit(recycle_read(buf, Len(bb)))
        /\ recycle_read(buf, Len(bb)).bytes = SubSeq(bb, Len(bb) + 1, Len(bb))
    BY <1>4, <1>7, <2>2, ReadFits, Zenon
  <2>4. QED
    BY <1>6, <2>1, <2>3, Zenon
<1>9. sread.bytes \in Seq(Byte) /\ c2s \in Seq(Byte)
  BY DEF Types, Buf, Buffer
<1>10. c2s' \in Seq(Byte) /\ ToServer' = ToServer \o bb
  BY <1>6, <1>7, <1>9, Joined, Zenon DEF ToServer
<1>11. ToServer \o <<>> = ToServer
  BY <1>9, ConcatProperties, ConcatEmptySeq DEF ToServer
<1>12. sent' \in Seq(Lengths)
  BY <1>6, AppendProperties DEF Types
<1>13. Types' /\ Buffers'
  BY <1>6, <1>8, <1>10, <1>12 DEF Types, Buffers, Fit, write_index
<1>14. ToClient' = ToClient
  BY <1>6 DEF ToClient
<1>15. SendStep(len)
  BY <1>3, <1>5, <1>6, <1>10, <1>11, <1>14, Zenon DEF SendStep
<1>16. QED
  BY <1>13, <1>15

\* read_to_buffer on the server only moves bytes.
LEMMA ServerReads ==
    ASSUME Types, Buffers, server_read
    PROVE  Types' /\ Buffers' /\ MoveStep
<1> DEFINE P == {"idle", "recv", "handle", "send"}
<1>1. PICK r \in read_to_buffer(server, sread, c2s, "handle") :
        /\ server' = r.proc /\ sread' = r.buf /\ c2s' = r.wire
        /\ UNCHANGED <<window, sent, client, cwrite, cread, received, replied, swrite, handled, s2c>>
  BY DEF server_read, cvars
<1>2. server \in [pc : P, count : Nat] /\ sread \in Buf /\ Fit(sread) /\ c2s \in Seq(Byte)
  BY DEF Types, Buffers
<1>3. "handle" \in P
  OBVIOUS
<1> HIDE DEF P
<1>4. /\ r.proc \in [pc : P, count : Nat]
      /\ r.buf \in Buf /\ Fit(r.buf) /\ r.wire \in Seq(Byte)
      /\ r.buf.bytes \o r.wire = sread.bytes \o c2s /\ Len(r.wire) <= Len(c2s)
  BY <1>2, <1>3, ReadKeeps, Zenon
<1>5. Types' /\ Buffers'
  BY <1>1, <1>4, Zenon DEF Types, Buffers, Fit, write_index, P
<1>6. MoveStep
  BY <1>1, <1>4, Zenon DEF MoveStep, ToServer, ToClient
<1>7. QED
  BY <1>5, <1>6

\* read_to_buffer on the client only moves bytes.
LEMMA ClientReads ==
    ASSUME Types, Buffers, client_read
    PROVE  Types' /\ Buffers' /\ MoveStep
<1> DEFINE P == {"idle", "recv", "look", "gone"}
<1>1. PICK r \in read_to_buffer(client, cread, s2c, "look") :
        /\ client' = r.proc /\ cread' = r.buf /\ s2c' = r.wire
        /\ UNCHANGED <<window, sent, cwrite, received, replied, server, sread, swrite, handled, c2s>>
  BY DEF client_read, svars
<1>2. client \in [pc : P, count : Nat] /\ cread \in Buf /\ Fit(cread) /\ s2c \in Seq(Byte)
  BY DEF Types, Buffers
<1>3. "look" \in P
  OBVIOUS
<1> HIDE DEF P
<1>4. /\ r.proc \in [pc : P, count : Nat]
      /\ r.buf \in Buf /\ Fit(r.buf) /\ r.wire \in Seq(Byte)
      /\ r.buf.bytes \o r.wire = cread.bytes \o s2c /\ Len(r.wire) <= Len(s2c)
  BY <1>2, <1>3, ReadKeeps, Zenon
<1>5. /\ r.buf.bytes \in Seq(Byte) /\ swrite.bytes \in Seq(Byte) /\ cread.bytes \in Seq(Byte)
      /\ Len(r.wire) \in Nat /\ Len(s2c) \in Nat
  <2>1. r.buf \in Buf /\ cread \in Buf /\ swrite \in Buf
    BY <1>2, <1>4, Zenon DEF Types
  <2>2. r.wire \in Seq(Byte) /\ s2c \in Seq(Byte)
    BY <1>2, <1>4, Zenon
  <2>3. QED
    BY <2>1, <2>2 DEF Buf, Buffer
<1>6. Len(r.wire) <= KERNEL
  BY <1>4, <1>5, ConnectionAssumption DEF Buffers
<1>7. Types' /\ Buffers'
  BY <1>1, <1>4, <1>6, Zenon DEF Types, Buffers, Fit, write_index, P
<1>8. ToClient' = ToClient
  <2>1. r.buf.bytes \o (r.wire \o swrite.bytes) = (r.buf.bytes \o r.wire) \o swrite.bytes
    BY <1>4, <1>5, Joined, Zenon
  <2>2. cread.bytes \o (s2c \o swrite.bytes) = (cread.bytes \o s2c) \o swrite.bytes
    BY <1>2, <1>5, Joined, Zenon
  <2>3. QED
    BY <1>1, <1>4, <2>1, <2>2, Zenon DEF ToClient
<1>9. MoveStep
  BY <1>1, <1>8, Zenon DEF MoveStep, ToServer
<1>10. QED
  BY <1>7, <1>9

\* handle_read takes the first message of the stream and appends its reply.
LEMMA Handles ==
    ASSUME Types, Buffers, Streams, handle
    PROVE  Types' /\ Buffers' /\ (MoveStep \/ \E rlen \in ReplyLengths : HandleStep(rlen))
<1> DEFINE b == sread.bytes
           n == b[1][1]
           len == sent[n]
           z == len + HEADER
<1>1. UNCHANGED <<window, sent, client, cwrite, cread, received, c2s, s2c>>
  BY DEF handle, cvars
<1>2. CASE /\ server' = [server EXCEPT !.pc = "send"]
           /\ UNCHANGED <<replied, sread, swrite, handled>>
  <2>1. server' \in [pc : {"idle", "recv", "handle", "send"}, count : Nat]
    BY <1>2 DEF Types
  <2>2. Types' /\ Buffers'
    BY <1>1, <1>2, <2>1, Zenon DEF Types, Buffers, Fit, write_index
  <2>3. MoveStep
    BY <1>1, <1>2, Zenon DEF MoveStep, ToServer, ToClient
  <2>4. QED
    BY <2>2, <2>3
<1>3. ASSUME Len(b) >= HEADER, Len(b) >= len + HEADER, NEW rlen \in ReplyLengths,
             handled' = Append(handled, Payload(sread, len)),
             replied' = Append(replied, rlen),
             swrite' = buffer_append(swrite, Packet(Len(replied) + 1, rlen)),
             sread' = recycle_read(sread, len + HEADER), server' = server
      PROVE  Types' /\ Buffers' /\ HandleStep(rlen)
  <2> DEFINE p == Packet(Len(replied) + 1, rlen)
  <2>1. /\ b \in Seq(Byte) /\ c2s \in Seq(Byte) /\ cread.bytes \in Seq(Byte) /\ s2c \in Seq(Byte)
        /\ swrite.bytes \in Seq(Byte)
    BY DEF Types, Buf, Buffer
  <2>2. sent \in Seq(Nat) /\ sread \in Buf /\ Fit(sread) /\ swrite \in Buf /\ Fit(swrite)
    BY NatLengths, Zenon DEF Types, Buffers
  <2>3. Len(replied) + 1 \in Nat /\ rlen \in Nat
    BY ConnectionAssumption DEF Types
  <2>4. p \in Seq(Byte)
    BY <2>3, PacketBytes, Zenon
  <2>5. p = Packet(Len(replied) + 1, rlen)
    OBVIOUS
  <2> HIDE DEF p
  <2>6. ToServer = b \o c2s /\ Framed(b \o c2s, sent) /\ Len(b) >= HEADER /\ Len(b) >= sent[b[1][1]] + HEADER
    BY <1>3, Zenon DEF Streams, ToServer
  <2>7. /\ ToServer # <<>> /\ ToServer[1][1] = n /\ len \in Nat /\ z \in Nat /\ z <= Len(b)
        /\ SubSeq(b, HEADER + 1, HEADER + len) = Text(n, len) /\ Text(n, len) \in Seq(Byte)
        /\ SubSeq(b, z + 1, Len(b)) \o c2s = SubSeq(ToServer, Size(sent, n) + 1, Len(ToServer))
    BY <2>1, <2>2, <2>6, FrontPacket, Zenon
  <2>8. sread' = recycle_read(sread, z) /\ Payload(sread, len) = Text(n, len)
    BY <1>3, <2>7, Zenon DEF Payload
  <2> HIDE DEF z, len
  <2>9. sread' \in Buf /\ Fit(sread') /\ sread'.bytes = SubSeq(b, z + 1, Len(b))
    BY <2>2, <2>7, <2>8, ReadFits, Zenon
  <2>10. ToServer' = SubSeq(ToServer, Size(sent, n) + 1, Len(ToServer))
    BY <1>1, <2>7, <2>9, Zenon DEF ToServer
  <2>11. /\ swrite' \in Buf /\ Fit(swrite')
         /\ swrite'.bytes = IF Writeable(swrite) < Len(p) THEN swrite.bytes ELSE swrite.bytes \o p
    BY <1>3, <2>2, <2>4, <2>5, AppendFits, Zenon
  <2>12. swrite'.bytes = swrite.bytes \/ swrite'.bytes = swrite.bytes \o p
    BY <2>11, Zenon
  <2>13. ToClient' = ToClient \/ ToClient' = ToClient \o p
    <3> DEFINE w == s2c \o swrite.bytes
    <3>0. \A x, y \in Seq(Byte) : x \o (y \o p) = (x \o y) \o p
      BY <2>4, Joined
    <3>1. s2c \o (swrite.bytes \o p) = w \o p
      BY <2>1, <3>0, Zenon
    <3>a. w \in Seq(Byte)
      BY <2>1, ConcatProperties
    <3>b. ToClient = cread.bytes \o w
      BY DEF ToClient
    <3> HIDE DEF w
    <3>c. cread.bytes \o (w \o p) = (cread.bytes \o w) \o p
      BY <2>1, <3>0, <3>a, Zenon
    <3>2. cread.bytes \o (w \o p) = ToClient \o p
      BY <3>b, <3>c, Zenon
    <3>3. QED
      BY <1>1, <2>12, <3>1, <3>2, Zenon DEF ToClient, w
  <2>14. handled' \in Seq(Seq(Byte)) /\ replied' \in Seq(ReplyLengths)
    BY <1>3, <2>7, <2>8, AppendProperties DEF Types
  <2>15. Types' /\ Buffers'
    BY <1>1, <1>3, <2>9, <2>11, <2>14, Zenon DEF Types, Buffers, Fit, write_index
  <2>16. HandleStep(rlen)
    BY <1>1, <1>3, <2>5, <2>7, <2>8, <2>10, <2>13, Zenon DEF HandleStep, len
  <2>17. QED
    BY <2>15, <2>16
<1>4. QED
  BY <1>2, <1>3, Zenon DEF handle, Header, Complete

\* client_recv takes the first reply of the stream.
LEMMA Receives ==
    ASSUME Types, Buffers, Streams, client_look
    PROVE  Types' /\ Buffers' /\ (MoveStep \/ ReceiveStep)
<1> DEFINE b == cread.bytes
           n == b[1][1]
           len == replied[n]
           z == len + HEADER
           w == s2c \o swrite.bytes
<1>1. UNCHANGED <<window, sent, cwrite, replied, server, sread, swrite, handled, c2s, s2c>>
  BY DEF client_look, svars
<1>2. CASE /\ client' \in {[client EXCEPT !.pc = "gone"], [pc |-> "recv", count |-> 0]}
           /\ UNCHANGED <<cread, received>>
  <2>1. client' \in [pc : {"idle", "recv", "look", "gone"}, count : Nat]
    <3>1. CASE client' = [client EXCEPT !.pc = "gone"]
      BY <3>1 DEF Types
    <3>2. CASE client' = [pc |-> "recv", count |-> 0]
      BY <3>2
    <3>3. QED
      BY <1>2, <3>1, <3>2, Zenon
  <2>2. Types' /\ Buffers'
    BY <1>1, <1>2, <2>1, Zenon DEF Types, Buffers, Fit, write_index
  <2>3. MoveStep
    BY <1>1, <1>2, Zenon DEF MoveStep, ToServer, ToClient
  <2>4. QED
    BY <2>2, <2>3
<1>3. ASSUME Len(b) >= HEADER, Len(b) >= len + HEADER, client' = Idle,
             cread' = recycle_read(cread, len + HEADER),
             received' = Append(received, Payload(cread, len))
      PROVE  Types' /\ Buffers' /\ ReceiveStep
  <2>1. b \in Seq(Byte) /\ w \in Seq(Byte)
    BY DEF Types, Buf, Buffer
  <2>2. replied \in Seq(Nat) /\ cread \in Buf /\ Fit(cread)
    BY NatLengths, Zenon DEF Types, Buffers
  <2>3. ToClient = b \o w /\ Framed(b \o w, replied) /\ Len(b) >= HEADER /\ Len(b) >= replied[b[1][1]] + HEADER
    BY <1>3, Zenon DEF Streams, ToClient
  <2>4. w = s2c \o swrite.bytes
    OBVIOUS
  <2> HIDE DEF w
  <2>5. /\ ToClient # <<>> /\ ToClient[1][1] = n /\ len \in Nat /\ z \in Nat /\ z <= Len(b)
        /\ SubSeq(b, HEADER + 1, HEADER + len) = Text(n, len) /\ Text(n, len) \in Seq(Byte)
        /\ SubSeq(b, z + 1, Len(b)) \o w = SubSeq(ToClient, Size(replied, n) + 1, Len(ToClient))
    BY <2>1, <2>2, <2>3, FrontPacket, Zenon
  <2>6. cread' = recycle_read(cread, z) /\ Payload(cread, len) = Text(n, len)
    BY <1>3, <2>5, Zenon DEF Payload
  <2> HIDE DEF z, len
  <2>7. cread' \in Buf /\ Fit(cread') /\ cread'.bytes = SubSeq(b, z + 1, Len(b))
    BY <2>2, <2>5, <2>6, ReadFits, Zenon
  <2>8. ToClient' = SubSeq(ToClient, Size(replied, n) + 1, Len(ToClient))
    BY <1>1, <2>4, <2>5, <2>7, Zenon DEF ToClient
  <2>9. received' \in Seq(Seq(Byte))
    BY <1>3, <2>5, <2>6, AppendProperties DEF Types
  <2>10. client' \in [pc : {"idle", "recv", "look", "gone"}, count : Nat]
    BY <1>3 DEF Idle
  <2>11. Types' /\ Buffers'
    BY <1>1, <2>7, <2>9, <2>10, Zenon DEF Types, Buffers, Fit, write_index
  <2>12. ReceiveStep
    BY <1>1, <1>3, <2>5, <2>6, <2>8, Zenon DEF ReceiveStep, ToServer, len
  <2>13. QED
    BY <2>11, <2>12
<1>4. QED
  BY <1>2, <1>3, Zenon DEF client_look, Header, Complete

\* send_buffer only moves bytes.
LEMMA SendsBuffer ==
    ASSUME Types, Buffers, send_buffer
    PROVE  Types' /\ Buffers' /\ MoveStep
<1> DEFINE b == swrite.bytes
           n == Taken(Len(b))
           c == SubSeq(b, 1, n)
           d == SubSeq(b, n + 1, Len(b))
<1>1. /\ s2c' = s2c \o c /\ swrite' = recycle_read(swrite, n)
      /\ server' = IF n = 0 THEN Idle ELSE server
      /\ UNCHANGED <<window, sent, client, cwrite, cread, received, replied, sread, handled, c2s>>
  BY DEF send_buffer, cvars
<1>2. /\ b \in Seq(Byte) /\ s2c \in Seq(Byte) /\ cread.bytes \in Seq(Byte)
      /\ Len(b) \in Nat /\ Len(s2c) \in Nat
      /\ swrite \in Buf /\ Fit(swrite)
  BY DEF Types, Buffers, Buf, Buffer
<1>3. n \in Nat /\ n \in 0 .. Len(b) /\ n <= Len(b) /\ Len(s2c) + n <= KERNEL
  BY <1>2, ConnectionAssumption DEF Taken, Buffers
<1> HIDE DEF n
<1>4. /\ SubSeq(b, 1, n) \in Seq(Byte) /\ SubSeq(b, n + 1, Len(b)) \in Seq(Byte)
      /\ Len(SubSeq(b, 1, n)) = n /\ SubSeq(b, 1, n) \o SubSeq(b, n + 1, Len(b)) = b
  BY <1>2, <1>3, Cut, Zenon
<1>5. c \in Seq(Byte) /\ d \in Seq(Byte) /\ Len(c) = n /\ c \o d = b
  BY <1>4, Zenon
<1>6. swrite' \in Buf /\ Fit(swrite') /\ swrite'.bytes = d
  BY <1>1, <1>2, <1>3, ReadFits, Zenon
<1> HIDE DEF b, c, d
<1>7. s2c' \in Seq(Byte) /\ Len(s2c') <= KERNEL
  <2>1. c \in Seq(Byte) /\ Len(c) = n
    BY <1>5, Zenon
  <2>2. s2c \o c \in Seq(Byte) /\ Len(s2c \o c) = Len(s2c) + n
    BY <1>2, <2>1, ConcatProperties
  <2>3. QED
    BY <1>1, <1>3, <2>2, Zenon
<1>8. server' \in [pc : {"idle", "recv", "handle", "send"}, count : Nat]
  BY <1>1 DEF Types, Idle
<1>9. Types' /\ Buffers'
  BY <1>1, <1>6, <1>7, <1>8, Zenon DEF Types, Buffers, Fit, write_index
<1>10. s2c' \o swrite'.bytes = s2c \o swrite.bytes
  <2>1. s2c \o (c \o d) = (s2c \o c) \o d
    BY <1>2, <1>5, Joined, Zenon
  <2>2. QED
    BY <1>1, <1>5, <1>6, <2>1, Zenon DEF b
<1>11. MoveStep
  BY <1>1, <1>10, Zenon DEF MoveStep, ToServer, ToClient
<1>12. QED
  BY <1>9, <1>11

\* Every step keeps types and buffers, and is one of the four on the streams.
LEMMA Effects ==
    ASSUME Types, Buffers, Streams, [Next]_vars
    PROVE  Types' /\ Buffers' /\ Step
<1>1. ASSUME NEW len \in Lengths, client_send(len) PROVE Types' /\ Buffers' /\ Step
  BY <1>1, Sends, Zenon DEF Step
<1>2. CASE client_recv
  <2>1. client' \in [pc : {"idle", "recv", "look", "gone"}, count : Nat]
    BY <1>2 DEF client_recv
  <2>2. UNCHANGED <<window, sent, cwrite, cread, received, replied, server, sread, swrite, handled, c2s, s2c>>
    BY <1>2 DEF client_recv, svars
  <2>3. QED
    BY <2>1, <2>2, Zenon DEF Types, Buffers, Fit, write_index, Step, MoveStep, ToServer, ToClient
<1>3. CASE client_read
  BY <1>3, ClientReads, Zenon DEF Step
<1>4. CASE client_look
  BY <1>4, Receives, Zenon DEF Step
<1>5. CASE handle_read
  <2>1. server' \in [pc : {"idle", "recv", "handle", "send"}, count : Nat]
    BY <1>5 DEF handle_read
  <2>2. UNCHANGED <<window, sent, client, cwrite, cread, received, replied, sread, swrite, handled, c2s, s2c>>
    BY <1>5 DEF handle_read, cvars
  <2>3. QED
    BY <2>1, <2>2, Zenon DEF Types, Buffers, Fit, write_index, Step, MoveStep, ToServer, ToClient
<1>6. CASE server_read
  BY <1>6, ServerReads, Zenon DEF Step
<1>7. CASE handle
  BY <1>7, Handles, Zenon DEF Step
<1>8. CASE send_buffer
  BY <1>8, SendsBuffer, Zenon DEF Step
<1>9. CASE UNCHANGED vars
  <2>1. UNCHANGED <<window, sent, client, cwrite, cread, received, replied, server, sread, swrite, handled,
                    c2s, s2c>>
    BY <1>9 DEF vars, cvars, svars
  <2>2. QED
    BY <2>1, Zenon DEF Types, Buffers, Fit, write_index, Step, MoveStep, ToServer, ToClient
<1>10. QED
  BY <1>1, <1>2, <1>3, <1>4, <1>5, <1>6, <1>7, <1>8, <1>9, Zenon DEF Next, Client, Server

-----------------------------------------------------------------------------
(* Types, buffers and streams are invariant *)

\* What a stream begins with when a packet is put behind it.
LEMMA FirstOfAdded ==
    ASSUME NEW s \in Seq(Byte), NEW m \in Nat, NEW len \in Nat
    PROVE  LET t == s \o Packet(m, len)
           IN  /\ t \in Seq(Byte) /\ Len(t) = Len(s) + (HEADER + len)
               /\ t # <<>> /\ t[1][1] = IF s = <<>> THEN m ELSE s[1][1]
               /\ \A i \in 1 .. Len(s) : t[i] = s[i]
               /\ \A i \in 1 .. HEADER + len : t[Len(s) + i] = <<m, i>>
<1> DEFINE p == Packet(m, len)
           t == s \o p
<1>1. p \in Seq(Byte) /\ Len(p) = HEADER + len /\ \A i \in 1 .. HEADER + len : p[i] = <<m, i>>
  BY PacketBytes, Zenon
<1>2. HEADER \in Nat \ {0} /\ HEADER + len \in Nat \ {0} /\ Len(s) \in Nat
  BY BufferAssumption
<1> HIDE DEF p
<1>3. /\ t \in Seq(Byte) /\ Len(t) = Len(s) + (HEADER + len)
      /\ \A i \in 1 .. Len(s) + (HEADER + len) : t[i] = IF i <= Len(s) THEN s[i] ELSE p[i - Len(s)]
  BY <1>1, ConcatProperties
<1> HIDE DEF t
<1>4. \A i \in 1 .. Len(s) : t[i] = s[i]
  BY <1>2, <1>3
<1>5. \A i \in 1 .. HEADER + len : t[Len(s) + i] = <<m, i>>
  <2> TAKE i \in 1 .. HEADER + len
  <2>1. /\ Len(s) + i \in 1 .. Len(s) + (HEADER + len)
        /\ ~(Len(s) + i <= Len(s)) /\ Len(s) + i - Len(s) = i
    BY <1>2
  <2>2. QED
    BY <1>1, <1>3, <2>1
<1>6. t # <<>>
  BY <1>2, <1>3
<1>7. t[1][1] = IF s = <<>> THEN m ELSE s[1][1]
  <2>1. CASE s = <<>>
    <3>1. Len(s) = 0 /\ 1 \in 1 .. HEADER + len
      BY <1>2, <2>1
    <3>2. t[0 + 1] = <<m, 1>>
      BY <1>5, <3>1
    <3>3. QED
      BY <2>1, <3>2
  <2>2. CASE s # <<>>
    <3>1. 1 \in 1 .. Len(s)
      BY <1>2, <2>2
    <3>2. QED
      BY <1>4, <2>2, <3>1
  <2>3. QED
    BY <2>1, <2>2
<1>8. QED
  BY <1>3, <1>4, <1>5, <1>6, <1>7, Zenon DEF t, p

\* A message goes to the server behind all that were handled, and what is handled
\* was sent.
Order ==
    /\ Len(handled) = Len(replied) /\ Len(replied) <= Len(sent)
    /\ Len(sent) <= MaxSent /\ Len(sent) <= Len(received) + window
    /\ ToServer # <<>> => Len(replied) < ToServer[1][1]

Inv == Types /\ Buffers /\ Streams /\ Order

\* Both streams stay whole packets in order.
LEMMA StreamsKept ==
    ASSUME Types, Streams, Step
    PROVE  Streams'
<1>1. sent \in Seq(Nat) /\ replied \in Seq(Nat)
  BY NatLengths, Zenon DEF Types
<1>2. Lengths \subseteq Nat /\ ReplyLengths \subseteq Nat
  BY ConnectionAssumption
<1>3. Framed(ToServer, sent) /\ Framed(ToClient, replied)
  BY DEF Streams
<1>4. ASSUME NEW len \in Lengths, SendStep(len) PROVE Streams'
  <2>1. len \in Nat
    BY <1>2
  <2>2. /\ Framed(ToServer, Append(sent, len))
        /\ Framed(ToServer \o Packet(Len(sent) + 1, len), Append(sent, len))
    BY <1>1, <1>3, <2>1, PacketAdded, PacketDropped, Zenon
  <2>3. QED
    BY <1>3, <1>4, <2>2, Zenon DEF SendStep, Streams
<1>5. ASSUME NEW rlen \in ReplyLengths, HandleStep(rlen) PROVE Streams'
  <2>1. rlen \in Nat
    BY <1>2
  <2>2. /\ Framed(ToClient, Append(replied, rlen))
        /\ Framed(ToClient \o Packet(Len(replied) + 1, rlen), Append(replied, rlen))
    BY <1>1, <1>3, <2>1, PacketAdded, PacketDropped, Zenon
  <2>3. Framed(SubSeq(ToServer, Size(sent, ToServer[1][1]) + 1, Len(ToServer)), sent)
    BY <1>1, <1>3, <1>5, PacketTaken, Zenon DEF HandleStep
  <2>4. QED
    BY <1>5, <2>2, <2>3, Zenon DEF HandleStep, Streams
<1>6. CASE ReceiveStep
  <2>1. Framed(SubSeq(ToClient, Size(replied, ToClient[1][1]) + 1, Len(ToClient)), replied)
    BY <1>1, <1>3, <1>6, PacketTaken, Zenon DEF ReceiveStep
  <2>2. QED
    BY <1>3, <1>6, <2>1, Zenon DEF ReceiveStep, Streams
<1>7. CASE MoveStep
  BY <1>3, <1>7, Zenon DEF MoveStep, Streams
<1>8. QED
  BY <1>4, <1>5, <1>6, <1>7, Zenon DEF Step

\* Messages are handled in order and only once sent.
LEMMA OrderKept ==
    ASSUME Types, Streams, Order, Step
    PROVE  Order'
<1>1. /\ sent \in Seq(Nat) /\ replied \in Seq(Nat)
      /\ Framed(ToServer, sent) /\ ToServer \in Seq(Byte)
  BY NatLengths, Zenon DEF Types, Streams, Framed
<1>2. /\ Len(sent) \in Nat /\ Len(replied) \in Nat /\ Len(handled) \in Nat /\ Len(received) \in Nat
      /\ window \in Nat /\ MaxSent \in Nat
  BY ConnectionAssumption DEF Types
<1>3. ASSUME NEW len \in Lengths, SendStep(len) PROVE Order'
  <2>1. len \in Nat /\ Len(sent) + 1 \in Nat
    BY <1>2, ConnectionAssumption
  <2>2. Len(sent') = Len(sent) + 1
    BY <1>3, <1>1, <2>1, AppendProperties DEF SendStep
  <2>3. UNCHANGED <<window, replied, handled, received>> /\ Len(sent) < MaxSent
        /\ Len(sent) < Len(received) + window
    BY <1>3 DEF SendStep
  <2>4. ToServer' # <<>> => Len(replied) < ToServer'[1][1]
    <3>1. CASE ToServer' = ToServer
      BY <3>1 DEF Order
    <3>2. CASE ToServer' = ToServer \o Packet(Len(sent) + 1, len)
      <4>1. (ToServer \o Packet(Len(sent) + 1, len))[1][1]
              = IF ToServer = <<>> THEN Len(sent) + 1 ELSE ToServer[1][1]
        BY <1>1, <2>1, FirstOfAdded, Zenon
      <4>2. ToServer'[1][1] = IF ToServer = <<>> THEN Len(sent) + 1 ELSE ToServer[1][1]
        BY <3>2, <4>1, Zenon
      <4> HIDE DEF ToServer
      <4>3. Len(replied) < Len(sent) + 1
        BY <1>2 DEF Order
      <4>4. QED
        BY <4>2, <4>3, Zenon DEF Order
    <3>3. QED
      BY <1>3, <3>1, <3>2, Zenon DEF SendStep
  <2>5. QED
    BY <1>2, <2>2, <2>3, <2>4 DEF Order
<1>4. ASSUME NEW rlen \in ReplyLengths, HandleStep(rlen) PROVE Order'
  <2> DEFINE n == ToServer[1][1]
             r == SubSeq(ToServer, Size(sent, n) + 1, Len(ToServer))
  <2>1. /\ ToServer # <<>> /\ ToServer' = r
        /\ UNCHANGED <<window, sent, received>>
    BY <1>4 DEF HandleStep
  <2>2. n \in 1 .. Len(sent)
    BY <1>1, <2>1, FirstPacket, Zenon
  <2>3. Framed(r, sent) /\ (r # <<>> => r[1][1] > n)
    BY <1>1, <2>1, PacketTaken, Zenon
  <2>4. Len(handled') = Len(handled) + 1 /\ Len(replied') = Len(replied) + 1
    BY <1>4, AppendProperties DEF HandleStep, Types
  <2>5. Len(replied) < n
    BY <2>1, Zenon DEF Order
  <2> HIDE DEF r, n
  <2>6. Len(replied') <= n
    BY <1>2, <2>2, <2>4, <2>5
  <2>a. r # <<>> => Len(replied') < r[1][1]
    <3>1. ASSUME r # <<>> PROVE Len(replied') < r[1][1]
      <4>1. r \in Seq(Byte)
        BY <2>3 DEF Framed
      <4>2. r[1][1] \in Nat
        BY <3>1, <4>1, ElementOfSeq DEF Byte
      <4>3. QED
        BY <1>2, <2>2, <2>3, <2>4, <2>6, <3>1, <4>2
    <3>2. QED
      BY <3>1
  <2>7. QED
    <3>1. Len(replied') <= Len(sent)
      BY <1>2, <2>2, <2>4, <2>6
    <3>2. Len(handled') = Len(replied')
      BY <2>4 DEF Order
    <3>3. QED
      BY <2>1, <2>a, <3>1, <3>2, Zenon DEF Order
<1>5. CASE ReceiveStep
  <2>1. Len(received') = Len(received) + 1
    <3>1. received' = Append(received, Text(ToClient[1][1], replied[ToClient[1][1]]))
      BY <1>5 DEF ReceiveStep
    <3>2. QED
      BY <3>1 DEF Types
  <2>2. UNCHANGED <<window, sent, replied, handled, ToServer>>
    BY <1>5 DEF ReceiveStep
  <2>3. Len(sent) <= Len(received) + 1 + window
    BY <1>2 DEF Order
  <2>4. QED
    BY <2>1, <2>2, <2>3, Zenon DEF Order
<1>6. CASE MoveStep
  BY <1>6, Zenon DEF MoveStep, Order
<1>7. QED
  BY <1>3, <1>4, <1>5, <1>6, Zenon DEF Step

\* The invariant holds at the start.
LEMMA InvInit == Init => Inv
<1> SUFFICES ASSUME Init PROVE Inv
  OBVIOUS
<1>1. ToServer = <<>> /\ ToClient = <<>>
  BY DEF Init, ToServer, ToClient, init_buffer
<1>2. Types /\ Buffers
  BY EmptyBuffer, ConnectionAssumption DEF Init, Types, Buffers, Idle
<1>3. Streams
  BY <1>1 DEF Streams, Framed, InPacket
<1>4. Order
  BY <1>1, ConnectionAssumption DEF Init, Order
<1>5. QED
  BY <1>2, <1>3, <1>4 DEF Inv

\* The invariant is inductive, and every step is one on the streams.
LEMMA InvNext == Inv /\ [Next]_vars => Inv' /\ Step
  BY Effects, StreamsKept, OrderKept, Zenon DEF Inv

\* The invariant holds always.
LEMMA Invariance == Spec => []Inv
  BY InvInit, InvNext, PTL DEF Spec

\* tcp_buffer.c: however messages are cut, put together, dropped and sent in
\* part, the indices of all four buffers stay where a further message of half a
\* buffer has room.
THEOREM IndicesAlwaysFit == Spec => []IndicesFit
<1>1. Inv => IndicesFit
  BY DEF Inv, Buffers, IndicesFit, Fit
<1>2. QED
  BY <1>1, Invariance, PTL

\* The parts of a stream have its labels.
LEMMA FramedParts ==
    ASSUME NEW lens, NEW a \in Seq(Byte), NEW b \in Seq(Byte), Framed(a \o b, lens),
           Len(lens) \in Nat, Len(lens) <= MaxSent
    PROVE  a \in Seq(Bytes) /\ b \in Seq(Bytes)
<1> DEFINE s == a \o b
<1>1. /\ s \in Seq(Byte) /\ Len(s) = Len(a) + Len(b)
      /\ \A i \in 1 .. Len(a) + Len(b) : s[i] = IF i <= Len(a) THEN a[i] ELSE b[i - Len(a)]
  BY ConcatProperties
<1>2. \A k \in 1 .. Len(s) : s[k][1] \in 1 .. Len(lens)
  BY DEF Framed, InPacket
<1>3. Len(a) \in Nat /\ Len(b) \in Nat /\ MaxSent \in Nat
  BY ConnectionAssumption
<1> HIDE DEF s
<1>4. \A k \in 1 .. Len(s) : s[k] \in Bytes
  <2> TAKE k \in 1 .. Len(s)
  <2>1. s[k] \in Byte
    BY <1>1, ElementOfSeq
  <2>2. s[k][1] \in 1 .. MaxSent
    BY <1>2, <1>3
  <2>3. QED
    BY <2>1, <2>2 DEF Byte, Bytes
<1>5. \A i \in 1 .. Len(a) : a[i] \in Bytes
  <2> TAKE i \in 1 .. Len(a)
  <2>1. i \in 1 .. Len(s) /\ s[i] = a[i]
    BY <1>1, <1>3
  <2>2. QED
    BY <1>4, <2>1
<1>6. \A i \in 1 .. Len(b) : b[i] \in Bytes
  <2> TAKE i \in 1 .. Len(b)
  <2>1. Len(a) + i \in 1 .. Len(a) + Len(b) /\ ~(Len(a) + i <= Len(a)) /\ Len(a) + i - Len(a) = i
    BY <1>3
  <2>2. Len(a) + i \in 1 .. Len(s) /\ s[Len(a) + i] = b[i]
    BY <1>1, <2>1
  <2>3. QED
    BY <1>4, <2>2
<1>7. QED
  BY <1>5, <1>6

\* Buffers, sockets and steps have their types.
THEOREM TypesCorrect == Spec => []TypeOK
<1> SUFFICES Inv => TypeOK
  BY Invariance, PTL
<1> SUFFICES ASSUME Inv PROVE TypeOK
  OBVIOUS
<1>1. /\ sread.bytes \in Seq(Byte) /\ c2s \in Seq(Byte) /\ cread.bytes \in Seq(Byte)
      /\ s2c \in Seq(Byte) /\ swrite.bytes \in Seq(Byte) /\ s2c \o swrite.bytes \in Seq(Byte)
      /\ Len(sent) \in Nat /\ Len(replied) \in Nat /\ MaxSent \in Nat
  <2>1. /\ sread.bytes \in Seq(Byte) /\ c2s \in Seq(Byte) /\ cread.bytes \in Seq(Byte)
        /\ s2c \in Seq(Byte) /\ swrite.bytes \in Seq(Byte)
        /\ Len(sent) \in Nat /\ Len(replied) \in Nat /\ MaxSent \in Nat
    BY ConnectionAssumption DEF Inv, Types, Buf, Buffer
  <2>2. QED
    BY <2>1, ConcatProperties
<1>2. Len(sent) <= MaxSent /\ Len(replied) <= MaxSent
  BY <1>1 DEF Inv, Order
<1>3. sread.bytes \in Seq(Bytes) /\ c2s \in Seq(Bytes)
  BY <1>1, <1>2, FramedParts, Zenon DEF Inv, Streams, ToServer
<1>4. cread.bytes \in Seq(Bytes) /\ s2c \o swrite.bytes \in Seq(Bytes)
  BY <1>1, <1>2, FramedParts, Zenon DEF Inv, Streams, ToClient
<1>5. s2c \in Seq(Bytes) /\ swrite.bytes \in Seq(Bytes)
  <2> DEFINE s == s2c \o swrite.bytes
  <2>1. /\ Len(s) = Len(s2c) + Len(swrite.bytes)
        /\ \A i \in 1 .. Len(s2c) + Len(swrite.bytes) :
              s[i] = IF i <= Len(s2c) THEN s2c[i] ELSE swrite.bytes[i - Len(s2c)]
    BY <1>1, ConcatProperties
  <2>2. \A i \in 1 .. Len(s) : s[i] \in Bytes
    BY <1>4, ElementOfSeq
  <2>3. Len(s2c) \in Nat /\ Len(swrite.bytes) \in Nat
    BY <1>1
  <2> HIDE DEF s
  <2>4. \A i \in 1 .. Len(s2c) : i \in 1 .. Len(s) /\ s[i] = s2c[i]
    BY <2>1, <2>3
  <2>5. \A i \in 1 .. Len(swrite.bytes) : /\ Len(s2c) + i \in 1 .. Len(s)
                                          /\ s[Len(s2c) + i] = swrite.bytes[i]
    <3> TAKE i \in 1 .. Len(swrite.bytes)
    <3>1. /\ Len(s2c) + i \in 1 .. Len(s2c) + Len(swrite.bytes)
          /\ ~(Len(s2c) + i <= Len(s2c)) /\ Len(s2c) + i - Len(s2c) = i
      BY <2>3
    <3>2. QED
      BY <2>1, <3>1
  <2>6. (\A i \in 1 .. Len(s2c) : s2c[i] \in Bytes)
        /\ \A i \in 1 .. Len(swrite.bytes) : swrite.bytes[i] \in Bytes
    BY <2>2, <2>4, <2>5, Zenon
  <2>7. ASSUME NEW q \in Seq(Byte), \A i \in 1 .. Len(q) : q[i] \in Bytes
        PROVE  q \in Seq(Bytes)
    BY <2>7
  <2>8. QED
    BY <1>1, <2>6, <2>7, Zenon
<1>6. cwrite.bytes \in Seq(Bytes)
  BY DEF Inv, Buffers
<1>7. /\ cwrite \in Buffer(Bytes) /\ cread \in Buffer(Bytes)
      /\ sread \in Buffer(Bytes) /\ swrite \in Buffer(Bytes)
  <2>1. ASSUME NEW b \in Buf, b.bytes \in Seq(Bytes) PROVE b \in Buffer(Bytes)
    BY <2>1 DEF Buf, Buffer
  <2>2. QED
    BY <1>3, <1>4, <1>5, <1>6, <2>1 DEF Inv, Types
<1>8. QED
  BY <1>3, <1>5, <1>7 DEF Inv, Types, TypeOK

-----------------------------------------------------------------------------
(* Messages are handled as they were sent *)

\* A packet put behind a stream that misses none leaves one that misses none.
LEMMA AddContiguous ==
    ASSUME NEW lens \in Seq(Nat), NEW s \in Seq(Byte), NEW from \in Nat,
           Contiguous(s, lens, from), NEW len \in Nat
    PROVE  Contiguous(s \o Packet(Len(lens) + 1, len), Append(lens, len), from)
<1> DEFINE m == Len(lens) + 1
           t == s \o Packet(m, len)
           more == Append(lens, len)
<1>1. m \in Nat /\ Len(more) = m /\ Len(s) \in Nat /\ HEADER + len \in Nat \ {0}
  BY AppendProperties, BufferAssumption
<1>a. m = Len(lens) + 1 /\ Len(lens) \in Nat
  OBVIOUS
<1>b. m \in Nat
  BY <1>1
<1> HIDE DEF m
<1>2. /\ t \in Seq(Byte) /\ Len(t) = Len(s) + (HEADER + len)
      /\ t # <<>> /\ t[1][1] = IF s = <<>> THEN m ELSE s[1][1]
      /\ \A i \in 1 .. Len(s) : t[i] = s[i]
      /\ \A i \in 1 .. HEADER + len : t[Len(s) + i] = <<m, i>>
  <2>1. t \in Seq(Byte)
    BY <1>b, FirstOfAdded, Zenon
  <2>2. Len(t) = Len(s) + (HEADER + len)
    BY <1>b, FirstOfAdded, Zenon
  <2>3. t # <<>>
    BY <1>b, FirstOfAdded, Zenon
  <2>4. t[1][1] = IF s = <<>> THEN m ELSE s[1][1]
    BY <1>b, FirstOfAdded, Zenon
  <2>5. \A i \in 1 .. Len(s) : t[i] = s[i]
    BY <1>b, FirstOfAdded, Zenon
  <2>6. \A i \in 1 .. HEADER + len : t[Len(s) + i] = <<m, i>>
    BY <1>b, FirstOfAdded, Zenon
  <2> HIDE DEF t
  <2>7. QED
    BY <2>1, <2>2, <2>3, <2>4, <2>5, <2>6
<1> HIDE DEF t, more
<1>3. t[1][1] = from + 1
  BY <1>2, <1>a DEF Contiguous
<1>4. t[Len(t)][1] = m
  <2>1. HEADER + len \in 1 .. HEADER + len
    BY <1>1
  <2>2. t[Len(s) + (HEADER + len)] = <<m, HEADER + len>>
    BY <1>2, <2>1, Zenon
  <2>3. QED
    BY <1>2, <2>2
<1>5. ASSUME NEW k \in 1 .. Len(t) - 1 PROVE t[k + 1][1] <= t[k][1] + 1
  <2>1. k \in Nat \ {0} /\ k <= Len(s) + (HEADER + len) - 1
    BY <1>1, <1>2
  <2>2. CASE k < Len(s)
    <3>1. k \in 1 .. Len(s) - 1 /\ k \in 1 .. Len(s) /\ k + 1 \in 1 .. Len(s)
      BY <1>1, <2>1, <2>2
    <3>2. QED
      BY <1>2, <3>1 DEF Contiguous
  <2>3. CASE k = Len(s)
    <3>1. k \in 1 .. Len(s) /\ 1 \in 1 .. HEADER + len /\ s # <<>>
      BY <1>1, <2>1, <2>3
    <3>2. t[k + 1] = <<m, 1>> /\ t[k] = s[k]
      BY <1>2, <2>3, <3>1
    <3>3. s[k][1] = Len(lens)
      BY <2>3, <3>1 DEF Contiguous
    <3>4. QED
      BY <1>a, <3>2, <3>3
  <2>4. CASE k > Len(s)
    <3>1. /\ k - Len(s) \in 1 .. HEADER + len /\ k + 1 - Len(s) \in 1 .. HEADER + len
          /\ Len(s) + (k - Len(s)) = k /\ Len(s) + (k + 1 - Len(s)) = k + 1
      BY <1>1, <2>1, <2>4
    <3>2. t[k] = <<m, k - Len(s)>> /\ t[k + 1] = <<m, k + 1 - Len(s)>>
      BY <1>2, <3>1
    <3>3. QED
      BY <1>1, <3>2
  <2>5. QED
    BY <1>1, <2>1, <2>2, <2>3, <2>4
<1>6. Contiguous(t, more, from)
  BY <1>1, <1>2, <1>3, <1>4, <1>5 DEF Contiguous
<1>7. QED
  BY <1>6 DEF t, more, m

\* So does taking the first packet.
LEMMA TakeContiguous ==
    ASSUME NEW lens \in Seq(Nat), NEW s, Framed(s, lens), s # <<>>, NEW from \in Nat,
           Contiguous(s, lens, from)
    PROVE  Contiguous(SubSeq(s, Size(lens, s[1][1]) + 1, Len(s)), lens, from + 1)
<1> DEFINE n == s[1][1]
           z == Size(lens, n)
           r == SubSeq(s, z + 1, Len(s))
<1>1. /\ Framed(r, lens) /\ Len(r) = Len(s) - z
      /\ \A k \in 1 .. Len(s) - z : r[k] = s[z + k]
      /\ r # <<>> => r[1][1] > n
  BY PacketTaken, Zenon
<1>2. /\ Len(s) \in Nat \ {0} /\ n \in 1 .. Len(lens) /\ z \in HEADER .. Len(s)
      /\ \A j \in 1 .. z : s[j] = <<n, j>>
  BY FirstPacket, Zenon
<1> HIDE DEF r, z
<1>3. HEADER \in Nat \ {0} /\ n = from + 1
  BY BufferAssumption DEF Contiguous
<1> HIDE DEF n
<1>4. z \in Nat \ {0} /\ z <= Len(s) /\ z \in 1 .. z
  BY <1>2, <1>3
<1>5. s[z][1] = n
  BY <1>2, <1>4
<1>6. r \in Seq(Byte)
  BY <1>1 DEF Framed
<1>7. ASSUME r = <<>> PROVE from + 1 = Len(lens)
  <2>1. Len(r) = 0
    BY <1>7
  <2>2. z = Len(s)
    BY <1>1, <1>2, <1>4, <2>1
  <2>3. QED
    BY <1>3, <1>5, <2>2 DEF Contiguous
<1>8. ASSUME r # <<>>
      PROVE  /\ r[1][1] = from + 1 + 1 /\ r[Len(r)][1] = Len(lens)
             /\ \A k \in 1 .. Len(r) - 1 : r[k + 1][1] <= r[k][1] + 1
  <2>1. Len(r) \in Nat \ {0}
    BY <1>6, <1>8
  <2>2. z \in 1 .. Len(s) - 1 /\ 1 \in 1 .. Len(s) - z /\ Len(r) \in 1 .. Len(s) - z
        /\ z + Len(r) = Len(s)
    BY <1>1, <1>2, <1>4, <2>1
  <2>3. r[1][1] \in Nat
    <3>1. r[1] \in Byte
      BY <1>6, <2>1, ElementOfSeq
    <3>2. QED
      BY <3>1 DEF Byte
  <2>4. r[1] = s[z + 1] /\ s[z + 1][1] <= n + 1
    BY <1>1, <1>5, <2>2 DEF Contiguous
  <2>5. r[1][1] = n + 1
    BY <1>1, <1>3, <1>8, <2>3, <2>4
  <2>6. r[Len(r)] = s[Len(s)]
    BY <1>1, <2>2
  <2>7. ASSUME NEW k \in 1 .. Len(r) - 1 PROVE r[k + 1][1] <= r[k][1] + 1
    <3>1. /\ k \in 1 .. Len(s) - z /\ k + 1 \in 1 .. Len(s) - z /\ z + k \in 1 .. Len(s) - 1
          /\ z + (k + 1) = z + k + 1
      BY <1>1, <1>2, <1>4, <2>1
    <3>2. r[k] = s[z + k] /\ r[k + 1] = s[z + k + 1]
      BY <1>1, <3>1
    <3>3. QED
      BY <3>1, <3>2 DEF Contiguous
  <2>8. QED
    BY <1>3, <2>5, <2>6, <2>7 DEF Contiguous
<1>9. Contiguous(r, lens, from + 1)
  BY <1>7, <1>8 DEF Contiguous
<1>10. QED
  BY <1>9 DEF r, z, n

\* No message is longer than a buffer has room for between two calls.
Short == \A len \in Lengths : HEADER + len <= Half

\* What is on its way are the messages after those handled, all of them.
Whole == Contiguous(ToServer, sent, Len(handled)) /\ HandledAsSent

\* No short message is lost, and each is handled as it was sent.
LEMMA WholeKept ==
    ASSUME Short, Types, Streams, Step, Whole
    PROVE  Whole'
<1>1. /\ sent \in Seq(Nat) /\ Framed(ToServer, sent) /\ ToServer \in Seq(Byte)
      /\ Len(handled) \in Nat /\ Len(sent) \in Nat /\ handled \in Seq(Seq(Byte))
  BY NatLengths DEF Types, Streams, Framed
<1>2. ASSUME NEW len \in Lengths, SendStep(len) PROVE Whole'
  <2>1. len \in Nat /\ HEADER + len <= Half
    BY ConnectionAssumption DEF Short
  <2>2. /\ ToServer' = ToServer \o Packet(Len(sent) + 1, len)
        /\ sent' = Append(sent, len) /\ handled' = handled
    <3>1. ~(HEADER + len > Half)
      BY <2>1, Halves, BufferAssumption
    <3>2. QED
      BY <1>2, <3>1, Zenon DEF SendStep
  <2>3. Contiguous(ToServer', sent', Len(handled'))
    BY <1>1, <2>1, <2>2, AddContiguous, Zenon DEF Whole
  <2>4. HandledAsSent'
    <3>1. Len(sent') = Len(sent) + 1 /\ \A n \in 1 .. Len(sent) : sent'[n] = sent[n]
      BY <1>1, <2>1, <2>2, AppendProperties
    <3>2. ASSUME NEW n \in 1 .. Len(handled) PROVE n <= Len(sent') /\ handled[n] = Text(n, sent'[n])
      <4>1. n <= Len(sent) /\ handled[n] = Text(n, sent[n])
        BY DEF Whole, HandledAsSent
      <4>2. n \in 1 .. Len(sent)
        BY <1>1, <4>1
      <4>3. n <= Len(sent') /\ sent'[n] = sent[n]
        BY <1>1, <3>1, <4>2
      <4>4. QED
        BY <4>1, <4>3, Zenon
    <3>3. QED
      BY <2>2, <3>2 DEF HandledAsSent
  <2>5. QED
    BY <2>3, <2>4 DEF Whole
<1>3. ASSUME NEW rlen \in ReplyLengths, HandleStep(rlen) PROVE Whole'
  <2> DEFINE n == ToServer[1][1]
             r == SubSeq(ToServer, Size(sent, n) + 1, Len(ToServer))
  <2>1. /\ ToServer # <<>> /\ ToServer' = r /\ sent' = sent
        /\ handled' = Append(handled, Text(n, sent[n]))
    BY <1>3, Zenon DEF HandleStep
  <2>2. n = Len(handled) + 1
    BY <2>1 DEF Whole, Contiguous
  <2>3. n \in 1 .. Len(sent)
    BY <1>1, <2>1, FirstPacket, Zenon
  <2>4. Contiguous(r, sent, Len(handled) + 1)
    BY <1>1, <2>1, TakeContiguous, Zenon DEF Whole
  <2> HIDE DEF r, n
  <2>5. /\ Len(handled') = Len(handled) + 1 /\ handled'[Len(handled) + 1] = Text(n, sent[n])
        /\ \A k \in 1 .. Len(handled) : handled'[k] = handled[k]
    BY <1>1, <2>1
  <2>6. Contiguous(ToServer', sent', Len(handled'))
    BY <2>1, <2>4, <2>5, Zenon
  <2>7. ASSUME NEW k \in 1 .. Len(handled')
        PROVE  k <= Len(sent) /\ handled'[k] = Text(k, sent[k])
    <3>1. CASE k = Len(handled) + 1
      BY <2>2, <2>3, <2>5, <3>1
    <3>2. CASE k # Len(handled) + 1
      <4>1. k \in 1 .. Len(handled)
        BY <1>1, <2>5, <3>2
      <4>2. QED
        BY <2>5, <4>1 DEF Whole, HandledAsSent
    <3>3. QED
      BY <3>1, <3>2
  <2>8. HandledAsSent'
    BY <2>1, <2>7 DEF HandledAsSent
  <2>9. QED
    BY <2>6, <2>8 DEF Whole
<1>4. CASE ReceiveStep
  BY <1>4, Zenon DEF ReceiveStep, Whole, HandledAsSent
<1>5. CASE MoveStep
  BY <1>5, Zenon DEF MoveStep, Whole, HandledAsSent
<1>6. QED
  BY <1>2, <1>3, <1>4, <1>5, Zenon DEF Step

\* tcp_utils.c: if no message is longer than half a buffer, handle_read takes
\* from the stream the texts that were sent, in order, whole and one at a time.
THEOREM HandledAlwaysAsSent ==
    ASSUME Short
    PROVE  Spec => []HandledAsSent
<1>1. Init => Whole
  BY DEF Init, Whole, HandledAsSent, Contiguous, ToServer, init_buffer
<1>2. Inv /\ Whole /\ [Next]_vars => Whole'
  BY InvNext, WholeKept, Zenon DEF Inv
<1>3. Whole => HandledAsSent
  BY DEF Whole
<1>4. QED
  BY <1>1, <1>2, <1>3, Invariance, PTL DEF Spec

-----------------------------------------------------------------------------
(* The client gets the replies *)

\* The number of the last reply the client got, 0 before the first.
Last == IF received = <<>> THEN 0 ELSE received[Len(received)][1][1]

\* The replies on their way are later ones; a client that waits for each reply
\* has at most one on its way.
Replies ==
    /\ RepliesIntact
    /\ \A n \in 1 .. Len(received) : received[n] # <<>>
    /\ Last \in Nat /\ Last <= Len(replied)
    /\ ToClient # <<>> => Last < ToClient[1][1]
    /\ window = 1 =>
          /\ Len(received) <= Len(replied)
          /\ ToClient # <<>> => /\ ToClient[1][1] = Len(received) + 1
                                /\ Len(replied) = Len(received) + 1

\* Replies are taken in order, each once.
LEMMA RepliesKept ==
    ASSUME 0 \notin ReplyLengths, Types, Streams, Order, Step, Replies
    PROVE  Replies'
<1>1. /\ replied \in Seq(Nat) /\ Framed(ToClient, replied) /\ ToClient \in Seq(Byte)
      /\ Len(received) \in Nat /\ Len(replied) \in Nat /\ received \in Seq(Seq(Byte))
      /\ Len(sent) \in Nat /\ window \in Nat
  BY NatLengths, ConnectionAssumption DEF Types, Streams, Framed
<1>2. CASE UNCHANGED <<window, replied, received, ToClient>>
  BY <1>2, Zenon DEF Replies, RepliesIntact, Last
<1>3. ASSUME NEW rlen \in ReplyLengths, HandleStep(rlen) PROVE Replies'
  <2>1. /\ replied' = Append(replied, rlen) /\ received' = received /\ window' = window
        /\ \/ ToClient' = ToClient \o Packet(Len(replied) + 1, rlen)
           \/ ToClient' = ToClient
        /\ ToServer # <<>>
    BY <1>3, Zenon DEF HandleStep
  <2>2. rlen \in Nat /\ Len(replied) + 1 \in Nat
    BY <1>1, ConnectionAssumption
  <2>3. Len(replied') = Len(replied) + 1 /\ \A k \in 1 .. Len(replied) : replied'[k] = replied[k]
    BY <1>1, <2>1, <2>2, AppendProperties
  <2>4. RepliesIntact'
    <3>1. ASSUME NEW n \in 1 .. Len(received)
          PROVE  \E k \in 1 .. Len(replied') :
                    /\ received[n] = Text(k, replied'[k])
                    /\ window = 1 => k = n
                    /\ n > 1 => received[n - 1] # <<>> /\ received[n - 1][1][1] < k
      <4>1. PICK k \in 1 .. Len(replied) :
              /\ received[n] = Text(k, replied[k])
              /\ window = 1 => k = n
              /\ n > 1 => received[n - 1] # <<>> /\ received[n - 1][1][1] < k
        BY DEF Replies, RepliesIntact
      <4>2. k \in 1 .. Len(replied') /\ replied'[k] = replied[k]
        BY <1>1, <2>3
      <4>3. QED
        BY <4>1, <4>2, Zenon
    <3>2. QED
      BY <2>1, <3>1, Zenon DEF RepliesIntact
  <2>5. Last' = Last
    BY <2>1 DEF Last
  <2>6. ToClient' # <<>> =>
          \/ ToClient' = ToClient /\ ToClient # <<>>
          \/ ToClient'[1][1] = IF ToClient = <<>> THEN Len(replied) + 1 ELSE ToClient[1][1]
    <3>1. (ToClient \o Packet(Len(replied) + 1, rlen))[1][1]
            = IF ToClient = <<>> THEN Len(replied) + 1 ELSE ToClient[1][1]
      BY <1>1, <2>2, FirstOfAdded, Zenon
    <3>2. CASE ToClient' = ToClient
      BY <3>2
    <3>3. CASE ToClient' = ToClient \o Packet(Len(replied) + 1, rlen)
      BY <3>1, <3>3, Zenon
    <3>4. QED
      BY <2>1, <3>2, <3>3, Zenon
  <2>7. Last <= Len(replied') /\ (ToClient' # <<>> => Last < ToClient'[1][1])
    <3>1. Last \in Nat /\ Last <= Len(replied) /\ (ToClient # <<>> => Last < ToClient[1][1])
      BY DEF Replies
    <3>2. Last < Len(replied) + 1 /\ Last <= Len(replied) + 1
      BY <1>1, <3>1
    <3>3. ToClient' # <<>> => Last < ToClient'[1][1]
      BY <2>6, <3>1, <3>2, Zenon
    <3>4. QED
      BY <2>3, <3>2, <3>3, Zenon
  <2>8. ASSUME window = 1
        PROVE  /\ Len(received) <= Len(replied')
               /\ ToClient' # <<>> => /\ ToClient'[1][1] = Len(received) + 1
                                      /\ Len(replied') = Len(received) + 1
    <3>1. /\ Len(received) <= Len(replied)
          /\ ToClient # <<>> => Len(replied) = Len(received) + 1
      BY <2>8 DEF Replies
    <3>2. Len(replied) < Len(sent)
      <4>1. ToServer[1][1] \in 1 .. Len(sent) /\ Len(replied) < ToServer[1][1]
        BY <2>1, NatLengths, FirstPacket, Zenon DEF Types, Streams, Order
      <4>2. QED
        BY <1>1, <4>1
    <3>3. Len(sent) <= Len(received) + 1
      BY <2>8 DEF Order
    <3>4. Len(replied) = Len(received) /\ Len(replied) + 1 = Len(received) + 1 /\ ToClient = <<>>
      BY <1>1, <3>1, <3>2, <3>3
    <3>5. Len(received) <= Len(replied')
      BY <1>1, <2>3, <3>4
    <3>6. ToClient' # <<>> => ToClient'[1][1] = Len(replied) + 1
      BY <2>6, <3>4, Zenon
    <3>7. QED
      BY <2>3, <3>4, <3>5, <3>6, Zenon
  <2>9. QED
    BY <2>1, <2>4, <2>5, <2>7, <2>8, Zenon DEF Replies
<1>4. CASE ReceiveStep
  <2> DEFINE n == ToClient[1][1]
             r == SubSeq(ToClient, Size(replied, n) + 1, Len(ToClient))
             m == Len(received) + 1
             t == Text(n, replied[n])
  <2>1. /\ ToClient # <<>> /\ ToClient' = r /\ received' = Append(received, t)
        /\ UNCHANGED <<window, replied>>
    BY <1>4, Zenon DEF ReceiveStep
  <2>2. n \in 1 .. Len(replied)
    BY <1>1, <2>1, FirstPacket, Zenon
  <2>3. Framed(r, replied) /\ (r # <<>> => r[1][1] > n)
    BY <1>1, <2>1, PacketTaken, Zenon
  <2>4. r # <<>> => r[1][1] \in 1 .. Len(replied)
    BY <1>1, <2>3, FirstPacket, Zenon
  <2> HIDE DEF r, n
  <2>5. n \in Nat \ {0} /\ replied[n] \in Nat \ {0} /\ n <= Len(replied)
    <3>1. replied[n] \in ReplyLengths
      BY <2>2, ElementOfSeq DEF Types
    <3>2. QED
      BY <1>1, <2>2, <3>1, ConnectionAssumption
  <2>6. t \in Seq(Byte) /\ t # <<>> /\ t[1][1] = n
    <3>1. HEADER \in Nat /\ 1 \in 1 .. replied[n]
      BY <2>5, BufferAssumption
    <3>2. \A i \in 1 .. replied[n] : <<n, HEADER + i>> \in Byte
      BY <2>5, <3>1 DEF Byte
    <3>3. t = [i \in 1 .. replied[n] |-> <<n, HEADER + i>>]
      BY DEF Text
    <3> DEFINE len == replied[n]
    <3>4. len \in Nat \ {0} /\ t = [i \in 1 .. len |-> <<n, HEADER + i>>]
          /\ \A i \in 1 .. len : <<n, HEADER + i>> \in Byte
      BY <2>5, <3>2, <3>3
    <3> HIDE DEF len, t
    <3>5. t \in Seq(Byte) /\ Len(t) = len /\ t[1] = <<n, HEADER + 1>>
      BY <3>4
    <3>6. QED
      BY <3>4, <3>5
  <2>t. t = Text(n, replied[n])
    OBVIOUS
  <2> HIDE DEF t
  <2>7. /\ Len(received') = m /\ received'[m] = t /\ m \in Nat \ {0}
        /\ \A k \in 1 .. Len(received) : received'[k] = received[k]
        /\ received' # <<>>
    <3>1. t \in Seq(Byte)
      BY <2>6, Zenon
    <3>2. QED
      BY <1>1, <2>1, <3>1
  <2>8. Last' = n
    BY <2>6, <2>7 DEF Last
  <2>9. \A k \in 1 .. Len(received') : received'[k] # <<>>
    <3> TAKE k \in 1 .. Len(received')
    <3>1. CASE k = m
      BY <2>6, <2>7, <3>1
    <3>2. CASE k # m
      <4>1. k \in 1 .. Len(received)
        BY <1>1, <2>7, <3>2
      <4>2. QED
        BY <2>7, <4>1 DEF Replies
    <3>3. QED
      BY <3>1, <3>2
  <2>10. Last < n
    BY <2>1 DEF Replies, n
  <2>11. window = 1 => n = m /\ Len(replied) = m /\ r = <<>>
    <3> SUFFICES ASSUME window = 1 PROVE n = m /\ Len(replied) = m /\ r = <<>>
      OBVIOUS
    <3>1. n = m /\ Len(replied) = m
      BY <2>1 DEF Replies, n
    <3>2. r = <<>>
      <4>1. SUFFICES ASSUME r # <<>> PROVE FALSE
        OBVIOUS
      <4>2. r[1][1] > n /\ r[1][1] \in 1 .. Len(replied)
        BY <2>3, <2>4, <4>1
      <4>3. QED
        BY <1>1, <2>5, <3>1, <4>2
    <3>3. QED
      BY <3>1, <3>2
  <2>12. RepliesIntact'
    <3>1. ASSUME NEW i \in 1 .. Len(received')
          PROVE  \E k \in 1 .. Len(replied) :
                    /\ received'[i] = Text(k, replied[k])
                    /\ window = 1 => k = i
                    /\ i > 1 => received'[i - 1] # <<>> /\ received'[i - 1][1][1] < k
      <4>1. CASE i = m
        <5>1. received'[i] = Text(n, replied[n]) /\ (window = 1 => n = i)
          BY <2>7, <2>11, <2>t, <4>1
        <5>2. ASSUME i > 1 PROVE received'[i - 1] # <<>> /\ received'[i - 1][1][1] < n
          <6>1. i - 1 = Len(received) /\ i - 1 \in 1 .. Len(received) /\ received # <<>>
            BY <1>1, <4>1, <5>2
          <6>2. received'[i - 1] = received[Len(received)] /\ Last = received[Len(received)][1][1]
            BY <2>7, <6>1 DEF Last
          <6>3. received[Len(received)] # <<>>
            BY <6>1 DEF Replies
          <6>4. QED
            BY <2>10, <6>2, <6>3, Zenon
        <5>3. QED
          BY <2>2, <5>1, <5>2, Zenon
      <4>2. CASE i # m
        <5>1. i \in 1 .. Len(received) /\ received'[i] = received[i]
              /\ (i > 1 => received'[i - 1] = received[i - 1])
          <6>1. i \in 1 .. Len(received) /\ (i > 1 => i - 1 \in 1 .. Len(received))
            BY <1>1, <2>7, <4>2
          <6>2. QED
            BY <2>7, <6>1, Zenon
        <5>2. \E k \in 1 .. Len(replied) :
                /\ received[i] = Text(k, replied[k])
                /\ window = 1 => k = i
                /\ i > 1 => received[i - 1] # <<>> /\ received[i - 1][1][1] < k
          BY <5>1, Zenon DEF Replies, RepliesIntact
        <5>3. QED
          BY <5>1, <5>2, Zenon
      <4>3. QED
        BY <4>1, <4>2
    <3>2. QED
      BY <2>1, <3>1, Zenon DEF RepliesIntact
  <2>13. ToClient' # <<>> => Last' < ToClient'[1][1]
    <3>1. r # <<>> => n < r[1][1]
      BY <1>1, <2>3, <2>4, <2>5
    <3>2. QED
      BY <2>1, <2>8, <3>1, Zenon
  <2>14. window' = 1 => Len(received') <= Len(replied') /\ ToClient' = <<>>
    <3>1. m <= m
      BY <2>7
    <3>2. QED
      BY <2>1, <2>7, <2>11, <3>1, Zenon
  <2>15. Last' \in Nat /\ Last' <= Len(replied')
    BY <2>1, <2>5, <2>8, Zenon
  <2>16. QED
    BY <2>9, <2>12, <2>13, <2>14, <2>15, Zenon DEF Replies
<1>5. QED
  BY <1>2, <1>3, <1>4, Zenon DEF Step, SendStep, MoveStep

\* tcp_utils.c, client_recv, and tcp_buffer.c: if no reply is empty, and those of
\* reply_with_yes and reply_with_no begin with a word, the client gets replies
\* the server gave, byte for byte, none of them twice, and one that waits for
\* each gets each in its turn.
THEOREM RepliesAlwaysIntact ==
    ASSUME 0 \notin ReplyLengths
    PROVE  Spec => []RepliesIntact
<1>1. Init => Replies
  BY DEF Init, Replies, RepliesIntact, Last, ToClient, init_buffer
<1>2. Inv /\ Replies /\ [Next]_vars => Replies'
  BY InvNext, RepliesKept, Zenon DEF Inv
<1>3. Replies => RepliesIntact
  BY DEF Replies
<1>4. QED
  BY <1>1, <1>2, <1>3, Invariance, PTL DEF Spec

=============================================================================

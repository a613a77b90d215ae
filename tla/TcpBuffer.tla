------------------------------- MODULE TcpBuffer -------------------------------
(***************************************************************************)
(* struct tcp_buffer and the functions of lib/tcp_buffer.c that need no    *)
(* socket.  A buffer is its read index and the bytes from there to its     *)
(* write index; the bytes outside are never read, so that a memmove to the *)
(* beginning is a change of the index.                                     *)
(***************************************************************************)
EXTENDS Integers, Sequences

CONSTANTS
    TCP_BUF_SIZE,
    HEADER       \* bytes of the length in front of a message, 4 in the code

ASSUME BufferAssumption ==
    /\ HEADER \in Nat \ {0}
    /\ TCP_BUF_SIZE \in Nat /\ TCP_BUF_SIZE >= 2 * HEADER

Half == TCP_BUF_SIZE \div 2

Buffer(Byte) == [read_index : Nat, bytes : Seq(Byte)]

init_buffer == [read_index |-> 0, bytes |-> <<>>]

write_index(buf) == buf.read_index + Len(buf.bytes)
Writeable(buf) == TCP_BUF_SIZE - write_index(buf)

\* Mutant: a buffer is moved when it has been read to its end.
adjust_buffer_late(buf) ==
    IF buf.read_index = TCP_BUF_SIZE THEN [buf EXCEPT !.read_index = 0] ELSE buf

adjust_buffer(buf) ==
    IF buf.read_index > Half THEN [buf EXCEPT !.read_index = 0] ELSE buf

\* Bytes put behind the write index become part of the buffer, if they fit.
recycle_write(buf, s) ==
    IF write_index(buf) + Len(s) > TCP_BUF_SIZE THEN buf
    ELSE adjust_buffer([read_index |-> buf.read_index, bytes |-> buf.bytes \o s])

\* Mutant: a wrong sign.
recycle_read_sign(buf, len) ==
    IF buf.read_index + len > TCP_BUF_SIZE THEN buf
    ELSE adjust_buffer([read_index |-> buf.read_index - len,
                        bytes |-> SubSeq(buf.bytes, len + 1, Len(buf.bytes))])

\* The first len bytes are done with.
recycle_read(buf, len) ==
    IF buf.read_index + len > TCP_BUF_SIZE THEN buf
    ELSE adjust_buffer([read_index |-> buf.read_index + len,
                        bytes |-> SubSeq(buf.bytes, len + 1, Len(buf.bytes))])

\* buffer_append, and reply_with_yes and reply_with_no, which put a word before
\* the text: a packet, its header included, that does not fit is dropped.
buffer_append(buf, packet) ==
    IF Writeable(buf) < Len(packet) THEN buf ELSE recycle_write(buf, packet)

\* The test of handle_read, client_recv and buffer_next for a whole message
\* whose header says len.
Complete(buf, len) == Len(buf.bytes) >= HEADER /\ Len(buf.bytes) >= len + HEADER

Payload(buf, len) == SubSeq(buf.bytes, HEADER + 1, HEADER + len)

=============================================================================

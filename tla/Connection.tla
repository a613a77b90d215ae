------------------------------ MODULE Connection ------------------------------
(***************************************************************************)
(* One client and the server over one connection, byte by byte: client_send *)
(* and client_recv on one side, the handle_read jobs of the client's slot  *)
(* on the other, with the four buffers and what the kernel holds between.  *)
(* TcpServer has the slots, threads and descriptors; here a job runs when   *)
(* there is something to read, and one message is told from the next by     *)
(* the lengths in front of them only.                                      *)
(*                                                                         *)
(* Byte i of the n-th message, or of the reply to it, is <<n, i>>; its      *)
(* header says the length that was chosen for it.                          *)
(***************************************************************************)
EXTENDS TcpBuffer

CONSTANTS
    Lengths,       \* of a message's text
    ReplyLengths,  \* of a reply's text, "Yes " or "No " included
    Windows,       \* messages a client may send before it reads the replies
    KERNEL,        \* bytes the kernel keeps in one direction
    MaxSent        \* bound on the messages

ASSUME ConnectionAssumption ==
    /\ Lengths \subseteq Nat /\ ReplyLengths \subseteq Nat
    /\ Windows \subseteq Nat \ {0}
    /\ KERNEL \in Nat /\ MaxSent \in Nat

VARIABLES
    window,        \* how many messages this client sends ahead
    sent, replied, \* lengths of the messages and of the replies, in order
    client,        \* step of the client, and bytes its read_to_buffer has read
    cwrite, cread, \* the client's write_buf and read_buf
    c2s, s2c,      \* bytes in the kernel
    server,        \* step of the job, and bytes its read_to_buffer has read
    sread, swrite, \* the slot's read_buf and write_buf
    handled,       \* history: texts passed to on_recv
    received       \* history: texts client_recv returned

cvars == <<window, sent, client, cwrite, cread, received>>
svars == <<replied, server, sread, swrite, handled>>
vars  == <<cvars, svars, c2s, s2c>>

Text(n, len)   == [i \in 1..len |-> <<n, HEADER + i>>]
Packet(n, len) == [i \in 1 .. HEADER + len |-> <<n, i>>]

\* The length in the header at the front of a buffer, from the lengths of side.
Header(buf, side) == side[buf.bytes[1][1]]

-----------------------------------------------------------------------------
(* read_to_buffer *)

Outcome(p, buf, wire) == [proc |-> p, buf |-> buf, wire |-> wire]

\* What one turn of the loop makes of reader p, its buffer and what is on its
\* way: a full buffer ends the loop; else recv gives some of it, and fewer bytes
\* than asked for end the loop.  With nothing there recv is retried (server,
\* EAGAIN) or waits (client): there is no outcome.
read_to_buffer(p, buf, wire, then) ==
    IF Writeable(buf) = 0 THEN {Outcome([p EXCEPT !.pc = then], buf, wire)}
    ELSE {LET s == SubSeq(wire, 1, n)
          IN  Outcome([pc |-> IF n < Writeable(buf) THEN then ELSE p.pc, count |-> p.count + n],
                      recycle_write(buf, s), SubSeq(wire, n + 1, Len(wire))) :
          n \in {k \in 1 .. Len(wire) : k <= Writeable(buf)}}

-----------------------------------------------------------------------------
(* The client *)

Idle == [pc |-> "idle", count |-> 0]

\* buffer_append, then send, which blocks until the kernel has taken all.
client_send(len) ==
    LET buf == buffer_append(cwrite, Packet(Len(sent) + 1, len))
    IN  /\ client.pc = "idle"
        /\ Len(sent) < MaxSent /\ Len(sent) < Len(received) + window
        /\ Len(c2s) + Len(buf.bytes) <= KERNEL
        /\ sent' = Append(sent, len)
        /\ c2s' = c2s \o buf.bytes
        /\ cwrite' = recycle_read(buf, Len(buf.bytes))
        /\ UNCHANGED <<window, client, cread, received, svars, s2c>>

\* After a message, or as many as it sends ahead.
client_recv ==
    /\ client.pc = "idle" /\ Len(sent) > Len(received)
    /\ client' = [pc |-> "recv", count |-> 0]
    /\ UNCHANGED <<window, sent, cwrite, cread, received, svars, c2s, s2c>>

client_read ==
    /\ client.pc = "recv"
    /\ \E r \in read_to_buffer(client, cread, s2c, "look") :
          client' = r.proc /\ cread' = r.buf /\ s2c' = r.wire
    /\ UNCHANGED <<window, sent, cwrite, received, svars, c2s>>

\* Nothing read counts as a closed connection; a reply that is not complete
\* sends the client back to the socket.
client_look ==
    LET whole == Len(cread.bytes) >= HEADER /\ Complete(cread, Header(cread, replied))
        len == Header(cread, replied)
    IN  /\ client.pc = "look"
        /\ IF client.count = 0
           THEN client' = [client EXCEPT !.pc = "gone"] /\ UNCHANGED <<cread, received>>
           ELSE IF ~whole
           THEN client' = [pc |-> "recv", count |-> 0] /\ UNCHANGED <<cread, received>>
           ELSE /\ client' = Idle
                /\ cread' = recycle_read(cread, len + HEADER)
                /\ received' = Append(received, Payload(cread, len))
        /\ UNCHANGED <<window, sent, cwrite, svars, c2s, s2c>>

-----------------------------------------------------------------------------
(* The server: handle_read *)

handle_read ==
    /\ server.pc = "idle" /\ c2s # <<>>
    /\ server' = [pc |-> "recv", count |-> 0]
    /\ UNCHANGED <<cvars, replied, sread, swrite, handled, c2s, s2c>>

server_read ==
    /\ server.pc = "recv"
    /\ \E r \in read_to_buffer(server, sread, c2s, "handle") :
          server' = r.proc /\ sread' = r.buf /\ c2s' = r.wire
    /\ UNCHANGED <<cvars, replied, swrite, handled, s2c>>

\* Mutant: one message is handled per job.
handle_one ==
    LET whole == Len(sread.bytes) >= HEADER /\ Complete(sread, Header(sread, sent))
        len == Header(sread, sent)
    IN  /\ server.pc = "handle"
        /\ IF server.count = 0 \/ ~whole
           THEN UNCHANGED <<replied, sread, swrite, handled>>
           ELSE \E rlen \in ReplyLengths :
                   /\ handled' = Append(handled, Payload(sread, len))
                   /\ replied' = Append(replied, rlen)
                   /\ swrite' = buffer_append(swrite, Packet(Len(replied) + 1, rlen))
                   /\ sread' = recycle_read(sread, len + HEADER)
        /\ server' = [server EXCEPT !.pc = "send"]
        /\ UNCHANGED <<cvars, c2s, s2c>>

\* Mutant: a message takes as many bytes as its text.
handle_text ==
    LET whole == Len(sread.bytes) >= HEADER /\ Complete(sread, Header(sread, sent))
        len == Header(sread, sent)
    IN  /\ server.pc = "handle"
        /\ IF server.count = 0 \/ ~whole
           THEN /\ server' = [server EXCEPT !.pc = "send"]
                /\ UNCHANGED <<replied, sread, swrite, handled>>
           ELSE \E rlen \in ReplyLengths :
                   /\ handled' = Append(handled, Payload(sread, len))
                   /\ replied' = Append(replied, rlen)
                   /\ swrite' = buffer_append(swrite, Packet(Len(replied) + 1, rlen))
                   /\ sread' = recycle_read(sread, len)
                   /\ UNCHANGED server
        /\ UNCHANGED <<cvars, c2s, s2c>>

\* The messages in the buffer, one a step: on_recv takes the text and replies.
handle ==
    LET whole == Len(sread.bytes) >= HEADER /\ Complete(sread, Header(sread, sent))
        len == Header(sread, sent)
    IN  /\ server.pc = "handle"
        /\ IF server.count = 0 \/ ~whole
           THEN /\ server' = [server EXCEPT !.pc = "send"]
                /\ UNCHANGED <<replied, sread, swrite, handled>>
           ELSE \E rlen \in ReplyLengths :
                   /\ handled' = Append(handled, Payload(sread, len))
                   /\ replied' = Append(replied, rlen)
                   /\ swrite' = buffer_append(swrite, Packet(Len(replied) + 1, rlen))
                   /\ sread' = recycle_read(sread, len + HEADER)
                   /\ UNCHANGED server
        /\ UNCHANGED <<cvars, c2s, s2c>>

\* Of so many bytes the kernel takes what it has room for.
Taken(n) == IF n <= KERNEL - Len(s2c) THEN n ELSE KERNEL - Len(s2c)

\* Mutant: what was not sent is dropped.
send_buffer_dropped ==
    LET n == Taken(Len(swrite.bytes))
    IN  /\ server.pc = "send"
        /\ s2c' = s2c \o SubSeq(swrite.bytes, 1, n)
        /\ swrite' = recycle_read(swrite, Len(swrite.bytes))
        /\ server' = Idle
        /\ UNCHANGED <<cvars, replied, sread, handled, c2s>>

\* EAGAIN ends the loop and leaves the rest for the next job.
send_buffer ==
    LET n == Taken(Len(swrite.bytes))
    IN  /\ server.pc = "send"
        /\ s2c' = s2c \o SubSeq(swrite.bytes, 1, n)
        /\ swrite' = recycle_read(swrite, n)
        /\ server' = IF n = 0 THEN Idle ELSE server
        /\ UNCHANGED <<cvars, replied, sread, handled, c2s>>

-----------------------------------------------------------------------------

Init ==
    /\ window \in Windows
    /\ sent = <<>> /\ replied = <<>>
    /\ client = Idle /\ server = Idle
    /\ cwrite = init_buffer /\ cread = init_buffer
    /\ sread = init_buffer /\ swrite = init_buffer
    /\ c2s = <<>> /\ s2c = <<>>
    /\ handled = <<>> /\ received = <<>>

Client == client_recv \/ client_read \/ client_look
Server == handle_read \/ server_read \/ handle \/ send_buffer

Next == (\E len \in Lengths : client_send(len)) \/ Client \/ Server

Spec == Init /\ [][Next]_vars

\* The job runs when there is something to read, and a client waits for replies.
FairSpec == Spec /\ WF_vars(Server) /\ WF_vars(Client)

-----------------------------------------------------------------------------
(* Properties *)

Bytes == (1..MaxSent) \X Nat

\* Buffers, sockets and steps have their types.
TypeOK ==
    /\ window \in Windows
    /\ sent \in Seq(Lengths) /\ replied \in Seq(ReplyLengths)
    /\ client.pc \in {"idle", "recv", "look", "gone"} /\ client.count \in Nat
    /\ server.pc \in {"idle", "recv", "handle", "send"} /\ server.count \in Nat
    /\ \A b \in {cwrite, cread, sread, swrite} : b \in Buffer(Bytes)
    /\ c2s \in Seq(Bytes) /\ s2c \in Seq(Bytes)

\* Between two calls half of every buffer, at least, lies behind the read index,
\* and no index passes the end: a message of at most half the buffer has room.
IndicesFit ==
    \A b \in {cwrite, cread, sread, swrite} :
        b.read_index <= Half /\ write_index(b) <= TCP_BUF_SIZE

\* However the kernel cuts the stream and whatever the buffers move, on_recv is
\* given the texts that were sent, in order, whole and one at a time.
HandledAsSent ==
    \A n \in 1 .. Len(handled) : n <= Len(sent) /\ handled[n] = Text(n, sent[n])

\* The n-th reply the client gets is the n-th the server gave, byte for byte,
\* unless a reply was dropped: of the replies none is mixed up or taken twice.
RepliesIntact ==
    \A n \in 1 .. Len(received) :
        \E k \in 1 .. Len(replied) :
            /\ received[n] = Text(k, replied[k])
            /\ window = 1 => k = n
            /\ n > 1 => received[n - 1] # <<>> /\ received[n - 1][1][1] < k

\* "on_recv: function to be called when a client sends a message" (tcp_utils.h):
\* every message is handled, also one that arrived behind another.
AllHandled == \A n \in 1..MaxSent : Len(sent) >= n ~> Len(handled) >= n

\* "Write all the data in the buffer to the socket" (tcp_buffer.h) and "Receive a
\* message from the server" (tcp_utils.h): a client that reads every reply
\* before it sends again, as those of this repository do, gets every reply.
Answered == \A n \in 1..MaxSent : window = 1 /\ Len(sent) >= n ~> Len(received) >= n

=============================================================================

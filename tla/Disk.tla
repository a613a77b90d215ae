-------------------------------- MODULE Disk --------------------------------
(***************************************************************************)
(* The basic disk server (BDS): disk/src/disk.c and the request handlers   *)
(* of disk/src/server.c.  The mmap'd disk image is a function from sector  *)
(* offsets to blocks; the handlers are operators on it, so that the client *)
(* of the disk (BlockCache) can compose them with its own steps.           *)
(***************************************************************************)
EXTENDS Integers

CONSTANTS
    Ncyl, Nsec,     \* geometry: cylinders, sectors per cylinder
    BSIZE,          \* bytes in a block (BLOCKSIZE of disk.c, BSIZE of common.h)
    Byte,           \* the byte values the properties tell apart
    Zero,           \* the byte 0
    Space,          \* the bytes isspace() accepts
    NL              \* the newline that ends every request

ASSUME DiskAssumption ==
    /\ Ncyl \in Nat \ {0} /\ Nsec \in Nat \ {0} /\ BSIZE \in Nat \ {0}
    /\ Zero \in Byte \ Space
    /\ Space \subseteq Byte
    /\ NL \in Space

Block     == [1..BSIZE -> Byte]
ZeroBlock == [i \in 1..BSIZE |-> Zero]
NBlocks   == Ncyl * Nsec
Sectors   == 0 .. NBlocks - 1

\* The test both cmd_r and cmd_w begin with, and the sector they address.
InRange(cyl, sec) == cyl \in 0 .. Ncyl - 1 /\ sec \in 0 .. Nsec - 1
Offset(cyl, sec)  == cyl * Nsec + sec

\* The block cmd_w leaves in a sector: len bytes of data, the rest zero.
Padded(len, data) == [i \in 1..BSIZE |-> IF i <= len THEN data[i] ELSE Zero]

cmd_r(d, cyl, sec) == d[Offset(cyl, sec)]

cmd_w(d, cyl, sec, len, data) == [d EXCEPT ![Offset(cyl, sec)] = Padded(len, data)]

-----------------------------------------------------------------------------
\* How many bytes at the front of the data are white space.
Leading(data) ==
    CHOOSE k \in 0..BSIZE : /\ \A i \in 1..k : data[i] \in Space
                            /\ k < BSIZE => data[k + 1] \notin Space

(***************************************************************************)
(* The blocks handle_w may find behind its data pointer when the request   *)
(* carries the block data.  parse_args_w skips white space after the       *)
(* length, the leading white space of the data included; the bytes that    *)
(* then follow the data are the request's newline and whatever the receive *)
(* buffer still held.                                                      *)
(***************************************************************************)
parse_args_w(data) ==
    LET k == Leading(data)
    IN  IF k = 0
        THEN {data}
        ELSE {b \in Block : /\ \A i \in 1 .. BSIZE - k : b[i] = data[i + k]
                            /\ k < BSIZE => b[BSIZE - k + 1] = NL}

-----------------------------------------------------------------------------
\* Replies: "Yes " followed by a block, "Yes " alone, "No ".
Yes(data) == [kind |-> "data", data |-> data]
Ack       == [kind |-> "ack",  data |-> ZeroBlock]
No        == [kind |-> "no",   data |-> ZeroBlock]
Reply     == [kind : {"data", "ack", "no"}, data : Block]

handle_r(d, cyl, sec) == IF InRange(cyl, sec) THEN Yes(cmd_r(d, cyl, sec)) ELSE No

\* The possible disks and the reply after a W request.
handle_w(d, cyl, sec, len, data) ==
    IF InRange(cyl, sec) /\ len <= BSIZE
    THEN {[disk |-> cmd_w(d, cyl, sec, len, b), reply |-> Ack] : b \in parse_args_w(data)}
    ELSE {[disk |-> d, reply |-> No]}

=============================================================================

------------------------------ MODULE SharedLink ------------------------------
(***************************************************************************)
(* The block cache and the connection to the disk server as two threads    *)
(* use them: the main thread mounts the file system for every client that  *)
(* connects, while the pool's thread runs a command.  Neither the cache    *)
(* nor bds_rbuf and bds_wbuf have a lock.                                  *)
(*                                                                         *)
(* A thread gives way where it waits for the disk server.  The threads run *)
(* truly in parallel, so the steps here are only some of the               *)
(* interleavings there are.  The commands are those that write nothing;    *)
(* BlockCache has the rest of the cache, one call at a time.               *)
(***************************************************************************)
EXTENDS LruList, Sequences

CONSTANTS
    Main, Pool,    \* the two threads
    Blocks,        \* block numbers of the file system
    Superblock,    \* the block a mount reads first
    RootInode      \* the block with the root inode, which it reads next: another one

VARIABLES
    cache_arr,     \* the entries; the contents of block b are b itself
    cache_size, lru,
    wire,          \* replies of the disk server not yet received, in order
    bds_rbuf,      \* replies received and not consumed
    thread,        \* the threads: where they are, for which block and entry
    out_buf        \* what the last cache_read of each asked for and was given

vars == <<cache_arr, cache_size, lru, wire, bds_rbuf, thread, out_buf>>

Threads == {Main, Pool}
Idle    == [pc |-> "idle", e |-> NULL, b |-> Superblock]
Given(b, data) == [asked |-> b, data |-> data]

\* The entries the lookup loop can stop at.
lookup(b) == {e \in 1..cache_size : cache_arr[e].blockno = b}

Hit(t, b) ==
    \E e \in lookup(b) :
        /\ \A f \in lookup(b) : e <= f
        /\ lru' = attach_tail(detach(lru, e), e)
        /\ out_buf' = [out_buf EXCEPT ![t] = Given(b, cache_arr[e].data)]
        /\ UNCHANGED <<cache_arr, cache_size, wire, bds_rbuf, thread>>

\* alloc_entry, which takes the next unused entry or the head of the list, and
\* fetch_block_from_server up to its wait: the entry bears the block's number
\* from here on.  The disk server answers in the order of the requests.  (With
\* the list empty the code follows a null pointer; no step models that.)
Miss(t, b) ==
    LET e == IF cache_size < CACHE_CAPACITY THEN cache_size + 1 ELSE lru.head
    IN  /\ lookup(b) = {}
        /\ e # NULL
        /\ cache_size' = IF cache_size < CACHE_CAPACITY THEN e ELSE cache_size
        /\ lru' = IF cache_size < CACHE_CAPACITY THEN lru ELSE detach(lru, e)
        /\ cache_arr' = [cache_arr EXCEPT ![e].blockno = b]
        /\ wire' = Append(wire, b)
        /\ thread' = [thread EXCEPT ![t] = [pc |-> "recv", e |-> e, b |-> b]]
        /\ UNCHANGED <<bds_rbuf, out_buf>>

cache_read(t, b) == thread[t].pc = "idle" /\ (Hit(t, b) \/ Miss(t, b))

\* recv blocks until there is something, and takes some of what there is.
read_to_buffer(t) ==
    /\ thread[t].pc = "recv"
    /\ \E n \in 1..Len(wire) :
          /\ bds_rbuf' = bds_rbuf \o SubSeq(wire, 1, n)
          /\ wire' = SubSeq(wire, n + 1, Len(wire))
    /\ thread' = [thread EXCEPT ![t].pc = "next"]
    /\ UNCHANGED <<cache_arr, cache_size, lru, out_buf>>

\* buffer_next and the rest of fetch_block_from_server and cache_read: the
\* first reply there is fills the entry.
buffer_next(t) ==
    LET e == thread[t].e
    IN  /\ thread[t].pc = "next"
        /\ IF bds_rbuf = <<>>
           THEN /\ thread' = [thread EXCEPT ![t].pc = "recv"]
                /\ UNCHANGED <<cache_arr, lru, bds_rbuf, out_buf>>
           ELSE /\ cache_arr' = [cache_arr EXCEPT ![e].data = Head(bds_rbuf)]
                /\ bds_rbuf' = Tail(bds_rbuf)
                /\ lru' = attach_tail(lru, e)
                /\ out_buf' = [out_buf EXCEPT ![t] = Given(thread[t].b, Head(bds_rbuf))]
                /\ thread' = [thread EXCEPT ![t] = Idle]
        /\ UNCHANGED <<cache_size, wire>>

\* on_connection: handle_mount reads the superblock, then iget the root inode.
fs_mount ==
    cache_read(Main, IF out_buf[Main].asked = Superblock THEN RootInode ELSE Superblock)

\* A command of a client.
command == \E b \in Blocks \ {Superblock} : cache_read(Pool, b)

\* The file system has been mounted for the first client.
Init ==
    /\ cache_arr = [e \in Slots |->
           LET b == IF e = 1 THEN Superblock ELSE RootInode IN [blockno |-> b, data |-> b]]
    /\ cache_size = 2
    /\ lru = attach_tail(attach_tail(EmptyList, 1), 2)
    /\ wire = <<>> /\ bds_rbuf = <<>>
    /\ thread = [t \in Threads |-> Idle]
    /\ out_buf = [t \in Threads |-> Given(RootInode, RootInode)]

Next ==
    \/ fs_mount \/ command
    \/ \E t \in Threads : read_to_buffer(t) \/ buffer_next(t)

Spec == Init /\ [][Next]_vars

\* "Load a block from the cache or the back end" (cache.h): the block a thread is
\* given is the one it asked for, whatever the other thread reads meanwhile.
OwnBlock == \A t \in Threads : out_buf[t].data = out_buf[t].asked

=============================================================================

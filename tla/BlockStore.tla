----------------------------- MODULE BlockStore -----------------------------
(***************************************************************************)
(* What the block layer of the file server (block.c above cache.c) promises *)
(* the inode layer: a store of blocks in which a read returns the last     *)
(* value written, behind which a durable copy lags.  A step may bring at   *)
(* most one block of the durable copy up to date, a restart of the server  *)
(* falls back to the durable copy, and once the disk connection is lost    *)
(* nothing is promised about reads until the server restarts; the durable  *)
(* copy is never damaged.                                                  *)
(***************************************************************************)
CONSTANTS
    Blocks,     \* block numbers
    Contents,   \* block contents
    Written,    \* the contents the inode layer writes
    NoData      \* the outcome of a call that hands nothing back

VARIABLES
    store,      \* what a read returns
    durable,    \* what survives a restart
    out,        \* what the last call handed to its caller
    ok          \* the disk connection is up

vars == <<store, durable, out, ok>>

Result(b) == [blockno |-> b, data |-> store[b]]
Outcomes  == {NoData} \cup [blockno : Blocks, data : Contents]

\* At most one block becomes durable, with the contents the store holds.
SyncOne ==
    \/ durable' = durable
    \/ \E b \in Blocks : durable' = [durable EXCEPT ![b] = store[b]]

Init ==
    /\ durable \in [Blocks -> Contents]
    /\ store = durable
    /\ out = NoData
    /\ ok = TRUE

Read(b) ==
    /\ ok
    /\ out' = Result(b)
    /\ SyncOne
    /\ UNCHANGED <<store, ok>>

Write(b, d) ==
    /\ ok
    /\ store' = [store EXCEPT ![b] = d]
    /\ out' = NoData
    /\ SyncOne
    /\ UNCHANGED ok

\* A block number the superblock does not cover: nothing happens.
Reject ==
    /\ out' = NoData
    /\ UNCHANGED <<store, durable, ok>>

\* The call during which the connection breaks.
LoseLink ==
    /\ ok
    /\ ok' = FALSE
    /\ store' \in [Blocks -> Contents]
    /\ out' \in Outcomes
    /\ SyncOne

Degraded ==
    /\ ~ok
    /\ store' \in [Blocks -> Contents]
    /\ out' \in Outcomes
    /\ UNCHANGED <<durable, ok>>

Restart ==
    /\ store' = durable
    /\ out' = NoData
    /\ ok' = TRUE
    /\ UNCHANGED durable

Next ==
    \/ \E b \in Blocks : Read(b) \/ \E d \in Written : Write(b, d)
    \/ Reject \/ LoseLink \/ Degraded \/ Restart

Spec == Init /\ [][Next]_vars

=============================================================================

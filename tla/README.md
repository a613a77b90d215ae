# A TLA+ model of the file server, its block cache and its TCP library

The repository is a small networked file system in C: a *disk server*
(`disk/`) that keeps sectors in a memory-mapped file, a *file server* (`fs/`)
that stores a Unix-like file system on it and serves clients, and a library
(`lib/`) with the TCP server loop, message buffers and a thread pool that both
servers use.  This directory holds TLA+ modules translated from that code, the
TLC configurations that check them, and proofs checked by TLAPS.

## The system

| Part | State | Operations | Talks to |
| --- | --- | --- | --- |
| disk server (`disk/src/disk.c`, `server.c`) | the image, its geometry | requests `I`, `R c s`, `W c s l data`, `E` | the file server, over one connection |
| block cache (`fs/src/cache.c`, `block.c`) | cache entries, LRU list, reply buffer, `sb.size` | `read_block`, `write_block`, eviction, flush | disk server; called by everything above |
| file contents (`fs/src/inode.c`, `fs.c`) | block maps, data bitmap | `bmap`, `allocate_block`, `readi`, `writei`; commands `cat`, `w`, `i`, `d` | block cache |
| inodes (`fs/src/inode.c`) | inode table and bitmap, cache of 20 in-memory inodes with reference counts | `ialloc`, `iget`, `iput`, `iupdate`, `iremove` | block cache |
| name space (`fs/src/dirop.c`, `fs.c`) | directory entries | `mk`, `mkdir`, `rm`, `rmdir`, `cd`, `ls` | inodes, file contents |
| format, mount, sessions (`fs.c`, `session.c`, `server.c`) | superblock in memory, `cwd` and `uid` per session | `f`, `login`, connect, disconnect | all of the above |
| users (`user.c`, `handle.c`) | owner and mode of inodes, `/home` | `useradd`, `userdel`, `login`, permission checks | name space |
| TCP server loop (`lib/tcp_utils.c`) | `read_set`, slots, one mutex per slot | `server_run`, `add_conn`, `handle_read` | kernel, thread pool, callbacks |
| TCP buffers (`lib/tcp_buffer.c`) | two indices into 4096 bytes | append, receive, recycle, compaction | sockets |
| thread pool (`lib/thpool.c`, vendored) | job queue, binary semaphore | push, pull, wait | TCP server loop |

What is hard in it: the block cache writes back late, so a broken connection or
a dead process loses writes in ways that depend on eviction order; the request
protocol has no sequence numbers; commands move data through several block
writes and may run out of blocks half way; the main thread and the pool thread
share the slot table, `read_set`, the inode cache and the block cache with
almost no locking.  The `hazards` of `PROJECT.json` name these places line by
line.

What would make each part correct:

- *block cache*: callers see the last write to every block, no block is cached
  twice, what is written back is exactly what was written, requests and replies
  stay paired, there is always a victim to evict;
- *file contents*: a block has one owner, the bitmap marks exactly the blocks in
  use, a file holds what the last command put there, the superblock survives;
- *TCP loop*: one job at a time per client, a job works on its own client's
  connection, a cleared client stays cleared, every message is handled;
- *inodes, name space, sessions*: an inode is in the cache once, entries lead to
  allocated inodes, no name is twice in a directory, `..` leads back, only empty
  directories are removed, a session stays in the directory it moved to.

## Modules

| Module | Models | Run by |
| --- | --- | --- |
| `Disk` | the `R` and `W` handlers of the disk server, as operators | through `BlockCache` |
| `LruList` | the cache's list, pointer by pointer, as operators | through `BlockCache`, `SharedLink` |
| `BlockStore` | what the block layer promises: an abstract store of blocks | refinement in `BlockCache` |
| `BlockCache` | cache, list, protocol, link and restarts; one caller | `MCBlockCache` |
| `BlockCacheProofs` | theorems about `BlockCache` | TLAPS |
| `SharedLink` | cache and disk connection as main thread and pool thread share them | itself |
| `FileData` | block map, bitmap, commands on file contents | `MCFileData` |
| `FileDataProofs` | theorems about `FileData`: the block map as a graph | TLAPS |
| `FileContentProofs` | theorems about `FileData`: no holes, and what a file holds | TLAPS |
| `Namespace` | inodes, directories, users, sessions, the commands on them | itself |
| `NamespaceProofs` | theorems about `Namespace`: the inode cache, sessions | TLAPS |
| `NamespaceTreeProofs` | theorems about `Namespace`: the tree of directories | TLAPS |
| `JobQueue` | what a thread pool promises: an abstract queue of jobs | refinement in `ThreadPool` |
| `ThreadPool` | the pool: queue, binary semaphore, counters, threads and callers | itself |
| `ThreadPoolProofs` | theorems about `ThreadPool` | TLAPS |
| `TcpServer` | main thread, pool threads, clients and kernel | itself |
| `TcpServerProofs` | theorems about `TcpServer` | TLAPS |
| `TcpBuffer` | message buffers, as operators | through `Connection` |
| `Connection` | one client and the server, byte by byte, through four buffers | itself |
| `ConnectionProofs` | theorems about `Connection` | TLAPS |

`TcpServer` and `ThreadPool` meet in `JobQueue`: `ThreadPool` implements it, and
the `queue` and the threads of `TcpServer` are used as it allows.  `Connection`
is what `TcpServer` calls the inbox of one client, opened up.

Definitions keep the names of the functions they translate; `map` in
`PROJECT.json` gives the lines.  A definition whose comment says *Mutant*, or
whose name extends that of a code definition (`iget_eager`, `lookup_short`,
`trylock_ignored` and so on) is a plausible mistake in that code.  No
specification uses it: it stands next to the definition it spoils so that one
can see the properties fail.

### BlockCache

`disk` is the image; `cache_arr`, `cache_size` and `lru` are the statics of
`cache.c`, with the list's four kinds of pointer; `rbuf` holds the replies
received and not consumed; `link` is the connection; `sb_size` is `sb.size`;
`out` is the buffer given back to the caller.  One action is one call of
`read_block` or `write_block` with everything below it: the range test, the
lookup loop, eviction, the `W` and `R` requests and their handlers in the disk
server.  At each request the connection may break, before or after the disk
server acted on it (`LinkLost`).  `Restart` is the death of the process and a
new start: `cache_flush` is called only after `server_run`, which never
returns, so nothing is flushed.  `set_superblock` is what a format and a mount
do to `sb.size`.  Bytes are a few values; what matters about a byte is whether
`isspace` accepts it.

Calls are atomic because one pool thread runs all commands and waits for each
reply.  This leaves out the main thread, which mounts on a new connection and
then uses the cache at the same time without a lock: see `SharedLink`.

`BlockStore` has the contents callers see (`store`) and the contents on disk
(`durable`).  A step may make at most one block durable as callers see it; a
restart falls back to the durable contents; once the connection is lost reads
may return anything and the disk may keep only what it has or some current
block.  The refinement maps `store` to the entry of a block, or its sector if it
has none.

### SharedLink

The two threads that call `cache_read`.  A thread gives way where it waits for
the disk server, which is after it has put the block's number into the entry and
sent its request; it then reads whatever has arrived into the one `bds_rbuf` and
takes the first reply there is.  These are a few of the interleavings of two
threads without a lock, and they suffice: with the superblock's entry evicted (more
blocks in use than the cache has entries), a client that connects while a command
waits for a block makes the mount take that block for the superblock; if the superblock is
still there and the block of the root inode is not, the mount's second read takes it for that.  Two more
things can be seen in the model: a thread can wait in `recv` while its reply lies in the
buffer, and a thread can hit an entry that already bears its number but not yet its
contents.

### FileData

Blocks have `BSIZE` cells, which hold bytes in a data block and pointers in an
index block; `Byte` is disjoint from the block numbers, so a confusion of the
two is visible.  Block 0 is the superblock, `1..ndataBlocks` the data area; the
size of the disk is chosen by `Init`.  Blocks are never freed, so a free block
(`BlocksLast`) means that no allocation has failed yet.  A command
reads what it has to keep when it starts and queues its `writei` calls; each
iteration of a `writei` is a step, so the invariants hold between block writes
too.  `Finish` is the end of the command, where `content`, a history variable,
takes what the reply promised.  `cmd_d` with a position beyond the end returns an
error and changes nothing; it is not a step.  Sums of offsets are taken modulo
`WORD` as the code's `uint` does.

Commands are atomic with respect to each other (one thread).  The in-memory
inode and the table are one in the model, since `iget` gives every command the cached
inode.  The two agree when a command ends except in one case: a `writei` that runs out
of blocks returns before its `iupdate` (`inode.c:730`), and the `iput` that follows writes back only if
nobody else holds the inode.  Until then the table lacks the blocks just mapped, and a
mount that empties the cache at such a moment loses them; that is not modelled.
The name lookup, creation of a missing file by
`cmd_w` and times are left out, and so is a failing `malloc`.

### Namespace

`fs` is what the inode layer keeps: the inode bitmap and table, the entries of
each directory, and the cache of inodes with their reference counts.  An
operator named after a function takes the `fs` it starts from and gives the one
it leaves, with the cache slot if the function returns an inode.  An inode keeps
the number of its entries (`size`) and whose blocks hold them (`addrs`), so a
copy in the cache can be older than the directory.  A step is one handler with
everything it calls: the lookups and permission checks of `handle.c`, the
command, and every `iget`, `iput` and `iupdate` on the way, leaked references
included.  `.` and `..` are names like others where the constants
admit them, since the commands do.  Paths with slashes are left out: `mkdir` takes them for
names, and `cd`, once its handler has found such an entry, resolves the path instead.  Names of
`MAXNAME` characters and more are `LongNames`; `dir_add` stores them as `LongStem`, and the
lookups compare them in full (`LongName.cfg`; the other runs and the theorems about the tree
have none).

`on_connection` is `session_create` and `fs_mount`, which empties the cache
whoever holds its inodes.  It falls between two commands; in the program it runs
on the main thread and may also fall inside one.  A session logged in before
anything was formatted, or whose `iget` of the root directory failed, has no
current directory.  `useradd` and `userdel` do not need one; the other handlers follow
the null pointer, and the model gives such a session none of them (`Ready`).

`cat`, `w`, `i` and `d` put what they get, and `ls` does too unless its listing overflows
its buffer: the loop then ends without the `iput` of the last inode (`handle.c:201`).
None of them is an action here.  `user_check_perm` guards the handlers that are; the
permission checks of `ls`, `cat`, `w`, `i` and `d` are not modelled.

`iremove` is modelled as it is, and never frees anything: it returns if
anybody holds the inode, and `cmd_rm` and `cmd_rmdir` hold it.  Inode numbers are
used up, then `ialloc` goes behind the table (`full_table`).

### TcpServer

Steps are accesses to shared state.  The main thread copies `read_set`, enters
`select` (which refuses a set with a closed descriptor and then leaves the set
unchanged), returns from it, accepts, fills a slot, sets the bit of the new
descriptor and scans the slots, reading `connfd[i]` in one step and trying the
mutex in the next.  A pool thread takes a job, receives, calls `on_recv` for
what it got, and, to close a client, frees the buffers and closes the
descriptor, clears the bit, resets the slot and unlocks.  `FD_SET` and `FD_CLR`
are a load and a store of a shared word, so an update can get lost.  The kernel
gives the lowest free descriptor number to the next client.

When no slot is free `add_conn` only complains: the connection stays open, its
descriptor in no set, and its client is never read.

A job that finds its slot's buffers freed is undefined behaviour; the model
records it in `crashed` and stops there.  It can happen: the main thread reads a
slot's descriptor before it tries the mutex, and a job that clears the slot in
between is followed by a second one.  No run judges that yet.  The job queue is
a sequence, as `ThreadPool` allows.

### ThreadPool and JobQueue

A step is one access to shared memory, or a critical section nobody looks into
without the lock.  Locks held across two steps are variables (`rwmutex` while a
job is pushed or pulled and the semaphore posted, `thcount_lock` in
`thpool_wait` and in a thread that leaves).  `pthread_cond_signal` wakes any one
sleeper, and sleepers also wake by themselves.  The counters are the sets of the
threads they count.  `thpool_init` is `Init`; callers may use the pool once every
thread has started.  `thpool_destroy` sets `threads_keepalive`, posts to all until
no thread is alive, clears the queue and frees the pool.

What the header promises is `JobQueue`: a queue, the job of each thread, and a
phase.  `WaitsForAll` and `CallsReturn` are its promises about waiting.

Three limits, none of which the servers meet since they only call `thpool_init` and
`thpool_add_work`: a thread still unlocks `thcount_lock` after it has been freed;
of two threads in `thpool_wait` one is woken (`pthread_cond_signal`) and the
other only by later work, so the run has one waiter; and whoever calls
`thpool_destroy` must see to it that no one else uses the pool.

### TcpBuffer and Connection

A buffer is its read index and the bytes up to its write index; `adjust_buffer`
moves them to the front once the read index has passed the middle.  A byte is
the pair of the message it belongs to and its place in it, so bytes that are lost,
doubled or swapped show.  The header of a message is its first bytes; what it
says is the length that was chosen when the message was sent.  The kernel keeps
`KERNEL` bytes in each direction and gives any part of them to `recv`.  A turn of
the loop of `read_to_buffer` is a step; a job handles one message a step, then
sends until the kernel takes no more.

What the code does at the limits:

- a message of at most half the buffer, header included, always finds room,
  whatever came before it (`IndicesFit`); a longer one behind other traffic can fill
  the buffer before it is complete, since the indices of an empty buffer are not
  reset, and is then never handled;
- a reply that does not fit is dropped, and its client waits for ever;
- a client's message of more than `TCP_BUF_SIZE - 4` bytes is refused by
  `buffer_append`, and the client, which does not notice, waits for ever;
- `client_recv` goes to the socket before it looks at its buffer, so a client
  that sends ahead may wait although its reply has arrived.  The clients of the
  repository send one message and wait for the reply (`window` 1).

## Runs

| Run | Checks | Result |
| --- | --- | --- |
| `block_cache` | the invariants of `BlockCache`, exact write-back, refinement of `BlockStore` | holds |
| `spaced_block` | exact write-back for a block that begins with a space | violated: the data arrive shifted |
| `file_data` | exclusive blocks, exact bitmap, no holes, also on a disk that fills up; contents and superblock while blocks last | holds |
| `namespace` | one copy per inode, the tree of directories, names, the session's directory | holds |
| `cwd_alias` | a session keeps its directory while another connects | violated: the mount empties the inode cache |
| `full_table` | entries lead to allocated inodes, with the table full | violated: an inode is written over the root directory |
| `tcp_server` | one job per slot, own connection, distinct descriptors; with a thread for every client, which the servers do not have, every message is handled as long as no client goes | holds |
| `one_thread` | with the servers' one thread, every message is handled as long as no client goes | violated: the thread is held by a socket with nothing to read |
| `closed_descriptor` | with one thread, every message is handled while another client leaves | violated: closed before it leaves `read_set` |
| `thread_pool` | no job left behind, waiting and destroying, refinement of `JobQueue` | holds |
| `connection` | indices, framing, replies; every message is handled, every reply arrives | holds |
| `shared_link` | a thread gets the block it asked for | violated: the mount takes a command's block |

Five more configurations are kept beside the runs of `PROJECT.json`, for the cases that the
constants of those runs leave out; `tlc -config <configuration> <module>` repeats them.

| Configuration | Module | Checks | Result |
| --- | --- | --- | --- |
| `FullDiskSuperblock.cfg` | `MCFileData` | `SuperblockIntact`: the superblock on a disk that fills up | violated: erased by `bmap` |
| `LargerImage.cfg` | `MCBlockCache` | `CleanMatchesDisk`: a clean entry holds what the disk holds, with a superblock larger than the disk | violated: a refused read leaves its reply behind |
| `WrappedDelete.cfg` | `MCFileData` | `FileHoldsContent`: contents, with a `d` whose position and length wrap around | violated: the file grows |
| `LongName.cfg` | `Namespace` | `OneName`: no name twice in a directory, with a name of `MAXNAME` characters | violated: the name is cut and not found again |
| `OneThreadHeld.cfg` | `TcpServer` | `OnlyHeldUp`: with one thread and three clients, nothing but such a socket keeps a message from being handled | holds |

`LargerImage.cfg`: the disk server keeps an existing image as it is (`disk.c:29`), and the mount believes
the size it finds in block 0.  `WrappedDelete.cfg`: `d f 3 -2` on a file of three bytes (the length goes through
`atoi`) finds the tail at 1, writes it at 3 and sets the size to 5, where `fs.c:489` says "Delete len bytes
starting at pos".  `LongName.cfg`: `dir_add` stores 25 characters of a name (`dirop.c:24`), `dir_lookup`
compares 26 of the one it is given, and `cmd_mk` makes again a file that "already exists" (`fs.c:144`).
`FullDiskSuperblock.cfg`: `bmap` clears the index block it did not get, at address 0 (`inode.c:366`).

Both servers start one thread, and with one thread `AllServed` fails (`one_thread`).  `select`
reports a client while a job is about to read that client's message; the main thread tries the
slot's mutex after the job has unlocked it and queues a second job; that job finds
nothing to read, `read_to_buffer` retries `EAGAIN` until the client sends again, and nobody
else is served.  Two properties say what does hold.  `OnlyHeldUp`: a message that is never handled
has all threads held in this way for ever, and no other reason.  It is checked with the servers' one
thread and three clients, so that a scan with `nready` finds several of them ready, one whose slot
is busy, and others behind it.  `ServedByEnough`: with as many threads as clients, where a held thread costs
only its own client a thread, every message is handled; it says nothing of the servers as they
are configured, but much of the loop, since a message that arrives while the job for the
one before it ends must be found by a later scan.

Every violated property states what a comment of the repository says; the
findings in `PROJECT.json` quote it.

Two conditions are named in `BlockCache`: `NoLeadingSpace` (no block begins with
white space; `spaced_block` drops it) and `FitsDisk` (the superblock is not
larger than the disk).  Without `FitsDisk`, for instance with an image formatted
by a larger server, a refused read leaves its reply in the buffer, every later
request takes the reply of an earlier one, and neither `RepliesInSync` nor `CleanMatchesDisk`
holds: `LargerImage.cfg` shows the second.
`FileHoldsContent` says so only while blocks last, since `cmd_w` reports success
for a write that stopped early.  It also has limits that the constants of
`file_data` respect and that `FileContentProofs` names: `pos + len` must not wrap
(`NoWrap`; `WrappedDelete.cfg` has a length of 2^32 - 2, which a client writes as -2), sizes and strings must fit in 32 bits (`Addressable`), and no `i` may
make a file longer than the largest (`Fits`), because `cmd_i` ignores what `writei`
returns and reports success when the tail has been refused.

### Bounds

- `block_cache`: two entries and four blocks are enough for a miss
  to evict an entry while another stays; block numbers -1 and one too many reach
  the rejections; two block contents tell an old block from a new one.
- `file_data`: with two cells to a block and one direct pointer a file of nine
  blocks uses every level of the map, two index blocks below the double
  indirect one included; four commands on two files include a write, a
  shortening and a rewrite over the blocks left behind.  The longest file
  stays below the maximal size, as in the code, where the bitmap's 4096 blocks
  are fewer than the 16646 a file can map.  The disk has 24 data blocks, enough for
  four commands, or nine, fewer than one large file needs.
- `namespace`: one session, three cache slots and five inodes.  A command holds up
  to three inodes at a time, so with leaked references the cache is full in the
  middle of commands; root, `/home` and two or three more inodes make nested
  directories, a user's directory and a file beside them.  One name serves as a
  file, a directory and a user; `/home` can be removed and made again by a client
  or by `useradd`, and a directory called `..` can be made in the root directory.
  `.` as a name for `mkdir` and `rmdir` multiplies the states by eight; that
  instance was explored apart and holds too.  `Spare` keeps two inodes free when a
  command that makes one starts (`user_add` may need two), so the table does not
  overflow: that is `full_table`, with `Spare` 0.  `MaxRefs` bounds leaked
  references to one inode; a session that leaves and connects again starts with
  an empty cache.
- `LargerImage.cfg`: the disk of `block_cache`, with a superblock that names one block more.
- `WrappedDelete.cfg`: one file and two commands, the second of which may be a `d` with a
  length of `WORD` - 2.
- `LongName.cfg`: the name space of `cwd_alias` with one session; the only file name is long.
- `one_thread`: two clients, the least for one to wait because of the other.
- `OneThreadHeld.cfg`: three clients with a slot each and one thread; two messages, so that one can come
  while the other is being handled or while its client's slot is locked.
- `closed_descriptor`: two clients, one of which leaves, and one thread.
- `tcp_server`: two clients and two threads; the second client can get the
  descriptor the first one is about to give up, which is the hard case.  Two
  messages, of one client or of both, let a message arrive while the job for the
  one before it ends.  A three-client instance with one thread was also explored
  without a violation of the invariants.
- `thread_pool`: three threads, so that one is woken while one is busy and one
  about to sleep; two callers whose pushes coincide; three jobs, so that a pull
  leaves two in the queue and posts.
- `connection`: buffers of 12 bytes and headers of two, messages of three and
  six bytes, six being half the buffer: two messages fill it, and a third is cut
  anywhere.  The kernel's eight bytes are fewer than the two replies of a client
  that sends ahead, so that sending stops in the middle of a reply.
- `shared_link`: two entries and four blocks evict the superblock within two
  reads; the real cache has 1024 entries.

Deadlock is not checked where the system may rest: all clients silent, or the
bound on commands reached.

### Fairness

`FairSpec` of `TcpServer` asks that the main thread and each pool thread go on
when they can: they are kernel threads, and nothing but the scheduler stops
them.  A thread that waits in `select`, in `accept` or in the `EAGAIN` loop has
no step to take.  Clients are not assumed to do anything.  `FairSpec` of
`ThreadPool` asks the same of the pool's threads and of callers inside a call;
nobody has to make a call, and jobs end.  `FairSpec` of `Connection` asks it of
the job, which is queued while there is something to read (what `tcp_server`
shows, and what the one thread of the servers only grants while no other client's drained socket
holds it, `one_thread`), and of a client that waits for a reply.  Weak fairness is enough throughout:
locks are held for a few steps of a thread that goes on.

## Proofs

`BlockCacheProofs` proves, for every geometry, block size, cache capacity and
set of contents, under `FitsDisk`: `TypeOK`, `NoDuplicateEntries`,
`VictimExists`, `RepliesInSync`, `CleanMatchesDisk`, and with `NoLeadingSpace`
also `WriteBackExact` and the refinement `ImplementsBlockStore`.

The inductive invariant `IInv` joins these invariants with what they need:
list pointers lead to entries in use (`ListIn(cache_size)`), a cached block
number is one the disk has, and `sb_size` is one of the values the superblock
takes.  Being a correct doubly linked list is not part of it and is not true:
after a write miss the list holds one entry.  What replaces it is that `detach`
followed by `attach_tail` leaves a head whatever the list looked like, so a
full cache always finds a victim.  The proof goes bottom-up: geometry and
parsing (`Geometry`, `ParseWrite`), the two requests (`Fetch`, `Push`), the list
(`DetachType`, `AttachType`), eviction and load (`Alloc`, `LoadBlock`), a miss
and a hit (`MissStep`, `HitStep`), then the actions (`NextIInv`).  For the
refinement `CurrentValue` shows that what callers see is a function, `MissView`
that a miss changes it for one block only, although another one is evicted, and
`ReadRefines`, `WriteRefines`, `DownStep` and `RejectedStep` map each step to a
step of `BlockStore`.  The assumptions on the constants are `DiskAssumption` and
`CacheAssumption`.

`ThreadPoolProofs` proves, for any number of threads, callers and jobs: `TypeOK`,
`NoStranded`, `DestroyedIsQuiet`, `WaitsForAll` and that `Spec` implements
`JobQueue!Spec`.  The invariant `Inv` joins them with `Locks` (who holds a lock stands between the
two steps that need it), `Standing` (what a thread has taken and where it is
counted follows from its place in the loop), `Ending` (when a pool is being
destroyed) and `Accounting`.  `NoStranded` needs the first two: between push and
post the mutex is held, and a thread that took the semaphore goes on to the
queue.  `WaitsForAll` needs `Accounting`: a job is queued, in the hands of a thread
or finished, and a caller that has found the queue empty holds `thcount_lock`, so
that no thread leaves the count before its job is finished.

`TcpServerProofs` proves, for any number of clients, descriptors, slots and
threads: `TypeOK`, `OneHandler`, `DistinctFds` and `OwnConnection`.  The
invariant `Inv` has, besides types, four parts.  `OneJob`: a slot's job is queued or in the
hands of a thread, once at most, and then, and only then, the slot is locked.
`Descriptors`: a live slot's descriptor is open and its client's, a job that
receives or closes works on a live slot, and one that has closed its descriptor
keeps the slot reserved until the descriptor is out of `read_set`; this is why
a number can be given away again without two live slots sharing it.
`Placed`: a client is new, waits in the backlog or has one descriptor.  `Owed`: what
a client waits for is at least what lies in its socket and in the hands of
its job, so that counting answers never goes below zero.  The assumptions are
`ServerAssumption` and `PoolAssumption`.

`ConnectionProofs` proves, for any size of buffer, header and kernel buffer and
messages of any length: `TypeOK` and `IndicesFit`; `HandledAsSent` if no message is
longer than half a buffer (`Short`, and without it a message may be lost, see
above); `RepliesIntact` if no reply is empty (those of `reply_with_yes` and
`reply_with_no` never are).  The argument is about two streams: `ToServer`, the
server's read buffer followed by what the kernel holds, and `ToClient`, the
client's read buffer, the kernel's bytes and the server's write buffer.
`Effects` shows that every action, whatever it does to buffers, is one of four
steps on the streams: a packet is put behind one (`SendStep`), the first one is
taken and its reply put behind the other (`HandleStep`), a reply is taken
(`ReceiveStep`), or bytes move and both streams stay as they are (`MoveStep`).
`Inv` says that a stream is a sequence of whole packets, later ones behind
earlier ones (`Framed`, which says it of each byte, so that no induction over
the stream is needed), and that a message on its way has a higher number than
those handled.  `Whole` adds that no packet is missing, `Replies` that the
replies on their way are later than those the client has.  The assumptions on
the constants are `BufferAssumption` and `ConnectionAssumption`.

`FileDataProofs` proves, for any size of block, inode, file and disk: `TypeOK`,
`BlocksExclusive`, `BitmapExact` and `SuperblockKept`.  The block map is seen as a graph: `FromInode`
and `FromIndex` say which blocks an inode or an index block points to, `IsIndex`
which blocks hold pointers.  `Good` says that pointers lead into the data area,
no two to the same block (`Exclusive`), and that the bitmap marks exactly the
blocks reached (`Exact`); it is inductive because a block that is not marked is
reached by nothing (`Free`).  Only four things happen to the graph: an address is
added to an inode (`AddAddr`), a pointer to an index block (`AddPtr`), a block
without pointers is written (`WriteOther`), sizes change (`SameAddrs`).  A `Stage` is
a moment within `bmap`: `BmapAllocStage` follows it through every level, with an
allocation that succeeds or fails at each, and `DataBlock` shows that the block
it finds holds no pointers, so that `writei` may write to it.  `SuperblockKept`
comes with it: while the bitmap has a free block no allocation has failed, and no
address of 0 has been written to.  The assumption is `FileAssumption`.

`FileContentProofs` proves `NoHoles` (`NeverHoles`) under `NoWrap`: the position and
length of a `d` do not wrap around.  The condition is needed: with `p = 3` and
`n = 2^32 - 2` on a file of three bytes `cmd_d` finds the "tail" before the position and
sets a size of five, and if the disk is full the write has not mapped the bytes behind.
That sizes are covered (`Sized`) is not inductive, since a write maps blocks first
and raises the size at its end, or never.  `HInv` adds that the blocks of
a file are mapped from the first on without a gap (`Closed`), and, of the command in
progress, what every one of its `writei` calls relies on (`Underway`): it starts in
the file or in the first block that is missing, unless no block is left (`Ready`), the
second call starts where the first ends, and what is written is mapped
(`Writing`).  `Ready` is why a first call that fails does no harm to the second, which
`cmd_i` makes all the same: then the disk is full, and stays so.  The rest is what
one call of `bmap` does to what is mapped.  `BmapAllocGrows` says that it maps its own block
and no other, and fails only if no block is free; it rests on `EndsOnce`, that
two logical blocks, of one file or of two, never end at the same pointer, which
follows from `Good`.

On `IInv` and `HInv` the same module proves `FileHoldsContent`.  `AlwaysHoldsContent`
has the hypotheses `NoWrap` and `Addressable` on the constants and is about the
behaviours in which `Fits` always holds; `SmallFilesHoldContent` has no condition on
behaviours but one on the constants, `Small`: all commands together cannot make a
file longer than the largest (`SmallBy`; `LInv` is the bound after each command).
The constants of `file_data` satisfy all of them.

The strengthening is `CInv`: while blocks last, every file that no command is working
on has the size and the bytes of its content (`Holds`), and the command in
progress is on its way to its intent (`Progress`) or has admitted its failure before
writing anything (`Failed`).  On its way means: the bytes before the place where the
next iteration writes are those of the intent already (`Agrees`), the
rest of this call and the next call bring the bytes that follow, the last one ends
with the intent, and the size is right at the end, or will be set.  The condition
that blocks last is no gap in the induction: blocks are never freed by these commands, so that if
one is left after a step one was left before (`BlocksUsed`), and no mapping has
failed.  Three facts carry the steps:

- an iteration of `writei` changes the bytes of its own file from where it writes
  on and no other byte of any file (`BlockBytes`).  It rests on `MapsOnce` and
  `BlockWrites`: one `bmap` call maps one block, and no other file or
  logical block leads there, which is `EndsOnce` again;
- the strings a command starts from are what it read: `HeldIsRead` and `ReadiAll`
  say that `readi` of a file without holes returns its bytes, none left out, which
  is where `NoHoles` is needed;
- `Inserted` and `Deleted` say at which place the bytes of a string are after an
  insertion or a deletion, so that the two calls of `cmd_i` and the one of
  `cmd_d` bring the intent.

`NamespaceProofs` proves, for any number of inodes, cache slots, users and
connections: `TypeOK` and `CachedOnce`, and `SessionKeepsCwd` for one connection
(`OneSession`; `cwd_alias` shows it false for two).  The inductive invariant `IInv`
says that `fs` has its type, that it is `Sane` (no inode in two slots, no inode in a
slot without a reference) and that sessions refer to slots.  The argument for
`Sane` is the least free slot of `iget`: it takes one only if the inode is in none.
`Kept`, that the session's slot holds the directory it moved to, needs to know of
every operator which references it takes and gives up.  Each has a lemma of
that kind, from `iget` and `iput` up to whole commands: `dir_lookup` has one
reference more if it finds the name, a command none fewer than it started
with, whatever fails in it.  A leaked reference does no harm to either property.

`NamespaceTreeProofs` proves `EntriesLive`, `OneName`, `DotDot` and
`RemovesOnlyEmpty`, under `Enough`: one connection, at least two inodes,
`Spare` at least two, and no `LongNames`.  The first is needed because a mount that empties the cache
lets two sessions use one slot for two inodes (`cwd_alias`); the others because an
inode number beyond the table is written over other data (`full_table`), the
root directory and `/home` take two inodes, and the first login of a user may
take two more; the last because a long name is not found again (`LongName.cfg`).  The invariant adds `TInv` to `IInv` and `Kept`: the file system is
`Good`, mounted only with a root directory, and sessions are in directories.  `Good` has two
halves.

- `Cohere`: a slot that holds an inode agrees with the table in type, in the number of its
  entries and in whose blocks hold them, so that no write-back makes a
  directory shorter or hands it another one's entries.
- `TreeOK`, on the tree that table and entries make up (`TreeOf`): entries lead to allocated inodes of
  their type (`Leads`), no name is twice in a directory (`Once`), `..` of a child
  leads back and nowhere else (`Back`), the root directory is nobody's child
  (`Rooted`), an inode not allocated has no entries (`Blank`).

`Back` and `Rooted` are why `Leads` alone is not enough: a `..` made by a client in
the root directory must not make the root anybody's child.  The first part of the module is about trees
alone and says which changes keep them: `NewNode`, `Appended`, `NewSubdir`, `Cut`.  The
second shows that `iget`, `iput`, `dir_lookup`, `ialloc`, `dir_add` and
`dir_remove` do no more than one of these.  The third composes them: a command lets the
tree grow (`Grown`) or empties entries that lead to files or to directories with nothing but their own entries
(`OnlyEmpty`, which is `RemovesOnlyEmpty`).  `OneName` has the one argument that
is not local.  A lookup fails for a name that exists when the inode cache is full, and `cmd_mk`,
`cmd_mkdir` and `user_add` then take the name for free; but a cache that was
full for the lookup is still full for `ialloc`, which takes a slot too, so that
nothing is made (`Full`, `Stuck`).

Every invariant and action property of a passing run is stated by a theorem.  Only
model-checked are the liveness properties `ServedByEnough`, `OnlyHeldUp`, `CallsReturn`, `AllHandled` and
`Answered`, and of `ImplementsJobQueue` the part about fairness: fairness and
`ENABLED` are out of the prover's reach.  So is induction over data and anything that
needs `RECURSIVE` operators, of which the modules have none.

## Not modelled

- `cache_flush`/`cache_destroy` (never reached), `get_disk_info`, `free_block`;
- of a mount in the middle of a command, what it does to the inode cache and the
  superblock in memory; paths with slashes, groups;
- `ls`, and the permission checks of `ls`, `cat`, `w`, `i` and `d`;
- the order of the LRU list: after a write miss the victim is not the least
  recently used entry, which costs speed only;
- pausing and resuming the thread pool, which uses signals and no one calls;
- clients, argument parsing of the file server's handlers, logging, the local
  shell in `fs/src/main.c`: input and output.

## Plan

1. `fs_mount` on the main thread against whole commands: inode cache and
   superblock.
2. An abstract tree of names that `Namespace` implements while its conditions
   last, and an abstract file that `FileData` implements.

--------------------------- MODULE TcpServerProofs ---------------------------
(***************************************************************************)
(* Proofs about TcpServer, for every number of clients, descriptors, slots *)
(* and threads: its safety invariants.                                     *)
(***************************************************************************)
EXTENDS TcpServer, FiniteSetTheorems, TLAPS

-----------------------------------------------------------------------------
(* The inductive invariant *)

MainSteps   == {"copy", "select", "wait", "accept", "add_conn", "fd_set_load", "fd_set_store",
                "scan", "trylock"}
WorkerSteps == {"idle", "recv", "on_recv", "close", "fd_clr_load", "fd_clr_store", "reset",
                "unlock"}

MainState == [pc : MainSteps, i : Nat, fd : Fds \cup {-1}, set : SUBSET (Fds \cup {Listen})]
Worker    == [pc : WorkerSteps, i : Slots, fd : Fds \cup {-1}, got : Seq(Messages),
              set : SUBSET (Fds \cup {Listen})]

\* TypeOK for all variables, without the bounds of unanswered, which Owed has.
KernelTypes ==
    /\ status \in [Clients -> {"new", "on", "left", "closed"}]
    /\ sent \in [Clients -> 0..MaxSent]
    /\ inbox \in [Clients -> Seq(Messages)]
    /\ backlog \in Seq(Clients)
    /\ conn \in [Fds -> Clients \cup {None}]
    /\ unanswered \in [Clients -> Int]

PoolTypes ==
    /\ read_set \subseteq Fds \cup {Listen} /\ ready_set \subseteq Fds \cup {Listen}
    /\ maxi \in Slots
    /\ connfd \in [Slots -> Fds \cup {-1}]
    /\ mutex \in [Slots -> BOOLEAN]
    /\ live \subseteq Slots /\ owner \in [Slots -> Clients \cup {None}]
    /\ queue \in Seq(Slots)
    /\ crashed \in BOOLEAN

MainTypes ==
    /\ main \in MainState
    /\ main.pc \in {"trylock", "fd_set_load", "fd_set_store"} => main.i \in Slots
    /\ main.pc \in {"add_conn", "fd_set_load", "fd_set_store"} => main.fd \in Fds

Types == KernelTypes /\ PoolTypes /\ MainTypes /\ worker \in [Threads -> Worker]

Busy(t)    == worker[t].pc # "idle"
Working(t) == worker[t].pc \in {"recv", "on_recv", "close"}
Closing(t) == worker[t].pc \in {"fd_clr_load", "fd_clr_store", "reset"}

\* A slot is queued or handled once at most, and then, and only then, locked.
OneJob ==
    /\ \A k, l \in 1 .. Len(queue) : queue[k] = queue[l] => k = l
    /\ \A t, u \in Threads : Busy(t) /\ Busy(u) /\ worker[t].i = worker[u].i => t = u
    /\ \A k \in 1 .. Len(queue), t \in Threads : Busy(t) => queue[k] # worker[t].i
    /\ \A k \in 1 .. Len(queue) : mutex[queue[k]]
    /\ \A t \in Threads : Busy(t) => mutex[worker[t].i]
    /\ \A i \in Slots : mutex[i] => \/ \E k \in 1 .. Len(queue) : queue[k] = i
                                    \/ \E t \in Threads : Busy(t) /\ worker[t].i = i

\* A live slot's descriptor is open, belongs to its client and is in no other
\* live slot; a job works on a live slot, and one that closes keeps it reserved
\* until its descriptor is removed from read_set.
Descriptors ==
    /\ \A i \in live : connfd[i] \in Fds /\ owner[i] \in Clients /\ conn[connfd[i]] = owner[i]
    /\ DistinctFds
    /\ main.pc = "add_conn" => /\ conn[main.fd] \in Clients
                               /\ \A i \in live : connfd[i] # main.fd
    /\ ~crashed => \A t \in Threads :
          Working(t) => worker[t].i \in live /\ worker[t].fd = connfd[worker[t].i]
    /\ \A t \in Threads : Closing(t) => worker[t].i \notin live /\ connfd[worker[t].i] # -1

\* A client is new, waits to be accepted, or has one descriptor.
Placed ==
    /\ \A k, l \in 1 .. Len(backlog) : backlog[k] = backlog[l] => k = l
    /\ \A k \in 1 .. Len(backlog) : status[backlog[k]] # "new"
    /\ \A fd \in Fds : conn[fd] \in Clients => status[conn[fd]] # "new"
    /\ \A k \in 1 .. Len(backlog), fd \in Fds : backlog[k] # conn[fd]
    /\ \A f, g \in Fds : conn[f] \in Clients /\ conn[f] = conn[g] => f = g

\* What a client still waits for is in its socket or in the hands of a job.
Owed ==
    /\ \A c \in Clients : Len(inbox[c]) <= unanswered[c] /\ unanswered[c] <= sent[c]
    /\ \A t \in Threads :
          worker[t].pc = "on_recv" /\ owner[worker[t].i] \in Clients =>
              Len(inbox[owner[worker[t].i]]) + Len(worker[t].got)
                  <= unanswered[owner[worker[t].i]]

Inv == Types /\ OneJob /\ Descriptors /\ Placed /\ Owed

-----------------------------------------------------------------------------
(* Sequences *)

\* Taking the first element of a sequence.
LEMMA TakeFirst ==
    ASSUME NEW S, NEW s \in Seq(S), s # <<>>
    PROVE  /\ Head(s) \in S /\ Head(s) = s[1] /\ 1 \in 1 .. Len(s)
           /\ Tail(s) \in Seq(S) /\ Len(Tail(s)) = Len(s) - 1
           /\ \A k \in 1 .. Len(Tail(s)) : Tail(s)[k] = s[k + 1] /\ k + 1 \in 1 .. Len(s)
  OBVIOUS

\* Adding one at the end.
LEMMA AddLast ==
    ASSUME NEW S, NEW s \in Seq(S), NEW x \in S
    PROVE  /\ Append(s, x) \in Seq(S) /\ Len(Append(s, x)) = Len(s) + 1
           /\ \A k \in 1 .. Len(s) : Append(s, x)[k] = s[k]
           /\ Append(s, x)[Len(s) + 1] = x
  OBVIOUS

-----------------------------------------------------------------------------
(* What a thread's step does to the thread itself *)

\* A worker sent to another step stays a worker, and no other one changes.
LEMMA SetPc ==
    ASSUME NEW w \in [Threads -> Worker], NEW u \in Threads, NEW p \in WorkerSteps, NEW v,
           v = [w EXCEPT ![u].pc = p]
    PROVE  /\ v \in [Threads -> Worker]
           /\ \A t \in Threads : t # u => v[t] = w[t]
           /\ v[u].pc = p /\ v[u].i = w[u].i /\ v[u].fd = w[u].fd /\ v[u].got = w[u].got
  BY DEF Worker

\* Only thread u takes a step, from one place to one of some others.
Step(u, from, to) ==
    /\ ~crashed /\ worker[u].pc = from
    /\ worker' \in [Threads -> Worker]
    /\ \A t \in Threads : t # u => worker'[t] = worker[t]
    /\ worker'[u].pc \in to

\* A step inside a job.
JobStep(u, from, to) ==
    Step(u, from, to) /\ worker'[u].i = worker[u].i /\ worker'[u].fd = worker[u].fd

\* Every step of a job leads to the next ones of handle_read, in its order, and
\* keeps slot and descriptor from recv on.
LEMMA JobMoves ==
    ASSUME Types, Descriptors, NEW u \in Threads
    PROVE  /\ read_to_buffer(u) => JobStep(u, "recv", {"on_recv", "close"})
           /\ on_recv(u) => JobStep(u, "on_recv", {"close", "unlock"})
           /\ cleanup_close(u) => JobStep(u, "close", {"fd_clr_load"})
           /\ fd_clr_load(u) => JobStep(u, "fd_clr_load", {"fd_clr_store"})
           /\ fd_clr_store(u) => JobStep(u, "fd_clr_store", {"reset"})
           /\ reset_slot(u) => JobStep(u, "reset", {"unlock"})
<1> USE DEF JobStep, Step, In, Move, WorkerSteps
<1>1. worker \in [Threads -> Worker]
  BY DEF Types
<1> DEFINE JobMoved(p) == /\ worker' \in [Threads -> Worker]
                          /\ \A t \in Threads : t # u => worker'[t] = worker[t]
                          /\ worker'[u].pc = p /\ worker'[u].i = worker[u].i
                          /\ worker'[u].fd = worker[u].fd
<1>2. ASSUME read_to_buffer(u) PROVE JobStep(u, "recv", {"on_recv", "close"})
  <2>1. CASE inbox[conn[worker[u].fd]] # <<>>
    <3>1. conn[worker[u].fd] \in Clients
      <4>1. worker[u].fd \in Fds \cup {-1}
        BY <1>1 DEF Worker
      <4>2. Readable(worker[u].fd)
        BY <1>2 DEF read_to_buffer
      <4>3. worker[u].fd # Listen
        BY <4>1 DEF Fds, Listen
      <4>4. conn[worker[u].fd] # None
        BY <4>2, <4>3 DEF Readable
      <4>5. worker[u].fd \in Fds
        BY <1>2 DEF read_to_buffer, Descriptors, Working
      <4>6. QED
        BY <4>4, <4>5 DEF Types, KernelTypes
    <3>2. inbox[conn[worker[u].fd]] \in Seq(Messages)
      BY <3>1 DEF Types, KernelTypes
    <3>3. worker' = [worker EXCEPT ![u].pc = "on_recv",
                                   ![u].got = inbox[conn[worker[u].fd]]]
      BY <1>2, <2>1 DEF read_to_buffer
    <3>4. JobMoved("on_recv")
      BY <1>1, <3>2, <3>3 DEF Worker
    <3>5. QED
      BY <1>2, <3>4 DEF read_to_buffer
  <2>2. CASE inbox[conn[worker[u].fd]] = <<>>
    <3>1. worker' = [worker EXCEPT ![u].pc = "close"]
      BY <1>2, <2>2 DEF read_to_buffer
    <3>2. QED
      BY <1>1, <1>2, <3>1, SetPc DEF read_to_buffer
  <2>3. QED
    BY <2>1, <2>2
<1>3. ASSUME on_recv(u) PROVE JobStep(u, "on_recv", {"close", "unlock"})
  <2>1. PICK p \in {"close", "unlock"} : worker' = [worker EXCEPT ![u].pc = p, ![u].got = <<>>]
    BY <1>3 DEF on_recv
  <2>2. <<>> \in Seq(Messages)
    OBVIOUS
  <2>3. JobMoved(p)
    BY <1>1, <2>1, <2>2 DEF Worker
  <2>4. QED
    BY <1>3, <2>3 DEF on_recv
<1>4. ASSUME cleanup_close(u) PROVE JobStep(u, "close", {"fd_clr_load"})
  <2>1. worker' = [worker EXCEPT ![u].pc = "fd_clr_load"]
    BY <1>4 DEF cleanup_close
  <2>2. QED
    BY <1>1, <1>4, <2>1, SetPc DEF cleanup_close
<1>5. ASSUME fd_clr_load(u) PROVE JobStep(u, "fd_clr_load", {"fd_clr_store"})
  <2>1. worker' = [worker EXCEPT ![u].pc = "fd_clr_store", ![u].set = read_set]
    BY <1>5 DEF fd_clr_load
  <2>2. read_set \in SUBSET (Fds \cup {Listen})
    BY DEF Types, PoolTypes
  <2>3. JobMoved("fd_clr_store")
    BY <1>1, <2>1, <2>2 DEF Worker
  <2>4. QED
    BY <1>5, <2>3 DEF fd_clr_load
<1>6. ASSUME fd_clr_store(u) PROVE JobStep(u, "fd_clr_store", {"reset"})
  <2>1. worker' = [worker EXCEPT ![u].pc = "reset", ![u].set = {}]
    BY <1>6 DEF fd_clr_store
  <2>2. {} \in SUBSET (Fds \cup {Listen})
    OBVIOUS
  <2>3. JobMoved("reset")
    BY <1>1, <2>1, <2>2 DEF Worker
  <2>4. QED
    BY <1>6, <2>3 DEF fd_clr_store
<1>7. ASSUME reset_slot(u) PROVE JobStep(u, "reset", {"unlock"})
  <2>1. worker' = [worker EXCEPT ![u].pc = "unlock"]
    BY <1>7 DEF reset_slot
  <2>2. QED
    BY <1>1, <1>7, <2>1, SetPc DEF reset_slot
<1>8. QED
  BY <1>2, <1>3, <1>4, <1>5, <1>6, <1>7

\* The beginning and the end of a job.
LEMMA JobEnds ==
    ASSUME Types, NEW u \in Threads
    PROVE  /\ handle_read(u) => /\ Step(u, "idle", {"recv"})
                                /\ worker'[u].i = Head(queue)
                                /\ worker'[u].fd = connfd[Head(queue)]
           /\ unlock(u) => Step(u, "unlock", {"idle"})
<1> USE DEF Step, In
<1>1. worker \in [Threads -> Worker]
  BY DEF Types
<1>2. IdleThread \in Worker /\ IdleThread.pc = "idle"
  BY ServerAssumption DEF Slots, Worker, WorkerSteps, IdleThread
<1>3. ASSUME handle_read(u)
      PROVE  /\ Step(u, "idle", {"recv"})
             /\ worker'[u].i = Head(queue) /\ worker'[u].fd = connfd[Head(queue)]
  <2> DEFINE w == [IdleThread EXCEPT !.pc = "recv", !.i = Head(queue), !.fd = connfd[Head(queue)]]
  <2>1. Head(queue) \in Slots
    BY <1>3, TakeFirst DEF handle_read, Types, PoolTypes
  <2>2. connfd[Head(queue)] \in Fds \cup {-1}
    BY <2>1 DEF Types, PoolTypes
  <2>3. w \in Worker /\ w.pc = "recv" /\ w.i = Head(queue) /\ w.fd = connfd[Head(queue)]
    BY <1>2, <2>1, <2>2 DEF Worker, WorkerSteps
  <2>4. worker' = [worker EXCEPT ![u] = w]
    BY <1>3 DEF handle_read
  <2> HIDE DEF w
  <2>5. worker' \in [Threads -> Worker] /\ worker'[u] = w
    BY <1>1, <2>3, <2>4
  <2>6. \A t \in Threads : t # u => worker'[t] = worker[t]
    BY <1>1, <2>4
  <2>7. ~crashed /\ worker[u].pc = "idle"
    BY <1>3 DEF handle_read
  <2>8. QED
    BY <2>3, <2>5, <2>6, <2>7
<1>4. ASSUME unlock(u) PROVE Step(u, "unlock", {"idle"})
  <2>1. worker' = [worker EXCEPT ![u] = IdleThread]
    BY <1>4 DEF unlock
  <2>2. worker' \in [Threads -> Worker] /\ worker'[u] = IdleThread
    BY <1>1, <1>2, <2>1
  <2>3. \A t \in Threads : t # u => worker'[t] = worker[t]
    BY <1>1, <2>1
  <2>4. QED
    BY <1>2, <1>4, <2>2, <2>3 DEF unlock
<1>5. QED
  BY <1>3, <1>4

\* A step inside a job leaves the queue and the mutexes alone.
InJob(u) ==
    \/ read_to_buffer(u) \/ on_recv(u) \/ cleanup_close(u)
    \/ fd_clr_load(u) \/ fd_clr_store(u) \/ reset_slot(u)

\* A job in progress leaves queue, mutexes and the main thread alone.
LEMMA InJobKeeps ==
    ASSUME NEW u, InJob(u)
    PROVE  UNCHANGED <<queue, mutex, owner, main, maxi, ready_set, sent, backlog, crashed>>
  BY DEF InJob, read_to_buffer, on_recv, cleanup_close, fd_clr_load, fd_clr_store, reset_slot,
         pool, kernel

-----------------------------------------------------------------------------
(* The invariant is inductive *)

\* Types: the main thread.
LEMMA MainTypesStep ==
    ASSUME Types, [Next]_vars
    PROVE  MainTypes'
<1> USE DEF MainState, MainSteps
<1>1. MainTypes /\ maxi \in Slots /\ read_set \subseteq Fds \cup {Listen}
  BY DEF Types, PoolTypes
<1>2. CASE copy_read_set
  BY <1>1, <1>2 DEF MainTypes, copy_read_set, Goto
<1>3. CASE select_enter
  <2>1. PICK pc \in {"accept", "wait"} : main' = [main EXCEPT !.pc = pc]
    BY <1>3 DEF select_enter, Goto
  <2>2. QED
    BY <1>1, <2>1 DEF MainTypes
<1>4. CASE select_return
  <2>1. PICK pc \in {"accept", "scan"} : main' = [main EXCEPT !.pc = pc, !.i = 0]
    BY <1>4 DEF select_return
  <2>2. QED
    BY <1>1, <2>1 DEF MainTypes
<1>5. CASE accept
  <2>1. PICK fd \in Fds : main' = [main EXCEPT !.pc = "add_conn", !.fd = fd]
    BY <1>5 DEF accept
  <2>2. QED
    BY <1>1, <2>1 DEF MainTypes
<1>6. CASE add_conn
  <2>1. main.fd \in Fds
    BY <1>1, <1>6 DEF MainTypes, add_conn, At
  <2>2. CASE main' = [main EXCEPT !.pc = "scan", !.i = 0]
    BY <1>1, <2>2 DEF MainTypes
  <2>3. CASE \E i \in Slots : main' = [main EXCEPT !.pc = "fd_set_load", !.i = i]
    <3>1. PICK i \in Slots : main' = [main EXCEPT !.pc = "fd_set_load", !.i = i]
      BY <2>3
    <3>2. i \in Nat
      BY ServerAssumption DEF Slots
    <3>3. QED
      BY <1>1, <2>1, <3>1, <3>2 DEF MainTypes
  <2>4. QED
    BY <1>6, <2>2, <2>3 DEF add_conn
<1>7. CASE fd_set_load
  <2>1. main.fd \in Fds /\ main.i \in Slots
    BY <1>1, <1>7 DEF MainTypes, fd_set_load, At
  <2>2. main' = [main EXCEPT !.pc = "fd_set_store", !.set = read_set]
    BY <1>7 DEF fd_set_load
  <2>3. QED
    BY <1>1, <2>1, <2>2 DEF MainTypes
<1>8. CASE fd_set_store
  BY <1>8 DEF fd_set_store, MainTypes
<1>9. CASE scan
  <2>1. CASE main.i > maxi \/ nready <= 0
    <3>1. main' = [main EXCEPT !.pc = "copy", !.i = 0]
      BY <1>9, <2>1 DEF scan
    <3>2. QED
      BY <1>1, <3>1 DEF MainTypes
  <2>2. CASE ~(main.i > maxi \/ nready <= 0) /\ main' = [main EXCEPT !.pc = "trylock"]
    <3>1. main.i \in Slots
      BY <1>1, <2>2, ServerAssumption DEF MainTypes, Slots
    <3>2. QED
      BY <1>1, <2>2, <3>1 DEF MainTypes
  <2>3. CASE main' = [main EXCEPT !.i = @ + 1]
    <3>1. main.pc = "scan"
      BY <1>9 DEF scan, At
    <3>2. QED
      BY <1>1, <2>3, <3>1 DEF MainTypes
  <2>4. QED
    BY <1>9, <2>1, <2>2, <2>3 DEF scan
<1>10. CASE trylock
  <2>1. main' = [main EXCEPT !.pc = "scan", !.i = main.i + 1]
    BY <1>10 DEF trylock
  <2>2. main.i + 1 \in Nat
    BY <1>1 DEF MainTypes
  <2>3. QED
    BY <1>1, <2>1, <2>2 DEF MainTypes
<1>11. CASE UNCHANGED main
  BY <1>1, <1>11 DEF MainTypes
<1>12. QED
  BY <1>2, <1>3, <1>4, <1>5, <1>6, <1>7, <1>8, <1>9, <1>10, <1>11, InJobKeeps
  DEF Next, server_run, Thread, Client, InJob, handle_read, unlock, client_init, client_send,
      client_destroy, vars

\* Types: the threads.
LEMMA WorkerTypesStep ==
    ASSUME Types, Descriptors, [Next]_vars
    PROVE  worker' \in [Threads -> Worker]
<1>1. ASSUME NEW u \in Threads, Thread(u) PROVE worker' \in [Threads -> Worker]
  BY <1>1, JobMoves, JobEnds DEF Thread, JobStep, Step
<1>2. ASSUME UNCHANGED worker PROVE worker' \in [Threads -> Worker]
  BY <1>2 DEF Types
<1>3. QED
  BY <1>1, <1>2
  DEF Next, server_run, Client, vars, copy_read_set, select_enter, select_return, accept, add_conn,
      fd_set_load, fd_set_store, scan, trylock, client_init, client_send, client_destroy

\* Types: clients and kernel.
LEMMA KernelTypesStep ==
    ASSUME Types, Descriptors, [Next]_vars
    PROVE  KernelTypes'
<1>1. KernelTypes
  BY DEF Types
<1>2. ASSUME UNCHANGED <<kernel, unanswered>> PROVE KernelTypes'
  BY <1>1, <1>2 DEF KernelTypes, kernel
<1>3. CASE accept
  <2>1. Head(backlog) \in Clients /\ backlog' \in Seq(Clients)
    BY <1>1, <1>3, TakeFirst DEF accept, KernelTypes
  <2>2. conn' \in [Fds -> Clients \cup {None}]
    BY <1>1, <1>3, <2>1 DEF accept, KernelTypes
  <2>3. QED
    BY <1>1, <1>3, <2>1, <2>2 DEF accept, KernelTypes
<1>4. ASSUME NEW u \in Threads, read_to_buffer(u) PROVE KernelTypes'
  <2>1. \/ UNCHANGED inbox
        \/ inbox' = [inbox EXCEPT ![conn[worker[u].fd]] = <<>>]
    BY <1>4 DEF read_to_buffer
  <2>2. inbox' \in [Clients -> Seq(Messages)]
    <3>1. <<>> \in Seq(Messages)
      OBVIOUS
    <3>2. QED
      BY <1>1, <2>1, <3>1 DEF KernelTypes
  <2>3. QED
    BY <1>1, <1>4, <2>2 DEF read_to_buffer, KernelTypes
<1>5. ASSUME NEW u \in Threads, on_recv(u) PROVE KernelTypes'
  <2>1. Len(worker[u].got) \in Nat
    BY DEF Types, Worker
  <2>2. unanswered' \in [Clients -> Int]
    <3>1. unanswered' = [unanswered EXCEPT ![owner[worker[u].i]] = @ - Len(worker[u].got)]
      BY <1>5 DEF on_recv
    <3>2. CASE owner[worker[u].i] \in Clients
      <4>1. unanswered[owner[worker[u].i]] - Len(worker[u].got) \in Int
        BY <1>1, <2>1, <3>2 DEF KernelTypes
      <4>2. QED
        BY <1>1, <3>1, <4>1 DEF KernelTypes
    <3>3. CASE owner[worker[u].i] \notin Clients
      BY <1>1, <3>1, <3>3 DEF KernelTypes
    <3>4. QED
      BY <3>2, <3>3
  <2>3. QED
    BY <1>1, <1>5, <2>2 DEF on_recv, KernelTypes, kernel
<1>6. ASSUME NEW u \in Threads, cleanup_close(u) PROVE KernelTypes'
  <2>1. conn' \in [Fds -> Clients \cup {None}]
    BY <1>1, <1>6 DEF cleanup_close, KernelTypes
  <2>2. status' \in [Clients -> {"new", "on", "left", "closed"}]
    BY <1>1, <1>6 DEF cleanup_close, KernelTypes
  <2>3. QED
    BY <1>1, <1>6, <2>1, <2>2 DEF cleanup_close, KernelTypes
<1>7. ASSUME NEW d \in Clients, client_init(d) PROVE KernelTypes'
  BY <1>1, <1>7, AddLast DEF client_init, KernelTypes
<1>8. ASSUME NEW d \in Clients, NEW m \in Messages, client_send(d, m) PROVE KernelTypes'
  <2>1. inbox' \in [Clients -> Seq(Messages)]
    BY <1>1, <1>8, AddLast DEF client_send, KernelTypes
  <2>2. sent' \in [Clients -> 0..MaxSent] /\ unanswered' \in [Clients -> Int]
    BY <1>1, <1>8, ServerAssumption DEF client_send, KernelTypes
  <2>3. QED
    BY <1>1, <1>8, <2>1, <2>2 DEF client_send, KernelTypes
<1>9. ASSUME NEW d \in Clients, client_destroy(d) PROVE KernelTypes'
  BY <1>1, <1>9 DEF client_destroy, KernelTypes
<1>10. QED
  BY <1>2, <1>3, <1>4, <1>5, <1>6, <1>7, <1>8, <1>9
  DEF Next, server_run, Thread, Client, vars, copy_read_set, select_enter, select_return,
      add_conn, fd_set_load, fd_set_store, scan, trylock, handle_read, fd_clr_load, fd_clr_store,
      reset_slot, unlock

\* Types: the pool.
LEMMA PoolTypesStep ==
    ASSUME Types, [Next]_vars
    PROVE  PoolTypes'
<1>1. PoolTypes /\ MainTypes /\ KernelTypes
  BY DEF Types
<1>2. ASSUME UNCHANGED <<pool, queue, crashed>> PROVE PoolTypes'
  BY <1>1, <1>2 DEF PoolTypes, pool
<1>3. CASE copy_read_set
  BY <1>1, <1>3 DEF PoolTypes, copy_read_set
<1>4. CASE select_enter
  BY <1>1, <1>4 DEF PoolTypes, select_enter
<1>5. CASE select_return
  BY <1>1, <1>5 DEF PoolTypes, select_return
<1>6. CASE add_conn
  <2>1. main.fd \in Fds /\ conn[main.fd] \in Clients \cup {None}
    BY <1>1, <1>6 DEF MainTypes, KernelTypes, add_conn, At
  <2>2. CASE UNCHANGED <<connfd, live, owner>>
    BY <1>1, <1>6, <2>2 DEF PoolTypes, add_conn
  <2>3. CASE \E i \in Slots : /\ connfd' = [connfd EXCEPT ![i] = main.fd]
                              /\ live' = live \cup {i}
                              /\ owner' = [owner EXCEPT ![i] = conn[main.fd]]
    <3>1. /\ connfd' \in [Slots -> Fds \cup {-1}] /\ live' \subseteq Slots
          /\ owner' \in [Slots -> Clients \cup {None}]
      BY <1>1, <2>1, <2>3 DEF PoolTypes
    <3>2. QED
      BY <1>1, <1>6, <3>1 DEF PoolTypes, add_conn
  <2>4. QED
    BY <1>6, <2>2, <2>3 DEF add_conn
<1>7. CASE fd_set_store
  <2>1. main.set \subseteq Fds \cup {Listen} /\ main.fd \in Fds /\ main.i \in Slots
    BY <1>1, <1>7 DEF MainTypes, MainState, fd_set_store, At
  <2>2. QED
    BY <1>1, <1>7, <2>1 DEF PoolTypes, fd_set_store
<1>8. CASE trylock
  <2>1. main.i \in Slots
    BY <1>1, <1>8 DEF MainTypes, trylock, At
  <2>2. queue' \in Seq(Slots)
    BY <1>1, <1>8, <2>1, AddLast DEF trylock, PoolTypes
  <2>3. mutex' \in [Slots -> BOOLEAN]
    BY <1>1, <1>8 DEF trylock, PoolTypes
  <2>4. QED
    BY <1>1, <1>8, <2>2, <2>3 DEF trylock, PoolTypes
<1>9. ASSUME NEW u \in Threads, handle_read(u) PROVE PoolTypes'
  <2>1. queue' \in Seq(Slots)
    BY <1>1, <1>9, TakeFirst DEF handle_read, PoolTypes
  <2>2. QED
    BY <1>1, <1>9, <2>1 DEF handle_read, PoolTypes, pool
<1>10. ASSUME NEW u \in Threads, cleanup_close(u) PROVE PoolTypes'
  BY <1>1, <1>10 DEF cleanup_close, PoolTypes
<1>11. ASSUME NEW u \in Threads, fd_clr_store(u) PROVE PoolTypes'
  <2>1. worker[u].set \subseteq Fds \cup {Listen}
    BY DEF Types, Worker
  <2>2. QED
    BY <1>1, <1>11, <2>1 DEF fd_clr_store, PoolTypes
<1>12. ASSUME NEW u \in Threads, reset_slot(u) PROVE PoolTypes'
  BY <1>1, <1>12 DEF reset_slot, PoolTypes
<1>13. ASSUME NEW u \in Threads, unlock(u) PROVE PoolTypes'
  BY <1>1, <1>13 DEF unlock, PoolTypes
<1>14. QED
  BY <1>2, <1>3, <1>4, <1>5, <1>6, <1>7, <1>8, <1>9, <1>10, <1>11, <1>12, <1>13
  DEF Next, server_run, Thread, Client, vars, accept, fd_set_load, scan, read_to_buffer, on_recv,
      fd_clr_load, client_init, client_send, client_destroy

\* Types: all of them.
LEMMA TypesStep ==
    ASSUME Types, Descriptors, [Next]_vars
    PROVE  Types'
  BY MainTypesStep, WorkerTypesStep, KernelTypesStep, PoolTypesStep DEF Types

\* Mutexes and jobs.
LEMMA OneJobStep ==
    ASSUME Types, OneJob, Descriptors, [Next]_vars
    PROVE  OneJob'
<1>1. ASSUME UNCHANGED <<queue, mutex, worker>> PROVE OneJob'
  BY <1>1 DEF OneJob, Busy
<1>2. CASE trylock
  <2>1. CASE mutex[main.i]
    BY <1>1, <1>2, <2>1 DEF trylock
  <2>2. CASE ~mutex[main.i]
    <3>1. main.i \in Slots
      BY <1>2 DEF Types, MainTypes, trylock, At
    <3>2. /\ queue' = Append(queue, main.i) /\ UNCHANGED worker
          /\ mutex' = [mutex EXCEPT ![main.i] = TRUE]
      BY <1>2, <2>2 DEF trylock
    <3>3. /\ Len(queue') = Len(queue) + 1 /\ queue'[Len(queue) + 1] = main.i
          /\ \A k \in 1 .. Len(queue) : queue'[k] = queue[k] /\ queue[k] \in Slots
          /\ Len(queue) \in Nat
      BY <3>1, <3>2, AddLast DEF Types, PoolTypes
    <3>4. /\ mutex'[main.i] /\ \A i \in Slots : i # main.i => mutex'[i] = mutex[i]
          /\ \A t \in Threads : worker[t].i \in Slots
      BY <3>1, <3>2 DEF Types, PoolTypes, Worker
    <3>5. /\ \A k \in 1 .. Len(queue) : queue[k] # main.i
          /\ \A t \in Threads : Busy(t) => worker[t].i # main.i
      BY <2>2 DEF OneJob
    <3>6. \A t \in Threads : (Busy(t) <=> Busy(t)') /\ worker'[t].i = worker[t].i
      BY <3>2 DEF Busy
    <3>7. \A k \in 1 .. Len(queue') : k \in 1 .. Len(queue) \/ k = Len(queue) + 1
      BY <3>3
    <3>8. QED
      BY <3>3, <3>4, <3>5, <3>6, <3>7 DEF OneJob
  <2>3. QED
    BY <2>1, <2>2
<1>3. ASSUME NEW u \in Threads, handle_read(u) PROVE OneJob'
  <2>1. /\ Step(u, "idle", {"recv"}) /\ worker'[u].i = Head(queue)
        /\ queue' = Tail(queue) /\ UNCHANGED mutex /\ queue # <<>>
    BY <1>3, JobEnds DEF handle_read, pool
  <2>2. /\ Len(queue') = Len(queue) - 1 /\ Head(queue) = queue[1] /\ 1 \in 1 .. Len(queue)
        /\ \A k \in 1 .. Len(queue') : queue'[k] = queue[k + 1] /\ k + 1 \in 1 .. Len(queue)
        /\ Len(queue) \in Nat
    BY <2>1, TakeFirst DEF Types, PoolTypes
  <2>3. \A k \in 2 .. Len(queue) : k - 1 \in 1 .. Len(queue') /\ queue'[k - 1] = queue[k]
    BY <2>2
  <2>4. \A t \in Threads : /\ Busy(t)' <=> Busy(t) \/ t = u
                           /\ t # u => worker'[t].i = worker[t].i
    BY <2>1 DEF Step, Busy
  <2>5. \A k, l \in 1 .. Len(queue') : queue'[k] = queue'[l] => k = l
    BY <2>2 DEF OneJob
  <2>6. \A k \in 1 .. Len(queue') : queue'[k] # worker'[u].i
    BY <2>1, <2>2 DEF OneJob
  <2>7. \A k \in 1 .. Len(queue'), t \in Threads : Busy(t)' => queue'[k] # worker'[t].i
    BY <2>2, <2>4, <2>6 DEF OneJob
  <2>8. \A i \in Slots : mutex[i] => \/ \E k \in 1 .. Len(queue') : queue'[k] = i
                                     \/ \E t \in Threads : Busy(t)' /\ worker'[t].i = i
    <3>1. SUFFICES ASSUME NEW i \in Slots, mutex[i], NEW k \in 1 .. Len(queue), queue[k] = i
                   PROVE  \/ \E l \in 1 .. Len(queue') : queue'[l] = i
                          \/ \E t \in Threads : Busy(t)' /\ worker'[t].i = i
      BY <2>1, <2>4 DEF OneJob, Step, Busy
    <3>2. CASE k = 1
      BY <2>1, <2>2, <2>4, <3>1, <3>2
    <3>3. CASE k # 1
      BY <2>2, <2>3, <3>1, <3>3
    <3>4. QED
      BY <3>2, <3>3
  <2>9. QED
    BY <2>1, <2>2, <2>4, <2>5, <2>7, <2>8 DEF OneJob
<1>4. ASSUME NEW u \in Threads, InJob(u) PROVE OneJob'
  <2>1. /\ \A t \in Threads : worker'[t].i = worker[t].i /\ (Busy(t)' <=> Busy(t))
        /\ UNCHANGED <<queue, mutex>>
    BY <1>4, JobMoves, InJobKeeps DEF InJob, JobStep, Step, Busy
  <2>2. QED
    BY <2>1 DEF OneJob
<1>5. ASSUME NEW u \in Threads, unlock(u) PROVE OneJob'
  <2>1. /\ Step(u, "unlock", {"idle"}) /\ UNCHANGED queue
        /\ mutex' = [mutex EXCEPT ![worker[u].i] = FALSE]
    BY <1>5, JobEnds DEF unlock
  <2>2. \A t \in Threads : /\ Busy(t)' <=> Busy(t) /\ t # u
                           /\ Busy(t)' => worker'[t].i = worker[t].i
    BY <2>1 DEF Step, Busy
  <2>3. \A k \in 1 .. Len(queue) : queue[k] \in Slots
    BY DEF Types, PoolTypes
  <2>4. Busy(u) /\ \A t \in Threads : worker[t].i \in Slots
    BY <2>1 DEF Step, Busy, Types, Worker
  <2>5. /\ mutex'[worker[u].i] = FALSE
        /\ \A i \in Slots : i # worker[u].i => mutex'[i] = mutex[i]
    BY <2>1, <2>4 DEF Types, PoolTypes
  <2>6. QED
    BY <2>1, <2>2, <2>3, <2>4, <2>5 DEF OneJob
<1>6. QED
  BY <1>1, <1>2, <1>3, <1>4, <1>5
  DEF Next, server_run, Thread, Client, InJob, vars, pool, copy_read_set, select_enter,
      select_return, accept, add_conn, fd_set_load, fd_set_store, scan, client_init, client_send,
      client_destroy

\* Outside accept the main thread does not come to add_conn.
LEMMA MainElsewhere ==
    ASSUME MainTypes,
           \/ copy_read_set \/ select_enter \/ select_return \/ add_conn
           \/ fd_set_load \/ fd_set_store \/ scan \/ trylock
    PROVE  main'.pc # "add_conn"
<1> USE DEF MainTypes, MainState
<1>1. ASSUME NEW pc \in {"select", "accept", "wait", "trylock", "fd_set_store"},
             \/ main' = [main EXCEPT !.pc = pc]
             \/ main' = [main EXCEPT !.pc = pc, !.set = read_set]
      PROVE  main'.pc # "add_conn"
  BY <1>1
<1>2. ASSUME NEW pc \in {"accept", "scan", "copy", "fd_set_load"}, NEW i,
             main' = [main EXCEPT !.pc = pc, !.i = i]
      PROVE  main'.pc # "add_conn"
  BY <1>2
<1>3. CASE copy_read_set \/ select_enter \/ fd_set_load
  BY <1>1, <1>3 DEF copy_read_set, select_enter, fd_set_load, Goto
<1>4. CASE select_return
  <2>1. PICK pc \in {"accept", "scan"} : main' = [main EXCEPT !.pc = pc, !.i = 0]
    BY <1>4 DEF select_return
  <2>2. QED
    BY <1>2, <2>1
<1>5. CASE add_conn
  <2>1. PICK pc \in {"scan", "fd_set_load"} : \E i : main' = [main EXCEPT !.pc = pc, !.i = i]
    BY <1>5 DEF add_conn
  <2>2. QED
    BY <1>2, <2>1
<1>6. CASE fd_set_store
  BY <1>6 DEF fd_set_store
<1>7. CASE scan
  <2>1. \/ main' = [main EXCEPT !.pc = "copy", !.i = 0]
        \/ main' = [main EXCEPT !.pc = "trylock"]
        \/ main' = [main EXCEPT !.i = @ + 1] /\ main.pc = "scan"
    BY <1>7 DEF scan, At
  <2>2. QED
    BY <2>1
<1>8. CASE trylock
  <2>1. main' = [main EXCEPT !.pc = "scan", !.i = main.i + 1]
    BY <1>8 DEF trylock
  <2>2. QED
    BY <1>2, <2>1
<1>9. QED
  BY <1>3, <1>4, <1>5, <1>6, <1>7, <1>8

\* Descriptors and slots.
LEMMA DescriptorsStep ==
    ASSUME Types, OneJob, Descriptors, [Next]_vars
    PROVE  Descriptors'
<1> USE DEF Descriptors, DistinctFds, Working, Closing
<1>1. ASSUME UNCHANGED <<live, connfd, owner, conn, worker, crashed>>,
             main'.pc # "add_conn" \/ UNCHANGED main
      PROVE  Descriptors'
  BY <1>1
<1>2. PoolTypes /\ MainTypes /\ KernelTypes
  BY DEF Types
<1>3. CASE accept
  <2>1. PICK fd \in Fds : /\ conn[fd] = None /\ conn' = [conn EXCEPT ![fd] = Head(backlog)]
                          /\ main' = [main EXCEPT !.pc = "add_conn", !.fd = fd]
    BY <1>3 DEF accept
  <2>2. Head(backlog) \in Clients
    BY <1>2, <1>3, TakeFirst DEF accept, KernelTypes
  <2>3. conn'[fd] \in Clients /\ \A g \in Fds : g # fd => conn'[g] = conn[g]
    BY <1>2, <2>1, <2>2 DEF KernelTypes
  <2>4. main'.fd = fd
    BY <1>2, <2>1 DEF MainTypes, MainState
  <2>5. \A i \in live : connfd[i] # fd
    BY <2>1, ServerAssumption
  <2>6. UNCHANGED <<live, connfd, owner, worker, crashed>>
    BY <1>3 DEF accept, pool
  <2>7. QED
    BY <2>3, <2>4, <2>5, <2>6
<1>4. CASE add_conn
  <2>1. /\ main.pc = "add_conn" /\ main.fd \in Fds /\ ~crashed
        /\ UNCHANGED <<conn, worker, crashed>>
    BY <1>2, <1>4 DEF add_conn, At, MainTypes, kernel
  <2>2. main'.pc # "add_conn"
    BY <1>2, <1>4, MainElsewhere
  <2>3. CASE UNCHANGED <<connfd, live, owner>>
    BY <1>1, <2>1, <2>2, <2>3
  <2>4. CASE ~UNCHANGED <<connfd, live, owner>>
    <3>1. PICK i \in Slots : /\ connfd[i] < 0 /\ connfd' = [connfd EXCEPT ![i] = main.fd]
                             /\ live' = live \cup {i}
                             /\ owner' = [owner EXCEPT ![i] = conn[main.fd]]
      BY <1>4, <2>4 DEF add_conn
    <3>2. /\ connfd'[i] = main.fd /\ owner'[i] = conn[main.fd]
          /\ \A j \in Slots : j # i => connfd'[j] = connfd[j] /\ owner'[j] = owner[j]
      BY <1>2, <3>1 DEF PoolTypes
    <3>3. connfd[i] = -1 /\ i \notin live /\ live \subseteq Slots
      BY <1>2, <3>1 DEF PoolTypes, Fds
    <3>4. \A t \in Threads : worker[t].i \in Slots
      BY DEF Types, Worker
    <3>5. \A t \in Threads : Working(t) \/ Closing(t) => worker[t].i # i
      BY <2>1, <3>3
    <3>6. QED
      BY <2>1, <2>2, <3>1, <3>2, <3>3, <3>4, <3>5
  <2>5. QED
    BY <2>3, <2>4
<1>5. ASSUME NEW u \in Threads, handle_read(u) PROVE Descriptors'
  <2>1. /\ Step(u, "idle", {"recv"}) /\ worker'[u].i = Head(queue)
        /\ worker'[u].fd = connfd[Head(queue)]
    BY <1>5, JobEnds
  <2>2. UNCHANGED <<live, connfd, owner, conn, main>>
    BY <1>5 DEF handle_read, pool, kernel
  <2>3. ~crashed' => Head(queue) \in live
    BY <1>5, Zenon DEF handle_read
  <2>4. QED
    BY <2>1, <2>2, <2>3 DEF Step
<1>6. ASSUME NEW u \in Threads, InJob(u), UNCHANGED <<live, connfd, owner, conn>>
      PROVE  Descriptors'
  <2>1. \/ JobStep(u, "recv", {"on_recv", "close"}) \/ JobStep(u, "on_recv", {"close", "unlock"})
        \/ JobStep(u, "close", {"fd_clr_load"}) /\ cleanup_close(u)
        \/ JobStep(u, "fd_clr_load", {"fd_clr_store"}) \/ JobStep(u, "fd_clr_store", {"reset"})
        \/ JobStep(u, "reset", {"unlock"})
    BY <1>6, JobMoves DEF InJob
  <2>2. ~cleanup_close(u)
    BY <1>2, <1>6 DEF cleanup_close, In, PoolTypes
  <2>3. /\ \A t \in Threads : t # u => worker'[t] = worker[t]
        /\ worker'[u].i = worker[u].i /\ worker'[u].fd = worker[u].fd
        /\ Working(u)' => Working(u)
        /\ Closing(u)' => Closing(u)
    BY <2>1, <2>2 DEF JobStep, Step
  <2>4. QED
    BY <1>6, <2>3, InJobKeeps
<1>7. ASSUME NEW u \in Threads, cleanup_close(u) PROVE Descriptors'
  <2> DEFINE i == worker[u].i
  <2>1. JobStep(u, "close", {"fd_clr_load"}) /\ UNCHANGED <<main, owner, connfd, crashed>>
    BY <1>7, JobMoves DEF cleanup_close
  <2>2. i \in live /\ worker[u].fd = connfd[i] /\ connfd[i] \in Fds
    BY <2>1 DEF JobStep, Step
  <2>3. live' = live \ {i} /\ conn' = [conn EXCEPT ![connfd[i]] = None]
    BY <1>7, <2>2 DEF cleanup_close
  <2>4. \A g \in Fds : g # connfd[i] => conn'[g] = conn[g]
    BY <1>2, <2>3 DEF KernelTypes
  <2>5. \A t \in Threads : t # u => worker'[t] = worker[t] /\ (Working(t) => worker[t].i # i)
    BY <2>1 DEF JobStep, Step, OneJob, Busy
  <2>6. ~Working(u)' /\ worker'[u].i = i /\ connfd[i] # -1
    BY <2>1, <2>2 DEF JobStep, Step, Fds
  <2>7. QED
    BY <2>1, <2>2, <2>3, <2>4, <2>5, <2>6
<1>8. ASSUME NEW u \in Threads, reset_slot(u) PROVE Descriptors'
  <2> DEFINE i == worker[u].i
  <2>1. /\ JobStep(u, "reset", {"unlock"}) /\ UNCHANGED <<main, owner, conn, live, crashed>>
        /\ connfd' = [connfd EXCEPT ![i] = -1]
    BY <1>8, JobMoves DEF reset_slot, kernel
  <2>2. i \notin live
    BY <2>1 DEF JobStep, Step
  <2>3. \A j \in Slots : j # i => connfd'[j] = connfd[j]
    BY <1>2, <2>1 DEF PoolTypes
  <2>4. \A t \in Threads : /\ worker[t].i \in Slots
                           /\ t # u => /\ worker'[t] = worker[t]
                                       /\ Closing(t) => worker[t].i # i
    BY <2>1 DEF JobStep, Step, OneJob, Busy, Types, Worker
  <2>5. ~Working(u)' /\ ~Closing(u)' /\ live \subseteq Slots
    BY <1>2, <2>1 DEF JobStep, Step, PoolTypes
  <2>6. QED
    BY <2>1, <2>2, <2>3, <2>4, <2>5
<1>9. ASSUME NEW u \in Threads, unlock(u) PROVE Descriptors'
  <2>1. /\ Step(u, "unlock", {"idle"})
        /\ UNCHANGED <<live, connfd, owner, conn, main, crashed>>
    BY <1>9, JobEnds DEF unlock, kernel
  <2>2. QED
    BY <2>1 DEF Step
<1>10. ASSUME copy_read_set \/ select_enter \/ select_return \/ fd_set_load \/ fd_set_store
              \/ scan \/ trylock
       PROVE  Descriptors'
  <2>1. main'.pc # "add_conn"
    BY <1>2, <1>10, MainElsewhere
  <2>2. UNCHANGED <<live, connfd, owner, conn, worker, crashed>>
    BY <1>10 DEF copy_read_set, select_enter, select_return, fd_set_load, fd_set_store, scan,
                 trylock, pool, kernel
  <2>3. QED
    BY <1>1, <2>1, <2>2
<1>11. ASSUME NEW d \in Clients, Client(d) PROVE Descriptors'
  BY <1>1, <1>11 DEF Client, client_init, client_send, client_destroy, pool
<1>12. CASE UNCHANGED vars
  BY <1>1, <1>12 DEF vars, pool, kernel
<1>13. QED
  BY <1>3, <1>4, <1>5, <1>6, <1>7, <1>8, <1>9, <1>10, <1>11, <1>12
  DEF Next, server_run, Thread, InJob, read_to_buffer, on_recv, fd_clr_load, fd_clr_store, kernel,
      pool

\* Clients.
LEMMA PlacedStep ==
    ASSUME Types, Placed, [Next]_vars
    PROVE  Placed'
<1>1. ASSUME UNCHANGED <<backlog, conn, status>> PROVE Placed'
  BY <1>1 DEF Placed
<1>2. KernelTypes
  BY DEF Types
<1>3. CASE accept
  <2>1. PICK fd \in Fds : conn[fd] = None /\ conn' = [conn EXCEPT ![fd] = Head(backlog)]
    BY <1>3 DEF accept
  <2>2. backlog # <<>> /\ backlog' = Tail(backlog) /\ UNCHANGED status
    BY <1>3 DEF accept
  <2>3. /\ Head(backlog) = backlog[1] /\ 1 \in 1 .. Len(backlog) /\ Head(backlog) \in Clients
        /\ \A k \in 1 .. Len(backlog') :
              backlog'[k] = backlog[k + 1] /\ k + 1 \in 2 .. Len(backlog)
    BY <1>2, <2>2, TakeFirst DEF KernelTypes
  <2>4. conn'[fd] = backlog[1] /\ \A g \in Fds : g # fd => conn'[g] = conn[g]
    BY <1>2, <2>1, <2>3 DEF KernelTypes
  <2>5. \A k, l \in 1 .. Len(backlog') : backlog'[k] = backlog'[l] => k = l
    BY <2>3 DEF Placed
  <2>6. \A k \in 1 .. Len(backlog'), g \in Fds : backlog'[k] # conn'[g]
    BY <2>3, <2>4 DEF Placed
  <2>7. \A f, g \in Fds : conn'[f] \in Clients /\ conn'[f] = conn'[g] => f = g
    BY <2>3, <2>4 DEF Placed
  <2>8. QED
    BY <2>2, <2>3, <2>4, <2>5, <2>6, <2>7 DEF Placed
<1>4. ASSUME NEW u \in Threads, cleanup_close(u) PROVE Placed'
  <2>1. /\ status' = [status EXCEPT ![conn[worker[u].fd]] = "closed"]
        /\ conn' = [conn EXCEPT ![worker[u].fd] = None] /\ UNCHANGED backlog
    BY <1>4 DEF cleanup_close
  <2>2. \A g \in Fds : conn'[g] = conn[g] \/ conn'[g] = None
    BY <1>2, <2>1 DEF KernelTypes
  <2>3. \A c \in Clients : status'[c] = "new" => status[c] = "new"
    BY <1>2, <2>1 DEF KernelTypes
  <2>4. \A k \in 1 .. Len(backlog) : backlog[k] \in Clients
    BY <1>2 DEF KernelTypes
  <2>5. QED
    BY <2>1, <2>2, <2>3, <2>4, ServerAssumption DEF Placed
<1>5. ASSUME NEW d \in Clients, client_init(d) PROVE Placed'
  <2>1. /\ status[d] = "new" /\ status' = [status EXCEPT ![d] = "on"]
        /\ backlog' = Append(backlog, d) /\ UNCHANGED conn
    BY <1>5 DEF client_init
  <2>2. /\ Len(backlog') = Len(backlog) + 1 /\ backlog'[Len(backlog) + 1] = d
        /\ \A k \in 1 .. Len(backlog) : backlog'[k] = backlog[k] /\ backlog[k] \in Clients
        /\ Len(backlog) \in Nat
    BY <1>2, <2>1, AddLast DEF KernelTypes
  <2>3. \A k \in 1 .. Len(backlog') : k \in 1 .. Len(backlog) \/ k = Len(backlog) + 1
    BY <2>2
  <2>4. \A c \in Clients : status'[c] = IF c = d THEN "on" ELSE status[c]
    BY <1>2, <2>1 DEF KernelTypes
  <2>5. \A k, l \in 1 .. Len(backlog') : backlog'[k] = backlog'[l] => k = l
    BY <2>1, <2>2, <2>3 DEF Placed
  <2>6. \A k \in 1 .. Len(backlog'), g \in Fds : backlog'[k] # conn[g]
    BY <2>1, <2>2, <2>3 DEF Placed
  <2>7. QED
    BY <2>1, <2>2, <2>3, <2>4, <2>5, <2>6 DEF Placed
<1>6. ASSUME NEW d \in Clients, client_destroy(d) PROVE Placed'
  <2>1. status' = [status EXCEPT ![d] = "left"] /\ UNCHANGED <<backlog, conn>>
    BY <1>6 DEF client_destroy
  <2>2. \A c \in Clients : status'[c] = "new" => status[c] = "new"
    BY <1>2, <2>1 DEF KernelTypes
  <2>3. \A k \in 1 .. Len(backlog) : backlog[k] \in Clients
    BY <1>2 DEF KernelTypes
  <2>4. QED
    BY <2>1, <2>2, <2>3 DEF Placed
<1>7. QED
  BY <1>1, <1>3, <1>4, <1>5, <1>6
  DEF Next, server_run, Thread, Client, vars, kernel, copy_read_set, select_enter, select_return,
      add_conn, fd_set_load, fd_set_store, scan, trylock, handle_read, read_to_buffer, on_recv,
      fd_clr_load, fd_clr_store, reset_slot, unlock, client_send

\* Messages.
LEMMA OwedStep ==
    ASSUME Types, OneJob, Descriptors, Placed, Owed, [Next]_vars
    PROVE  Owed'
<1> DEFINE Held(t) == worker[t].pc = "on_recv" /\ owner[worker[t].i] \in Clients
<1>1. KernelTypes /\ PoolTypes /\ MainTypes
  BY DEF Types
<1>2. ASSUME UNCHANGED <<inbox, sent, unanswered, owner>>,
             \A t \in Threads : worker'[t].pc = "on_recv" => UNCHANGED worker[t]
      PROVE  Owed'
  BY <1>2 DEF Owed
<1>3. CASE add_conn
  <2>1. CASE UNCHANGED owner
    BY <1>2, <1>3, <2>1 DEF add_conn, kernel
  <2>2. CASE ~UNCHANGED owner
    <3>1. PICK i \in Slots : connfd[i] < 0 /\ owner' = [owner EXCEPT ![i] = conn[main.fd]]
      BY <1>3, <2>2 DEF add_conn
    <3>2. \A t \in Threads : worker[t].pc = "on_recv" => worker[t].i # i
      <4>1. ~crashed
        BY <1>3 DEF add_conn, At
      <4>2. \A j \in live : ~(connfd[j] < 0)
        BY DEF Descriptors, Fds
      <4>3. QED
        BY <3>1, <4>1, <4>2 DEF Descriptors, Working
    <3>3. \A t \in Threads : worker[t].i \in Slots
      BY DEF Types, Worker
    <3>4. \A t \in Threads : worker[t].pc = "on_recv" => owner'[worker[t].i] = owner[worker[t].i]
      BY <1>1, <3>1, <3>2, <3>3 DEF PoolTypes
    <3>5. UNCHANGED <<inbox, sent, unanswered, worker>>
      BY <1>3 DEF add_conn, kernel
    <3>6. QED
      BY <3>4, <3>5 DEF Owed
  <2>3. QED
    BY <2>1, <2>2
<1>4. \* Jobs of two threads belong to different clients.
      ASSUME ~crashed, NEW t \in Threads, NEW u \in Threads, Working(t), Working(u),
             owner[worker[t].i] = owner[worker[u].i]
      PROVE  t = u
  <2>1. worker[t].i \in live /\ worker[u].i \in live
    BY <1>4 DEF Descriptors
  <2>2. connfd[worker[t].i] = connfd[worker[u].i]
    BY <1>4, <2>1 DEF Descriptors, Placed
  <2>3. worker[t].i = worker[u].i
    BY <2>1, <2>2 DEF Descriptors, DistinctFds
  <2>4. QED
    BY <1>4, <2>3 DEF OneJob, Busy, Working
<1>5. ASSUME NEW u \in Threads, read_to_buffer(u) PROVE Owed'
  <2> DEFINE c == conn[worker[u].fd]
  <2>1. JobStep(u, "recv", {"on_recv", "close"}) /\ UNCHANGED <<sent, unanswered, owner>>
    BY <1>5, JobMoves DEF read_to_buffer, pool
  <2>2. CASE inbox[c] = <<>>
    <3>1. UNCHANGED inbox /\ worker' = [worker EXCEPT ![u].pc = "close"]
      BY <1>5, <2>2 DEF read_to_buffer, Move
    <3>2. worker'[u].pc = "close"
      BY <3>1, SetPc DEF Types, WorkerSteps
    <3>3. QED
      BY <1>2, <2>1, <3>1, <3>2 DEF JobStep, Step
  <2>3. CASE inbox[c] # <<>>
    <3>1. /\ inbox' = [inbox EXCEPT ![c] = <<>>]
          /\ worker' = [worker EXCEPT ![u].pc = "on_recv", ![u].got = inbox[c]]
      BY <1>5, <2>3 DEF read_to_buffer
    <3>2. c \in Clients /\ c = owner[worker[u].i] /\ Working(u) /\ ~crashed
      BY <2>1 DEF JobStep, Step, Descriptors, Working
    <3>3. worker'[u].got = inbox[c]
      BY <3>1 DEF Types, Worker
    <3>4. inbox'[c] = <<>> /\ \A d \in Clients : d # c => inbox'[d] = inbox[d]
      BY <1>1, <3>1, <3>2 DEF KernelTypes
    <3>5. Len(inbox[c]) <= unanswered[c] /\ Len(inbox[c]) \in Nat /\ unanswered[c] \in Int
      BY <1>1, <3>2 DEF KernelTypes, Owed
    <3>6. \A t \in Threads : worker'[t].pc = "on_recv" /\ t # u => owner[worker[t].i] # c
      BY <1>4, <2>1, <3>2 DEF JobStep, Step, Working
    <3>7. Len(inbox'[c]) = 0
      BY <3>4
    <3>8. \A d \in Clients : Len(inbox'[d]) <= unanswered'[d] /\ unanswered'[d] <= sent'[d]
      BY <2>1, <3>4, <3>5, <3>7 DEF Owed
    <3>9. ASSUME NEW t \in Threads, worker'[t].pc = "on_recv", owner'[worker'[t].i] \in Clients
          PROVE  Len(inbox'[owner'[worker'[t].i]]) + Len(worker'[t].got)
                     <= unanswered'[owner'[worker'[t].i]]
      <4>1. CASE t = u
        <5>1. owner'[worker'[t].i] = c /\ worker'[t].got = inbox[c] /\ unanswered' = unanswered
          BY <2>1, <3>2, <3>3, <4>1 DEF JobStep
        <5>2. 0 + Len(inbox[c]) <= unanswered[c]
          BY <3>5
        <5>3. QED
          BY <3>7, <5>1, <5>2
      <4>2. CASE t # u
        BY <2>1, <3>4, <3>6, <3>9, <4>2 DEF JobStep, Step, Owed
      <4>3. QED
        BY <4>1, <4>2
    <3>10. QED
      BY <3>8, <3>9 DEF Owed
  <2>4. QED
    BY <2>2, <2>3
<1>6. ASSUME NEW u \in Threads, on_recv(u) PROVE Owed'
  <2> DEFINE c == owner[worker[u].i]
             n == Len(worker[u].got)
  <2>1. /\ JobStep(u, "on_recv", {"close", "unlock"}) /\ UNCHANGED <<sent, inbox, owner>>
        /\ unanswered' = [unanswered EXCEPT ![c] = @ - n]
    BY <1>6, JobMoves DEF on_recv, pool, kernel
  <2>2. c \in Clients /\ Working(u) /\ ~crashed
    BY <2>1 DEF JobStep, Step, Descriptors, Working
  <2>3. n \in Nat
    BY DEF Types, Worker
  <2>4. /\ Len(inbox[c]) + n <= unanswered[c] /\ unanswered[c] <= sent[c]
        /\ unanswered[c] \in Int /\ sent[c] \in Int /\ Len(inbox[c]) \in Nat
    <3>1. worker[u].pc = "on_recv"
      BY <2>1 DEF JobStep, Step
    <3>2. Len(inbox[c]) + n <= unanswered[c] /\ unanswered[c] <= sent[c]
      BY <2>2, <3>1 DEF Owed
    <3>3. unanswered[c] \in Int /\ sent[c] \in 0..MaxSent /\ Len(inbox[c]) \in Nat
      BY <1>1, <2>2 DEF KernelTypes
    <3>4. sent[c] \in Int
      BY <3>3, ServerAssumption
    <3>5. QED
      BY <3>2, <3>3, <3>4
  <2>5. unanswered'[c] = unanswered[c] - n
    BY <1>1, <2>1, <2>2 DEF KernelTypes
  <2>6. \A d \in Clients : d # c => unanswered'[d] = unanswered[d]
    BY <1>1, <2>1 DEF KernelTypes
  <2>7. \A t \in Threads : worker'[t].pc = "on_recv" =>
            t # u /\ worker'[t] = worker[t] /\ owner[worker[t].i] # c
    BY <1>4, <2>1, <2>2 DEF JobStep, Step, Working
  <2>8. \A d \in Clients : Len(inbox[d]) <= unanswered'[d] /\ unanswered'[d] <= sent[d]
    <3>1. Len(inbox[c]) <= unanswered'[c] /\ unanswered'[c] <= sent[c]
      <4> HIDE DEF n, c
      <4>1. QED
        BY <2>3, <2>4, <2>5
    <3>2. QED
      BY <2>6, <3>1 DEF Owed
  <2>9. QED
    BY <2>1, <2>6, <2>7, <2>8 DEF Owed
<1>7. ASSUME NEW d \in Clients, NEW m \in Messages, client_send(d, m) PROVE Owed'
  <2>1. /\ sent' = [sent EXCEPT ![d] = @ + 1] /\ unanswered' = [unanswered EXCEPT ![d] = @ + 1]
        /\ inbox' = [inbox EXCEPT ![d] = Append(@, m)] /\ UNCHANGED <<worker, owner>>
    BY <1>7 DEF client_send, pool
  <2>2. /\ sent'[d] = sent[d] + 1 /\ unanswered'[d] = unanswered[d] + 1
        /\ inbox'[d] = Append(inbox[d], m)
        /\ \A c \in Clients : c # d => /\ sent'[c] = sent[c] /\ unanswered'[c] = unanswered[c]
                                       /\ inbox'[c] = inbox[c]
    BY <1>1, <2>1 DEF KernelTypes
  <2>3. Len(inbox'[d]) = Len(inbox[d]) + 1
    BY <1>1, <2>2, AddLast DEF KernelTypes
  <2>4. /\ \A c \in Clients : Len(inbox[c]) \in Nat /\ unanswered[c] \in Int /\ sent[c] \in Int
        /\ \A t \in Threads : Len(worker[t].got) \in Nat
    BY <1>1 DEF KernelTypes, Types, Worker
  <2>5. \A c \in Clients : Len(inbox'[c]) <= unanswered'[c] /\ unanswered'[c] <= sent'[c]
    BY <2>2, <2>3, <2>4 DEF Owed
  <2>6. ASSUME NEW t \in Threads, worker[t].pc = "on_recv", owner[worker[t].i] \in Clients
        PROVE  Len(inbox'[owner[worker[t].i]]) + Len(worker[t].got)
                   <= unanswered'[owner[worker[t].i]]
    <3>1. Len(inbox[owner[worker[t].i]]) + Len(worker[t].got) <= unanswered[owner[worker[t].i]]
      BY <2>6 DEF Owed
    <3>2. CASE owner[worker[t].i] = d
      <4>1. Len(inbox[d]) + Len(worker[t].got) <= unanswered[d]
        BY <3>1, <3>2
      <4>2. Len(inbox[d]) + 1 + Len(worker[t].got) <= unanswered[d] + 1
        <5> DEFINE a == Len(inbox[d])
                   b == Len(worker[t].got)
                   e == unanswered[d]
        <5>1. a \in Nat /\ b \in Nat /\ e \in Int /\ a + b <= e
          BY <2>4, <4>1
        <5> HIDE DEF a, b, e
        <5>2. a + 1 + b <= e + 1
          BY <5>1
        <5>3. QED
          BY <5>2 DEF a, b, e
      <4>3. QED
        BY <2>2, <2>3, <3>2, <4>2
    <3>3. CASE owner[worker[t].i] # d
      BY <2>2, <2>6, <3>1, <3>3
    <3>4. QED
      BY <3>2, <3>3
  <2>7. QED
    BY <2>1, <2>5, <2>6 DEF Owed
<1>8. ASSUME NEW u \in Threads,
             \/ handle_read(u) \/ cleanup_close(u) \/ fd_clr_load(u) \/ fd_clr_store(u)
             \/ reset_slot(u) \/ unlock(u)
      PROVE  Owed'
  <2>1. UNCHANGED <<inbox, sent, unanswered, owner>>
    BY <1>8 DEF handle_read, cleanup_close, fd_clr_load, fd_clr_store, reset_slot, unlock, pool,
                kernel
  <2>2. \A t \in Threads : worker'[t].pc = "on_recv" => UNCHANGED worker[t]
    BY <1>8, JobMoves, JobEnds DEF JobStep, Step
  <2>3. QED
    BY <1>2, <2>1, <2>2
<1>9. CASE UNCHANGED <<inbox, sent, unanswered, owner, worker>>
  BY <1>2, <1>9
<1>10. QED
  BY <1>3, <1>5, <1>6, <1>7, <1>8, <1>9
  DEF Next, server_run, Thread, Client, vars, kernel, pool, copy_read_set, select_enter,
      select_return, accept, fd_set_load, fd_set_store, scan, trylock, client_init,
      client_destroy

\* init_pool establishes the invariant.
LEMMA InitInv == Init => Inv
<1> SUFFICES ASSUME Init PROVE Inv
  OBVIOUS
<1> USE ServerAssumption DEF Init
<1>1. KernelTypes
  BY DEF KernelTypes
<1>2. PoolTypes
  <2>1. 1 \in Slots
    BY DEF Slots
  <2>2. QED
    <3>1. /\ connfd \in [Slots -> Fds \cup {-1}] /\ mutex \in [Slots -> BOOLEAN]
          /\ owner \in [Slots -> Clients \cup {None}]
      OBVIOUS
    <3>2. maxi \in Slots /\ live \subseteq Slots
      BY <2>1
    <3>3. queue \in Seq(Slots) /\ crashed \in BOOLEAN
      <4>1. <<>> \in Seq(Slots) /\ FALSE \in BOOLEAN
        OBVIOUS
      <4>2. QED
        BY <4>1, Zenon
    <3>4. read_set \subseteq Fds \cup {Listen} /\ ready_set \subseteq Fds \cup {Listen}
      OBVIOUS
    <3>5. QED
      BY <3>1, <3>2, <3>3, <3>4 DEF PoolTypes
<1>3. MainTypes
  BY DEF MainTypes, MainState, MainSteps
<1>4. worker \in [Threads -> Worker] /\ \A t \in Threads : worker[t].pc = "idle"
  BY DEF Worker, WorkerSteps, IdleThread, Slots
<1>5. OneJob
  BY <1>4 DEF OneJob, Busy
<1>6. Descriptors
  BY <1>4 DEF Descriptors, DistinctFds, Working, Closing
<1>7. Placed
  BY DEF Placed
<1>8. Owed
  <2>1. \A c \in Clients : Len(inbox[c]) = 0 /\ unanswered[c] = 0 /\ sent[c] = 0
    OBVIOUS
  <2>2. \A c \in Clients : Len(inbox[c]) <= unanswered[c] /\ unanswered[c] <= sent[c]
    <3>1. 0 <= 0
      OBVIOUS
    <3>2. QED
      BY <2>1, <3>1
  <2>3. QED
    BY <1>4, <2>2 DEF Owed
<1>9. QED
  BY <1>1, <1>2, <1>3, <1>4, <1>5, <1>6, <1>7, <1>8 DEF Inv, Types

\* Every step keeps it.
LEMMA StepInv == Inv /\ [Next]_vars => Inv'
  BY TypesStep, OneJobStep, DescriptorsStep, PlacedStep, OwedStep DEF Inv

-----------------------------------------------------------------------------
(* Theorems *)

\* The invariant holds in every reachable state.
THEOREM Invariance == Spec => []Inv
  BY InitInv, StepInv, PTL DEF Spec

\* Everything has its type; no client is owed a negative number of answers.
THEOREM TypeCorrect == Spec => []TypeOK
<1>1. Inv => TypeOK
  <2> SUFFICES ASSUME Inv PROVE TypeOK
    OBVIOUS
  <2>1. \A c \in Clients : unanswered[c] \in 0..MaxSent
    <3>1. SUFFICES ASSUME NEW c \in Clients PROVE unanswered[c] \in 0..MaxSent
      OBVIOUS
    <3>2. Len(inbox[c]) \in Nat /\ unanswered[c] \in Int /\ sent[c] \in 0..MaxSent
      BY DEF Inv, Types, KernelTypes
    <3>3. Len(inbox[c]) <= unanswered[c] /\ unanswered[c] <= sent[c]
      BY DEF Inv, Owed
    <3>4. QED
      BY <3>2, <3>3, ServerAssumption
  <2>2. QED
    BY <2>1 DEF Inv, Types, KernelTypes, PoolTypes, TypeOK
<1>2. QED
  BY <1>1, Invariance, PTL

\* tcp_utils.c, server_run: "make sure only one thread is handling this client".
THEOREM OneHandlerAlways == Spec => []OneHandler
<1>1. Inv => OneHandler
  <2> SUFFICES ASSUME Inv, NEW i \in Slots PROVE Jobs(i) = IF mutex[i] THEN 1 ELSE 0
    BY DEF OneHandler
  <2> DEFINE K == {k \in DOMAIN queue : queue[k] = i}
             T == {t \in Threads : worker[t].pc # "idle" /\ worker[t].i = i}
  <2>1. DOMAIN queue = 1 .. Len(queue) /\ mutex[i] \in BOOLEAN
    BY DEF Inv, Types, PoolTypes
  <2>2. Jobs(i) = Cardinality(K) + Cardinality(T)
    BY DEF Jobs
  <2> HIDE DEF K, T
  <2>3. CASE ~mutex[i]
    <3>1. K = {} /\ T = {}
      BY <2>1, <2>3 DEF Inv, OneJob, Busy, K, T
    <3>2. Cardinality(K) = 0 /\ Cardinality(T) = 0
      BY <3>1, FS_EmptySet
    <3>3. QED
      BY <2>2, <2>3, <3>2
  <2>4. CASE mutex[i] /\ K # {}
    <3>1. PICK k \in K : TRUE
      BY <2>4
    <3>2. K = {k} /\ T = {}
      BY <2>1, <3>1 DEF Inv, OneJob, Busy, K, T
    <3>3. Cardinality(K) = 1 /\ Cardinality(T) = 0
      BY <3>2, FS_EmptySet, FS_Singleton
    <3>4. QED
      BY <2>2, <2>4, <3>3
  <2>5. CASE mutex[i] /\ K = {}
    <3>1. PICK t \in Threads : Busy(t) /\ worker[t].i = i
      BY <2>1, <2>5 DEF Inv, OneJob, K
    <3>2. T = {t}
      BY <3>1 DEF Inv, OneJob, Busy, T
    <3>3. Cardinality(K) = 0 /\ Cardinality(T) = 1
      BY <2>5, <3>2, FS_EmptySet, FS_Singleton
    <3>4. QED
      BY <2>2, <2>5, <3>3
  <2>6. QED
    BY <2>1, <2>3, <2>4, <2>5
<1>2. QED
  BY <1>1, Invariance, PTL

\* However descriptors are closed and reused, no two live slots share one.
THEOREM DescriptorsDistinct == Spec => []DistinctFds
<1>1. Inv => DistinctFds
  BY DEF Inv, Descriptors
<1>2. QED
  BY <1>1, Invariance, PTL

\* A job works on the connection its slot's session was made for.
THEOREM OwnConnectionAlways == Spec => []OwnConnection
<1>1. Inv => OwnConnection
  BY DEF Inv, Descriptors, OwnConnection, Working
<1>2. QED
  BY <1>1, Invariance, PTL

=============================================================================

----------------------------- MODULE TcpServer ------------------------------
(***************************************************************************)
(* The server loop of lib/tcp_utils.c: the main thread waits in select,    *)
(* accepts clients and queues a handle_read job for every readable client; *)
(* the threads of the pool run the jobs.  A mutex per client slot, taken   *)
(* by the main thread with trylock and released by the job, is the only    *)
(* synchronisation: connfd, the buffers and read_set are shared without it.*)
(*                                                                         *)
(* The steps are the accesses to shared state.  FD_SET and FD_CLR read a   *)
(* word of read_set and write it back, so each is two steps.  A client's   *)
(* message is one item of its socket, framing is left out, and so is what  *)
(* on_recv does, except that the exit command makes it close the client.   *)
(***************************************************************************)
EXTENDS Integers, Sequences, FiniteSets

CONSTANTS
    Clients,     \* client processes
    Leavers,     \* the clients that may close their end
    Messages,    \* what clients send: subset of {"cmd", "exit"}
    NFds,        \* descriptors available to accept
    NSlots,      \* FD_SETSIZE
    Threads,     \* threads of the pool
    None,        \* no client
    MaxSent      \* bound on the messages of any two clients together

ASSUME ServerAssumption ==
    /\ Leavers \subseteq Clients /\ None \notin Clients
    /\ Messages \subseteq {"cmd", "exit"}
    /\ NFds \in Nat /\ NSlots \in Nat /\ NSlots >= 2 /\ MaxSent \in Nat

VARIABLES
    \* the clients and the kernel
    status,      \* of a client: "new", "on", "left", "closed" by the server
    sent,        \* messages a client has sent
    inbox,       \* of them, those the server has not received
    backlog,     \* clients waiting to be accepted
    conn,        \* the client behind each open descriptor
    \* struct tcp_server_pool
    read_set, ready_set, nready, maxi, connfd, mutex,
    live,        \* slots whose buffers and session are allocated
    owner,       \* history: the client add_conn put into a slot
    \* threads
    main,        \* the main thread
    queue,       \* the job queue of the pool
    worker,      \* the threads of the pool
    unanswered,  \* history: messages sent and not yet handled
    crashed      \* a job has used freed buffers

kernel == <<status, sent, inbox, backlog, conn>>
pool   == <<read_set, ready_set, nready, maxi, connfd, mutex, live, owner>>
vars   == <<kernel, pool, main, queue, worker, unanswered, crashed>>

Listen == 0                     \* listenfd
Fds    == 1..NFds
Slots  == 0 .. NSlots - 1

Readable(fd) ==
    IF fd = Listen THEN backlog # <<>>
    ELSE conn[fd] # None /\ (inbox[conn[fd]] # <<>> \/ status[conn[fd]] = "left")

\* The first free one is taken, of descriptors by accept, of slots by add_conn.
Lowest(n, free) == \A m \in free : n <= m

-----------------------------------------------------------------------------
(* Clients *)

\* client_init: connect completes when the kernel has queued the connection.
client_init(c) ==
    /\ status[c] = "new"
    /\ status' = [status EXCEPT ![c] = "on"]
    /\ backlog' = Append(backlog, c)
    /\ UNCHANGED <<sent, inbox, conn, pool, main, queue, worker, unanswered, crashed>>

client_send(c, m) ==
    /\ status[c] = "on" /\ sent[c] < MaxSent
    /\ \A d \in Clients \ {c} : sent[c] + sent[d] < MaxSent
    /\ sent' = [sent EXCEPT ![c] = @ + 1]
    /\ inbox' = [inbox EXCEPT ![c] = Append(@, m)]
    /\ unanswered' = [unanswered EXCEPT ![c] = @ + 1]
    /\ UNCHANGED <<status, backlog, conn, pool, main, queue, worker, crashed>>

client_destroy(c) ==
    /\ c \in Leavers /\ status[c] = "on"
    /\ status' = [status EXCEPT ![c] = "left"]
    /\ UNCHANGED <<sent, inbox, backlog, conn, pool, main, queue, worker, unanswered, crashed>>

-----------------------------------------------------------------------------
(* The main thread: server_run *)

At(pc)   == ~crashed /\ main.pc = pc
Goto(pc) == main' = [main EXCEPT !.pc = pc]

copy_read_set ==
    /\ At("copy")
    /\ ready_set' = read_set
    /\ Goto("select")
    /\ UNCHANGED <<kernel, read_set, nready, maxi, connfd, mutex, live, owner, queue, worker,
                   unanswered, crashed>>

\* select refuses a set with a closed descriptor (EBADF) and leaves the set as
\* it is, so that the listening descriptor looks ready; else it waits.
select_enter ==
    /\ At("select")
    /\ IF \E fd \in ready_set \ {Listen} : conn[fd] = None
       THEN nready' = -1 /\ Goto("accept")
       ELSE nready' = nready /\ Goto("wait")
    /\ UNCHANGED <<kernel, read_set, ready_set, maxi, connfd, mutex, live, owner, queue, worker,
                   unanswered, crashed>>

select_return ==
    LET ready == {fd \in ready_set : Readable(fd)}
    IN  /\ At("wait")
        /\ ready # {}
        /\ ready_set' = ready
        /\ nready' = Cardinality(ready)
        /\ main' = [main EXCEPT !.pc = IF Listen \in ready THEN "accept" ELSE "scan", !.i = 0]
        /\ UNCHANGED <<kernel, read_set, maxi, connfd, mutex, live, owner, queue, worker,
                       unanswered, crashed>>

\* accept waits for a client and takes the lowest free descriptor.
accept ==
    LET free == {fd \in Fds : conn[fd] = None}
    IN  /\ At("accept")
        /\ backlog # <<>>
        /\ backlog' = Tail(backlog)
        /\ \E fd \in free :
              /\ Lowest(fd, free)
              /\ conn' = [conn EXCEPT ![fd] = Head(backlog)]
              /\ main' = [main EXCEPT !.pc = "add_conn", !.fd = fd]
        /\ UNCHANGED <<status, sent, inbox, pool, queue, worker, unanswered, crashed>>

\* Mutant: a slot counts as free once its buffers are.
add_conn_reuse ==
    LET free == Slots \ live
    IN  /\ At("add_conn")
        /\ nready' = nready - 1
        /\ \E i \in free :
              /\ Lowest(i, free)
              /\ connfd' = [connfd EXCEPT ![i] = main.fd]
              /\ live' = live \cup {i}
              /\ owner' = [owner EXCEPT ![i] = conn[main.fd]]
              /\ main' = [main EXCEPT !.pc = "fd_set_load", !.i = i]
        /\ UNCHANGED <<kernel, read_set, ready_set, maxi, mutex, queue, worker, unanswered, crashed>>

\* add_conn up to FD_SET: the lowest free slot.  Without one ("Too many clients")
\* the descriptor stays open and is forgotten.
add_conn ==
    LET free == {i \in Slots : connfd[i] < 0}
    IN  /\ At("add_conn")
        /\ nready' = nready - 1
        /\ IF free = {}
           THEN /\ main' = [main EXCEPT !.pc = "scan", !.i = 0]
                /\ UNCHANGED <<connfd, live, owner>>
           ELSE \E i \in free :
                  /\ Lowest(i, free)
                  /\ connfd' = [connfd EXCEPT ![i] = main.fd]
                  /\ live' = live \cup {i}
                  /\ owner' = [owner EXCEPT ![i] = conn[main.fd]]
                  /\ main' = [main EXCEPT !.pc = "fd_set_load", !.i = i]
        /\ UNCHANGED <<kernel, read_set, ready_set, maxi, mutex, queue, worker, unanswered, crashed>>

fd_set_load ==
    /\ At("fd_set_load")
    /\ main' = [main EXCEPT !.pc = "fd_set_store", !.set = read_set]
    /\ UNCHANGED <<kernel, pool, queue, worker, unanswered, crashed>>

\* The end of add_conn: the loop over the slots follows.
fd_set_store ==
    /\ At("fd_set_store")
    /\ read_set' = main.set \cup {main.fd}
    /\ maxi' = IF main.i > maxi THEN main.i ELSE maxi
    /\ main' = [pc |-> "scan", i |-> 0, fd |-> -1, set |-> {}]
    /\ UNCHANGED <<kernel, ready_set, nready, connfd, mutex, live, owner, queue, worker,
                   unanswered, crashed>>

\* Mutant: the loop ends before the last slot in use.
scan_short ==
    /\ At("scan")
    /\ main' = IF main.i >= maxi \/ nready <= 0
               THEN [main EXCEPT !.pc = "copy", !.i = 0]
               ELSE IF connfd[main.i] > 0 /\ connfd[main.i] \in ready_set
               THEN [main EXCEPT !.pc = "trylock"]
               ELSE [main EXCEPT !.i = @ + 1]
    /\ UNCHANGED <<kernel, pool, queue, worker, unanswered, crashed>>

\* The loop head: the slot's descriptor is read before its mutex is tried.
scan ==
    /\ At("scan")
    /\ main' = IF main.i > maxi \/ nready <= 0
               THEN [main EXCEPT !.pc = "copy", !.i = 0]
               ELSE IF connfd[main.i] > 0 /\ connfd[main.i] \in ready_set
               THEN [main EXCEPT !.pc = "trylock"]
               ELSE [main EXCEPT !.i = @ + 1]
    /\ UNCHANGED <<kernel, pool, queue, worker, unanswered, crashed>>

\* Mutant: the job is queued whether or not the mutex was free.
trylock_ignored ==
    /\ At("trylock")
    /\ mutex' = [mutex EXCEPT ![main.i] = TRUE]
    /\ nready' = nready - 1
    /\ queue' = Append(queue, main.i)
    /\ main' = [main EXCEPT !.pc = "scan", !.i = @ + 1]
    /\ UNCHANGED <<kernel, read_set, ready_set, maxi, connfd, live, owner, worker,
                   unanswered, crashed>>

trylock ==
    /\ At("trylock")
    /\ IF mutex[main.i]
       THEN UNCHANGED <<mutex, nready, queue>>
       ELSE /\ mutex' = [mutex EXCEPT ![main.i] = TRUE]
            /\ nready' = nready - 1
            /\ queue' = Append(queue, main.i)
    /\ main' = [main EXCEPT !.pc = "scan", !.i = @ + 1]
    /\ UNCHANGED <<kernel, read_set, ready_set, maxi, connfd, live, owner, worker,
                   unanswered, crashed>>

-----------------------------------------------------------------------------
(* The pool's threads: handle_read *)

In(t, pc) == ~crashed /\ worker[t].pc = pc
Move(t, pc) == worker' = [worker EXCEPT ![t].pc = pc]

IdleThread == [pc |-> "idle", i |-> 0, fd |-> -1, got |-> <<>>, set |-> {}]

\* The next job reads the slot's descriptor and buffers.  If they have been
\* freed since the job was queued, everything it does from here is undefined:
\* it frees them again.
handle_read(t) ==
    LET i == Head(queue)
    IN  /\ In(t, "idle")
        /\ queue # <<>>
        /\ queue' = Tail(queue)
        /\ worker' = [worker EXCEPT ![t] = [IdleThread EXCEPT !.pc = "recv", !.i = i,
                                                              !.fd = connfd[i]]]
        /\ crashed' = (i \notin live)
        /\ UNCHANGED <<kernel, pool, main, unanswered>>

\* All that has arrived is received.  With nothing there and the client still
\* connected recv fails with EAGAIN and is called again, until there is.
read_to_buffer(t) ==
    LET w == worker[t]
        c == conn[w.fd]
    IN  /\ In(t, "recv")
        /\ Readable(w.fd)
        /\ IF inbox[c] # <<>>
           THEN /\ worker' = [worker EXCEPT ![t].pc = "on_recv", ![t].got = inbox[c]]
                /\ inbox' = [inbox EXCEPT ![c] = <<>>]
           ELSE Move(t, "close") /\ inbox' = inbox
        /\ UNCHANGED <<status, sent, backlog, conn, pool, main, queue, unanswered, crashed>>

\* on_recv for every message received; the slot's session answers for it.
on_recv(t) ==
    LET w == worker[t]
    IN  /\ In(t, "on_recv")
        /\ unanswered' = [unanswered EXCEPT ![owner[w.i]] = @ - Len(w.got)]
        /\ worker' = [worker EXCEPT
               ![t].pc = IF \E k \in DOMAIN w.got : w.got[k] = "exit" THEN "close" ELSE "unlock",
               ![t].got = <<>>]
        /\ UNCHANGED <<kernel, pool, main, queue, crashed>>

\* Mutant: the buffers and the session outlive the descriptor.
cleanup_close_kept(t) ==
    LET w == worker[t]
    IN  /\ In(t, "close")
        /\ status' = [status EXCEPT ![conn[w.fd]] = "closed"]
        /\ conn' = [conn EXCEPT ![w.fd] = None]
        /\ Move(t, "fd_clr_load")
        /\ UNCHANGED <<sent, inbox, backlog, pool, main, queue, unanswered, crashed>>

\* The buffers and the session are freed and the descriptor closed: its number
\* is free while the slot and read_set still hold it.
cleanup_close(t) ==
    LET w == worker[t]
    IN  /\ In(t, "close")
        /\ live' = live \ {w.i}
        /\ status' = [status EXCEPT ![conn[w.fd]] = "closed"]
        /\ conn' = [conn EXCEPT ![w.fd] = None]
        /\ Move(t, "fd_clr_load")
        /\ UNCHANGED <<sent, inbox, backlog, read_set, ready_set, nready, maxi, connfd, mutex,
                       owner, main, queue, unanswered, crashed>>

fd_clr_load(t) ==
    /\ In(t, "fd_clr_load")
    /\ worker' = [worker EXCEPT ![t].pc = "fd_clr_store", ![t].set = read_set]
    /\ UNCHANGED <<kernel, pool, main, queue, unanswered, crashed>>

fd_clr_store(t) ==
    LET w == worker[t]
    IN  /\ In(t, "fd_clr_store")
        /\ read_set' = w.set \ {w.fd}
        /\ worker' = [worker EXCEPT ![t].pc = "reset", ![t].set = {}]
        /\ UNCHANGED <<kernel, ready_set, nready, maxi, connfd, mutex, live, owner, main, queue,
                       unanswered, crashed>>

\* Mutant: 0 for a free slot.
reset_slot_zero(t) ==
    /\ In(t, "reset")
    /\ connfd' = [connfd EXCEPT ![worker[t].i] = 0]
    /\ Move(t, "unlock")
    /\ UNCHANGED <<kernel, read_set, ready_set, nready, maxi, mutex, live, owner, main, queue,
                   unanswered, crashed>>

reset_slot(t) ==
    /\ In(t, "reset")
    /\ connfd' = [connfd EXCEPT ![worker[t].i] = -1]
    /\ Move(t, "unlock")
    /\ UNCHANGED <<kernel, read_set, ready_set, nready, maxi, mutex, live, owner, main, queue,
                   unanswered, crashed>>

\* Mutant: the mutex is released only when the client is closed.
unlock_closed(t) ==
    /\ In(t, "unlock")
    /\ mutex' = [mutex EXCEPT ![worker[t].i] = (connfd[worker[t].i] # -1)]
    /\ worker' = [worker EXCEPT ![t] = IdleThread]
    /\ UNCHANGED <<kernel, read_set, ready_set, nready, maxi, connfd, live, owner, main, queue,
                   unanswered, crashed>>

unlock(t) ==
    /\ In(t, "unlock")
    /\ mutex' = [mutex EXCEPT ![worker[t].i] = FALSE]
    /\ worker' = [worker EXCEPT ![t] = IdleThread]
    /\ UNCHANGED <<kernel, read_set, ready_set, nready, maxi, connfd, live, owner, main, queue,
                   unanswered, crashed>>

-----------------------------------------------------------------------------

\* init_pool, and a pool with all its threads waiting.
Init ==
    /\ status = [c \in Clients |-> "new"]
    /\ sent = [c \in Clients |-> 0]
    /\ inbox = [c \in Clients |-> <<>>]
    /\ backlog = <<>>
    /\ conn = [fd \in Fds |-> None]
    /\ read_set = {Listen} /\ ready_set = {}
    /\ nready = 0 /\ maxi = 1
    /\ connfd = [i \in Slots |-> -1]
    /\ mutex = [i \in Slots |-> FALSE]
    /\ live = {} /\ owner = [i \in Slots |-> None]
    /\ main = [pc |-> "copy", i |-> 0, fd |-> -1, set |-> {}]
    /\ queue = <<>>
    /\ worker = [t \in Threads |-> IdleThread]
    /\ unanswered = [c \in Clients |-> 0]
    /\ crashed = FALSE

server_run ==
    \/ copy_read_set \/ select_enter \/ select_return \/ accept \/ add_conn
    \/ fd_set_load \/ fd_set_store \/ scan \/ trylock

Thread(t) ==
    \/ handle_read(t) \/ read_to_buffer(t) \/ on_recv(t) \/ cleanup_close(t)
    \/ fd_clr_load(t) \/ fd_clr_store(t) \/ reset_slot(t) \/ unlock(t)

Client(c) ==
    \/ client_init(c) \/ \E m \in Messages : client_send(c, m) \/ client_destroy(c)

Next ==
    \/ server_run
    \/ \E t \in Threads : Thread(t)
    \/ \E c \in Clients : Client(c)

Spec == Init /\ [][Next]_vars

\* The scheduler runs every thread that can run; clients owe nothing.
FairSpec == Spec /\ WF_vars(server_run) /\ \A t \in Threads : WF_vars(Thread(t))

-----------------------------------------------------------------------------
(* Properties *)

\* Descriptors, slots and sets have their types.
TypeOK ==
    /\ conn \in [Fds -> Clients \cup {None}]
    /\ connfd \in [Slots -> Fds \cup {-1}]
    /\ read_set \subseteq Fds \cup {Listen} /\ ready_set \subseteq Fds \cup {Listen}
    /\ mutex \in [Slots -> BOOLEAN] /\ live \subseteq Slots
    /\ \A c \in Clients : unanswered[c] \in 0..MaxSent

\* The jobs of slot i: queued or running.
Jobs(i) ==
    Cardinality({k \in DOMAIN queue : queue[k] = i})
    + Cardinality({t \in Threads : worker[t].pc # "idle" /\ worker[t].i = i})

\* "make sure only one thread is handling this client" (server_run): a slot has
\* one job while its mutex is held, and none else, however often select reports
\* the client before the job has read its message.
OneHandler == \A i \in Slots : Jobs(i) = IF mutex[i] THEN 1 ELSE 0

\* Descriptor numbers are reused while an old slot still holds them.  Even so
\* two connected slots never share a descriptor.
DistinctFds ==
    \A i, j \in live : connfd[i] = connfd[j] => i = j

\* What a job receives, handles and closes is the connection its slot's session
\* was made for: no client's message is taken for another's.
OwnConnection ==
    \A t \in Threads :
        worker[t].pc \in {"recv", "on_recv", "close"} /\ ~crashed =>
            /\ worker[t].fd \in Fds
            /\ conn[worker[t].fd] = owner[worker[t].i]

Served(c) == unanswered[c] > 0 ~> unanswered[c] = 0

NobodyGoes == \A c \in Clients : [](status[c] \in {"new", "on"})

\* "on_recv: function to be called when a client sends a message" (tcp_utils.h):
\* as long as no client goes, every message is handled in the end.
AllServed == NobodyGoes => \A c \in Clients : Served(c)

\* The same with a thread for every client: however the arrival of a message falls
\* together with the end of the job for the one before it, no message is left.
ServedByEnough == Cardinality(Clients) <= Cardinality(Threads) => AllServed

\* Every thread is in recv at an open socket with nothing to read: it waits until
\* that client sends again.
AllHeld ==
    \A t \in Threads :
        worker[t].pc = "recv" /\ worker[t].fd \in Fds /\ ~Readable(worker[t].fd)

\* With any number of threads, the one of the two servers included, nothing else
\* keeps a message from being handled: once the threads are not all held for ever,
\* it is, though its client may have been passed over or locked out before.
OnlyHeldUp == NobodyGoes => <>[]AllHeld \/ \A c \in Clients : Served(c)

\* A client that stays is served, whoever goes, unless the threads are all held for
\* ever or the process came to use freed buffers first.
StayersServed == <>crashed \/ <>[]AllHeld \/ \A c \in Clients \ Leavers : Served(c)

=============================================================================

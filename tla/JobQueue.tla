------------------------------- MODULE JobQueue -------------------------------
(***************************************************************************)
(* What include/thpool.h promises to those who use a pool of threads: jobs *)
(* are started in the order they were added, each by one thread, and an    *)
(* idle thread does not leave a job waiting; a pool that is destroyed      *)
(* starts none of the jobs that are left once its threads have gone.       *)
(***************************************************************************)
EXTENDS Sequences

CONSTANTS
    Threads,     \* threads of the pool
    Jobs,        \* what can be added
    Idle         \* no job, none of Jobs

VARIABLES
    queue,       \* jobs added and not started
    running,     \* the job of each thread
    phase        \* "open", "closing" from thpool_destroy's call, "closed" at its end

vars == <<queue, running, phase>>

Init ==
    /\ queue = <<>>
    /\ running = [t \in Threads |-> Idle]
    /\ phase = "open"

\* thpool_add_work
Push(j) ==
    /\ phase = "open"
    /\ queue' = Append(queue, j)
    /\ UNCHANGED <<running, phase>>

Take(t) ==
    /\ phase # "closed" /\ running[t] = Idle
    /\ queue # <<>>
    /\ running' = [running EXCEPT ![t] = Head(queue)]
    /\ queue' = Tail(queue)
    /\ UNCHANGED phase

Finish(t) ==
    /\ running[t] # Idle
    /\ running' = [running EXCEPT ![t] = Idle]
    /\ UNCHANGED <<queue, phase>>

\* thpool_destroy
Close == phase = "open" /\ phase' = "closing" /\ UNCHANGED <<queue, running>>

Discard ==
    /\ phase = "closing"
    /\ \A t \in Threads : running[t] = Idle
    /\ queue' = <<>>
    /\ phase' = "closed"
    /\ UNCHANGED running

Next ==
    \/ \E j \in Jobs : Push(j)
    \/ \E t \in Threads : Take(t) \/ Finish(t)
    \/ Close \/ Discard

Spec == Init /\ [][Next]_vars

\* A job that waits beside an idle thread is started; how long a job runs is
\* its own affair.
FairSpec == Spec /\ WF_vars(phase = "open" /\ \E t \in Threads : Take(t))

=============================================================================

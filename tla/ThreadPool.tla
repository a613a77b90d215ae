------------------------------ MODULE ThreadPool ------------------------------
(***************************************************************************)
(* The thread pool of lib/thpool.c: a linked queue of jobs behind a mutex, *)
(* a binary semaphore built from a mutex and a condition variable that     *)
(* tells sleeping threads of jobs, and two counters with a lock and a      *)
(* condition variable for those who wait for the pool to become idle.      *)
(*                                                                         *)
(* A step is one access to what threads share, or a whole critical section *)
(* when nothing reads inside it without the lock.  rwmutex is held over    *)
(* two steps (the queue, then the semaphore), thcount_lock by thpool_wait  *)
(* and by a thread that leaves.  The counters of threads are the sets of   *)
(* the threads they count.  Pausing the pool is left out.                  *)
(***************************************************************************)
EXTENDS Naturals, Sequences

CONSTANTS
    Threads,     \* threads of the pool
    Callers,     \* threads that use it
    Waiters,     \* callers that call thpool_wait
    None,        \* no thread
    MaxJobs      \* bound on the jobs that are added

ASSUME PoolAssumption ==
    /\ Threads \cap Callers = {} /\ None \notin Threads \cup Callers
    /\ Waiters \subseteq Callers
    /\ MaxJobs \in Nat

VARIABLES
    \* struct jobqueue and struct bsem
    jobs,          \* front to rear, numbered in the order they were added
    rwmutex,       \* its holder
    v,             \* value of has_jobs
    \* struct thpool_
    alive,         \* num_threads_alive
    working,       \* num_threads_working
    thcount_lock,  \* its holder
    keepalive,     \* threads_keepalive
    freed,         \* thpool_destroy has freed the pool
    \* threads
    pc, job,       \* of the pool's threads: next step, job that runs
    at,            \* of the callers: next step
    \* history
    added,         \* number of jobs added
    finished,      \* jobs that have been run
    owed           \* unfinished jobs a caller of thpool_wait waits for

queue  == <<jobs, rwmutex, v>>
counts == <<alive, working, thcount_lock, keepalive, freed>>
hist   == <<added, finished, owed>>
vars   == <<queue, counts, pc, job, at, hist>>

Job   == 1..MaxJobs
NoJob == 0

-----------------------------------------------------------------------------
(* The binary semaphore *)

\* What pthread_cond_signal may make of the threads f: one that sleeps on the
\* condition variable, if there is any, tries again.
Signalled(f, asleep, awake) ==
    LET S == {x \in DOMAIN f : f[x] = asleep}
    IN  IF S = {} THEN {f} ELSE {[f EXCEPT ![x] = awake] : x \in S}

\* Mutant: the semaphore counts.
bsem_post_counting(f) ==
    /\ v' = v + 1
    /\ pc' \in Signalled(f, "asleep", "wait")

\* f: the threads as the caller's own step leaves them.
bsem_post(f) ==
    /\ v' = 1
    /\ pc' \in Signalled(f, "asleep", "wait")

bsem_post_all ==
    /\ v' = 1
    /\ pc' = [t \in Threads |-> IF pc[t] = "asleep" THEN "wait" ELSE pc[t]]

\* One turn of the loop: pthread_cond_wait releases the mutex as it falls asleep.
bsem_wait(t) ==
    /\ pc[t] = "wait"
    /\ IF v = 1
       THEN v' = 0 /\ pc' = [pc EXCEPT ![t] = "check"]
       ELSE v' = v /\ pc' = [pc EXCEPT ![t] = "asleep"]
    /\ UNCHANGED <<jobs, rwmutex, counts, job, at, hist>>

\* pthread_cond_wait may return without a signal.
spurious_wakeup(t) ==
    /\ pc[t] = "asleep"
    /\ pc' = [pc EXCEPT ![t] = "wait"]
    /\ UNCHANGED <<queue, counts, job, at, hist>>

-----------------------------------------------------------------------------
(* The threads of the pool: thread_do *)

start(t) ==
    /\ pc[t] = "start" /\ thcount_lock = None
    /\ alive' = alive \cup {t}
    /\ pc' = [pc EXCEPT ![t] = "loop"]
    /\ UNCHANGED <<queue, working, thcount_lock, keepalive, freed, job, at, hist>>

loop(t) ==
    /\ pc[t] = "loop"
    /\ pc' = [pc EXCEPT ![t] = IF keepalive THEN "wait" ELSE "leave"]
    /\ UNCHANGED <<queue, counts, job, at, hist>>

check(t) ==
    /\ pc[t] = "check"
    /\ pc' = [pc EXCEPT ![t] = IF keepalive THEN "count" ELSE "loop"]
    /\ UNCHANGED <<queue, counts, job, at, hist>>

\* Mutant: only threads that found a job count as working.
count_late(t) ==
    /\ pc[t] = "count" /\ thcount_lock = None
    /\ pc' = [pc EXCEPT ![t] = "pull"]
    /\ UNCHANGED <<queue, counts, job, at, hist>>

count(t) ==
    /\ pc[t] = "count" /\ thcount_lock = None
    /\ working' = working \cup {t}
    /\ pc' = [pc EXCEPT ![t] = "pull"]
    /\ UNCHANGED <<queue, alive, thcount_lock, keepalive, freed, job, at, hist>>

\* Mutant: the semaphore is left to the next push.
jobqueue_pull_silent(t) ==
    /\ pc[t] = "pull" /\ rwmutex = None
    /\ jobs' = IF jobs = <<>> THEN jobs ELSE Tail(jobs)
    /\ job' = [job EXCEPT ![t] = IF jobs = <<>> THEN NoJob ELSE Head(jobs)]
    /\ rwmutex' = rwmutex
    /\ pc' = [pc EXCEPT ![t] = IF jobs = <<>> THEN "uncount" ELSE "run"]
    /\ UNCHANGED <<v, counts, at, hist>>

\* Mutant: the job added last.
jobqueue_pull_rear(t) ==
    /\ pc[t] = "pull" /\ rwmutex = None
    /\ jobs' = IF jobs = <<>> THEN jobs ELSE SubSeq(jobs, 1, Len(jobs) - 1)
    /\ job' = [job EXCEPT ![t] = IF jobs = <<>> THEN NoJob ELSE jobs[Len(jobs)]]
    /\ rwmutex' = IF Len(jobs) > 1 THEN t ELSE None
    /\ pc' = [pc EXCEPT ![t] =
                IF jobs = <<>> THEN "uncount" ELSE IF Len(jobs) > 1 THEN "post" ELSE "run"]
    /\ UNCHANGED <<v, counts, at, hist>>

\* The mutex is kept for the semaphore only when jobs are left.
jobqueue_pull(t) ==
    /\ pc[t] = "pull" /\ rwmutex = None
    /\ jobs' = IF jobs = <<>> THEN jobs ELSE Tail(jobs)
    /\ job' = [job EXCEPT ![t] = IF jobs = <<>> THEN NoJob ELSE Head(jobs)]
    /\ rwmutex' = IF Len(jobs) > 1 THEN t ELSE None
    /\ pc' = [pc EXCEPT ![t] =
                IF jobs = <<>> THEN "uncount" ELSE IF Len(jobs) > 1 THEN "post" ELSE "run"]
    /\ UNCHANGED <<v, counts, at, hist>>

pull_post(t) ==
    /\ pc[t] = "post"
    /\ bsem_post([pc EXCEPT ![t] = "run"])
    /\ rwmutex' = None
    /\ UNCHANGED <<jobs, counts, job, at, hist>>

\* func_buff returns.
run(t) ==
    /\ pc[t] = "run"
    /\ finished' = finished \cup {job[t]}
    /\ job' = [job EXCEPT ![t] = NoJob]
    /\ pc' = [pc EXCEPT ![t] = "uncount"]
    /\ UNCHANGED <<queue, counts, at, added, owed>>

\* Mutant: the counter is tested before it is decremented.
uncount_swapped(t) ==
    /\ pc[t] = "uncount" /\ thcount_lock = None
    /\ at' \in IF working = {} THEN Signalled(at, "idle_wait", "relock") ELSE {at}
    /\ working' = working \ {t}
    /\ pc' = [pc EXCEPT ![t] = "loop"]
    /\ UNCHANGED <<queue, alive, thcount_lock, keepalive, freed, job, hist>>

uncount(t) ==
    /\ pc[t] = "uncount" /\ thcount_lock = None
    /\ working' = working \ {t}
    /\ at' \in IF working' = {} THEN Signalled(at, "idle_wait", "relock") ELSE {at}
    /\ pc' = [pc EXCEPT ![t] = "loop"]
    /\ UNCHANGED <<queue, alive, thcount_lock, keepalive, freed, job, hist>>

\* thpool_destroy reads the counter without the lock the thread still holds.
leave(t) ==
    /\ pc[t] = "leave" /\ thcount_lock = None
    /\ alive' = alive \ {t}
    /\ thcount_lock' = t
    /\ pc' = [pc EXCEPT ![t] = "unlock"]
    /\ UNCHANGED <<queue, working, keepalive, freed, job, at, hist>>

unlock(t) ==
    /\ pc[t] = "unlock"
    /\ thcount_lock' = None
    /\ pc' = [pc EXCEPT ![t] = "end"]
    /\ UNCHANGED <<queue, alive, working, keepalive, freed, job, at, hist>>

-----------------------------------------------------------------------------
(* Callers *)

\* thpool_init returns when every thread has started.
Usable == keepalive /\ \A t \in Threads : pc[t] # "start"

thpool_add_work(c) ==
    /\ at[c] = "out" /\ Usable /\ rwmutex = None
    /\ added < MaxJobs
    /\ added' = added + 1
    /\ jobs' = Append(jobs, added + 1)
    /\ rwmutex' = c
    /\ at' = [at EXCEPT ![c] = "post"]
    /\ UNCHANGED <<v, counts, pc, job, finished, owed>>

push_post(c) ==
    /\ at[c] = "post"
    /\ bsem_post(pc)
    /\ rwmutex' = None
    /\ at' = [at EXCEPT ![c] = "out"]
    /\ UNCHANGED <<jobs, counts, job, hist>>

thpool_wait(c) ==
    /\ c \in Waiters
    /\ at[c] = "out" /\ Usable /\ thcount_lock = None
    /\ owed' = [owed EXCEPT ![c] = 1..added \ finished]
    /\ thcount_lock' = c
    /\ at' = [at EXCEPT ![c] = "len"]
    /\ UNCHANGED <<queue, alive, working, keepalive, freed, pc, job, added, finished>>

\* The queue's length is read without rwmutex.
wait_len(c) ==
    /\ at[c] = "len"
    /\ IF jobs # <<>>
       THEN at' = [at EXCEPT ![c] = "idle_wait"] /\ thcount_lock' = None
       ELSE at' = [at EXCEPT ![c] = "working"] /\ UNCHANGED thcount_lock
    /\ UNCHANGED <<queue, alive, working, keepalive, freed, pc, job, hist>>

wait_working(c) ==
    /\ at[c] = "working"
    /\ at' = [at EXCEPT ![c] = IF working # {} THEN "idle_wait" ELSE "out"]
    /\ thcount_lock' = None
    /\ UNCHANGED <<queue, alive, working, keepalive, freed, pc, job, hist>>

wait_relock(c) ==
    /\ at[c] = "relock" /\ thcount_lock = None
    /\ thcount_lock' = c
    /\ at' = [at EXCEPT ![c] = "len"]
    /\ UNCHANGED <<queue, alive, working, keepalive, freed, pc, job, hist>>

\* The caller's duty: nobody uses a pool that is being destroyed.
thpool_destroy(c) ==
    /\ Usable /\ \A d \in Callers : at[d] = "out"
    /\ keepalive' = FALSE
    /\ at' = [at EXCEPT ![c] = "kill"]
    /\ UNCHANGED <<queue, alive, working, thcount_lock, freed, pc, job, hist>>

kill(c) ==
    /\ at[c] = "kill" /\ alive # {}
    /\ bsem_post_all
    /\ UNCHANGED <<jobs, rwmutex, counts, job, at, hist>>

\* Mutant: threads that are still busy after a second are given up.
destroy_timeout(c) ==
    /\ at[c] = "kill"
    /\ jobs' = <<>> /\ v' = 0
    /\ freed' = TRUE
    /\ at' = [at EXCEPT ![c] = "over"]
    /\ UNCHANGED <<rwmutex, alive, working, thcount_lock, keepalive, pc, job, hist>>

\* jobqueue_clear, then everything is freed.
jobqueue_destroy(c) ==
    /\ at[c] = "kill" /\ alive = {}
    /\ jobs' = <<>> /\ v' = 0
    /\ freed' = TRUE
    /\ at' = [at EXCEPT ![c] = "over"]
    /\ UNCHANGED <<rwmutex, alive, working, thcount_lock, keepalive, pc, job, hist>>

-----------------------------------------------------------------------------

\* thpool_init
Init ==
    /\ jobs = <<>> /\ rwmutex = None /\ v = 0
    /\ alive = {} /\ working = {} /\ thcount_lock = None
    /\ keepalive = TRUE /\ freed = FALSE
    /\ pc = [t \in Threads |-> "start"]
    /\ job = [t \in Threads |-> NoJob]
    /\ at = [c \in Callers |-> "out"]
    /\ added = 0 /\ finished = {}
    /\ owed = [c \in Callers |-> {}]

thread_do(t) ==
    \/ start(t) \/ loop(t) \/ bsem_wait(t) \/ check(t) \/ count(t) \/ jobqueue_pull(t)
    \/ pull_post(t) \/ run(t) \/ uncount(t) \/ leave(t) \/ unlock(t)

\* A call that has begun.
Call(c) ==
    \/ push_post(c) \/ wait_len(c) \/ wait_working(c) \/ wait_relock(c)
    \/ kill(c) \/ jobqueue_destroy(c)

Next ==
    \/ \E t \in Threads : thread_do(t) \/ spurious_wakeup(t)
    \/ \E c \in Callers : thpool_add_work(c) \/ thpool_wait(c) \/ thpool_destroy(c) \/ Call(c)

Spec == Init /\ [][Next]_vars

\* Every thread that can run does, and jobs end.
FairSpec ==
    /\ Spec
    /\ \A t \in Threads : WF_vars(thread_do(t))
    /\ \A c \in Callers : WF_vars(Call(c))

-----------------------------------------------------------------------------
(* Properties *)

PoolPc == {"start", "loop", "wait", "asleep", "check", "count", "pull", "post", "run",
           "uncount", "leave", "unlock", "end"}
CallPc == {"out", "post", "len", "working", "idle_wait", "relock", "kill", "over"}

\* Queue, counters and threads have their types.
TypeOK ==
    /\ jobs \in Seq(Job) /\ v \in {0, 1}
    /\ rwmutex \in Threads \cup Callers \cup {None}
    /\ alive \subseteq Threads /\ working \subseteq Threads
    /\ thcount_lock \in Threads \cup Callers \cup {None}
    /\ keepalive \in BOOLEAN /\ freed \in BOOLEAN
    /\ pc \in [Threads -> PoolPc] /\ job \in [Threads -> Job \cup {NoJob}]
    /\ at \in [Callers -> CallPc]
    /\ added \in 0..MaxJobs /\ finished \subseteq Job
    /\ owed \in [Callers -> SUBSET Job]

\* Threads that have taken the semaphore and not yet looked at the queue.
Coming == {t \in Threads : pc[t] \in {"check", "count", "pull"}}

\* One post per push and one per pull wake enough threads: a queued job has a
\* thread on its way to the queue, or the semaphore is up and a thread that
\* is awake will test it, unless none sleeps because all are busy.  So no job
\* waits while the threads sleep.
NoStranded ==
    keepalive /\ jobs # <<>> /\ rwmutex = None =>
        \/ Coming # {}
        \/ /\ v = 1
           /\ (\E t \in Threads : pc[t] = "asleep") => \E t \in Threads : pc[t] = "wait"

\* "Will wait for all jobs - both queued and currently running to finish"
\* (thpool.h): when thpool_wait returns, the jobs that were not finished at its
\* call are, though the queue's length and the counter are not read together.
WaitsForAll ==
    [][\A c \in Callers : at[c] = "working" /\ at'[c] = "out" => owed[c] \subseteq finished]_vars

\* "wait for the currently active threads to finish" (thpool.h): when the pool
\* is freed no thread runs a job or comes to use queue or semaphore again.  (A
\* thread may still have to unlock thcount_lock, which has been freed as well.)
DestroyedIsQuiet ==
    freed => \A t \in Threads : pc[t] \in {"unlock", "end"}

\* Calls of thpool_wait and thpool_destroy return.
CallsReturn == \A c \in Callers : at[c] # "out" ~> at[c] \in {"out", "over"}

\* To the caller the pool is the abstract job queue: jobs start in order, each
\* once, none waits beside an idle thread for ever, and none starts once the
\* pool is destroyed.
Abstract == INSTANCE JobQueue WITH
    Jobs <- Job, Idle <- NoJob, queue <- jobs, running <- job,
    phase <- IF freed THEN "closed" ELSE IF keepalive THEN "open" ELSE "closing"

ImplementsJobQueue == Abstract!FairSpec

=============================================================================

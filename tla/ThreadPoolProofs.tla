--------------------------- MODULE ThreadPoolProofs ---------------------------
(***************************************************************************)
(* Proofs about ThreadPool, for every number of threads, callers and jobs: *)
(* its invariants, and that its safety part implements JobQueue.           *)
(***************************************************************************)
EXTENDS ThreadPool, TLAPS

-----------------------------------------------------------------------------
(* The inductive invariant *)

\* A lock is held by those, and only those, between its two steps.
Locks ==
    /\ \A t \in Threads : /\ pc[t] = "post" <=> rwmutex = t
                          /\ pc[t] = "unlock" <=> thcount_lock = t
    /\ \A c \in Callers : /\ at[c] = "post" <=> rwmutex = c
                          /\ at[c] \in {"len", "working"} <=> thcount_lock = c

\* What a thread has taken, and where it is counted, follows from its step.
Standing ==
    \A t \in Threads :
        /\ job[t] # NoJob <=> pc[t] \in {"post", "run"}
        /\ t \in working <=> pc[t] \in {"pull", "post", "run", "uncount"}
        /\ t \in alive <=> pc[t] \notin {"start", "unlock", "end"}

\* One caller destroys the pool, when all threads have started and no call runs.
Ending ==
    /\ ~keepalive => /\ \A t \in Threads : pc[t] # "start"
                     /\ \A c \in Callers : at[c] \in {"out", "kill", "over"}
    /\ \A t \in Threads : pc[t] \in {"leave", "unlock", "end"} => ~keepalive
    /\ \A c \in Callers : at[c] \in {"kill", "over"} => ~keepalive
    /\ \A c, d \in Callers : at[c] = "kill" /\ at[d] = "kill" => c = d
    /\ freed => ~keepalive /\ \A c \in Callers : at[c] # "kill"

\* A job is queued, running or finished, and a caller that has seen the queue
\* empty owes nothing that is queued.
Accounting ==
    /\ ~freed => \A j \in 1..added :
          \/ j \in finished
          \/ \E i \in 1 .. Len(jobs) : jobs[i] = j
          \/ \E t \in Threads : job[t] = j
    /\ \A c \in Callers : owed[c] \subseteq 1..added
    /\ \A c \in Callers : at[c] = "working" =>
          \A j \in owed[c] : j \in finished \/ \E t \in Threads : job[t] = j

Inv == TypeOK /\ Locks /\ Standing /\ Ending /\ DestroyedIsQuiet /\ NoStranded /\ Accounting

-----------------------------------------------------------------------------
(* Condition variables *)

\* A signal wakes one sleeper, or nobody when nobody sleeps.
LEMMA SignalOne ==
    ASSUME NEW S, NEW f, f = [x \in S |-> f[x]], NEW asleep, NEW awake,
           NEW g \in Signalled(f, asleep, awake)
    PROVE  \/ g = f /\ \A x \in S : f[x] # asleep
           \/ \E x \in S : f[x] = asleep /\ g = [f EXCEPT ![x] = awake]
  BY DEF Signalled

\* The semaphore's post after a pull: the thread runs its job and at most one
\* other wakes up.
LEMMA PullPost ==
    ASSUME TypeOK, NEW u \in Threads, pull_post(u)
    PROVE  /\ pc[u] = "post" /\ v' = 1 /\ rwmutex' = None
           /\ UNCHANGED <<jobs, counts, job, at, hist>>
           /\ pc' \in [Threads -> PoolPc] /\ pc'[u] = "run"
           /\ \A x \in Threads \ {u} :
                 pc'[x] = pc[x] \/ (pc[x] = "asleep" /\ pc'[x] = "wait")
           /\ (\E x \in Threads : pc'[x] = "asleep") => \E x \in Threads : pc'[x] = "wait"
<1> DEFINE f == [pc EXCEPT ![u] = "run"]
<1>1. pc \in [Threads -> PoolPc] /\ f = [x \in Threads |-> f[x]] /\ f[u] = "run"
  BY DEF TypeOK
<1>2. pc' \in Signalled(f, "asleep", "wait")
  BY DEF pull_post, bsem_post
<1> HIDE DEF f
<1>3. \/ pc' = f /\ \A x \in Threads : f[x] # "asleep"
      \/ \E x \in Threads : f[x] = "asleep" /\ pc' = [f EXCEPT ![x] = "wait"]
  BY <1>1, <1>2, SignalOne
<1>4. \A x \in Threads : f[x] = "asleep" => x # u /\ pc[x] = "asleep"
  BY <1>1 DEF f
<1>5. f \in [Threads -> PoolPc] /\ pc' \in [Threads -> PoolPc] /\ pc'[u] = "run"
  <2>1. "run" \in PoolPc /\ "wait" \in PoolPc
    BY DEF PoolPc
  <2>2. f \in [Threads -> PoolPc]
    BY <1>1, <2>1 DEF f
  <2>3. QED
    BY <1>1, <1>3, <1>4, <2>1, <2>2
<1>6. \A x \in Threads \ {u} : pc'[x] = pc[x] \/ (pc[x] = "asleep" /\ pc'[x] = "wait")
  BY <1>1, <1>3, <1>4 DEF f
<1>7. (\E x \in Threads : pc'[x] = "asleep") => \E x \in Threads : pc'[x] = "wait"
  BY <1>1, <1>3
<1>8. QED
  BY <1>5, <1>6, <1>7 DEF pull_post, bsem_post

\* The post of a push.
LEMMA PushPost ==
    ASSUME TypeOK, NEW d \in Callers, push_post(d)
    PROVE  /\ at[d] = "post" /\ at' = [at EXCEPT ![d] = "out"]
           /\ v' = 1 /\ rwmutex' = None
           /\ UNCHANGED <<jobs, counts, job, hist>>
           /\ \/ pc' = pc /\ \A x \in Threads : pc[x] # "asleep"
              \/ \E x \in Threads : pc[x] = "asleep" /\ pc' = [pc EXCEPT ![x] = "wait"]
<1>1. pc = [x \in Threads |-> pc[x]]
  BY DEF TypeOK
<1>2. pc' \in Signalled(pc, "asleep", "wait")
  BY DEF push_post, bsem_post
<1>3. QED
  BY <1>1, <1>2, SignalOne DEF push_post, bsem_post

\* The end of a turn of thread_do: at most one caller of thpool_wait wakes up.
LEMMA Uncount ==
    ASSUME TypeOK, NEW u \in Threads, uncount(u)
    PROVE  /\ pc[u] = "uncount" /\ pc' = [pc EXCEPT ![u] = "loop"]
           /\ working' = working \ {u}
           /\ UNCHANGED <<queue, alive, thcount_lock, keepalive, freed, job, hist>>
           /\ \/ at' = at
              \/ \E x \in Callers : at[x] = "idle_wait" /\ at' = [at EXCEPT ![x] = "relock"]
<1>1. at = [x \in Callers |-> at[x]]
  BY DEF TypeOK
<1>2. at' = at \/ at' \in Signalled(at, "idle_wait", "relock")
  BY DEF uncount
<1>3. QED
  BY <1>1, <1>2, SignalOne DEF uncount

\* Taking the front of a queue leaves its other jobs.
LEMMA TakeFront ==
    ASSUME NEW S, NEW q \in Seq(S), q # <<>>
    PROVE  /\ Head(q) \in S /\ Tail(q) \in Seq(S) /\ Len(q) \in Nat \ {0}
           /\ \A i \in 1 .. Len(q) : q[i] = Head(q) \/ \E k \in 1 .. Len(Tail(q)) : Tail(q)[k] = q[i]
<1>1. Len(q) \in Nat \ {0} /\ Len(Tail(q)) = Len(q) - 1 /\ Head(q) = q[1]
  OBVIOUS
<1>2. ASSUME NEW i \in 1 .. Len(q), i # 1 PROVE i - 1 \in 1 .. Len(Tail(q)) /\ Tail(q)[i - 1] = q[i]
  BY <1>1, <1>2
<1>3. QED
  BY <1>1, <1>2

-----------------------------------------------------------------------------
(* Every step preserves each part of the invariant *)

\* The types.
LEMMA TypeStep ==
    ASSUME TypeOK, Standing, [Next]_vars
    PROVE  TypeOK'
<1> USE PoolAssumption
<1>1. ASSUME NEW u \in Threads, start(u) PROVE TypeOK'
  BY <1>1 DEF TypeOK, Standing, PoolPc, CallPc, Job, NoJob, queue, counts, hist, start
<1>2. ASSUME NEW u \in Threads, loop(u) PROVE TypeOK'
  BY <1>2 DEF TypeOK, Standing, PoolPc, CallPc, Job, NoJob, queue, counts, hist, loop
<1>3. ASSUME NEW u \in Threads, bsem_wait(u) PROVE TypeOK'
  BY <1>3 DEF TypeOK, Standing, PoolPc, CallPc, Job, NoJob, queue, counts, hist, bsem_wait
<1>4. ASSUME NEW u \in Threads, check(u) PROVE TypeOK'
  BY <1>4 DEF TypeOK, Standing, PoolPc, CallPc, Job, NoJob, queue, counts, hist, check
<1>5. ASSUME NEW u \in Threads, count(u) PROVE TypeOK'
  BY <1>5 DEF TypeOK, Standing, PoolPc, CallPc, Job, NoJob, queue, counts, hist, count
<1>6. ASSUME NEW u \in Threads, jobqueue_pull(u) PROVE TypeOK'
  BY <1>6, TakeFront DEF TypeOK, Standing, PoolPc, CallPc, Job, NoJob, queue, counts, hist,
     jobqueue_pull
<1>7. ASSUME NEW u \in Threads, pull_post(u) PROVE TypeOK'
  BY <1>7, PullPost DEF TypeOK, counts, hist
<1>8. ASSUME NEW u \in Threads, run(u) PROVE TypeOK'
  BY <1>8 DEF TypeOK, Standing, PoolPc, CallPc, Job, NoJob, queue, counts, hist, run
<1>9. ASSUME NEW u \in Threads, uncount(u) PROVE TypeOK'
  BY <1>9, Uncount DEF TypeOK, Standing, PoolPc, CallPc, Job, NoJob, queue, counts, hist
<1>10. ASSUME NEW u \in Threads, leave(u) PROVE TypeOK'
  BY <1>10 DEF TypeOK, Standing, PoolPc, CallPc, Job, NoJob, queue, counts, hist, leave
<1>11. ASSUME NEW u \in Threads, unlock(u) PROVE TypeOK'
  BY <1>11 DEF TypeOK, Standing, PoolPc, CallPc, Job, NoJob, queue, counts, hist, unlock
<1>12. ASSUME NEW u \in Threads, spurious_wakeup(u) PROVE TypeOK'
  BY <1>12 DEF TypeOK, Standing, PoolPc, CallPc, Job, NoJob, queue, counts, hist, spurious_wakeup
<1>13. ASSUME NEW d \in Callers, thpool_add_work(d) PROVE TypeOK'
  BY <1>13 DEF TypeOK, Standing, PoolPc, CallPc, Job, NoJob, queue, counts, hist, thpool_add_work
<1>14. ASSUME NEW d \in Callers, push_post(d) PROVE TypeOK'
  BY <1>14, PushPost DEF TypeOK, Standing, PoolPc, CallPc, Job, NoJob, queue, counts, hist
<1>15. ASSUME NEW d \in Callers, thpool_wait(d) PROVE TypeOK'
  BY <1>15 DEF TypeOK, Standing, PoolPc, CallPc, Job, NoJob, queue, counts, hist, thpool_wait
<1>16. ASSUME NEW d \in Callers, wait_len(d) PROVE TypeOK'
  BY <1>16 DEF TypeOK, Standing, PoolPc, CallPc, Job, NoJob, queue, counts, hist, wait_len
<1>17. ASSUME NEW d \in Callers, wait_working(d) PROVE TypeOK'
  BY <1>17 DEF TypeOK, Standing, PoolPc, CallPc, Job, NoJob, queue, counts, hist, wait_working
<1>18. ASSUME NEW d \in Callers, wait_relock(d) PROVE TypeOK'
  BY <1>18 DEF TypeOK, Standing, PoolPc, CallPc, Job, NoJob, queue, counts, hist, wait_relock
<1>19. ASSUME NEW d \in Callers, thpool_destroy(d) PROVE TypeOK'
  BY <1>19 DEF TypeOK, Standing, PoolPc, CallPc, Job, NoJob, queue, counts, hist, thpool_destroy
<1>20. ASSUME NEW d \in Callers, kill(d) PROVE TypeOK'
  BY <1>20 DEF TypeOK, Standing, PoolPc, CallPc, Job, NoJob, queue, counts, hist, kill,
     bsem_post_all
<1>21. ASSUME NEW d \in Callers, jobqueue_destroy(d) PROVE TypeOK'
  BY <1>21 DEF TypeOK, Standing, PoolPc, CallPc, Job, NoJob, queue, counts, hist, jobqueue_destroy
<1>22. CASE UNCHANGED vars
  BY <1>22 DEF TypeOK, Standing, PoolPc, CallPc, Job, NoJob, queue, counts, hist, vars, queue,
     counts, hist
<1>23. QED
  BY <1>1, <1>2, <1>3, <1>4, <1>5, <1>6, <1>7, <1>8, <1>9, <1>10, <1>11, <1>12, <1>13, <1>14,
     <1>15, <1>16, <1>17, <1>18, <1>19, <1>20, <1>21, <1>22 DEF Next, thread_do, Call

\* The locks.
LEMMA LocksStep ==
    ASSUME TypeOK, Locks, [Next]_vars
    PROVE  Locks'
<1> USE PoolAssumption
<1>1. ASSUME NEW u \in Threads, start(u) PROVE Locks'
  BY <1>1 DEF TypeOK, Locks, queue, counts, hist, start
<1>2. ASSUME NEW u \in Threads, loop(u) PROVE Locks'
  BY <1>2 DEF TypeOK, Locks, queue, counts, hist, loop
<1>3. ASSUME NEW u \in Threads, bsem_wait(u) PROVE Locks'
  BY <1>3 DEF TypeOK, Locks, queue, counts, hist, bsem_wait
<1>4. ASSUME NEW u \in Threads, check(u) PROVE Locks'
  BY <1>4 DEF TypeOK, Locks, queue, counts, hist, check
<1>5. ASSUME NEW u \in Threads, count(u) PROVE Locks'
  BY <1>5 DEF TypeOK, Locks, queue, counts, hist, count
<1>6. ASSUME NEW u \in Threads, jobqueue_pull(u) PROVE Locks'
  BY <1>6, TakeFront DEF TypeOK, Locks, queue, counts, hist, jobqueue_pull
<1>7. ASSUME NEW u \in Threads, pull_post(u) PROVE Locks'
  BY <1>7, PullPost DEF TypeOK, Locks, queue, counts, hist
<1>8. ASSUME NEW u \in Threads, run(u) PROVE Locks'
  BY <1>8 DEF TypeOK, Locks, queue, counts, hist, run
<1>9. ASSUME NEW u \in Threads, uncount(u) PROVE Locks'
  BY <1>9, Uncount DEF TypeOK, Locks, queue, counts, hist
<1>10. ASSUME NEW u \in Threads, leave(u) PROVE Locks'
  BY <1>10 DEF TypeOK, Locks, queue, counts, hist, leave
<1>11. ASSUME NEW u \in Threads, unlock(u) PROVE Locks'
  BY <1>11 DEF TypeOK, Locks, queue, counts, hist, unlock
<1>12. ASSUME NEW u \in Threads, spurious_wakeup(u) PROVE Locks'
  BY <1>12 DEF TypeOK, Locks, queue, counts, hist, spurious_wakeup
<1>13. ASSUME NEW d \in Callers, thpool_add_work(d) PROVE Locks'
  BY <1>13 DEF TypeOK, Locks, queue, counts, hist, thpool_add_work
<1>14. ASSUME NEW d \in Callers, push_post(d) PROVE Locks'
  BY <1>14, PushPost DEF TypeOK, Locks, queue, counts, hist
<1>15. ASSUME NEW d \in Callers, thpool_wait(d) PROVE Locks'
  BY <1>15 DEF TypeOK, Locks, queue, counts, hist, thpool_wait
<1>16. ASSUME NEW d \in Callers, wait_len(d) PROVE Locks'
  BY <1>16 DEF TypeOK, Locks, queue, counts, hist, wait_len
<1>17. ASSUME NEW d \in Callers, wait_working(d) PROVE Locks'
  BY <1>17 DEF TypeOK, Locks, queue, counts, hist, wait_working
<1>18. ASSUME NEW d \in Callers, wait_relock(d) PROVE Locks'
  BY <1>18 DEF TypeOK, Locks, queue, counts, hist, wait_relock
<1>19. ASSUME NEW d \in Callers, thpool_destroy(d) PROVE Locks'
  BY <1>19 DEF TypeOK, Locks, queue, counts, hist, thpool_destroy
<1>20. ASSUME NEW d \in Callers, kill(d) PROVE Locks'
  BY <1>20 DEF TypeOK, Locks, queue, counts, hist, kill, bsem_post_all
<1>21. ASSUME NEW d \in Callers, jobqueue_destroy(d) PROVE Locks'
  BY <1>21 DEF TypeOK, Locks, queue, counts, hist, jobqueue_destroy
<1>22. CASE UNCHANGED vars
  BY <1>22 DEF TypeOK, Locks, queue, counts, hist, vars, queue, counts, hist
<1>23. QED
  BY <1>1, <1>2, <1>3, <1>4, <1>5, <1>6, <1>7, <1>8, <1>9, <1>10, <1>11, <1>12, <1>13, <1>14,
     <1>15, <1>16, <1>17, <1>18, <1>19, <1>20, <1>21, <1>22 DEF Next, thread_do, Call

\* Jobs and counters.
LEMMA StandingStep ==
    ASSUME TypeOK, Standing, [Next]_vars
    PROVE  Standing'
<1> USE PoolAssumption
<1>1. ASSUME NEW u \in Threads, start(u) PROVE Standing'
  BY <1>1 DEF TypeOK, Standing, NoJob, queue, counts, hist, start
<1>2. ASSUME NEW u \in Threads, loop(u) PROVE Standing'
  BY <1>2 DEF TypeOK, Standing, NoJob, queue, counts, hist, loop
<1>3. ASSUME NEW u \in Threads, bsem_wait(u) PROVE Standing'
  BY <1>3 DEF TypeOK, Standing, NoJob, queue, counts, hist, bsem_wait
<1>4. ASSUME NEW u \in Threads, check(u) PROVE Standing'
  BY <1>4 DEF TypeOK, Standing, NoJob, queue, counts, hist, check
<1>5. ASSUME NEW u \in Threads, count(u) PROVE Standing'
  BY <1>5 DEF TypeOK, Standing, NoJob, queue, counts, hist, count
<1>6. ASSUME NEW u \in Threads, jobqueue_pull(u) PROVE Standing'
  <2>1. jobs # <<>> => Head(jobs) \in Job /\ Len(jobs) \in Nat
    BY TakeFront DEF TypeOK
  <2>2. jobs # <<>> => Head(jobs) # NoJob
    BY <2>1 DEF Job, NoJob
  <2>3. QED
    BY <1>6, <2>2 DEF TypeOK, Standing, counts, hist, jobqueue_pull
<1>7. ASSUME NEW u \in Threads, pull_post(u) PROVE Standing'
  BY <1>7, PullPost DEF TypeOK, Standing, NoJob, queue, counts, hist
<1>8. ASSUME NEW u \in Threads, run(u) PROVE Standing'
  BY <1>8 DEF TypeOK, Standing, NoJob, queue, counts, hist, run
<1>9. ASSUME NEW u \in Threads, uncount(u) PROVE Standing'
  BY <1>9, Uncount DEF TypeOK, Standing, NoJob, queue, counts, hist
<1>10. ASSUME NEW u \in Threads, leave(u) PROVE Standing'
  BY <1>10 DEF TypeOK, Standing, NoJob, queue, counts, hist, leave
<1>11. ASSUME NEW u \in Threads, unlock(u) PROVE Standing'
  BY <1>11 DEF TypeOK, Standing, NoJob, queue, counts, hist, unlock
<1>12. ASSUME NEW u \in Threads, spurious_wakeup(u) PROVE Standing'
  BY <1>12 DEF TypeOK, Standing, NoJob, queue, counts, hist, spurious_wakeup
<1>13. ASSUME NEW d \in Callers, thpool_add_work(d) PROVE Standing'
  BY <1>13 DEF TypeOK, Standing, NoJob, queue, counts, hist, thpool_add_work
<1>14. ASSUME NEW d \in Callers, push_post(d) PROVE Standing'
  BY <1>14, PushPost DEF TypeOK, Standing, NoJob, queue, counts, hist
<1>15. ASSUME NEW d \in Callers, thpool_wait(d) PROVE Standing'
  BY <1>15 DEF TypeOK, Standing, NoJob, queue, counts, hist, thpool_wait
<1>16. ASSUME NEW d \in Callers, wait_len(d) PROVE Standing'
  BY <1>16 DEF TypeOK, Standing, NoJob, queue, counts, hist, wait_len
<1>17. ASSUME NEW d \in Callers, wait_working(d) PROVE Standing'
  BY <1>17 DEF TypeOK, Standing, NoJob, queue, counts, hist, wait_working
<1>18. ASSUME NEW d \in Callers, wait_relock(d) PROVE Standing'
  BY <1>18 DEF TypeOK, Standing, NoJob, queue, counts, hist, wait_relock
<1>19. ASSUME NEW d \in Callers, thpool_destroy(d) PROVE Standing'
  BY <1>19 DEF TypeOK, Standing, NoJob, queue, counts, hist, thpool_destroy
<1>20. ASSUME NEW d \in Callers, kill(d) PROVE Standing'
  BY <1>20 DEF TypeOK, Standing, NoJob, queue, counts, hist, kill, bsem_post_all
<1>21. ASSUME NEW d \in Callers, jobqueue_destroy(d) PROVE Standing'
  BY <1>21 DEF TypeOK, Standing, NoJob, queue, counts, hist, jobqueue_destroy
<1>22. CASE UNCHANGED vars
  BY <1>22 DEF TypeOK, Standing, NoJob, queue, counts, hist, vars, queue, counts, hist
<1>23. QED
  BY <1>1, <1>2, <1>3, <1>4, <1>5, <1>6, <1>7, <1>8, <1>9, <1>10, <1>11, <1>12, <1>13, <1>14,
     <1>15, <1>16, <1>17, <1>18, <1>19, <1>20, <1>21, <1>22 DEF Next, thread_do, Call

\* The end of the pool.
LEMMA EndingStep ==
    ASSUME TypeOK, Locks, Ending, [Next]_vars
    PROVE  Ending'
<1> USE PoolAssumption
<1>1. ASSUME NEW u \in Threads, start(u) PROVE Ending'
  BY <1>1 DEF TypeOK, Ending, Usable, queue, counts, hist, start
<1>2. ASSUME NEW u \in Threads, loop(u) PROVE Ending'
  BY <1>2 DEF TypeOK, Ending, Usable, queue, counts, hist, loop
<1>3. ASSUME NEW u \in Threads, bsem_wait(u) PROVE Ending'
  BY <1>3 DEF TypeOK, Ending, Usable, queue, counts, hist, bsem_wait
<1>4. ASSUME NEW u \in Threads, check(u) PROVE Ending'
  BY <1>4 DEF TypeOK, Ending, Usable, queue, counts, hist, check
<1>5. ASSUME NEW u \in Threads, count(u) PROVE Ending'
  BY <1>5 DEF TypeOK, Ending, Usable, queue, counts, hist, count
<1>6. ASSUME NEW u \in Threads, jobqueue_pull(u) PROVE Ending'
  BY <1>6, TakeFront DEF TypeOK, Ending, Usable, queue, counts, hist, jobqueue_pull
<1>7. ASSUME NEW u \in Threads, pull_post(u) PROVE Ending'
  BY <1>7, PullPost DEF TypeOK, Ending, Usable, queue, counts, hist
<1>8. ASSUME NEW u \in Threads, run(u) PROVE Ending'
  BY <1>8 DEF TypeOK, Ending, Usable, queue, counts, hist, run
<1>9. ASSUME NEW u \in Threads, uncount(u) PROVE Ending'
  BY <1>9, Uncount DEF TypeOK, Ending, Usable, queue, counts, hist
<1>10. ASSUME NEW u \in Threads, leave(u) PROVE Ending'
  BY <1>10 DEF TypeOK, Ending, Usable, queue, counts, hist, leave
<1>11. ASSUME NEW u \in Threads, unlock(u) PROVE Ending'
  BY <1>11 DEF TypeOK, Ending, Usable, queue, counts, hist, unlock
<1>12. ASSUME NEW u \in Threads, spurious_wakeup(u) PROVE Ending'
  BY <1>12 DEF TypeOK, Ending, Usable, queue, counts, hist, spurious_wakeup
<1>13. ASSUME NEW d \in Callers, thpool_add_work(d) PROVE Ending'
  BY <1>13 DEF TypeOK, Ending, Usable, queue, counts, hist, thpool_add_work
<1>14. ASSUME NEW d \in Callers, push_post(d) PROVE Ending'
  BY <1>14, PushPost DEF TypeOK, Ending, Usable, queue, counts, hist
<1>15. ASSUME NEW d \in Callers, thpool_wait(d) PROVE Ending'
  BY <1>15 DEF TypeOK, Ending, Usable, queue, counts, hist, thpool_wait
<1>16. ASSUME NEW d \in Callers, wait_len(d) PROVE Ending'
  BY <1>16 DEF TypeOK, Ending, Usable, queue, counts, hist, wait_len
<1>17. ASSUME NEW d \in Callers, wait_working(d) PROVE Ending'
  BY <1>17 DEF TypeOK, Ending, Usable, queue, counts, hist, wait_working
<1>18. ASSUME NEW d \in Callers, wait_relock(d) PROVE Ending'
  BY <1>18 DEF TypeOK, Ending, Usable, queue, counts, hist, wait_relock
<1>19. ASSUME NEW d \in Callers, thpool_destroy(d) PROVE Ending'
  BY <1>19 DEF TypeOK, Ending, Usable, queue, counts, hist, thpool_destroy
<1>20. ASSUME NEW d \in Callers, kill(d) PROVE Ending'
  BY <1>20 DEF TypeOK, Ending, Usable, queue, counts, hist, kill, bsem_post_all
<1>21. ASSUME NEW d \in Callers, jobqueue_destroy(d) PROVE Ending'
  BY <1>21 DEF TypeOK, Ending, Usable, queue, counts, hist, jobqueue_destroy
<1>22. CASE UNCHANGED vars
  BY <1>22 DEF TypeOK, Ending, Usable, queue, counts, hist, vars, queue, counts, hist
<1>23. QED
  BY <1>1, <1>2, <1>3, <1>4, <1>5, <1>6, <1>7, <1>8, <1>9, <1>10, <1>11, <1>12, <1>13, <1>14,
     <1>15, <1>16, <1>17, <1>18, <1>19, <1>20, <1>21, <1>22 DEF Next, thread_do, Call

\* A pool that has been freed is not used.
LEMMA QuietStep ==
    ASSUME TypeOK, Standing, Ending, DestroyedIsQuiet, [Next]_vars
    PROVE  DestroyedIsQuiet'
<1> USE PoolAssumption
<1>1. ASSUME NEW u \in Threads, start(u) PROVE DestroyedIsQuiet'
  BY <1>1 DEF TypeOK, Standing, Ending, DestroyedIsQuiet, queue, counts, hist, start
<1>2. ASSUME NEW u \in Threads, loop(u) PROVE DestroyedIsQuiet'
  BY <1>2 DEF TypeOK, Standing, Ending, DestroyedIsQuiet, queue, counts, hist, loop
<1>3. ASSUME NEW u \in Threads, bsem_wait(u) PROVE DestroyedIsQuiet'
  BY <1>3 DEF TypeOK, Standing, Ending, DestroyedIsQuiet, queue, counts, hist, bsem_wait
<1>4. ASSUME NEW u \in Threads, check(u) PROVE DestroyedIsQuiet'
  BY <1>4 DEF TypeOK, Standing, Ending, DestroyedIsQuiet, queue, counts, hist, check
<1>5. ASSUME NEW u \in Threads, count(u) PROVE DestroyedIsQuiet'
  BY <1>5 DEF TypeOK, Standing, Ending, DestroyedIsQuiet, queue, counts, hist, count
<1>6. ASSUME NEW u \in Threads, jobqueue_pull(u) PROVE DestroyedIsQuiet'
  BY <1>6, TakeFront DEF TypeOK, Standing, Ending, DestroyedIsQuiet, queue, counts, hist,
     jobqueue_pull
<1>7. ASSUME NEW u \in Threads, pull_post(u) PROVE DestroyedIsQuiet'
  BY <1>7, PullPost DEF TypeOK, Standing, Ending, DestroyedIsQuiet, queue, counts, hist
<1>8. ASSUME NEW u \in Threads, run(u) PROVE DestroyedIsQuiet'
  BY <1>8 DEF TypeOK, Standing, Ending, DestroyedIsQuiet, queue, counts, hist, run
<1>9. ASSUME NEW u \in Threads, uncount(u) PROVE DestroyedIsQuiet'
  BY <1>9, Uncount DEF TypeOK, Standing, Ending, DestroyedIsQuiet, queue, counts, hist
<1>10. ASSUME NEW u \in Threads, leave(u) PROVE DestroyedIsQuiet'
  BY <1>10 DEF TypeOK, Standing, Ending, DestroyedIsQuiet, queue, counts, hist, leave
<1>11. ASSUME NEW u \in Threads, unlock(u) PROVE DestroyedIsQuiet'
  BY <1>11 DEF TypeOK, Standing, Ending, DestroyedIsQuiet, queue, counts, hist, unlock
<1>12. ASSUME NEW u \in Threads, spurious_wakeup(u) PROVE DestroyedIsQuiet'
  BY <1>12 DEF TypeOK, Standing, Ending, DestroyedIsQuiet, queue, counts, hist, spurious_wakeup
<1>13. ASSUME NEW d \in Callers, thpool_add_work(d) PROVE DestroyedIsQuiet'
  BY <1>13 DEF TypeOK, Standing, Ending, DestroyedIsQuiet, queue, counts, hist, thpool_add_work
<1>14. ASSUME NEW d \in Callers, push_post(d) PROVE DestroyedIsQuiet'
  BY <1>14, PushPost DEF TypeOK, Standing, Ending, DestroyedIsQuiet, queue, counts, hist
<1>15. ASSUME NEW d \in Callers, thpool_wait(d) PROVE DestroyedIsQuiet'
  BY <1>15 DEF TypeOK, Standing, Ending, DestroyedIsQuiet, queue, counts, hist, thpool_wait
<1>16. ASSUME NEW d \in Callers, wait_len(d) PROVE DestroyedIsQuiet'
  BY <1>16 DEF TypeOK, Standing, Ending, DestroyedIsQuiet, queue, counts, hist, wait_len
<1>17. ASSUME NEW d \in Callers, wait_working(d) PROVE DestroyedIsQuiet'
  BY <1>17 DEF TypeOK, Standing, Ending, DestroyedIsQuiet, queue, counts, hist, wait_working
<1>18. ASSUME NEW d \in Callers, wait_relock(d) PROVE DestroyedIsQuiet'
  BY <1>18 DEF TypeOK, Standing, Ending, DestroyedIsQuiet, queue, counts, hist, wait_relock
<1>19. ASSUME NEW d \in Callers, thpool_destroy(d) PROVE DestroyedIsQuiet'
  BY <1>19 DEF TypeOK, Standing, Ending, DestroyedIsQuiet, queue, counts, hist, thpool_destroy
<1>20. ASSUME NEW d \in Callers, kill(d) PROVE DestroyedIsQuiet'
  BY <1>20 DEF TypeOK, Standing, Ending, DestroyedIsQuiet, queue, counts, hist, kill, bsem_post_all
<1>21. ASSUME NEW d \in Callers, jobqueue_destroy(d) PROVE DestroyedIsQuiet'
  BY <1>21 DEF TypeOK, Standing, Ending, DestroyedIsQuiet, queue, counts, hist, jobqueue_destroy
<1>22. CASE UNCHANGED vars
  BY <1>22 DEF TypeOK, Standing, Ending, DestroyedIsQuiet, queue, counts, hist, vars, queue,
     counts, hist
<1>23. QED
  BY <1>1, <1>2, <1>3, <1>4, <1>5, <1>6, <1>7, <1>8, <1>9, <1>10, <1>11, <1>12, <1>13, <1>14,
     <1>15, <1>16, <1>17, <1>18, <1>19, <1>20, <1>21, <1>22 DEF Next, thread_do, Call

\* Semaphore and queue.
LEMMA StrandedStep ==
    ASSUME TypeOK, Locks, Standing, Ending, NoStranded, [Next]_vars
    PROVE  NoStranded'
<1> USE PoolAssumption
<1>1. ASSUME NEW u \in Threads, start(u) PROVE NoStranded'
  BY <1>1 DEF TypeOK, Locks, Ending, NoStranded, Coming, queue, counts, hist, start
<1>2. ASSUME NEW u \in Threads, loop(u) PROVE NoStranded'
  BY <1>2 DEF TypeOK, Locks, Ending, NoStranded, Coming, queue, counts, hist, loop
<1>3. ASSUME NEW u \in Threads, bsem_wait(u) PROVE NoStranded'
  BY <1>3 DEF TypeOK, Locks, Ending, NoStranded, Coming, queue, counts, hist, bsem_wait
<1>4. ASSUME NEW u \in Threads, check(u) PROVE NoStranded'
  BY <1>4 DEF TypeOK, Locks, Ending, NoStranded, Coming, queue, counts, hist, check
<1>5. ASSUME NEW u \in Threads, count(u) PROVE NoStranded'
  BY <1>5 DEF TypeOK, Locks, Ending, NoStranded, Coming, queue, counts, hist, count
<1>6. ASSUME NEW u \in Threads, jobqueue_pull(u) PROVE NoStranded'
  BY <1>6, TakeFront DEF TypeOK, Locks, Ending, NoStranded, Coming, queue, counts, hist,
     jobqueue_pull
<1>7. ASSUME NEW u \in Threads, pull_post(u) PROVE NoStranded'
  BY <1>7, PullPost DEF TypeOK, Locks, Ending, NoStranded, Coming, queue, counts, hist
<1>8. ASSUME NEW u \in Threads, run(u) PROVE NoStranded'
  BY <1>8 DEF TypeOK, Locks, Ending, NoStranded, Coming, queue, counts, hist, run
<1>9. ASSUME NEW u \in Threads, uncount(u) PROVE NoStranded'
  BY <1>9, Uncount DEF TypeOK, Locks, Ending, NoStranded, Coming, queue, counts, hist
<1>10. ASSUME NEW u \in Threads, leave(u) PROVE NoStranded'
  BY <1>10 DEF TypeOK, Locks, Ending, NoStranded, Coming, queue, counts, hist, leave
<1>11. ASSUME NEW u \in Threads, unlock(u) PROVE NoStranded'
  BY <1>11 DEF TypeOK, Locks, Ending, NoStranded, Coming, queue, counts, hist, unlock
<1>12. ASSUME NEW u \in Threads, spurious_wakeup(u) PROVE NoStranded'
  BY <1>12 DEF TypeOK, Locks, Ending, NoStranded, Coming, queue, counts, hist, spurious_wakeup
<1>13. ASSUME NEW d \in Callers, thpool_add_work(d) PROVE NoStranded'
  BY <1>13 DEF TypeOK, Locks, Ending, NoStranded, Coming, queue, counts, hist, thpool_add_work
<1>14. ASSUME NEW d \in Callers, push_post(d) PROVE NoStranded'
  BY <1>14, PushPost DEF TypeOK, Locks, Ending, NoStranded, Coming, queue, counts, hist
<1>15. ASSUME NEW d \in Callers, thpool_wait(d) PROVE NoStranded'
  BY <1>15 DEF TypeOK, Locks, Ending, NoStranded, Coming, queue, counts, hist, thpool_wait
<1>16. ASSUME NEW d \in Callers, wait_len(d) PROVE NoStranded'
  BY <1>16 DEF TypeOK, Locks, Ending, NoStranded, Coming, queue, counts, hist, wait_len
<1>17. ASSUME NEW d \in Callers, wait_working(d) PROVE NoStranded'
  BY <1>17 DEF TypeOK, Locks, Ending, NoStranded, Coming, queue, counts, hist, wait_working
<1>18. ASSUME NEW d \in Callers, wait_relock(d) PROVE NoStranded'
  BY <1>18 DEF TypeOK, Locks, Ending, NoStranded, Coming, queue, counts, hist, wait_relock
<1>19. ASSUME NEW d \in Callers, thpool_destroy(d) PROVE NoStranded'
  BY <1>19 DEF TypeOK, Locks, Ending, NoStranded, Coming, queue, counts, hist, thpool_destroy
<1>20. ASSUME NEW d \in Callers, kill(d) PROVE NoStranded'
  BY <1>20 DEF TypeOK, Locks, Ending, NoStranded, Coming, queue, counts, hist, kill, bsem_post_all
<1>21. ASSUME NEW d \in Callers, jobqueue_destroy(d) PROVE NoStranded'
  BY <1>21 DEF TypeOK, Locks, Ending, NoStranded, Coming, queue, counts, hist, jobqueue_destroy
<1>22. CASE UNCHANGED vars
  BY <1>22 DEF TypeOK, Locks, Ending, NoStranded, Coming, queue, counts, hist, vars, queue,
     counts, hist
<1>23. QED
  BY <1>1, <1>2, <1>3, <1>4, <1>5, <1>6, <1>7, <1>8, <1>9, <1>10, <1>11, <1>12, <1>13, <1>14,
     <1>15, <1>16, <1>17, <1>18, <1>19, <1>20, <1>21, <1>22 DEF Next, thread_do, Call

\* The jobs.
LEMMA AccountingStep ==
    ASSUME TypeOK, Standing, Ending, Accounting, [Next]_vars
    PROVE  Accounting'
<1> USE PoolAssumption
<1>1. ASSUME NEW u \in Threads, start(u) PROVE Accounting'
  BY <1>1 DEF TypeOK, Standing, Ending, Accounting, Job, NoJob, queue, counts, hist, start
<1>2. ASSUME NEW u \in Threads, loop(u) PROVE Accounting'
  BY <1>2 DEF TypeOK, Standing, Ending, Accounting, Job, NoJob, queue, counts, hist, loop
<1>3. ASSUME NEW u \in Threads, bsem_wait(u) PROVE Accounting'
  BY <1>3 DEF TypeOK, Standing, Ending, Accounting, Job, NoJob, queue, counts, hist, bsem_wait
<1>4. ASSUME NEW u \in Threads, check(u) PROVE Accounting'
  BY <1>4 DEF TypeOK, Standing, Ending, Accounting, Job, NoJob, queue, counts, hist, check
<1>5. ASSUME NEW u \in Threads, count(u) PROVE Accounting'
  BY <1>5 DEF TypeOK, Standing, Ending, Accounting, Job, NoJob, queue, counts, hist, count
<1>6. ASSUME NEW u \in Threads, jobqueue_pull(u) PROVE Accounting'
  <2> USE DEF jobqueue_pull
  <2>1. UNCHANGED <<counts, at, hist>> /\ job[u] = NoJob
    BY <1>6 DEF Standing
  <2>2. CASE jobs = <<>>
    BY <1>6, <2>1, <2>2 DEF Accounting, TypeOK, counts, hist
  <2>3. CASE jobs # <<>>
    <3>1. jobs' = Tail(jobs) /\ job' = [job EXCEPT ![u] = Head(jobs)] /\ jobs \in Seq(Job)
      BY <1>6, <2>3 DEF TypeOK
    <3>2. \A i \in 1 .. Len(jobs) : jobs[i] = job'[u] \/ \E k \in 1 .. Len(jobs') : jobs'[k] = jobs[i]
      BY <2>3, <3>1, TakeFront DEF TypeOK
    <3>3. \A j \in Job : (\E t \in Threads : job[t] = j) => \E t \in Threads : job'[t] = j
      BY <2>1, <3>1 DEF TypeOK, Job, NoJob
    <3>4. 1..added \subseteq Job
      BY DEF TypeOK, Job
    <3>5. QED
      BY <2>1, <3>2, <3>3, <3>4 DEF Accounting, counts, hist
  <2>4. QED
    BY <2>2, <2>3
<1>7. ASSUME NEW u \in Threads, pull_post(u) PROVE Accounting'
  <2>1. at' = at /\ jobs' = jobs /\ job' = job /\ freed' = freed /\ UNCHANGED <<added, finished, owed>>
    BY <1>7, PullPost DEF counts, hist
  <2>2. QED
    BY <2>1 DEF Accounting
<1>8. ASSUME NEW u \in Threads, run(u) PROVE Accounting'
  BY <1>8 DEF TypeOK, Standing, Ending, Accounting, Job, NoJob, queue, counts, hist, run
<1>9. ASSUME NEW u \in Threads, uncount(u) PROVE Accounting'
  BY <1>9, Uncount DEF TypeOK, Standing, Ending, Accounting, Job, NoJob, queue, counts, hist
<1>10. ASSUME NEW u \in Threads, leave(u) PROVE Accounting'
  BY <1>10 DEF TypeOK, Standing, Ending, Accounting, Job, NoJob, queue, counts, hist, leave
<1>11. ASSUME NEW u \in Threads, unlock(u) PROVE Accounting'
  BY <1>11 DEF TypeOK, Standing, Ending, Accounting, Job, NoJob, queue, counts, hist, unlock
<1>12. ASSUME NEW u \in Threads, spurious_wakeup(u) PROVE Accounting'
  BY <1>12 DEF TypeOK, Standing, Ending, Accounting, Job, NoJob, queue, counts, hist,
     spurious_wakeup
<1>13. ASSUME NEW d \in Callers, thpool_add_work(d) PROVE Accounting'
  BY <1>13 DEF TypeOK, Standing, Ending, Accounting, Job, NoJob, queue, counts, hist,
     thpool_add_work
<1>14. ASSUME NEW d \in Callers, push_post(d) PROVE Accounting'
  <2>1. at' = [at EXCEPT ![d] = "out"] /\ jobs' = jobs /\ job' = job /\ freed' = freed
        /\ UNCHANGED <<added, finished, owed>>
    BY <1>14, PushPost DEF counts, hist
  <2>2. QED
    BY <2>1 DEF Accounting, TypeOK
<1>15. ASSUME NEW d \in Callers, thpool_wait(d) PROVE Accounting'
  BY <1>15 DEF TypeOK, Standing, Ending, Accounting, Job, NoJob, queue, counts, hist, thpool_wait
<1>16. ASSUME NEW d \in Callers, wait_len(d) PROVE Accounting'
  BY <1>16 DEF TypeOK, Standing, Ending, Accounting, Job, NoJob, queue, counts, hist, wait_len
<1>17. ASSUME NEW d \in Callers, wait_working(d) PROVE Accounting'
  BY <1>17 DEF TypeOK, Standing, Ending, Accounting, Job, NoJob, queue, counts, hist, wait_working
<1>18. ASSUME NEW d \in Callers, wait_relock(d) PROVE Accounting'
  BY <1>18 DEF TypeOK, Standing, Ending, Accounting, Job, NoJob, queue, counts, hist, wait_relock
<1>19. ASSUME NEW d \in Callers, thpool_destroy(d) PROVE Accounting'
  BY <1>19 DEF TypeOK, Standing, Ending, Accounting, Job, NoJob, queue, counts, hist, thpool_destroy
<1>20. ASSUME NEW d \in Callers, kill(d) PROVE Accounting'
  BY <1>20 DEF TypeOK, Standing, Ending, Accounting, Job, NoJob, queue, counts, hist, kill,
     bsem_post_all
<1>21. ASSUME NEW d \in Callers, jobqueue_destroy(d) PROVE Accounting'
  BY <1>21 DEF TypeOK, Standing, Ending, Accounting, Job, NoJob, queue, counts, hist,
     jobqueue_destroy
<1>22. CASE UNCHANGED vars
  BY <1>22 DEF TypeOK, Standing, Ending, Accounting, Job, NoJob, queue, counts, hist, vars,
     queue, counts, hist
<1>23. QED
  BY <1>1, <1>2, <1>3, <1>4, <1>5, <1>6, <1>7, <1>8, <1>9, <1>10, <1>11, <1>12, <1>13, <1>14,
     <1>15, <1>16, <1>17, <1>18, <1>19, <1>20, <1>21, <1>22 DEF Next, thread_do, Call

-----------------------------------------------------------------------------
(* Theorems *)

\* thpool_init establishes the invariant.
LEMMA InitInv == Init => Inv
<1> SUFFICES ASSUME Init PROVE Inv
  OBVIOUS
<1> USE PoolAssumption DEF Init
<1>1. TypeOK
  <2>1. jobs \in Seq(Job) /\ added \in 0..MaxJobs
    OBVIOUS
  <2>2. pc \in [Threads -> PoolPc] /\ at \in [Callers -> CallPc]
    BY DEF PoolPc, CallPc
  <2>3. job \in [Threads -> Job \cup {NoJob}] /\ owed \in [Callers -> SUBSET Job]
    OBVIOUS
  <2>4. QED
    BY <2>1, <2>2, <2>3 DEF TypeOK
<1>2. Locks /\ Standing /\ Ending
  BY DEF Locks, Standing, Ending
<1>3. DestroyedIsQuiet /\ NoStranded /\ Accounting
  BY DEF DestroyedIsQuiet, NoStranded, Accounting
<1>4. QED
  BY <1>1, <1>2, <1>3 DEF Inv

\* Every step keeps it.
LEMMA StepInv == Inv /\ [Next]_vars => Inv'
  BY TypeStep, LocksStep, StandingStep, EndingStep, QuietStep, StrandedStep, AccountingStep DEF Inv

\* The invariant of every run of the pool.
THEOREM Invariance == Spec => []Inv
<1>1. QED
  BY InitInv, StepInv, PTL DEF Spec

\* Queue, counters, semaphore and threads keep their types.
THEOREM TypeCorrect == Spec => []TypeOK
<1>1. Inv => TypeOK
  BY DEF Inv
<1>2. QED
  BY <1>1, Invariance, PTL

\* No job is left in the queue while the threads sleep and nothing wakes them,
\* with any number of threads and of callers that add jobs.
THEOREM NobodyStranded == Spec => []NoStranded
<1>1. Inv => NoStranded
  BY DEF Inv
<1>2. QED
  BY <1>1, Invariance, PTL

\* A pool that has been freed is not used by its threads.
THEOREM QuietDestroyed == Spec => []DestroyedIsQuiet
<1>1. Inv => DestroyedIsQuiet
  BY DEF Inv
<1>2. QED
  BY <1>1, Invariance, PTL

\* A caller returns from its wait with nothing running, and nothing it owes queued.
LEMMA WaitStep ==
    ASSUME Inv, [Next]_vars, NEW c \in Callers, at[c] = "working", at'[c] = "out"
    PROVE  owed[c] \subseteq finished
<1> USE PoolAssumption DEF Inv
<1>1. ASSUME wait_working(c) PROVE owed[c] \subseteq finished
  <2>1. working = {}
    BY <1>1 DEF wait_working, TypeOK
  <2>2. \A t \in Threads : job[t] = NoJob
    BY <2>1 DEF Standing
  <2>3. \A j \in owed[c] : j # NoJob
    BY DEF TypeOK, Job, NoJob
  <2>4. QED
    BY <2>2, <2>3 DEF Accounting
<1>2. ASSUME NEW t \in Threads, thread_do(t) \/ spurious_wakeup(t) PROVE at'[c] = at[c]
  <2>1. CASE uncount(t)
    BY <2>1, Uncount DEF TypeOK
  <2>2. CASE ~uncount(t)
    BY <1>2, <2>2 DEF thread_do, start, loop, bsem_wait, check, count, jobqueue_pull, pull_post,
       run,
       leave, unlock, spurious_wakeup
  <2>3. QED
    BY <2>1, <2>2
<1>3. ASSUME NEW d \in Callers, Call(d), ~wait_working(d) PROVE at'[c] # "out"
  <2>1. CASE push_post(d)
    BY <2>1, PushPost DEF TypeOK
  <2>2. CASE ~push_post(d)
    BY <1>3, <2>2 DEF Call, wait_len, wait_relock, kill, jobqueue_destroy, TypeOK
  <2>3. QED
    BY <2>1, <2>2
<1>4. ASSUME NEW d \in Callers, thpool_add_work(d) \/ thpool_wait(d) \/ thpool_destroy(d)
      PROVE  at'[c] # "out"
  BY <1>4 DEF thpool_add_work, thpool_wait, thpool_destroy, TypeOK
<1>5. ASSUME NEW d \in Callers, wait_working(d), d # c PROVE at'[c] # "out"
  BY <1>5 DEF wait_working, TypeOK
<1>6. CASE UNCHANGED vars
  BY <1>6 DEF vars
<1>7. QED
  BY <1>1, <1>2, <1>3, <1>4, <1>5, <1>6 DEF Next

\* When thpool_wait returns, every job added before its call is finished.
THEOREM WaitWaits == Spec => WaitsForAll
<1>1. Inv /\ [Next]_vars =>
        [\A c \in Callers : at[c] = "working" /\ at'[c] = "out" => owed[c] \subseteq finished]_vars
  BY WaitStep
<1>2. QED
  BY <1>1, Invariance, PTL DEF Spec, WaitsForAll

-----------------------------------------------------------------------------
(* Refinement *)

\* Adding, starting and ending a job, and the two ends of thpool_destroy, are the
\* abstract steps; every other step is invisible.
LEMMA StepSimulation ==
    ASSUME Inv, [Next]_vars
    PROVE  [Abstract!Next]_(Abstract!vars)
<1> USE PoolAssumption DEF Inv
<1>1. ASSUME NEW c \in Callers, thpool_add_work(c) PROVE Abstract!Push(added + 1) /\ added + 1 \in Job
  BY <1>1 DEF Abstract!Push, thpool_add_work, Usable, Ending, counts, TypeOK, Job
<1>2. ASSUME NEW t \in Threads, jobqueue_pull(t) PROVE Abstract!Take(t) \/ UNCHANGED Abstract!vars
  <2>1. job[t] = NoJob /\ ~freed
    BY <1>2 DEF jobqueue_pull, Standing, DestroyedIsQuiet
  <2>2. CASE jobs = <<>>
    <3>1. job' = job
      BY <1>2, <2>1, <2>2 DEF jobqueue_pull, TypeOK
    <3>2. QED
      BY <1>2, <2>2, <3>1 DEF Abstract!vars, jobqueue_pull, counts
  <2>3. CASE jobs # <<>>
    BY <1>2, <2>1, <2>3 DEF Abstract!Take, jobqueue_pull, counts
  <2>4. QED
    BY <2>2, <2>3
<1>3. ASSUME NEW t \in Threads, run(t) PROVE Abstract!Finish(t)
  BY <1>3 DEF Abstract!Finish, run, queue, counts, Standing
<1>4. ASSUME NEW c \in Callers, thpool_destroy(c) PROVE Abstract!Close
  BY <1>4 DEF Abstract!Close, thpool_destroy, Usable, Ending, queue
<1>5. ASSUME NEW c \in Callers, jobqueue_destroy(c) PROVE Abstract!Discard
  <2>1. ~keepalive /\ ~freed
    BY <1>5 DEF jobqueue_destroy, Ending
  <2>2. \A t \in Threads : job[t] = NoJob
    BY <1>5, <2>1 DEF jobqueue_destroy, Standing, Ending
  <2>3. QED
    BY <1>5, <2>1, <2>2 DEF Abstract!Discard, jobqueue_destroy
<1>6. ASSUME NEW t \in Threads,
             \/ start(t) \/ loop(t) \/ bsem_wait(t) \/ check(t) \/ count(t) \/ pull_post(t)
             \/ uncount(t) \/ leave(t) \/ unlock(t) \/ spurious_wakeup(t)
      PROVE  UNCHANGED Abstract!vars
  BY <1>6 DEF Abstract!vars, start, loop, bsem_wait, check, count, pull_post, uncount, leave,
     unlock,
     spurious_wakeup, queue, counts
<1>7. ASSUME NEW c \in Callers,
             \/ push_post(c) \/ thpool_wait(c) \/ wait_len(c) \/ wait_working(c) \/ wait_relock(c)
             \/ kill(c)
      PROVE  UNCHANGED Abstract!vars
  BY <1>7 DEF Abstract!vars, push_post, thpool_wait, wait_len, wait_working, wait_relock, kill,
     queue, counts
<1>8. CASE UNCHANGED vars
  BY <1>8 DEF Abstract!vars, vars, queue, counts
<1>9. QED
  BY <1>1, <1>2, <1>3, <1>4, <1>5, <1>6, <1>7, <1>8 DEF Next, thread_do, Call, Abstract!Next

\* What TcpServer takes the pool for, the pool is: whatever the number of its
\* threads and callers, it implements the abstract job queue.
THEOREM PoolIsJobQueue == Spec => Abstract!Spec
<1>1. Init => Abstract!Init
  BY DEF Init, Abstract!Init
<1>2. Inv /\ [Next]_vars => [Abstract!Next]_(Abstract!vars)
  BY StepSimulation
<1>3. QED
  BY <1>1, <1>2, Invariance, PTL DEF Spec, Abstract!Spec

=============================================================================

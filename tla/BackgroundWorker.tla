--------------------------- MODULE BackgroundWorker ---------------------------
(***************************************************************************)
(* core/background.py: one thread that handles best-effort tasks from a    *)
(* bounded queue (the knowledge look-ups of api/assist/pipeline.py; main   *)
(* starts and stops it with the server).  submit starts the thread if need *)
(* be, under the lock, and queues its task without the lock; stop holds    *)
(* the lock while it queues a sentinel and joins the thread for a while.   *)
(***************************************************************************)
EXTENDS Integers, Sequences, FiniteSets

CONSTANTS
    Jobs,        \* submissions, each from a thread of its own
    Stops,       \* calls of stop
    Threads,     \* bound: worker threads ever started, 1, 2, ...
    QueueSize,   \* maxsize
    Sentinel     \* None, which ends the thread that takes it

ASSUME WorkerAssumption ==
    /\ IsFiniteSet(Jobs) /\ Sentinel \notin Jobs
    /\ QueueSize \in Nat \ {0}
    /\ Threads \subseteq Nat \ {0} /\ IsFiniteSet(Threads)

VARIABLES
    holder,     \* the stop that holds _lock, or 0
    thread,     \* _thread: 0 is None
    life,       \* of each thread: unborn, alive, dead
    hands,      \* what each thread has taken and not finished
    jobs,       \* the queue
    job,        \* what each submission has come to
    stop,       \* where each stop is
    gaveUp      \* history: a join gave up on a live thread

workerVars == <<holder, thread, life, hands, jobs, job, stop, gaveUp>>

WorkerInit ==
    /\ holder = 0 /\ thread = 0 /\ jobs = <<>> /\ gaveUp = FALSE
    /\ life = [w \in Threads |-> "unborn"]
    /\ hands = [w \in Threads |-> {}]
    /\ job = [j \in Jobs |-> "new"]
    /\ stop = [k \in Stops |-> "new"]

IsAlive(w) == w \in Threads /\ life[w] = "alive"
NextThread(w) == life[w] = "unborn" /\ \A v \in Threads : v < w => life[v] # "unborn"
Full == Len(jobs) >= QueueSize
-----------------------------------------------------------------------------
\* Mutant: start does not look at the thread it has.
StartAgain(j) ==
    /\ job[j] = "new" /\ holder = 0
    /\ job' = [job EXCEPT ![j] = "put"]
    /\ \E w \in Threads :
          /\ NextThread(w)
          /\ thread' = w /\ life' = [life EXCEPT ![w] = "alive"]
    /\ UNCHANGED <<holder, hands, jobs, stop, gaveUp>>

\* submit calls start: a new thread unless the one it knows is alive.
StartFor(j) ==
    /\ job[j] = "new" /\ holder = 0
    /\ job' = [job EXCEPT ![j] = "put"]
    /\ \/ IsAlive(thread) /\ UNCHANGED <<thread, life>>
       \/ /\ ~IsAlive(thread)
          /\ \E w \in Threads :
                /\ NextThread(w)
                /\ thread' = w /\ life' = [life EXCEPT ![w] = "alive"]
    /\ UNCHANGED <<holder, hands, jobs, stop, gaveUp>>

\* put_nowait; on a full queue the task is dropped.
Put(j) ==
    /\ job[j] = "put"
    /\ IF Full
       THEN job' = [job EXCEPT ![j] = "dropped"] /\ UNCHANGED jobs
       ELSE job' = [job EXCEPT ![j] = "queued"] /\ jobs' = Append(jobs, j)
    /\ UNCHANGED <<holder, thread, life, hands, stop, gaveUp>>
-----------------------------------------------------------------------------
StopBegin(k) ==
    /\ stop[k] = "new" /\ holder = 0
    /\ IF thread = 0
       THEN stop' = [stop EXCEPT ![k] = "returned"] /\ UNCHANGED holder
       ELSE stop' = [stop EXCEPT ![k] = "sentinel"] /\ holder' = k
    /\ UNCHANGED <<thread, life, hands, jobs, job, gaveUp>>

\* On a full queue room is made first, and may be taken by a submit.
StopSentinel(k) ==
    /\ stop[k] = "sentinel"
    /\ IF Full
       THEN stop' = [stop EXCEPT ![k] = "room"] /\ UNCHANGED jobs
       ELSE stop' = [stop EXCEPT ![k] = "join"] /\ jobs' = Append(jobs, Sentinel)
    /\ UNCHANGED <<holder, thread, life, hands, job, gaveUp>>

StopRoom(k) ==
    /\ stop[k] = "room"
    /\ stop' = [stop EXCEPT ![k] = "again"]
    /\ IF jobs = <<>> THEN UNCHANGED <<jobs, job>>
       ELSE /\ jobs' = Tail(jobs)
            /\ job' = [j \in Jobs |-> IF j = Head(jobs) THEN "discarded" ELSE job[j]]
    /\ UNCHANGED <<holder, thread, life, hands, gaveUp>>

StopAgain(k) ==
    /\ stop[k] = "again"
    /\ stop' = [stop EXCEPT ![k] = "join"]
    /\ jobs' = IF Full THEN jobs ELSE Append(jobs, Sentinel)
    /\ UNCHANGED <<holder, thread, life, hands, job, gaveUp>>

\* Mutant: the join has no time-out.
JoinForever(k) ==
    /\ stop[k] = "join" /\ ~IsAlive(thread)
    /\ stop' = [stop EXCEPT ![k] = "returned"]
    /\ thread' = 0 /\ holder' = 0
    /\ UNCHANGED <<life, hands, jobs, job, gaveUp>>

\* The join ends with the thread, or after its time-out.
StopJoin(k) ==
    /\ stop[k] = "join"
    /\ stop' = [stop EXCEPT ![k] = "returned"]
    /\ gaveUp' = (gaveUp \/ IsAlive(thread))
    /\ thread' = 0 /\ holder' = 0
    /\ UNCHANGED <<life, hands, jobs, job>>
-----------------------------------------------------------------------------
TakeJob(w) ==
    /\ IsAlive(w) /\ hands[w] = {} /\ jobs # <<>>
    /\ hands' = [hands EXCEPT ![w] = {Head(jobs)}]
    /\ jobs' = Tail(jobs)
    /\ job' = [j \in Jobs |-> IF j = Head(jobs) THEN "taken" ELSE job[j]]
    /\ UNCHANGED <<holder, thread, life, stop, gaveUp>>

\* The sentinel ends the thread; a handler that raises is logged.
Handled(w) ==
    /\ IsAlive(w) /\ hands[w] # {}
    /\ hands' = [hands EXCEPT ![w] = {}]
    /\ life' = IF Sentinel \in hands[w] THEN [life EXCEPT ![w] = "dead"] ELSE life
    /\ job' = [j \in Jobs |-> IF j \in hands[w] THEN "handled" ELSE job[j]]
    /\ UNCHANGED <<holder, thread, jobs, stop, gaveUp>>
-----------------------------------------------------------------------------
Stopping(k) == StopBegin(k) \/ StopSentinel(k) \/ StopRoom(k) \/ StopAgain(k) \/ StopJoin(k)

WorkerNext ==
    \/ \E j \in Jobs : StartFor(j) \/ Put(j)
    \/ \E k \in Stops : Stopping(k)
    \/ \E w \in Threads : TakeJob(w) \/ Handled(w)

\* A submit or a stop that has begun goes on, a thread takes what is queued; a
\* handler may never return.
WorkerFairness ==
    /\ \A j \in Jobs : WF_workerVars(Put(j))
    /\ \A k \in Stops : WF_workerVars(stop[k] # "new" /\ Stopping(k))
    /\ \A w \in Threads : WF_workerVars(TakeJob(w))

WorkerSpec == WorkerInit /\ [][WorkerNext]_workerVars /\ WorkerFairness
-----------------------------------------------------------------------------
\* The variables keep their types.
WorkerTypeOK ==
    /\ holder \in Stops \union {0} /\ thread \in Threads \union {0}
    /\ life \in [Threads -> {"unborn", "alive", "dead"}]
    /\ hands \in [Threads -> SUBSET (Jobs \union {Sentinel})]
    /\ jobs \in Seq(Jobs \union {Sentinel}) /\ Len(jobs) <= QueueSize
    /\ job \in [Jobs -> {"new", "put", "queued", "dropped", "discarded", "taken", "handled"}]
    /\ stop \in [Stops -> {"new", "sentinel", "room", "again", "join", "returned"}]
    /\ gaveUp \in BOOLEAN

\* "Single-worker": unless a stop gave up on a busy handler, at most one thread is
\* alive, the one that _thread names, so that tasks are handled one at a time.
SingleWorker == ~gaveUp => \A w \in Threads : IsAlive(w) => thread = w

\* A task is in one place: it is queued once, or in one thread's hands, or settled.
Places(j) ==
    {<<"queue", i>> : i \in {n \in 1..Len(jobs) : jobs[n] = j}}
        \union {<<"hands", w>> : w \in {v \in Threads : j \in hands[v]}}

OnePlace ==
    \A j \in Jobs : Cardinality(Places(j)) = IF job[j] \in {"queued", "taken"} THEN 1 ELSE 0

\* A queued task waits for a live thread, unless a stop came after its submit
\* started one: nothing is left behind by submissions alone.
NoneLeftBehind ==
    (\A k \in Stops : stop[k] = "new") /\ jobs # <<>> => IsAlive(thread)

\* Every task has a place and every queued task a thread, of which there is one.
WorkerInv == WorkerTypeOK /\ SingleWorker /\ OnePlace /\ NoneLeftBehind

\* stop returns, even on a full queue that submissions refill and a handler that
\* never ends.
StopReturns == []<>(holder = 0)
=============================================================================

----------------------------- MODULE ResourceLane -----------------------------
(***************************************************************************)
(* core/resource_lanes.py: a bounded executor for work that must not       *)
(* starve the interview.  A slot is taken under the lane's lock by submit, *)
(* and given back by a done-callback that submit adds after it released    *)
(* the lock, when the task may already be over.  An asyncio caller of      *)
(* run_low_priority that is cancelled cancels its queued task, which keeps *)
(* its place in the executor's queue.                                      *)
(***************************************************************************)
EXTENDS Integers, Sequences, FiniteSets

CONSTANTS
    Tasks,         \* submissions
    LaneWorkers,   \* threads of the executor (max_workers of them)
    MaxPending,    \* max_pending
    NoTask         \* what an idle thread runs

ASSUME LaneAssumption ==
    /\ IsFiniteSet(Tasks) /\ IsFiniteSet(LaneWorkers) /\ LaneWorkers # {} /\ MaxPending \in Nat
    /\ NoTask \notin Tasks

Slots == Cardinality(LaneWorkers) + MaxPending

VARIABLES
    free,       \* permits left in _slots
    task,       \* what each submission has come to
    called,     \* tasks whose done-callback has been added
    fifo,       \* the executor's queue
    running,    \* the task each thread runs, or none
    down,       \* _shutdown
    joined      \* shutdown has returned

laneVars == <<free, task, called, fifo, running, down, joined>>

LaneInit ==
    /\ free = Slots
    /\ task = [t \in Tasks |-> "new"]
    /\ called = {} /\ fifo = <<>>
    /\ running = [w \in LaneWorkers |-> NoTask]
    /\ down = FALSE /\ joined = FALSE

Over(t) == task[t] \in {"done", "cancelled"}
-----------------------------------------------------------------------------
\* The slot is checked under the lock; without one, or after shutdown, the lane is busy.
Submit(t) ==
    /\ task[t] = "new"
    /\ \/ /\ ~down /\ free > 0
          /\ free' = free - 1
          /\ task' = [task EXCEPT ![t] = "queued"]
          /\ fifo' = Append(fifo, t)
       \/ /\ down \/ free = 0
          /\ task' = [task EXCEPT ![t] = "rejected"]
          /\ UNCHANGED <<free, fifo>>
    /\ UNCHANGED <<called, running, down, joined>>

\* Mutant: a slot is lost when the executor refuses.
RefusedKeeps(t) ==
    /\ task[t] = "new" /\ ~down /\ free > 0
    /\ task' = [task EXCEPT ![t] = "rejected"]
    /\ free' = free - 1
    /\ UNCHANGED <<called, fifo, running, down, joined>>

\* The executor refuses (the interpreter is ending): the slot is released at once.
Refused(t) ==
    /\ task[t] = "new" /\ ~down /\ free > 0
    /\ task' = [task EXCEPT ![t] = "rejected"]
    /\ UNCHANGED <<free, called, fifo, running, down, joined>>

\* add_done_callback runs the callback itself when the task is over.
AddCallback(t) ==
    /\ task[t] \in {"queued", "running", "done", "cancelled"} /\ t \notin called
    /\ called' = called \union {t}
    /\ free' = IF Over(t) THEN free + 1 ELSE free
    /\ UNCHANGED <<task, fifo, running, down, joined>>

\* t ends as `how', and the callbacks added to it run.
Resolve(t, how) ==
    /\ task' = [task EXCEPT ![t] = how]
    /\ free' = IF t \in called THEN free + 1 ELSE free

\* Only a task that no thread has taken can be cancelled.
Cancel(t) ==
    /\ task[t] = "queued"
    /\ Resolve(t, "cancelled")
    /\ UNCHANGED <<called, fifo, running, down, joined>>
-----------------------------------------------------------------------------
\* A thread takes the oldest task; a cancelled one is thrown away.
TakeTask(w) ==
    /\ running[w] = NoTask /\ fifo # <<>>
    /\ fifo' = Tail(fifo)
    /\ IF task[Head(fifo)] = "queued"
       THEN /\ running' = [running EXCEPT ![w] = Head(fifo)]
            /\ task' = [task EXCEPT ![Head(fifo)] = "running"]
       ELSE UNCHANGED <<running, task>>
    /\ UNCHANGED <<free, called, down, joined>>

\* The task returns or raises.
EndTask(w) ==
    /\ running[w] # NoTask
    /\ Resolve(running[w], "done")
    /\ running' = [running EXCEPT ![w] = NoTask]
    /\ UNCHANGED <<called, fifo, down, joined>>

ShutDown ==
    /\ ~down
    /\ down' = TRUE
    /\ UNCHANGED <<free, task, called, fifo, running, joined>>

\* executor.shutdown(wait=True) returns when its threads have ended.
Joined ==
    /\ down /\ ~joined
    /\ fifo = <<>> /\ \A w \in LaneWorkers : running[w] = NoTask
    /\ joined' = TRUE
    /\ UNCHANGED <<free, task, called, fifo, running, down>>
-----------------------------------------------------------------------------
LaneNext ==
    \/ \E t \in Tasks : Submit(t) \/ Refused(t) \/ AddCallback(t) \/ Cancel(t)
    \/ \E w \in LaneWorkers : TakeTask(w) \/ EndTask(w)
    \/ ShutDown \/ Joined

\* Nobody has to submit, cancel or shut down, and a task may never end.
LaneSpec == LaneInit /\ [][LaneNext]_laneVars
-----------------------------------------------------------------------------
Accepted == {t \in Tasks : task[t] \in {"queued", "running", "done", "cancelled"}}

\* The tasks that hold a slot: accepted, and not both over and called back.
Holders == {t \in Accepted : ~(Over(t) /\ t \in called)}

\* The variables keep their types.
LaneTypeOK ==
    /\ free \in 0..Slots
    /\ task \in [Tasks -> {"new", "queued", "running", "done", "cancelled", "rejected"}]
    /\ called \subseteq Tasks
    /\ fifo \in Seq(Tasks)
    /\ running \in [LaneWorkers -> Tasks \union {NoTask}]
    /\ down \in BOOLEAN /\ joined \in BOOLEAN

\* No slot is lost and none is given back twice, in whatever order a task is
\* accepted, taken, cancelled and ended and its callback is added.
SlotsConserved == free + Cardinality(Holders) = Slots

Pending == {t \in Tasks : task[t] \in {"queued", "running"}}

\* The lane is bounded: the work waiting or running never exceeds its slots,
\* although the executor's own queue is unbounded.
LaneBounded == Cardinality(Pending) <= Slots

\* When shutdown has returned, every accepted task is over and none comes after.
ShutdownDrains == joined => Pending = {}

\* The lane's accounts are right in every state.
LaneInv == LaneTypeOK /\ SlotsConserved /\ LaneBounded /\ ShutdownDrains
=============================================================================

--------------------------- MODULE Services_proofs ---------------------------
(***************************************************************************)
(* Proofs about four services that share nothing: the slots of             *)
(* ResourceLane are conserved, its work is bounded and its shutdown drains;*)
(* one thread of BackgroundWorker handles the tasks, each task is in one   *)
(* place and none is left without a thread; while events, resets and       *)
(* restores come one at a time InterviewState is the fold of the events of *)
(* its interview and can be recovered, unless older rows are ahead; the    *)
(* rows of ConversationRecords say what was confirmed or given, and what   *)
(* is derived from them follows while requests do not overlap.             *)
(* All for every number of tasks, threads, stops, events and items.        *)
(***************************************************************************)
EXTENDS ResourceLane, BackgroundWorker, InterviewState, ConversationRecords, FiniteSetTheorems, TLAPS

-----------------------------------------------------------------------------
\* ResourceLane

\* The types; that permits do not exceed the slots follows from the accounts.
LaneShape ==
    /\ free \in Nat
    /\ task \in [Tasks -> {"new", "queued", "running", "done", "cancelled", "rejected"}]
    /\ called \subseteq Tasks
    /\ fifo \in Seq(Tasks)
    /\ running \in [LaneWorkers -> Tasks \union {NoTask}]
    /\ down \in BOOLEAN /\ joined \in BOOLEAN

\* A queued task is in the executor's queue.
Queued == \A t \in Tasks : task[t] = "queued" => \E i \in 1 .. Len(fifo) : fifo[i] = t

\* A running task is run by exactly one thread, and a thread runs a running task.
Ran ==
    /\ \A t \in Tasks : task[t] = "running" => \E w \in LaneWorkers : running[w] = t
    /\ \A w \in LaneWorkers : running[w] # NoTask => task[running[w]] = "running"
    /\ \A v, w \in LaneWorkers : running[v] = running[w] /\ running[v] # NoTask => v = w

\* A lane that was joined is down, so that nothing is accepted any more.
Drained == ShutdownDrains /\ (joined => down)

LaneIInv == LaneShape /\ SlotsConserved /\ Queued /\ Ran /\ Drained
-----------------------------------------------------------------------------
\* The slots are a number.
LEMMA SlotsNat == Slots \in Nat
BY LaneAssumption, FS_CardinalityType DEF Slots

\* Holders can be counted, and pending tasks are among them.
LEMMA HoldersFinite ==
    /\ IsFiniteSet(Holders) /\ Cardinality(Holders) \in Nat
    /\ Cardinality(Pending) \in Nat
    /\ Cardinality(Pending) <= Cardinality(Holders)
<1>1. Holders \subseteq Tasks /\ Pending \subseteq Holders
  BY DEF Holders, Accepted, Pending, Over
<1>2. IsFiniteSet(Holders)
  BY <1>1, LaneAssumption, FS_Subset
<1>3. IsFiniteSet(Pending) /\ Cardinality(Pending) <= Cardinality(Holders)
  BY <1>1, <1>2, FS_Subset
<1>4. QED
  BY <1>2, <1>3, FS_CardinalityType

\* The invariant gives what the runs check: no more permits and no more work than
\* slots.
LEMMA LaneBounds == LaneIInv => LaneInv
BY SlotsNat, HoldersFinite
DEF LaneIInv, LaneShape, Drained, LaneInv, LaneTypeOK, SlotsConserved, LaneBounded

\* The initial state has all its slots and no holders.
LEMMA LaneInitInv == LaneInit => LaneIInv
<1> SUFFICES ASSUME LaneInit
             PROVE  LaneIInv
  OBVIOUS
<1>1. Holders = {} /\ Pending = {}
  BY DEF LaneInit, Holders, Accepted, Pending
<1>2. SlotsConserved
  BY <1>1, SlotsNat, FS_EmptySet DEF LaneInit, SlotsConserved
<1>3. LaneShape
  <2>1. <<>> \in Seq(Tasks) /\ called \subseteq Tasks
    BY DEF LaneInit
  <2>2. QED
    BY <2>1, SlotsNat DEF LaneInit, LaneShape
<1>4. Queued /\ Ran /\ Drained
  BY <1>1 DEF LaneInit, Queued, Ran, Drained, ShutdownDrains
<1>5. QED
  BY <1>2, <1>3, <1>4 DEF LaneIInv
-----------------------------------------------------------------------------
\* How the accounts change when one task becomes, or ceases to be, a holder.
LEMMA Balance ==
    ASSUME free \in Nat, SlotsConserved, NEW t \in Tasks,
           \/ Holders' = Holders /\ free' = free
           \/ t \notin Holders /\ Holders' = Holders \union {t} /\ free > 0 /\ free' = free - 1
           \/ t \in Holders /\ Holders' = Holders \ {t} /\ free' = free + 1
    PROVE  SlotsConserved' /\ free' \in Nat
<1>1. Slots' = Slots
  BY DEF Slots
<1>2. CASE Holders' = Holders /\ free' = free
  BY <1>1, <1>2 DEF SlotsConserved
<1>3. CASE t \notin Holders /\ Holders' = Holders \union {t} /\ free > 0 /\ free' = free - 1
  <2>1. Cardinality(Holders') = Cardinality(Holders) + 1
    BY <1>3, HoldersFinite, FS_AddElement
  <2>2. QED
    BY <1>1, <1>3, <2>1, HoldersFinite, SlotsNat DEF SlotsConserved
<1>4. CASE t \in Holders /\ Holders' = Holders \ {t} /\ free' = free + 1
  <2>1. Cardinality(Holders') = Cardinality(Holders) - 1
    BY <1>4, HoldersFinite, FS_RemoveElement
  <2>2. QED
    BY <1>1, <1>4, <2>1, HoldersFinite, SlotsNat DEF SlotsConserved
<1>5. QED
  BY <1>2, <1>3, <1>4

\* A task that was a holder ends: it keeps its slot until it is called back.
LEMMA Resolved ==
    ASSUME LaneShape, SlotsConserved, NEW t \in Tasks, NEW how \in {"done", "cancelled"},
           task[t] \in {"queued", "running"}, Resolve(t, how), called' = called
    PROVE  SlotsConserved' /\ free' \in Nat
<1>1. task' = [task EXCEPT ![t] = how] /\ t \in Holders /\ free \in Nat
  BY DEF LaneShape, Resolve, Holders, Accepted, Over
<1>2. CASE t \in called
  <2>1. Holders' = Holders \ {t} /\ free' = free + 1
    BY <1>1, <1>2 DEF LaneShape, Holders, Accepted, Over, Resolve
  <2>2. QED
    BY <1>1, <2>1, Balance
<1>3. CASE t \notin called
  <2>1. Holders' = Holders /\ free' = free
    BY <1>1, <1>3 DEF LaneShape, Holders, Accepted, Over, Resolve
  <2>2. QED
    BY <1>1, <2>1, Balance
<1>4. QED
  BY <1>2, <1>3

\* What Submit does to the slots, when it accepts and when it does not.
LEMMA SubmitStep == ASSUME LaneIInv, NEW t \in Tasks, Submit(t) PROVE LaneIInv'
<1>t. LaneShape /\ SlotsConserved /\ Queued /\ Ran /\ Drained
  BY DEF LaneIInv
<1> USE <1>t DEF LaneShape
<1>1. CASE ~down /\ free > 0
  <2>1. /\ task[t] = "new" /\ task' = [task EXCEPT ![t] = "queued"]
        /\ free' = free - 1 /\ fifo' = Append(fifo, t)
        /\ UNCHANGED <<called, running, down, joined>>
    BY <1>1 DEF Submit
  <2>2. t \notin Holders /\ Holders' = Holders \union {t}
    BY <2>1 DEF Holders, Accepted, Over
  <2>3. SlotsConserved' /\ free' \in Nat
    BY <1>1, <2>1, <2>2, Balance
  <2>4. Queued'
    <3>1. Len(fifo') = Len(fifo) + 1 /\ fifo'[Len(fifo) + 1] = t
          /\ \A i \in 1 .. Len(fifo) : fifo'[i] = fifo[i]
      BY <2>1
    <3>2. QED
      BY <2>1, <3>1 DEF Queued
  <2>5. Ran' /\ Drained'
    BY <1>1, <2>1 DEF Ran, Drained, ShutdownDrains
  <2>6. LaneShape'
    BY <2>1, <2>3
  <2>7. QED
    BY <2>3, <2>4, <2>5, <2>6 DEF LaneIInv
<1>2. CASE down \/ free = 0
  <2>1. /\ task[t] = "new" /\ task' = [task EXCEPT ![t] = "rejected"]
        /\ UNCHANGED <<free, fifo, called, running, down, joined>>
    BY <1>2 DEF Submit
  <2>2. Holders' = Holders /\ Pending' = Pending
    BY <2>1 DEF Holders, Accepted, Over, Pending
  <2>3. SlotsConserved' /\ free' \in Nat
    BY <2>1, <2>2, Balance
  <2>4. Queued' /\ Ran' /\ Drained'
    BY <2>1, <2>2 DEF Queued, Ran, Drained, ShutdownDrains
  <2>5. LaneShape'
    BY <2>1, <2>3
  <2>6. QED
    BY <2>3, <2>4, <2>5 DEF LaneIInv
<1>3. QED
  BY <1>1, <1>2 DEF Submit

\* Steps that leave the slots to the lemmas above.
LEMMA TaskStep ==
    ASSUME LaneIInv, NEW t \in Tasks, Refused(t) \/ AddCallback(t) \/ Cancel(t)
    PROVE  LaneIInv'
<1>t. LaneShape /\ SlotsConserved /\ Queued /\ Ran /\ Drained
  BY DEF LaneIInv
<1> USE <1>t DEF LaneShape
<1>1. CASE Refused(t)
  <2>1. /\ task[t] = "new" /\ task' = [task EXCEPT ![t] = "rejected"]
        /\ UNCHANGED <<free, fifo, called, running, down, joined>>
    BY <1>1 DEF Refused
  <2>2. Holders' = Holders /\ Pending' = Pending
    BY <2>1 DEF Holders, Accepted, Over, Pending
  <2>3. SlotsConserved' /\ free' \in Nat
    BY <2>1, <2>2, Balance
  <2>4. Queued' /\ Ran' /\ Drained'
    BY <2>1, <2>2 DEF Queued, Ran, Drained, ShutdownDrains
  <2>5. LaneShape'
    BY <2>1, <2>3
  <2>6. QED
    BY <2>3, <2>4, <2>5 DEF LaneIInv
<1>2. CASE AddCallback(t)
  <2>1. /\ task[t] \in {"queued", "running", "done", "cancelled"} /\ t \notin called
        /\ called' = called \union {t}
        /\ free' = IF Over(t) THEN free + 1 ELSE free
        /\ UNCHANGED <<task, fifo, running, down, joined>>
    BY <1>2 DEF AddCallback
  <2>2. t \in Holders /\ Holders' = IF Over(t) THEN Holders \ {t} ELSE Holders
    BY <2>1 DEF Holders, Accepted, Over
  <2>3. SlotsConserved' /\ free' \in Nat
    BY <2>1, <2>2, Balance
  <2>4. Queued' /\ Ran' /\ Drained'
    BY <2>1 DEF Queued, Ran, Drained, ShutdownDrains, Pending
  <2>5. LaneShape'
    BY <2>1, <2>3
  <2>6. QED
    BY <2>3, <2>4, <2>5 DEF LaneIInv
<1>3. CASE Cancel(t)
  <2>1. /\ task[t] = "queued" /\ Resolve(t, "cancelled")
        /\ task' = [task EXCEPT ![t] = "cancelled"]
        /\ UNCHANGED <<called, fifo, running, down, joined>>
    BY <1>3 DEF Cancel, Resolve
  <2>2. SlotsConserved' /\ free' \in Nat
    BY <2>1, Resolved
  <2>3. Queued' /\ Ran'
    BY <2>1 DEF Queued, Ran
  <2>4. Drained'
    BY <2>1 DEF Drained, ShutdownDrains, Pending
  <2>5. LaneShape'
    BY <2>1, <2>2
  <2>6. QED
    BY <2>2, <2>3, <2>4, <2>5 DEF LaneIInv
<1>4. QED
  BY <1>1, <1>2, <1>3

\* A thread that takes the head of the queue finds it queued or cancelled.
LEMMA TakeStep == ASSUME LaneIInv, NEW w \in LaneWorkers, TakeTask(w) PROVE LaneIInv'
<1>t. LaneShape /\ SlotsConserved /\ Queued /\ Ran /\ Drained
  BY DEF LaneIInv
<1> USE <1>t DEF LaneShape
<1>1. /\ running[w] = NoTask /\ fifo # <<>> /\ fifo' = Tail(fifo)
      /\ UNCHANGED <<free, called, down, joined>>
  BY DEF TakeTask
<1>2. /\ Head(fifo) \in Tasks /\ Head(fifo) = fifo[1]
      /\ Len(fifo') = Len(fifo) - 1 /\ fifo' \in Seq(Tasks)
      /\ \A i \in 2 .. Len(fifo) : i - 1 \in 1 .. Len(fifo') /\ fifo'[i - 1] = fifo[i]
  BY <1>1
<1>3. CASE task[Head(fifo)] = "queued"
  <2> DEFINE t == Head(fifo)
  <2>1. /\ running' = [running EXCEPT ![w] = t] /\ task' = [task EXCEPT ![t] = "running"]
        /\ task[t] = "queued" /\ t \in Tasks
    BY <1>2, <1>3 DEF TakeTask
  <2>2. Holders' = Holders
    BY <1>1, <2>1 DEF Holders, Accepted, Over
  <2>3. SlotsConserved'
    BY <1>1, <1>2, <2>2, Balance
  <2>4. Queued'
    <3> SUFFICES ASSUME NEW u \in Tasks, task'[u] = "queued"
                 PROVE  \E i \in 1 .. Len(fifo') : fifo'[i] = u
      BY DEF Queued
    <3>1. u # fifo[1] /\ task[u] = "queued"
      BY <1>2, <2>1
    <3>2. PICK i \in 1 .. Len(fifo) : fifo[i] = u
      BY <3>1 DEF Queued
    <3>3. i \in 2 .. Len(fifo)
      BY <3>1, <3>2
    <3>4. QED
      BY <1>2, <3>2, <3>3
  <2>5. Ran'
    BY <2>1, <1>1, LaneAssumption DEF Ran
  <2>6. Drained'
    BY <1>1, <2>1 DEF Drained, ShutdownDrains, Pending
  <2>7. LaneShape'
    BY <1>1, <1>2, <2>1
  <2>8. QED
    BY <2>3, <2>4, <2>5, <2>6, <2>7 DEF LaneIInv
<1>4. CASE task[Head(fifo)] # "queued"
  <2>1. UNCHANGED <<running, task>>
    BY <1>4 DEF TakeTask
  <2>2. Queued'
    <3> SUFFICES ASSUME NEW u \in Tasks, task[u] = "queued"
                 PROVE  \E i \in 1 .. Len(fifo') : fifo'[i] = u
      BY <2>1 DEF Queued
    <3>1. PICK i \in 1 .. Len(fifo) : fifo[i] = u
      BY DEF Queued
    <3>2. i \in 2 .. Len(fifo)
      BY <1>2, <1>4, <3>1
    <3>3. QED
      BY <1>2, <3>1, <3>2
  <2>3. SlotsConserved' /\ Ran' /\ Drained'
    BY <1>1, <2>1
    DEF SlotsConserved, Slots, Holders, Accepted, Over, Ran, Drained, ShutdownDrains, Pending
  <2>4. LaneShape'
    BY <1>1, <1>2, <2>1
  <2>5. QED
    BY <2>2, <2>3, <2>4 DEF LaneIInv
<1>5. QED
  BY <1>3, <1>4

\* The end of a task gives its slot back, at once or when it is called back.
LEMMA EndStep == ASSUME LaneIInv, NEW w \in LaneWorkers, EndTask(w) PROVE LaneIInv'
<1>t. LaneShape /\ SlotsConserved /\ Queued /\ Ran /\ Drained
  BY DEF LaneIInv
<1> USE <1>t DEF LaneShape
<1> DEFINE t == running[w]
<1>1. /\ t \in Tasks /\ task[t] = "running" /\ Resolve(t, "done")
      /\ task' = [task EXCEPT ![t] = "done"] /\ running' = [running EXCEPT ![w] = NoTask]
      /\ UNCHANGED <<called, fifo, down, joined>>
  BY DEF EndTask, Ran, Resolve
<1>2. SlotsConserved' /\ free' \in Nat
  BY <1>1, Resolved
<1>3. Queued'
  BY <1>1 DEF Queued
<1>4. Ran'
  <2>1. \A u \in Tasks : task'[u] = "running" => \E v \in LaneWorkers : running'[v] = u
    <3> SUFFICES ASSUME NEW u \in Tasks, task'[u] = "running"
                 PROVE  \E v \in LaneWorkers : running'[v] = u
      OBVIOUS
    <3>1. u # t /\ task[u] = "running"
      BY <1>1
    <3>2. PICK v \in LaneWorkers : running[v] = u
      BY <3>1 DEF Ran
    <3>3. QED
      BY <1>1, <3>1, <3>2
  <2>2. \A v \in LaneWorkers : running'[v] # NoTask =>
           v # w /\ running'[v] = running[v] /\ running[v] # t
    BY <1>1, LaneAssumption DEF Ran
  <2>3. \A v \in LaneWorkers : running'[v] # NoTask => task'[running'[v]] = "running"
    BY <1>1, <2>2 DEF Ran
  <2>4. \A u, v \in LaneWorkers : running'[u] = running'[v] /\ running'[u] # NoTask => u = v
    BY <2>2 DEF Ran
  <2>5. QED
    BY <2>1, <2>3, <2>4 DEF Ran
<1>5. Drained'
  BY <1>1 DEF Drained, ShutdownDrains, Pending
<1>6. LaneShape'
  BY <1>1, <1>2
<1>7. QED
  BY <1>2, <1>3, <1>4, <1>5, <1>6 DEF LaneIInv

\* When the executor's threads have ended nothing is queued or running.
LEMMA ShutDownStep == ASSUME LaneIInv, ShutDown \/ Joined PROVE LaneIInv'
<1>t. LaneShape /\ SlotsConserved /\ Queued /\ Ran /\ Drained
  BY DEF LaneIInv
<1> USE <1>t DEF LaneShape
<1>1. UNCHANGED <<free, task, called, fifo, running>>
  BY DEF ShutDown, Joined
<1>2. SlotsConserved' /\ Queued' /\ Ran' /\ LaneShape'
  BY <1>1 DEF ShutDown, Joined, SlotsConserved, Slots, Holders, Accepted, Over, Queued, Ran
<1>3. Drained'
  <2>1. CASE ShutDown
    BY <1>1, <2>1 DEF ShutDown, Drained, ShutdownDrains, Pending
  <2>2. CASE Joined
    <3>1. Pending = {}
      <4>1. \A t \in Tasks : task[t] # "queued"
        BY <2>2 DEF Joined, Queued
      <4>2. \A t \in Tasks : task[t] # "running"
        BY <2>2, LaneAssumption DEF Joined, Ran
      <4>3. QED
        BY <4>1, <4>2 DEF Pending
    <3>2. QED
      BY <1>1, <2>2, <3>1 DEF Joined, Drained, ShutdownDrains, Pending
  <2>3. QED
    BY <2>1, <2>2
<1>4. QED
  BY <1>2, <1>3 DEF LaneIInv
-----------------------------------------------------------------------------
\* The lane never loses a slot nor gives one back twice, never holds more work than
\* it has slots, and is empty when its shutdown returns.
THEOREM LaneInvariance == LaneSpec => []LaneInv
<1>1. LaneIInv /\ [LaneNext]_laneVars => LaneIInv'
  <2> SUFFICES ASSUME LaneIInv, [LaneNext]_laneVars
               PROVE  LaneIInv'
    OBVIOUS
  <2>1. CASE UNCHANGED laneVars
    BY <2>1
    DEF laneVars, LaneIInv, LaneShape, SlotsConserved, Slots, Holders, Accepted, Over,
        Queued, Ran, Drained, ShutdownDrains, Pending
  <2>2. QED
    BY <2>1, SubmitStep, TaskStep, TakeStep, EndStep, ShutDownStep DEF LaneNext
<1>2. QED
  BY <1>1, LaneInitInv, LaneBounds, PTL DEF LaneSpec

-----------------------------------------------------------------------------
\* BackgroundWorker

Elements == Jobs \union {Sentinel}

InQueue(x) == \E i \in 1 .. Len(jobs) : jobs[i] = x
InHands(x) == \E w \in Threads : x \in hands[w]

\* A job says where its task is ...
Located ==
    \A j \in Jobs : (InQueue(j) <=> job[j] = "queued") /\ (InHands(j) <=> job[j] = "taken")

\* ... and it is there once.
Once ==
    /\ \A i, k \in 1 .. Len(jobs) : jobs[i] = jobs[k] /\ jobs[i] \in Jobs => i = k
    /\ \A v, w \in Threads, j \in Jobs : j \in hands[v] /\ j \in hands[w] => v = w

\* Until a stop begins nothing ends a thread, and a submission has started one.
Undisturbed ==
    (\A k \in Stops : stop[k] = "new") =>
        /\ ~InQueue(Sentinel) /\ ~InHands(Sentinel)
        /\ \A j \in Jobs : job[j] # "new" => IsAlive(thread)

WorkerIInv == WorkerTypeOK /\ SingleWorker /\ Located /\ Once /\ Undisturbed
-----------------------------------------------------------------------------
\* What is appended to a queue is at its end.
LEMMA AppendFacts ==
    ASSUME NEW q \in Seq(Elements), NEW x \in Elements
    PROVE  /\ Append(q, x) \in Seq(Elements) /\ Len(Append(q, x)) = Len(q) + 1
           /\ Append(q, x)[Len(q) + 1] = x
           /\ \A i \in 1 .. Len(q) : Append(q, x)[i] = q[i]
           /\ Len(q) \in Nat
OBVIOUS

\* What is taken from a queue was at its front.
LEMMA TailFacts ==
    ASSUME NEW q \in Seq(Elements), q # <<>>
    PROVE  /\ Tail(q) \in Seq(Elements) /\ Len(Tail(q)) = Len(q) - 1
           /\ Head(q) = q[1] /\ Head(q) \in Elements
           /\ \A i \in 1 .. Len(Tail(q)) : Tail(q)[i] = q[i + 1]
           /\ Len(q) \in Nat \ {0}
OBVIOUS

\* The invariant gives what the runs check.
LEMMA WorkerBounds == WorkerIInv => WorkerInv
<1>1. SUFFICES ASSUME WorkerIInv PROVE WorkerInv
  OBVIOUS
<1>2. WorkerTypeOK /\ SingleWorker /\ Located /\ Once /\ Undisturbed
  BY <1>1 DEF WorkerIInv
<1>3. OnePlace
  <2>1. SUFFICES ASSUME NEW j \in Jobs
                 PROVE  Cardinality(Places(j)) = IF job[j] \in {"queued", "taken"} THEN 1 ELSE 0
    BY DEF OnePlace
  <2>2. CASE job[j] = "queued"
    <3>1. PICK i \in 1 .. Len(jobs) : jobs[i] = j
      BY <1>2, <2>2 DEF Located, InQueue
    <3>2. {n \in 1 .. Len(jobs) : jobs[n] = j} = {i}
      BY <1>2, <3>1 DEF Once
    <3>3. {v \in Threads : j \in hands[v]} = {}
      BY <1>2, <2>2 DEF Located, InHands
    <3>4. Places(j) = {<<"queue", i>>}
      BY <3>2, <3>3 DEF Places
    <3>5. QED
      BY <2>2, <3>4, FS_Singleton
  <2>3. CASE job[j] = "taken"
    <3>1. PICK w \in Threads : j \in hands[w]
      BY <1>2, <2>3 DEF Located, InHands
    <3>2. {v \in Threads : j \in hands[v]} = {w}
      BY <1>2, <3>1 DEF Once
    <3>3. {n \in 1 .. Len(jobs) : jobs[n] = j} = {}
      BY <1>2, <2>3 DEF Located, InQueue
    <3>4. Places(j) = {<<"hands", w>>}
      BY <3>2, <3>3 DEF Places
    <3>5. QED
      BY <2>3, <3>4, FS_Singleton
  <2>4. CASE job[j] \notin {"queued", "taken"}
    <3>1. /\ {v \in Threads : j \in hands[v]} = {}
          /\ {n \in 1 .. Len(jobs) : jobs[n] = j} = {}
      BY <1>2, <2>4 DEF Located, InHands, InQueue
    <3>2. Places(j) = {}
      BY <3>1 DEF Places
    <3>3. QED
      BY <2>4, <3>2, FS_EmptySet
  <2>5. QED
    BY <2>2, <2>3, <2>4
<1>4. NoneLeftBehind
  <2>1. SUFFICES ASSUME \A k \in Stops : stop[k] = "new", jobs # <<>>
                 PROVE  IsAlive(thread)
    BY DEF NoneLeftBehind
  <2>2. jobs \in Seq(Elements)
    BY <1>2 DEF WorkerTypeOK, Elements
  <2>3. jobs[1] \in Elements /\ 1 \in 1 .. Len(jobs)
    BY <2>1, <2>2, TailFacts
  <2>4. jobs[1] \in Jobs
    BY <1>2, <2>1, <2>3 DEF Undisturbed, InQueue, Elements
  <2>5. job[jobs[1]] = "queued"
    BY <1>2, <2>3, <2>4 DEF Located, InQueue
  <2>6. QED
    BY <1>2, <2>1, <2>4, <2>5 DEF Undisturbed
<1>5. QED
  BY <1>2, <1>3, <1>4 DEF WorkerInv

\* No thread, no task.
LEMMA WorkerInitInv == WorkerInit => WorkerIInv
<1>1. SUFFICES ASSUME WorkerInit PROVE WorkerIInv
  OBVIOUS
<1>2. <<>> \in Seq(Elements) /\ Len(<<>>) = 0 /\ 1 .. 0 = {}
  OBVIOUS
<1>3. WorkerTypeOK
  <2>1. jobs \in Seq(Elements) /\ Len(jobs) <= QueueSize
    BY <1>1, <1>2, WorkerAssumption DEF WorkerInit
  <2>2. /\ holder \in Stops \union {0} /\ thread \in Threads \union {0}
        /\ life \in [Threads -> {"unborn", "alive", "dead"}]
        /\ hands \in [Threads -> SUBSET Elements]
        /\ job \in [Jobs -> {"new", "put", "queued", "dropped", "discarded", "taken", "handled"}]
        /\ stop \in [Stops -> {"new", "sentinel", "room", "again", "join", "returned"}]
    BY <1>1 DEF WorkerInit
  <2>3. gaveUp \in BOOLEAN
    BY <1>1 DEF WorkerInit
  <2>4. QED
    BY <2>1, <2>2, <2>3 DEF WorkerTypeOK, Elements
<1>4. SingleWorker
  BY <1>1 DEF WorkerInit, SingleWorker, IsAlive
<1>5. \A x \in Elements : ~InQueue(x) /\ ~InHands(x)
  BY <1>1, <1>2 DEF WorkerInit, InQueue, InHands
<1>6. Located
  BY <1>1, <1>5 DEF WorkerInit, Located, Elements
<1>7. Once
  BY <1>1, <1>2 DEF WorkerInit, Once
<1>8. Undisturbed
  BY <1>1, <1>5 DEF WorkerInit, Undisturbed, Elements
<1>9. QED
  BY <1>3, <1>4, <1>6, <1>7, <1>8 DEF WorkerIInv
-----------------------------------------------------------------------------
\* A task that was neither queued nor taken is queued.
LEMMA JobQueued ==
    ASSUME WorkerIInv, NEW j \in Jobs, job[j] \notin {"queued", "taken"},
           jobs' = Append(jobs, j), job' = [job EXCEPT ![j] = "queued"], hands' = hands
    PROVE  Located' /\ Once'
<1>1. /\ jobs \in Seq(Elements) /\ j \in Elements /\ Sentinel \notin Jobs
      /\ job \in [Jobs -> {"new", "put", "queued", "dropped", "discarded", "taken", "handled"}]
  BY WorkerAssumption DEF WorkerIInv, WorkerTypeOK, Elements
<1>2. /\ Len(jobs') = Len(jobs) + 1 /\ jobs'[Len(jobs) + 1] = j /\ Len(jobs) \in Nat
      /\ \A i \in 1 .. Len(jobs) : jobs'[i] = jobs[i]
  BY <1>1, AppendFacts
<1>3. \A x : InQueue(x)' <=> InQueue(x) \/ x = j
  BY <1>2 DEF InQueue
<1>4. \A x : InHands(x)' <=> InHands(x)
  BY DEF InHands
<1>5. Located /\ Once
  BY DEF WorkerIInv
<1>6. Located'
  BY <1>1, <1>3, <1>4, <1>5 DEF Located
<1>7. \A i \in 1 .. Len(jobs) : jobs[i] # j
  BY <1>5 DEF Located, InQueue
<1>8. Once'
  BY <1>2, <1>5, <1>7 DEF Once
<1>9. QED
  BY <1>6, <1>8

\* The sentinel is queued: no task moves.
LEMMA SentinelQueued ==
    ASSUME WorkerIInv, jobs' = Append(jobs, Sentinel), UNCHANGED <<job, hands>>
    PROVE  Located' /\ Once'
<1>1. jobs \in Seq(Elements) /\ Sentinel \in Elements /\ Sentinel \notin Jobs
  BY WorkerAssumption DEF WorkerIInv, WorkerTypeOK, Elements
<1>2. /\ Len(jobs') = Len(jobs) + 1 /\ jobs'[Len(jobs) + 1] = Sentinel /\ Len(jobs) \in Nat
      /\ \A i \in 1 .. Len(jobs) : jobs'[i] = jobs[i]
  BY <1>1, AppendFacts
<1>3. \A x \in Jobs : InQueue(x)' <=> InQueue(x)
  BY <1>1, <1>2 DEF InQueue
<1>4. \A x : InHands(x)' <=> InHands(x)
  BY DEF InHands
<1>5. Located /\ Once
  BY DEF WorkerIInv
<1>6. Located'
  BY <1>3, <1>4, <1>5 DEF Located
<1>7. Once'
  BY <1>1, <1>2, <1>5 DEF Once
<1>8. QED
  BY <1>6, <1>7

\* What the front of the queue holds when it is taken away.
LEMMA FrontTaken ==
    ASSUME WorkerIInv, jobs # <<>>, jobs' = Tail(jobs)
    PROVE  /\ \A x \in Jobs : InQueue(x)' <=> InQueue(x) /\ x # Head(jobs)
           /\ Head(jobs) \in Jobs => InQueue(Head(jobs))
           /\ \A i, k \in 1 .. Len(jobs') : jobs'[i] = jobs'[k] /\ jobs'[i] \in Jobs => i = k
           /\ ~InQueue(Sentinel) => ~InQueue(Sentinel)' /\ Head(jobs) # Sentinel
<1>1. jobs \in Seq(Elements)
  BY DEF WorkerIInv, WorkerTypeOK, Elements
<1>2. /\ Len(jobs') = Len(jobs) - 1 /\ Len(jobs) \in Nat \ {0} /\ Head(jobs) = jobs[1]
      /\ \A i \in 1 .. Len(jobs') : jobs'[i] = jobs[i + 1]
  BY <1>1, TailFacts
<1>3. Once
  BY DEF WorkerIInv
<1>4. \A x : InQueue(x)' => InQueue(x)
  BY <1>2 DEF InQueue
<1>5. InQueue(Head(jobs))
  BY <1>2 DEF InQueue
<1>6. ASSUME NEW x \in Jobs, InQueue(x)' PROVE x # Head(jobs)
  <2>1. PICK i \in 1 .. Len(jobs') : jobs'[i] = x
    BY <1>6 DEF InQueue
  <2>2. jobs[i + 1] = x /\ i + 1 \in 1 .. Len(jobs) /\ 1 \in 1 .. Len(jobs) /\ i + 1 # 1
    BY <1>2, <2>1
  <2>3. QED
    BY <1>2, <1>3, <1>6, <2>2 DEF Once
<1>7. ASSUME NEW x \in Jobs, InQueue(x), x # Head(jobs) PROVE InQueue(x)'
  <2>1. PICK i \in 1 .. Len(jobs) : jobs[i] = x
    BY <1>7 DEF InQueue
  <2>2. i - 1 \in 1 .. Len(jobs') /\ (i - 1) + 1 = i
    BY <1>2, <1>7, <2>1
  <2>3. jobs'[i - 1] = x
    BY <1>2, <2>1, <2>2
  <2>4. QED
    BY <2>2, <2>3 DEF InQueue
<1>8. \A i, k \in 1 .. Len(jobs') : jobs'[i] = jobs'[k] /\ jobs'[i] \in Jobs => i = k
  <2>1. SUFFICES ASSUME NEW i \in 1 .. Len(jobs'), NEW k \in 1 .. Len(jobs'),
                        jobs'[i] = jobs'[k], jobs'[i] \in Jobs
                 PROVE  i = k
    OBVIOUS
  <2>2. i + 1 \in 1 .. Len(jobs) /\ k + 1 \in 1 .. Len(jobs)
    BY <1>2
  <2>3. jobs[i + 1] = jobs[k + 1] /\ jobs[i + 1] \in Jobs
    BY <1>2, <2>1
  <2>4. i + 1 = k + 1
    BY <1>3, <2>2, <2>3 DEF Once
  <2>5. QED
    BY <2>4
<1>9. QED
  BY <1>4, <1>5, <1>6, <1>7, <1>8-----------------------------------------------------------------------------
\* The steps keep the types.
LEMMA TypeStep == WorkerIInv /\ [WorkerNext]_workerVars => WorkerTypeOK'
<1>1. SUFFICES ASSUME WorkerTypeOK, [WorkerNext]_workerVars PROVE WorkerTypeOK'
  BY DEF WorkerIInv
<1>2. jobs \in Seq(Elements) /\ Sentinel \in Elements /\ Jobs \subseteq Elements /\ QueueSize \in Nat
  BY <1>1, WorkerAssumption DEF WorkerTypeOK, Elements
<1>3. ASSUME NEW j \in Jobs, StartFor(j) PROVE WorkerTypeOK'
  BY <1>1, <1>3 DEF StartFor, WorkerTypeOK
<1>4. ASSUME NEW j \in Jobs, Put(j) PROVE WorkerTypeOK'
  <2>1. CASE Full
    BY <1>1, <1>4, <2>1 DEF Put, WorkerTypeOK
  <2>2. CASE ~Full
    <3>1. jobs' \in Seq(Elements) /\ Len(jobs') <= QueueSize
      BY <1>2, <1>4, <2>2, AppendFacts DEF Put, Full
    <3>2. QED
      BY <1>1, <1>4, <2>2, <3>1 DEF Put, WorkerTypeOK, Elements
  <2>3. QED
    BY <2>1, <2>2
<1>5. ASSUME NEW k \in Stops, StopBegin(k) PROVE WorkerTypeOK'
  BY <1>1, <1>5 DEF StopBegin, WorkerTypeOK
<1>6. ASSUME NEW k \in Stops, StopSentinel(k) PROVE WorkerTypeOK'
  <2>1. CASE Full
    BY <1>1, <1>6, <2>1 DEF StopSentinel, WorkerTypeOK
  <2>2. CASE ~Full
    <3>1. jobs' \in Seq(Elements) /\ Len(jobs') <= QueueSize
      BY <1>2, <1>6, <2>2, AppendFacts DEF StopSentinel, Full
    <3>2. QED
      BY <1>1, <1>6, <2>2, <3>1 DEF StopSentinel, WorkerTypeOK, Elements
  <2>3. QED
    BY <2>1, <2>2
<1>7. ASSUME NEW k \in Stops, StopRoom(k) PROVE WorkerTypeOK'
  <2>1. CASE jobs = <<>>
    BY <1>1, <1>7, <2>1 DEF StopRoom, WorkerTypeOK
  <2>2. CASE jobs # <<>>
    <3>1. jobs' \in Seq(Elements) /\ Len(jobs') <= QueueSize
      <4>1. jobs' = Tail(jobs) /\ Len(jobs) <= QueueSize
        BY <1>1, <1>7, <2>2 DEF StopRoom, WorkerTypeOK
      <4>2. QED
        BY <1>2, <2>2, <4>1, TailFacts
    <3>2. job' \in [Jobs -> {"new", "put", "queued", "dropped", "discarded", "taken", "handled"}]
      BY <1>1, <1>7, <2>2 DEF StopRoom, WorkerTypeOK
    <3>3. QED
      BY <1>1, <1>7, <3>1, <3>2 DEF StopRoom, WorkerTypeOK, Elements
  <2>3. QED
    BY <2>1, <2>2
<1>8. ASSUME NEW k \in Stops, StopAgain(k) PROVE WorkerTypeOK'
  <2>1. CASE Full
    BY <1>1, <1>8, <2>1 DEF StopAgain, WorkerTypeOK
  <2>2. CASE ~Full
    <3>1. jobs' \in Seq(Elements) /\ Len(jobs') <= QueueSize
      <4>1. jobs' = Append(jobs, Sentinel) /\ ~(Len(jobs) >= QueueSize)
        BY <1>8, <2>2 DEF StopAgain, Full
      <4>2. QED
        BY <1>2, <4>1, AppendFacts
    <3>2. QED
      BY <1>1, <1>8, <2>2, <3>1 DEF StopAgain, WorkerTypeOK, Elements
  <2>3. QED
    BY <2>1, <2>2
<1>9. ASSUME NEW k \in Stops, StopJoin(k) PROVE WorkerTypeOK'
  <2>1. gaveUp' \in BOOLEAN
    BY <1>1, <1>9, Zenon DEF StopJoin, WorkerTypeOK
  <2>2. QED
    BY <1>1, <1>9, <2>1 DEF StopJoin, WorkerTypeOK
<1>10. ASSUME NEW w \in Threads, TakeJob(w) PROVE WorkerTypeOK'
  <2>1. jobs' \in Seq(Elements) /\ Len(jobs') <= QueueSize /\ Head(jobs) \in Elements
    BY <1>1, <1>2, <1>10, TailFacts DEF TakeJob, WorkerTypeOK
  <2>2. job' \in [Jobs -> {"new", "put", "queued", "dropped", "discarded", "taken", "handled"}]
    BY <1>1, <1>10 DEF TakeJob, WorkerTypeOK
  <2>3. hands' \in [Threads -> SUBSET Elements]
    BY <1>1, <1>10, <2>1 DEF TakeJob, WorkerTypeOK, Elements
  <2>4. QED
    BY <1>1, <1>10, <2>1, <2>2, <2>3 DEF TakeJob, WorkerTypeOK, Elements
<1>11. ASSUME NEW w \in Threads, Handled(w) PROVE WorkerTypeOK'
  <2>1. job' \in [Jobs -> {"new", "put", "queued", "dropped", "discarded", "taken", "handled"}]
    BY <1>1, <1>11 DEF Handled, WorkerTypeOK
  <2>2. life' \in [Threads -> {"unborn", "alive", "dead"}]
    BY <1>1, <1>11 DEF Handled, WorkerTypeOK
  <2>3. QED
    BY <1>1, <1>11, <2>1, <2>2 DEF Handled, WorkerTypeOK
<1>12. CASE UNCHANGED workerVars
  BY <1>1, <1>12 DEF workerVars, WorkerTypeOK
<1>13. QED
  BY <1>1, <1>3, <1>4, <1>5, <1>6, <1>7, <1>8, <1>9, <1>10, <1>11, <1>12
  DEF WorkerNext, Stopping

\* A thread is started only when the one before it is known to be dead, or was
\* given up.
LEMMA SingleStep == WorkerIInv /\ [WorkerNext]_workerVars => SingleWorker'
<1>1. SUFFICES ASSUME WorkerTypeOK, SingleWorker, [WorkerNext]_workerVars, ~gaveUp'
               PROVE  \A w \in Threads : IsAlive(w)' => thread' = w
  BY DEF WorkerIInv, SingleWorker
<1>2. ASSUME NEW j \in Jobs, StartFor(j)
      PROVE  \A w \in Threads : IsAlive(w)' => thread' = w
  <2>1. \A w \in Threads : IsAlive(w) => thread = w
    BY <1>1, <1>2 DEF StartFor, SingleWorker
  <2>2. CASE IsAlive(thread) /\ UNCHANGED <<thread, life>>
    BY <2>1, <2>2 DEF IsAlive
  <2>3. CASE ~IsAlive(thread)
    <3>1. PICK w \in Threads : thread' = w /\ life' = [life EXCEPT ![w] = "alive"]
      BY <1>2, <2>3 DEF StartFor
    <3>2. \A v \in Threads : ~IsAlive(v)
      BY <2>1, <2>3
    <3>3. QED
      BY <1>1, <3>1, <3>2 DEF IsAlive, WorkerTypeOK
  <2>4. QED
    BY <1>2, <2>2, <2>3 DEF StartFor
<1>3. CASE UNCHANGED <<thread, life, gaveUp>>
  BY <1>1, <1>3 DEF SingleWorker, IsAlive
<1>4. ASSUME NEW k \in Stops, StopJoin(k)
      PROVE  \A w \in Threads : IsAlive(w)' => thread' = w
  <2>1. ~gaveUp /\ ~IsAlive(thread) /\ life' = life
    BY <1>1, <1>4 DEF StopJoin
  <2>2. \A w \in Threads : ~IsAlive(w)
    BY <1>1, <2>1 DEF SingleWorker
  <2>3. QED
    BY <2>1, <2>2 DEF IsAlive
<1>5. ASSUME NEW w \in Threads, Handled(w)
      PROVE  \A v \in Threads : IsAlive(v)' => thread' = v
  <2>1. \A v \in Threads : IsAlive(v)' => IsAlive(v)
    BY <1>1, <1>5 DEF Handled, IsAlive, WorkerTypeOK
  <2>2. QED
    BY <1>1, <1>5, <2>1 DEF Handled, SingleWorker
<1>6. ASSUME NEW j \in Jobs, Put(j) PROVE UNCHANGED <<thread, life, gaveUp>>
  BY <1>6 DEF Put
<1>7. ASSUME NEW k \in Stops, StopBegin(k) \/ StopSentinel(k) \/ StopRoom(k) \/ StopAgain(k)
      PROVE  UNCHANGED <<thread, life, gaveUp>>
  BY <1>7 DEF StopBegin, StopSentinel, StopRoom, StopAgain
<1>8. ASSUME NEW w \in Threads, TakeJob(w) PROVE UNCHANGED <<thread, life, gaveUp>>
  BY <1>8 DEF TakeJob
<1>9. CASE UNCHANGED workerVars
  BY <1>3, <1>9 DEF workerVars
<1>10. QED
  BY <1>1, <1>2, <1>3, <1>4, <1>5, <1>6, <1>7, <1>8, <1>9 DEF WorkerNext, Stopping

\* A task that moves is moved once.
LEMMA PlaceStep == WorkerIInv /\ [WorkerNext]_workerVars => Located' /\ Once'
<1>1. SUFFICES ASSUME WorkerIInv, [WorkerNext]_workerVars PROVE Located' /\ Once'
  OBVIOUS
<1>2. WorkerTypeOK /\ Located /\ Once /\ Sentinel \notin Jobs
  BY <1>1, WorkerAssumption DEF WorkerIInv
<1>3. /\ job \in [Jobs -> {"new", "put", "queued", "dropped", "discarded", "taken", "handled"}]
      /\ hands \in [Threads -> SUBSET Elements]
  BY <1>2 DEF WorkerTypeOK, Elements
<1>4. ASSUME UNCHANGED <<jobs, hands>>,
             \A j \in Jobs : \/ job'[j] = job[j]
                             \/ {job[j], job'[j]} \intersect {"queued", "taken"} = {}
      PROVE  Located' /\ Once'
  <2>1. \A x : (InQueue(x)' <=> InQueue(x)) /\ (InHands(x)' <=> InHands(x))
    BY <1>4 DEF InQueue, InHands
  <2>2. \A j \in Jobs : (job'[j] = "queued" <=> job[j] = "queued") /\ (job'[j] = "taken" <=> job[j] = "taken")
    BY <1>4
  <2>3. Located'
    BY <1>2, <2>1, <2>2 DEF Located
  <2>4. Once'
    BY <1>2, <1>4 DEF Once
  <2>5. QED
    BY <2>3, <2>4
<1>5. ASSUME NEW j \in Jobs, StartFor(j) PROVE Located' /\ Once'
  <2>1. job[j] = "new" /\ job' = [job EXCEPT ![j] = "put"] /\ UNCHANGED <<jobs, hands>>
    BY <1>5 DEF StartFor
  <2>2. QED
    BY <1>3, <1>4, <2>1
<1>6. ASSUME NEW j \in Jobs, Put(j) PROVE Located' /\ Once'
  <2>1. CASE Full
    <3>1. job[j] = "put" /\ job' = [job EXCEPT ![j] = "dropped"] /\ UNCHANGED <<jobs, hands>>
      BY <1>6, <2>1 DEF Put
    <3>2. QED
      BY <1>3, <1>4, <3>1
  <2>2. CASE ~Full
    <3>1. /\ job[j] = "put" /\ job' = [job EXCEPT ![j] = "queued"] /\ jobs' = Append(jobs, j)
          /\ hands' = hands
      BY <1>6, <2>2 DEF Put
    <3>2. QED
      BY <1>1, <3>1, JobQueued
  <2>3. QED
    BY <2>1, <2>2
<1>7. ASSUME NEW k \in Stops, StopSentinel(k) \/ StopAgain(k) PROVE Located' /\ Once'
  <2>1. UNCHANGED <<job, hands>> /\ (jobs' = jobs \/ jobs' = Append(jobs, Sentinel))
    BY <1>7 DEF StopSentinel, StopAgain
  <2>2. QED
    BY <1>1, <1>4, <2>1, SentinelQueued
<1>8. ASSUME NEW k \in Stops, StopBegin(k) \/ StopJoin(k) PROVE Located' /\ Once'
  <2>1. UNCHANGED <<jobs, hands, job>>
    BY <1>8 DEF StopBegin, StopJoin
  <2>2. QED
    BY <1>4, <2>1
<1>9. ASSUME NEW k \in Stops, StopRoom(k) PROVE Located' /\ Once'
  <2>1. CASE jobs = <<>>
    <3>1. UNCHANGED <<jobs, hands, job>>
      BY <1>9, <2>1 DEF StopRoom
    <3>2. QED
      BY <1>4, <3>1
  <2>2. CASE jobs # <<>>
    <3>1. /\ jobs' = Tail(jobs) /\ hands' = hands
          /\ job' = [j \in Jobs |-> IF j = Head(jobs) THEN "discarded" ELSE job[j]]
      BY <1>9, <2>2 DEF StopRoom
    <3>2. /\ \A x \in Jobs : InQueue(x)' <=> InQueue(x) /\ x # Head(jobs)
          /\ Head(jobs) \in Jobs => InQueue(Head(jobs))
          /\ \A i, n \in 1 .. Len(jobs') : jobs'[i] = jobs'[n] /\ jobs'[i] \in Jobs => i = n
      BY <1>1, <2>2, <3>1, FrontTaken
    <3>3. \A x : InHands(x)' <=> InHands(x)
      BY <3>1 DEF InHands
    <3>4. ASSUME NEW j \in Jobs
          PROVE  (InQueue(j)' <=> job'[j] = "queued") /\ (InHands(j)' <=> job'[j] = "taken")
      BY <1>2, <3>1, <3>2, <3>3 DEF Located
    <3>5. Located'
      BY <3>4 DEF Located
    <3>6. Once'
      BY <1>2, <3>1, <3>2 DEF Once
    <3>7. QED
      BY <3>5, <3>6
  <2>3. QED
    BY <2>1, <2>2
<1>10. ASSUME NEW w \in Threads, TakeJob(w) PROVE Located' /\ Once'
  <2>1. /\ jobs # <<>> /\ jobs' = Tail(jobs) /\ hands[w] = {}
        /\ hands' = [hands EXCEPT ![w] = {Head(jobs)}]
        /\ job' = [j \in Jobs |-> IF j = Head(jobs) THEN "taken" ELSE job[j]]
    BY <1>10 DEF TakeJob
  <2>2. /\ \A x \in Jobs : InQueue(x)' <=> InQueue(x) /\ x # Head(jobs)
        /\ Head(jobs) \in Jobs => InQueue(Head(jobs))
        /\ \A i, k \in 1 .. Len(jobs') : jobs'[i] = jobs'[k] /\ jobs'[i] \in Jobs => i = k
    BY <1>1, <2>1, FrontTaken
  <2>3. \A v \in Threads : hands'[v] = IF v = w THEN {Head(jobs)} ELSE hands[v]
    BY <1>3, <2>1
  <2>4. \A x : InHands(x)' <=> InHands(x) \/ x = Head(jobs)
    BY <2>1, <2>3 DEF InHands
  <2>5. ASSUME NEW j \in Jobs
        PROVE  (InQueue(j)' <=> job'[j] = "queued") /\ (InHands(j)' <=> job'[j] = "taken")
    BY <1>2, <2>1, <2>2, <2>4 DEF Located
  <2>6. Located'
    BY <2>5 DEF Located
  <2>7. \A v \in Threads : Head(jobs) \in Jobs => Head(jobs) \notin hands[v]
    BY <1>2, <2>2 DEF Located, InHands
  <2>8. \A u, v \in Threads, j \in Jobs : j \in hands'[u] /\ j \in hands'[v] => u = v
    BY <1>2, <2>3, <2>7 DEF Once
  <2>9. QED
    BY <2>2, <2>6, <2>8 DEF Once
<1>11. ASSUME NEW w \in Threads, Handled(w) PROVE Located' /\ Once'
  <2>1. /\ hands' = [hands EXCEPT ![w] = {}] /\ jobs' = jobs
        /\ job' = [j \in Jobs |-> IF j \in hands[w] THEN "handled" ELSE job[j]]
    BY <1>11 DEF Handled
  <2>2. \A v \in Threads : hands'[v] = IF v = w THEN {} ELSE hands[v]
    BY <1>3, <2>1
  <2>3. \A x : InQueue(x)' <=> InQueue(x)
    BY <2>1 DEF InQueue
  <2>4. \A j \in Jobs : InHands(j)' <=> InHands(j) /\ j \notin hands[w]
    BY <1>2, <2>2 DEF InHands, Once
  <2>5. \A j \in Jobs : j \in hands[w] => job[j] = "taken"
    BY <1>2 DEF Located, InHands
  <2>6. ASSUME NEW j \in Jobs
        PROVE  (InQueue(j)' <=> job'[j] = "queued") /\ (InHands(j)' <=> job'[j] = "taken")
    BY <1>2, <2>1, <2>3, <2>4, <2>5 DEF Located
  <2>7. Located'
    BY <2>6 DEF Located
  <2>8. Once'
    BY <1>2, <2>1, <2>2 DEF Once
  <2>9. QED
    BY <2>7, <2>8
<1>12. CASE UNCHANGED workerVars
  BY <1>4, <1>12 DEF workerVars
<1>13. QED
  BY <1>1, <1>5, <1>6, <1>7, <1>8, <1>9, <1>10, <1>11, <1>12 DEF WorkerNext, Stopping

\* Submissions start a thread and never end one.
LEMMA UndisturbedStep == WorkerIInv /\ [WorkerNext]_workerVars => Undisturbed'
<1>1. SUFFICES ASSUME WorkerIInv, [WorkerNext]_workerVars, \A k \in Stops : stop'[k] = "new"
               PROVE  /\ ~InQueue(Sentinel)' /\ ~InHands(Sentinel)'
                      /\ \A j \in Jobs : job'[j] # "new" => IsAlive(thread)'
  BY DEF Undisturbed
<1>2. WorkerTypeOK /\ Located /\ Sentinel \notin Jobs
  BY <1>1, WorkerAssumption DEF WorkerIInv
<1>3. ASSUME NEW k \in Stops, Stopping(k) PROVE FALSE
  BY <1>1, <1>2, <1>3
  DEF Stopping, StopBegin, StopSentinel, StopRoom, StopAgain, StopJoin, WorkerTypeOK
<1>4. ASSUME stop' = stop
      PROVE  /\ ~InQueue(Sentinel) /\ ~InHands(Sentinel)
             /\ \A j \in Jobs : job[j] # "new" => IsAlive(thread)
  BY <1>1, <1>4 DEF WorkerIInv, Undisturbed
<1>5. ASSUME NEW j \in Jobs, StartFor(j)
      PROVE  /\ ~InQueue(Sentinel)' /\ ~InHands(Sentinel)' /\ IsAlive(thread)'
  <2>1. UNCHANGED <<jobs, hands, stop>>
    BY <1>5 DEF StartFor
  <2>2. ~InQueue(Sentinel)' /\ ~InHands(Sentinel)'
    BY <1>4, <2>1 DEF InQueue, InHands
  <2>3. IsAlive(thread)'
    BY <1>2, <1>5 DEF StartFor, IsAlive, WorkerTypeOK
  <2>4. QED
    BY <2>2, <2>3
<1>6. ASSUME NEW j \in Jobs, Put(j)
      PROVE  /\ ~InQueue(Sentinel)' /\ ~InHands(Sentinel)' /\ IsAlive(thread)'
  <2>1. UNCHANGED <<thread, life, hands, stop>> /\ job[j] = "put"
    BY <1>6 DEF Put
  <2>2. IsAlive(thread)' /\ ~InHands(Sentinel)'
    BY <1>4, <2>1 DEF IsAlive, InHands
  <2>3. jobs \in Seq(Elements) /\ j \in Elements
    BY <1>2 DEF WorkerTypeOK, Elements
  <2>4. jobs' = jobs \/ jobs' = Append(jobs, j)
    BY <1>6 DEF Put
  <2>5. ~InQueue(Sentinel)'
    BY <1>2, <1>4, <2>1, <2>3, <2>4, AppendFacts DEF InQueue
  <2>6. QED
    BY <2>2, <2>5
<1>7. ASSUME NEW w \in Threads, TakeJob(w)
      PROVE  /\ ~InQueue(Sentinel)' /\ ~InHands(Sentinel)'
             /\ \A j \in Jobs : job'[j] # "new" => IsAlive(thread)'
  <2>1. /\ jobs # <<>> /\ jobs' = Tail(jobs) /\ UNCHANGED <<stop, thread, life>>
        /\ hands' = [hands EXCEPT ![w] = {Head(jobs)}]
        /\ job' = [j \in Jobs |-> IF j = Head(jobs) THEN "taken" ELSE job[j]]
    BY <1>7 DEF TakeJob
  <2>2. ~InQueue(Sentinel)' /\ Head(jobs) # Sentinel /\ (Head(jobs) \in Jobs => InQueue(Head(jobs)))
    BY <1>1, <1>4, <2>1, FrontTaken
  <2>3. ~InHands(Sentinel)'
    BY <1>2, <1>4, <2>1, <2>2 DEF InHands, WorkerTypeOK
  <2>4. \A j \in Jobs : job'[j] # "new" => job[j] # "new"
    BY <1>2, <2>1, <2>2 DEF Located
  <2>5. IsAlive(thread)' <=> IsAlive(thread)
    BY <2>1 DEF IsAlive
  <2>6. QED
    BY <1>4, <2>1, <2>2, <2>3, <2>4, <2>5
<1>8. ASSUME NEW w \in Threads, Handled(w)
      PROVE  /\ ~InQueue(Sentinel)' /\ ~InHands(Sentinel)'
             /\ \A j \in Jobs : job'[j] # "new" => IsAlive(thread)'
  <2>1. /\ UNCHANGED <<jobs, stop, thread>> /\ hands' = [hands EXCEPT ![w] = {}]
        /\ life' = IF Sentinel \in hands[w] THEN [life EXCEPT ![w] = "dead"] ELSE life
        /\ job' = [j \in Jobs |-> IF j \in hands[w] THEN "handled" ELSE job[j]]
    BY <1>8 DEF Handled
  <2>2. Sentinel \notin hands[w] /\ ~InQueue(Sentinel)'
    BY <1>4, <2>1 DEF InHands, InQueue
  <2>3. ~InHands(Sentinel)'
    BY <1>2, <1>4, <2>1 DEF InHands, WorkerTypeOK
  <2>4. \A j \in Jobs : job'[j] # "new" => job[j] # "new"
    BY <1>2, <2>1 DEF Located, InHands
  <2>5. IsAlive(thread)' <=> IsAlive(thread)
    BY <2>1, <2>2 DEF IsAlive
  <2>6. QED
    BY <1>4, <2>1, <2>2, <2>3, <2>4, <2>5
<1>9. CASE UNCHANGED workerVars
  BY <1>4, <1>9 DEF workerVars, InQueue, InHands, IsAlive
<1>10. QED
  BY <1>1, <1>3, <1>5, <1>6, <1>7, <1>8, <1>9 DEF WorkerNext

\* Tasks are handled one at a time unless a stop gave up on a thread, each task is
\* in one place, and submissions alone leave none without a thread.
THEOREM WorkerInvariance == WorkerSpec => []WorkerInv
<1>1. WorkerInit => WorkerIInv
  BY WorkerInitInv
<1>2. WorkerIInv /\ [WorkerNext]_workerVars => WorkerIInv'
  BY TypeStep, SingleStep, PlaceStep, UndisturbedStep DEF WorkerIInv
<1>3. WorkerIInv => WorkerInv
  BY WorkerBounds
<1>4. QED
  BY <1>1, <1>2, <1>3, PTL DEF WorkerSpec

-----------------------------------------------------------------------------
\* InterviewState

SavedRows == [version : Nat, folded : Seq(Events)]

StateShape ==
    /\ mode \in Modes /\ live \in BOOLEAN /\ again \in 0 .. MaxAgain
    /\ state \in SavedRows /\ disk \subseteq SavedRows /\ found \subseteq SavedRows
    /\ at \in [Events -> {"new", "read", "persist", "done"}]
    /\ held \in [Events -> SavedRows]
    /\ committed \in Seq(Events) /\ durable \in Seq(Events)

\* A version counts some of the events that were applied or given up.
Tried == {e \in Events : at[e] \in {"persist", "done"}}
Few(row) == row.version <= Cardinality(Tried)

Counted ==
    /\ Few(state)
    /\ \A row \in disk : Few(row)
    /\ \A row \in found : Few(row)
    /\ \A e \in Events : Few(held[e])

\* A version is the number of the events folded in, and a row's key.
Counts(row) == row.version = Len(row.folded)

Numbered ==
    /\ Counts(state)
    /\ \A row \in disk : Counts(row) /\ row.version > 0
    /\ \A row \in found : Counts(row)
    /\ \A e \in Events : Counts(held[e])
    /\ \A e \in Events : at[e] = "persist" => held[e].version > 0
    /\ \A row, other \in disk : row.version = other.version => row = other

\* One event at a time is applied, to the state that is still there, and not while
\* a row is put back.
InHand ==
    /\ Busy # {} => live
    /\ ~live => state = Fresh
    /\ Serial => \A d, e \in Busy : d = e
    /\ Serial => \A e \in Busy : held[e] = state
    /\ Serial => found \subseteq disk /\ (Busy # {} => found = {})

\* The row of the interview as it was last persisted is there, whatever rows of
\* others are; and while nothing fails that is the interview as it is.
DiskInStep ==
    Serial =>
        /\ durable = <<>> \/ \E row \in disk : row.folded = durable
        /\ "fail" \notin mode /\ live /\ Busy = {} => durable = committed

Folded == Serial => StateIsFold

StateIInv == StateShape /\ Counted /\ Numbered /\ InHand /\ DiskInStep /\ Folded
-----------------------------------------------------------------------------
\* The events tried can be counted, and one more is one more.
LEMMA TriedFinite ==
    /\ IsFiniteSet(Tried) /\ Cardinality(Tried) \in Nat
    /\ Cardinality(Tried) <= Cardinality(Events) /\ Cardinality(Events) \in Nat
    /\ \A e \in Events \ Tried : Cardinality(Tried \union {e}) = Cardinality(Tried) + 1
<1>1. IsFiniteSet(Events) /\ Tried \subseteq Events
  BY StateAssumption DEF Tried
<1>2. IsFiniteSet(Tried) /\ Cardinality(Tried) <= Cardinality(Events)
  BY <1>1, FS_Subset
<1>3. \A e \in Events \ Tried : Cardinality(Tried \union {e}) = Cardinality(Tried) + 1
  BY <1>2, FS_AddElement
<1>4. QED
  BY <1>1, <1>2, <1>3, FS_CardinalityType

\* Tried events stay tried, so that versions stay counted.
LEMMA TriedGrows ==
    ASSUME NEW more \in SUBSET Events, Tried \subseteq more
    PROVE  Cardinality(Tried) <= Cardinality(more) /\ Cardinality(more) \in Nat
<1>1. IsFiniteSet(more)
  BY StateAssumption, FS_Subset
<1>2. QED
  BY <1>1, FS_Subset, FS_CardinalityType

\* A fresh state counts nothing.
LEMMA FreshRow ==
    /\ <<>> \in Seq(Events) /\ Fresh \in SavedRows /\ Few(Fresh) /\ Counts(Fresh)
    /\ Fresh.version = 0 /\ Fresh.folded = <<>>
<1>1. <<>> \in Seq(Events) /\ Len(<<>>) = 0
  OBVIOUS
<1>2. QED
  BY <1>1, TriedFinite DEF Fresh, SavedRows, Few, Counts

\* A restore finds the last persisted version when no older row is ahead of it.
LEMMA LastPersisted ==
    ASSUME StateShape, Numbered, DiskInStep, Serial, ~OlderRowsAhead
    PROVE  RestoresExactly
<1>1. SUFFICES ASSUME NEW row \in disk, Latest(row) PROVE row.folded = durable
  BY DEF RestoresExactly
<1>2. /\ row.version > 0 /\ row.version <= Len(durable) /\ Len(durable) \in Nat
      /\ row.version \in Nat
  BY <1>1 DEF Numbered, OlderRowsAhead, StateShape, SavedRows
<1>3. PICK last \in disk : last.folded = durable
  BY <1>2 DEF DiskInStep
<1>4. last.version = Len(durable)
  BY <1>3 DEF Numbered, Counts
<1>5. last.version <= row.version
  BY <1>1 DEF Latest
<1>6. row.version = last.version
  BY <1>2, <1>4, <1>5
<1>7. QED
  BY <1>3, <1>6 DEF Numbered

\* The invariant gives what the runs check.
LEMMA StateBounds == StateIInv => StateInv
<1>1. SUFFICES ASSUME StateIInv PROVE StateInv
  OBVIOUS
<1>2. StateShape /\ Counted /\ Numbered /\ DiskInStep /\ Folded
  BY <1>1 DEF StateIInv
<1>3. \A row \in SavedRows : Few(row) => row \in States
  BY TriedFinite DEF SavedRows, States, Few
<1>4. state \in States /\ disk \subseteq States /\ found \subseteq States
  BY <1>2, <1>3 DEF StateShape, Counted
<1>5. held \in [Events -> States]
  BY <1>2, <1>3 DEF StateShape, Counted
<1>6. StateTypeOK
  BY <1>2, <1>4, <1>5 DEF StateTypeOK, StateShape
<1>7. Serial => Recoverable
  BY <1>2, LastPersisted DEF Recoverable, DiskInStep, NoneInHand
<1>8. QED
  BY <1>2, <1>6, <1>7 DEF StateInv, Folded

\* Nothing is folded yet.
LEMMA StateInitInv == StateInit => StateIInv
<1>1. SUFFICES ASSUME StateInit PROVE StateIInv
  OBVIOUS
<1>2. StateShape
  <2>1. live \in BOOLEAN /\ disk \subseteq SavedRows /\ found \subseteq SavedRows
    BY <1>1 DEF StateInit
  <2>2. again \in 0 .. MaxAgain
    BY <1>1, StateAssumption DEF StateInit
  <2>3. QED
    BY <1>1, <2>1, <2>2, FreshRow DEF StateInit, StateShape
<1>3. Counted
  BY <1>1, FreshRow DEF StateInit, Counted
<1>4. Numbered
  BY <1>1, FreshRow DEF StateInit, Numbered
<1>5. Busy = {}
  BY <1>1 DEF StateInit, Busy
<1>6. InHand
  BY <1>1, <1>5 DEF StateInit, InHand
<1>7. DiskInStep /\ Folded
  BY <1>1 DEF StateInit, DiskInStep, Folded, StateIsFold
<1>8. QED
  BY <1>2, <1>3, <1>4, <1>6, <1>7 DEF StateIInv
-----------------------------------------------------------------------------
\* An event is read when nothing else is under way, or when events overlap anyway.
LEMMA ReadKeeps == ASSUME NEW e \in Events, StateIInv, ReadState(e) PROVE StateIInv'
<1>1. StateShape /\ Counted /\ Numbered /\ InHand /\ DiskInStep /\ Folded
  BY DEF StateIInv
<1>2. /\ at[e] = "new" /\ ("overlap" \in mode \/ (Busy = {} /\ found = {}))
      /\ at' = [at EXCEPT ![e] = "read"] /\ held' = [held EXCEPT ![e] = state]
      /\ live' = TRUE /\ committed' = IF live THEN committed ELSE <<>>
      /\ UNCHANGED <<mode, state, disk, found, durable, again>>
  BY DEF ReadState, MayBegin, NoneInHand, BeginIfNone
<1>3. StateShape'
  BY <1>1, <1>2, FreshRow DEF StateShape
<1>4. Tried' = Tried
  BY <1>1, <1>2 DEF Tried, StateShape
<1>5. Counted'
  BY <1>1, <1>2, <1>4 DEF Counted, StateShape, Few
<1>6. Numbered'
  BY <1>1, <1>2 DEF Numbered, StateShape, Counts
<1>7. Busy' = Busy \union {e} /\ e \notin Busy
  BY <1>1, <1>2 DEF Busy, StateShape
<1>8. InHand'
  BY <1>1, <1>2, <1>7 DEF InHand, Serial, StateShape
<1>9. DiskInStep'
  BY <1>1, <1>2, <1>7 DEF DiskInStep, Serial
<1>10. Folded'
  BY <1>1, <1>2, FreshRow DEF Folded, StateIsFold, Serial, InHand
<1>11. QED
  BY <1>3, <1>5, <1>6, <1>8, <1>9, <1>10 DEF StateIInv

\* What was read is folded and becomes the state; one at a time, it is the state
\* that was read.
LEMMA ApplyKeeps == ASSUME NEW e \in Events, StateIInv, ApplyEvent(e) PROVE StateIInv'
<1>1. StateShape /\ Counted /\ Numbered /\ InHand /\ DiskInStep /\ Folded
  BY DEF StateIInv
<1> DEFINE s == Fold(held[e], e)
<1>2. /\ at[e] = "read" /\ at' = [at EXCEPT ![e] = "persist"]
      /\ held' = [held EXCEPT ![e] = s] /\ state' = s /\ committed' = Append(committed, e)
      /\ UNCHANGED <<mode, live, disk, found, durable, again>>
  BY <1>1 DEF ApplyEvent, StateShape
<1>3. /\ s.version = held[e].version + 1 /\ s.folded = Append(held[e].folded, e)
      /\ s \in SavedRows /\ held[e] \in SavedRows
  BY <1>1 DEF Fold, SavedRows, StateShape
<1> HIDE DEF s
<1>4. StateShape'
  BY <1>1, <1>2, <1>3 DEF StateShape
<1>5. Tried' = Tried \union {e} /\ e \notin Tried
  BY <1>1, <1>2 DEF Tried, StateShape
<1>6. Cardinality(Tried') = Cardinality(Tried) + 1 /\ Cardinality(Tried) \in Nat
  BY <1>5, TriedFinite
<1>7. ASSUME NEW row \in SavedRows, Few(row) PROVE row.version <= Cardinality(Tried')
  BY <1>6, <1>7 DEF SavedRows, Few
<1>8. s.version <= Cardinality(Tried')
  BY <1>1, <1>3, <1>6 DEF Counted, SavedRows, Few
<1>9. \A d \in Events : held'[d] = IF d = e THEN s ELSE held[d]
  BY <1>1, <1>2 DEF StateShape
<1>10. Counted'
  BY <1>1, <1>2, <1>7, <1>8, <1>9 DEF Counted, StateShape, Few
<1>11. s.version = Len(s.folded) /\ s.version > 0
  BY <1>1, <1>3 DEF Numbered, Counts, SavedRows
<1>12. Numbered'
  BY <1>1, <1>2, <1>9, <1>11 DEF Numbered, Counts, StateShape
<1>13. Busy' = Busy /\ e \in Busy
  BY <1>1, <1>2 DEF Busy, StateShape
<1>14. InHand'
  <2>1. Serial => \A d \in Busy : d = e
    BY <1>1, <1>13 DEF InHand
  <2>2. live
    BY <1>1, <1>13 DEF InHand
  <2>3. QED
    BY <1>1, <1>2, <1>9, <1>13, <2>1, <2>2 DEF InHand, Serial
<1>15. DiskInStep'
  BY <1>1, <1>2, <1>13 DEF DiskInStep, Serial
<1>16. Folded'
  BY <1>1, <1>2, <1>3, <1>13 DEF Folded, StateIsFold, Serial, InHand
<1>17. QED
  BY <1>4, <1>10, <1>12, <1>14, <1>15, <1>16 DEF StateIInv

\* What is written is the state, under its version.
LEMMA PersistKeeps == ASSUME NEW e \in Events, StateIInv, PersistSnapshot(e) PROVE StateIInv'
<1>1. StateShape /\ Counted /\ Numbered /\ InHand /\ DiskInStep /\ Folded
  BY DEF StateIInv
<1> DEFINE Saves == /\ disk' = {row \in disk : row.version # held[e].version} \union {held[e]}
                    /\ durable' = committed
<1>2. /\ at[e] = "persist" /\ at' = [at EXCEPT ![e] = "done"]
      /\ UNCHANGED <<mode, live, state, found, held, committed, again>>
      /\ Saves \/ ("fail" \in mode /\ UNCHANGED <<disk, durable>>)
  BY DEF PersistSnapshot
<1>3. held[e] \in SavedRows /\ held[e].version > 0
  BY <1>1, <1>2 DEF StateShape, Numbered
<1>4. StateShape'
  BY <1>1, <1>2, <1>3 DEF StateShape
<1>5. Tried' = Tried
  BY <1>1, <1>2 DEF Tried, StateShape
<1>6. Counted'
  BY <1>1, <1>2, <1>5 DEF Counted, Few
<1>7. \A d \in Events : at'[d] = "persist" => at[d] = "persist"
  BY <1>1, <1>2 DEF StateShape
<1>8. Numbered'
  <2>1. CASE UNCHANGED <<disk, durable>>
    BY <1>1, <1>2, <1>7, <2>1 DEF Numbered, Counts
  <2>2. CASE Saves
    <3>1. \A row \in disk' : row = held[e] \/ (row \in disk /\ row.version # held[e].version)
      BY <2>2
    <3>2. \A row, other \in disk' : row.version = other.version => row = other
      BY <1>1, <3>1 DEF Numbered
    <3>3. QED
      BY <1>1, <1>2, <1>3, <1>7, <3>1, <3>2 DEF Numbered, Counts
  <2>3. QED
    BY <1>2, <2>1, <2>2
<1>9. Busy' = Busy \ {e} /\ e \in Busy
  BY <1>1, <1>2 DEF Busy, StateShape
<1>10. InHand'
  <2>1. Serial => found = {}
    BY <1>1, <1>9 DEF InHand
  <2>2. QED
    BY <1>1, <1>2, <1>9, <2>1 DEF InHand, Serial
<1>11. DiskInStep'
  <2>1. CASE "fail" \in mode /\ UNCHANGED <<disk, durable>>
    BY <1>1, <1>2, <2>1 DEF DiskInStep, Serial
  <2>2. CASE Saves
    <3>1. Serial => held[e].folded = committed
      BY <1>1, <1>9 DEF InHand, Folded, StateIsFold
    <3>2. QED
      BY <1>2, <2>2, <3>1 DEF DiskInStep, Serial
  <2>3. QED
    BY <1>2, <2>1, <2>2
<1>12. Folded'
  BY <1>1, <1>2 DEF Folded, StateIsFold, Serial
<1>13. QED
  BY <1>4, <1>6, <1>8, <1>10, <1>11, <1>12 DEF StateIInv
-----------------------------------------------------------------------------
\* A reset empties the state, never the disk.
LEMMA ResetKeeps == ASSUME StateIInv, ResetState PROVE StateIInv'
<1>1. StateShape /\ Counted /\ Numbered /\ InHand /\ DiskInStep /\ Folded
  BY DEF StateIInv
<1>2. /\ "overlap" \in mode \/ (Busy = {} /\ found = {})
      /\ again < MaxAgain /\ again' = again + 1
      /\ live' = TRUE /\ state' = Fresh /\ committed' = <<>> /\ durable' = <<>>
      /\ UNCHANGED <<mode, disk, found, at, held>>
  BY DEF ResetState, MayBegin, NoneInHand, Again
<1>3. StateShape'
  BY <1>1, <1>2, FreshRow, StateAssumption DEF StateShape
<1>4. Tried' = Tried /\ Busy' = Busy
  BY <1>2 DEF Tried, Busy
<1>5. Counted'
  BY <1>1, <1>2, <1>4, FreshRow DEF Counted, Few
<1>6. Numbered'
  BY <1>1, <1>2, FreshRow DEF Numbered, Counts
<1>7. InHand'
  BY <1>1, <1>2, <1>4 DEF InHand, Serial
<1>8. DiskInStep' /\ Folded'
  BY <1>2, FreshRow DEF DiskInStep, Folded, StateIsFold
<1>9. QED
  BY <1>3, <1>5, <1>6, <1>7, <1>8 DEF StateIInv

\* After a crash nothing is under way, and the rows are as they were.
LEMMA CrashKeeps == ASSUME StateIInv, Crash PROVE StateIInv'
<1>1. StateShape /\ Counted /\ Numbered /\ InHand /\ DiskInStep /\ Folded
  BY DEF StateIInv
<1>2. /\ again < MaxAgain /\ again' = again + 1
      /\ live' = FALSE /\ state' = Fresh /\ found' = {}
      /\ at' = [e \in Events |-> IF e \in Busy THEN "done" ELSE at[e]]
      /\ committed' = durable /\ UNCHANGED <<mode, disk, held, durable>>
  BY DEF Crash, Again
<1>3. StateShape'
  <2>1. live' \in BOOLEAN /\ found' \subseteq SavedRows
    BY <1>2
  <2>2. at' \in [Events -> {"new", "read", "persist", "done"}]
    BY <1>1, <1>2 DEF StateShape
  <2>3. again' \in 0 .. MaxAgain
    BY <1>1, <1>2, StateAssumption DEF StateShape
  <2>4. QED
    BY <1>1, <1>2, <2>1, <2>2, <2>3, FreshRow DEF StateShape
<1>4. Tried \subseteq Tried' /\ Tried' \in SUBSET Events
  BY <1>1, <1>2 DEF Tried, Busy, StateShape
<1>5. /\ Cardinality(Tried) <= Cardinality(Tried') /\ Cardinality(Tried') \in Nat
      /\ Cardinality(Tried) \in Nat
  BY <1>4, TriedGrows, TriedFinite
<1>6. \A row \in SavedRows : Few(row) => row.version <= Cardinality(Tried')
  BY <1>5 DEF SavedRows, Few
<1>7. Counted'
  BY <1>1, <1>2, <1>6, FreshRow DEF Counted, StateShape, Few
<1>8. Busy' = {} /\ \A e \in Events : at'[e] # "persist"
  BY <1>1, <1>2 DEF Busy, StateShape
<1>9. Numbered'
  BY <1>1, <1>2, <1>8, FreshRow DEF Numbered, Counts
<1>10. InHand'
  BY <1>2, <1>8 DEF InHand
<1>11. DiskInStep' /\ Folded'
  BY <1>1, <1>2 DEF DiskInStep, Serial, Folded, StateIsFold
<1>12. QED
  BY <1>3, <1>7, <1>9, <1>10, <1>11 DEF StateIInv

\* A row is read when nothing else is under way, or when events overlap anyway.
LEMMA FindKeeps == ASSUME StateIInv, FindSnapshot PROVE StateIInv'
<1>1. StateShape /\ Counted /\ Numbered /\ InHand /\ DiskInStep /\ Folded
  BY DEF StateIInv
<1> DEFINE Finds == \E row \in disk : found' = {row} /\ UNCHANGED <<live, committed>>
           None == /\ disk = {} /\ UNCHANGED found
                   /\ live' = TRUE /\ committed' = IF live THEN committed ELSE <<>>
<1>2. /\ "overlap" \in mode \/ (Busy = {} /\ found = {})
      /\ Finds \/ None
      /\ UNCHANGED <<mode, state, disk, at, held, durable, again>>
  BY DEF FindSnapshot, MayBegin, NoneInHand, BeginIfNone
<1>3. StateShape'
  BY <1>1, <1>2, FreshRow DEF StateShape
<1>4. Tried' = Tried /\ Busy' = Busy
  BY <1>2 DEF Tried, Busy
<1>5. Counted'
  BY <1>1, <1>2, <1>4 DEF Counted, Few
<1>6. Numbered'
  BY <1>1, <1>2 DEF Numbered, Counts
<1>7. InHand'
  <2>1. CASE Finds
    BY <1>1, <1>2, <1>4, <2>1 DEF InHand, Serial
  <2>2. CASE None
    BY <1>1, <1>2, <1>4, <2>2 DEF InHand, Serial
  <2>3. QED
    BY <1>2, <2>1, <2>2
<1>8. DiskInStep'
  <2>1. CASE Finds
    BY <1>1, <1>2, <1>4, <2>1 DEF DiskInStep, Serial
  <2>2. CASE None
    BY <1>1, <1>2, <1>4, <2>2 DEF DiskInStep, Serial
  <2>3. QED
    BY <1>2, <2>1, <2>2
<1>9. Folded'
  BY <1>1, <1>2, FreshRow DEF Folded, StateIsFold, Serial, InHand
<1>10. QED
  BY <1>3, <1>5, <1>6, <1>7, <1>8, <1>9 DEF StateIInv

\* The interview of the row goes on, from the row.
LEMMA RestoreKeeps == ASSUME StateIInv, RestoreFromSnapshot PROVE StateIInv'
<1>1. StateShape /\ Counted /\ Numbered /\ InHand /\ DiskInStep /\ Folded
  BY DEF StateIInv
<1>2. PICK row \in found : state' = row /\ committed' = row.folded /\ durable' = row.folded
  BY DEF RestoreFromSnapshot
<1>3. live' = TRUE /\ found' = {} /\ UNCHANGED <<mode, disk, at, held, again>>
  BY DEF RestoreFromSnapshot
<1>4. row \in SavedRows /\ row.folded \in Seq(Events)
  BY <1>1, <1>2 DEF StateShape, SavedRows
<1>5. StateShape'
  BY <1>1, <1>2, <1>3, <1>4 DEF StateShape
<1>6. Tried' = Tried /\ Busy' = Busy
  BY <1>3 DEF Tried, Busy
<1>7. Counted'
  BY <1>1, <1>2, <1>3, <1>6 DEF Counted, Few
<1>8. Numbered'
  BY <1>1, <1>2, <1>3 DEF Numbered, Counts
<1>9. Serial => Busy = {} /\ row \in disk
  BY <1>1, <1>2 DEF InHand
<1>10. InHand'
  BY <1>1, <1>3, <1>6, <1>9 DEF InHand, Serial
<1>11. DiskInStep' /\ Folded'
  BY <1>2, <1>3, <1>9 DEF DiskInStep, Serial, Folded, StateIsFold
<1>12. QED
  BY <1>5, <1>7, <1>8, <1>10, <1>11 DEF StateIInv

\* While events, resets and restores come one at a time the state is the fold of the
\* events of its interview, and a restore puts back what was last persisted of it
\* unless rows of an older interview are ahead.
THEOREM StateInvariance == StateSpec => []StateInv
<1>1. StateInit => StateIInv
  BY StateInitInv
<1>2. StateIInv /\ [StateNext]_stateVars => StateIInv'
  <2>1. SUFFICES ASSUME StateIInv, [StateNext]_stateVars PROVE StateIInv'
    OBVIOUS
  <2>2. CASE StateNext
    BY <2>1, <2>2, ReadKeeps, ApplyKeeps, PersistKeeps, ResetKeeps, CrashKeeps, FindKeeps,
       RestoreKeeps
    DEF StateNext
  <2>3. CASE UNCHANGED stateVars
    BY <2>1, <2>3
    DEF stateVars, StateIInv, StateShape, Counted, Tried, Few, Numbered, Counts, InHand, Busy,
        DiskInStep, Serial, Folded, StateIsFold
  <2>4. QED
    BY <2>1, <2>2, <2>3
<1>3. StateIInv => StateInv
  BY StateBounds
<1>4. QED
  BY <1>1, <1>2, <1>3, PTL DEF StateSpec
-----------------------------------------------------------------------------
\* ConversationRecords

\* The states of a decision that was replaced.
Retired == {"SUPERSEDED", "UNKNOWN"}

\* What a thread holds.
Held ==
    [at : {"idle", "patch", "freeze", "note", "activate", "write", "retire", "look", "sync", "extract", "erase"},
     i : Items \union {0}, put : Updates, row : Rows, todo : SUBSET Sentences, seen : SUBSET Nat,
     gone : SUBSET Nat, policy : 0..MaxPolicy]

Sessions ==
    [status : {"UPCOMING", "ACTIVE", "ENDED", "deleted"}, policy : 0..MaxPolicy,
     checked : {NotYet} \union 0..MaxPolicy, packed : BOOLEAN]

\* Who erases has seen items, and who synchronises does it for one.
Fits(q) ==
    /\ q.at = "erase" => q.seen \subseteq Items
    /\ q.at = "sync" => q.i \in Items

\* The types; the threads can be counted.
RecordsShape ==
    /\ exposed \in Exposures /\ ops \in 0..MaxOps
    /\ session \in Sessions
    /\ pack \in {NotYet} \union 0..MaxPolicy
    /\ item \in [Items -> Rows]
    /\ threads \subseteq [n : Nat, i : Items, status : {"OPEN", "RESOLVED"}] /\ IsFiniteSet(threads)
    /\ tombs \subseteq Items /\ edited \subseteq Items /\ erased \subseteq Items
    /\ declared \subseteq Items /\ heirs \subseteq Items
    /\ died \in BOOLEAN
    /\ request \in [Requests -> Held]
    /\ \A r \in Requests : Fits(request[r])

\* What a request will write is confirmed, or leaves the item unknown.
PutsConfirmed ==
    \A r \in Requests : request[r].at \in {"write", "retire"} =>
        request[r].put.review \in Confirmed \/ request[r].put.state = "UNKNOWN"

\* The thread r is at a step.
At(r, where) == request[r].at = where

\* One request is served at a time.
Alone == \A r, s \in Requests : ~IdleThread(r) /\ ~IdleThread(s) => r = s

\* The items that superseded another.
Successors == Known \intersect heirs

\* q supersedes a decision, which is in the state now: it was agreed and nobody has
\* superseded it.
Superseding(q, now) ==
    LET o == q.put.old IN
    /\ q.i \in Known /\ item[q.i].state = "PROPOSED" /\ item[q.i].kind = "decision"
    /\ q.put.state = "AGREED" /\ q.put.review = "USER_CONFIRMED"
    /\ o \in Known /\ o # q.i /\ item[o].kind = "decision" /\ item[o].state = now
    /\ \A i \in Successors : item[i].old # o

\* q reviews an item: what it will write proposes and supersedes nothing, and revives
\* no decision that was replaced.
Reviewing(q) ==
    /\ q.i \in Known /\ q.put.old = 0
    /\ q.put.state \notin {"PROPOSED", "SUPERSEDED"}
    /\ item[q.i].kind = "decision" /\ item[q.i].state \in Retired => q.put.state \in Retired \union {Keep}

\* A decision was superseded by one other at most, and by one if it says so; neither is
\* proposed any more, so that none of it can happen again.
Lineage ==
    /\ heirs \subseteq Known
    /\ \A i \in Successors :
          /\ item[i].state # "PROPOSED"
          /\ item[i].old \in Known /\ item[item[i].old].kind = "decision"
          /\ item[item[i].old].state \in Retired
    /\ \A i, j \in Successors : item[i].old = item[j].old => i = j
    /\ \A r \in Requests : At(r, "retire") => Superseding(request[r], "AGREED")
    /\ \A r \in Requests : At(r, "write") => Reviewing(request[r]) \/ Superseding(request[r], "SUPERSEDED")
    /\ ~died => \A o \in Known \ declared : item[o].state = "SUPERSEDED" =>
          \/ \E i \in Successors : item[i].old = o
          \/ \E r \in Requests : At(r, "write") /\ request[r].put.old = o

\* Sentences are extracted once, before the session has ended; those left to extract
\* have no item.
Extraction ==
    ~(died /\ edited # {}) =>
        /\ \A i, j \in Known : item[i].from = item[j].from /\ i # j => item[i].from = Typed
        /\ \A r \in Requests : At(r, "extract") =>
              \A i \in Known : item[i].from \in request[r].todo => item[i].from = Typed
        /\ ~died /\ session.status \in {"UPCOMING", "ACTIVE"} /\ (\A r \in Requests : ~At(r, "extract")) =>
              \A i \in Known : item[i].from = Typed

\* Threads are numbered without gaps, which makes the next number new, and no question
\* has two.
ThreadsDistinct ==
    /\ \A t, u \in threads : t.n = u.n \/ t.i = u.i => t = u
    /\ session.status # "deleted" =>
          /\ {t.n : t \in threads} = 1 .. Cardinality({t.n : t \in threads})
          /\ \A t \in threads : t.i \in Known /\ item[t.i].kind = "question"

\* The thread of item i is open exactly if it is a confirmed question not settled.
Follows(i) ==
    (\E t \in threads : t.i = i /\ t.status = "OPEN") <=> item[i].kind = "question" /\ Unsettled(item[i])

\* Who synchronises holds the item as it is and the threads it has.
Syncing ==
    \A r \in Requests :
        /\ At(r, "look") => request[r].i \in Known
        /\ At(r, "sync") =>
              LET q == request[r] IN
              /\ q.i \in Known /\ item[q.i].kind = "question" /\ q.row = item[q.i]
              /\ q.seen = {t.n : t \in {u \in threads : u.i = q.i}}

\* Every thread follows its item, but for the item that is being synchronised.
Projection ==
    ~died => \A i \in Items :
        (\A r \in Requests : request[r].at \in {"look", "sync"} => request[r].i # i) => Follows(i)

\* Who deletes the session has seen all that is confirmed, and its threads.
Erasure ==
    /\ tombs = erased /\ (session.status # "deleted" => tombs = {})
    /\ \A r \in Requests : At(r, "erase") =>
          request[r].seen = ConfirmedItems /\ request[r].gone = ThreadsOf(ConfirmedItems)

\* The pack freezes the policy of a session that starts; before that there is none.
Policy ==
    /\ \A r \in Requests :
          /\ ~IdleThread(r) => session.status # "deleted"
          /\ At(r, "patch") => session.status = "UPCOMING"
          /\ At(r, "freeze") \/ At(r, "note") \/ At(r, "activate") => session.status \in {"UPCOMING", "ACTIVE"}
    /\ ~died =>
          /\ session.status = "ACTIVE" => pack = session.policy /\ session.packed
          /\ \A r \in Requests :
                /\ At(r, "note") => pack = session.policy
                /\ At(r, "activate") => pack = session.policy /\ session.packed
          /\ session.status = "UPCOMING" /\ pack # NotYet =>
                \E r \in Requests : At(r, "note") \/ At(r, "activate")

RecordsIInv ==
    /\ RecordsShape /\ PutsConfirmed /\ AgreedIsConfirmed
    /\ OneAtATime => /\ Alone /\ Lineage /\ Extraction
                     /\ ThreadsDistinct /\ Syncing /\ Projection /\ Erasure /\ Policy
-----------------------------------------------------------------------------
\* The store call of a thread.
Progress(r) ==
    \/ PatchSession(r) \/ FreezePack(r) \/ NotePack(r) \/ Activate(r) \/ RetireOld(r)
    \/ WriteItem(r) \/ LookForThread(r) \/ SyncThread(r) \/ ExtractItem(r) \/ SetEnded(r) \/ EraseSession(r)

\* A request that is served.
Served(r) ==
    \/ UpdateSession(r) \/ Preflight(r) \/ StartSession(r) \/ AddItem(r) \/ ReviewItem(r)
    \/ ResolveItem(r) \/ Supersede(r) \/ EndSession(r) \/ DeleteSession(r)

\* A step is a request served, a store call, or the end of the process.
LEMMA Steps ==
    ASSUME RecordsNext
    PROVE  (\E r \in Requests : Served(r)) \/ (\E r \in Requests : Progress(r)) \/ Die
BY DEF RecordsNext, Served, Progress

\* The candidate of a sentence is a row.
LEMMA CandidateRow ==
    ASSUME NEW s \in Sentences
    PROVE  /\ Candidate(s) \in Rows /\ Candidate(s).kind \in {"question", "decision"}
           /\ Candidate(s).from = s /\ Candidate(s).state = "PROPOSED"
           /\ Candidate(s).review = "AI_EXTRACTED" /\ Candidate(s).old = 0
BY DEF Candidate, Rows, Kinds, ItemStates, Reviews

\* What callers give is a row that was typed in, confirmed if it is agreed.
LEMMA GivenRow ==
    ASSUME NEW row \in Given
    PROVE  /\ row \in Rows /\ row.kind # "none" /\ row.from = Typed
           /\ row.state \in {"AGREED", "COMMITTED"} => row.review \in Confirmed
BY RecordsAssumption DEF Addable, Rows, Kinds

\* What a review will write to a row.
RowChange(was, put) ==
    /\ put \in Updates /\ put.old = 0
    /\ put.review \in Confirmed \/ put.state = "UNKNOWN"
    /\ put.state \notin {"PROPOSED", "SUPERSEDED"}
    /\ was.kind = "decision" /\ was.state \in Retired => put.state \in Retired \union {Keep}

LEMMA ReviewedRows ==
    ASSUME NEW row \in Rows,
           NEW put \in ConfirmPut(row) \union RejectPut(row) \union EditPut(row)
                         \union DonePut(row) \union ResolvePut(row)
    PROVE  RowChange(row, put)
<1>1. CASE put \in ConfirmPut(row)
  BY <1>1 DEF ConfirmPut, Update, Keep, RowChange, Updates, ItemStates, Reviews, Confirmed, Retired
<1>2. CASE put \in RejectPut(row)
  BY <1>2 DEF RejectPut, Update, Keep, RowChange, Updates, ItemStates, Reviews, Confirmed, Retired
<1>3. CASE put \in EditPut(row)
  BY <1>3 DEF EditPut, Update, Keep, RowChange, Updates, ItemStates, Reviews, Confirmed, Retired
<1>4. CASE put \in DonePut(row)
  BY <1>4 DEF DonePut, Update, Keep, RowChange, Updates, ItemStates, Reviews, Confirmed, Retired
<1>5. CASE put \in ResolvePut(row)
  BY <1>5 DEF ResolvePut, Update, Keep, RowChange, Updates, ItemStates, Reviews, Confirmed, Retired
<1>6. QED
  BY <1>1, <1>2, <1>3, <1>4, <1>5

\* A review that is served keeps what it will write.
ToWrite(i, new) == [Waiting EXCEPT !.at = "write", !.i = i, !.put = new]

LEMMA ReviewServed ==
    ASSUME RecordsShape, NEW r \in Requests, ReviewItem(r) \/ ResolveItem(r)
    PROVE  \E i \in Known, new \in Updates :
              /\ Goes(r, ToWrite(i, new)) /\ RowChange(item[i], new)
              /\ edited' \in {edited, edited \union {i}}
<1>1. \A i \in Known : item[i] \in Rows
  BY DEF Known, RecordsShape
<1>2. CASE ReviewItem(r)
  <2>1. PICK i \in Known, act \in {"CONFIRM", "EDIT", "REJECT", "DONE"} :
          /\ \E put \in CASE act = "CONFIRM" -> ConfirmPut(item[i]) [] act = "EDIT" -> EditPut(item[i])
                          [] act = "REJECT" -> RejectPut(item[i]) [] OTHER -> DonePut(item[i]) :
                Goes(r, ToWrite(i, put))
          /\ edited' = IF act = "EDIT" THEN edited \union {i} ELSE edited
    BY <1>2 DEF ReviewItem, ToWrite
  <2>2. PICK new \in ConfirmPut(item[i]) \union RejectPut(item[i]) \union EditPut(item[i])
                       \union DonePut(item[i]) \union ResolvePut(item[i]) : Goes(r, ToWrite(i, new))
    BY <2>1
  <2>3. RowChange(item[i], new)
    BY <1>1, <2>2, ReviewedRows
  <2>4. edited' \in {edited, edited \union {i}}
    BY <2>1
  <2>5. QED
    BY <2>2, <2>3, <2>4 DEF RowChange
<1>3. CASE ResolveItem(r)
  <2>1. PICK i \in Known : \E new \in ResolvePut(item[i]) : Goes(r, ToWrite(i, new))
    BY <1>3 DEF ResolveItem, ToWrite
  <2>2. PICK new \in ResolvePut(item[i]) : Goes(r, ToWrite(i, new))
    BY <2>1
  <2>3. RowChange(item[i], new)
    BY <1>1, <2>2, ReviewedRows
  <2>4. edited' \in {edited, edited \union {i}}
    BY <1>3 DEF ResolveItem, historyVars
  <2>5. QED
    BY <2>2, <2>3, <2>4 DEF RowChange
<1>4. QED
  BY <1>2, <1>3

\* A thread goes where it goes, and the others stay.
LEMMA Moves ==
    ASSUME RecordsShape, NEW r \in Requests, NEW h, Goes(r, h)
    PROVE  /\ request'[r] = h
           /\ \A s \in Requests : s # r => request'[s] = request[s]
           /\ h \in Held => request' \in [Requests -> Held]
BY DEF RecordsShape, Goes

\* A thread that waits holds nothing.
LEMMA WaitingHeld == Waiting \in Held /\ Waiting.at = "idle" /\ Fits(Waiting)
BY RecordsAssumption
DEF Waiting, Held, Fits, NoItem, Rows, Update, Updates, ItemStates, Reviews, Sentences

\* Items and thread numbers.
LEMMA Numbers ==
    /\ MaxItems \in Nat /\ MaxOps \in Nat /\ MaxPolicy \in Nat
    /\ Items \subseteq Nat \ {0} /\ IsFiniteSet(Items)
<1>1. MaxItems \in Nat /\ MaxOps \in Nat /\ MaxPolicy \in Nat
  BY RecordsAssumption
<1>2. IsFiniteSet(1..MaxItems)
  BY <1>1, FS_Interval
<1>3. QED
  BY <1>1, <1>2 DEF Items

\* The number of a new thread is new.
LEMMA FreshNumber ==
    ASSUME RecordsShape
    PROVE  /\ Cardinality({t.n : t \in threads}) \in Nat
           /\ FreshThread = Cardinality({t.n : t \in threads}) + 1 /\ FreshThread \in Nat \ {0}
<1>1. {t.n : t \in threads} \subseteq Nat /\ IsFiniteSet({t.n : t \in threads})
  <2>1. IsFiniteSet(threads)
    BY DEF RecordsShape
  <2>2. IsFiniteSet({t.n : t \in threads})
    <3> DEFINE f == [t \in threads |-> t.n]
    <3>1. f \in Surjection(threads, {t.n : t \in threads})
      BY DEF Surjection
    <3>2. QED
      BY <2>1, <3>1, FS_Surjection
  <2>3. QED
    BY <2>2 DEF RecordsShape
<1>2. QED
  BY <1>1, FS_CardinalityType DEF FreshThread

\* What the write of an item changes.
LEMMA WrittenRow ==
    ASSUME NEW was \in Rows, NEW put \in Updates
    PROVE  /\ Written(was, put) \in Rows
           /\ Written(was, put).kind = was.kind /\ Written(was, put).from = was.from
           /\ Written(was, put).review = put.review
           /\ Written(was, put).old = IF put.old = 0 THEN was.old ELSE put.old
           /\ Written(was, put).state = IF put.state = Keep THEN was.state ELSE put.state
<1> DEFINE old == IF put.old = 0 THEN was.old ELSE put.old
           now == IF put.state = Keep THEN was.state ELSE put.state
<1>1. Written(was, put) = [was EXCEPT !.state = now, !.review = put.review, !.old = old]
  BY DEF Written
<1>2. old \in Items \union {0} /\ now \in ItemStates /\ put.review \in Reviews
  BY DEF Rows, Updates
<1>3. QED
  BY <1>1, <1>2 DEF Rows

\* The retirement of a decision changes its state alone.
LEMMA RetiredRow ==
    ASSUME RecordsShape, NEW r \in Requests, RetireOld(r)
    PROVE  /\ item' \in [Items -> Rows]
           /\ \A i \in Items :
                 /\ i # request[r].put.old => item'[i] = item[i]
                 /\ item'[i] = item[i] \/ item'[i].state = "SUPERSEDED"
                 /\ item'[i].review = item[i].review /\ item'[i].kind = item[i].kind
                 /\ item'[i].from = item[i].from /\ item'[i].old = item[i].old
           /\ request[r].put.old \in Known => item'[request[r].put.old].state = "SUPERSEDED"
<1> DEFINE o == request[r].put.old
<1>1. CASE o \in Known
  <2>1. o \in Items /\ [item[o] EXCEPT !.state = "SUPERSEDED"] \in Rows
    BY <1>1 DEF Known, RecordsShape, Rows, ItemStates
  <2>2. item' = [item EXCEPT ![o] = [item[o] EXCEPT !.state = "SUPERSEDED"]]
    BY <1>1 DEF RetireOld
  <2>3. QED
    BY <1>1, <2>1, <2>2 DEF RecordsShape, Rows
<1>2. CASE o \notin Known
  BY <1>2 DEF RetireOld, RecordsShape
<1>3. QED
  BY <1>1, <1>2
-----------------------------------------------------------------------------
\* The types hold at the start.
LEMMA ShapeInit == RecordsInit => RecordsShape
<1>1. SUFFICES ASSUME RecordsInit PROVE RecordsShape
  OBVIOUS
<1>2. NoItem \in Rows
  BY DEF NoItem, Rows, ItemStates, Reviews, Sentences
<1>3. IsFiniteSet({})
  BY FS_EmptySet
<1>4. item \in [Items -> Rows] /\ request \in [Requests -> Held]
  BY <1>1, <1>2, WaitingHeld DEF RecordsInit
<1>5. ops \in 0..MaxOps /\ session \in Sessions
  BY <1>1, Numbers DEF RecordsInit, Sessions
<1>6. QED
  BY <1>1, <1>3, <1>4, <1>5, WaitingHeld DEF RecordsInit, RecordsShape

\* What a request that is served changes beside its thread: the session's preflight,
\* or a new item.
LEMMA ServedServes == ASSUME NEW r \in Requests, Served(r) PROVE Serve(r)
BY DEF Served, UpdateSession, Preflight, StartSession, AddItem, ReviewItem, ResolveItem,
   Supersede, EndSession, DeleteSession

LEMMA ServedShape ==
    ASSUME RecordsShape, NEW r \in Requests, Served(r)
    PROVE  RecordsShape'
<1>1. Waiting \in Held /\ Fits(Waiting) /\ Items \subseteq Nat
  BY WaitingHeld, Numbers
<1>2. ops' \in 0..MaxOps
  BY ServedServes, Numbers DEF Serve, RecordsShape
<1>3. SUFFICES ASSUME NEW h \in Held, Goes(r, h) \/ UNCHANGED request,
                      Fits(h),
                      session' \in Sessions,
                      item' \in [Items -> Rows], edited' \subseteq Items, declared' \subseteq Items,
                      UNCHANGED <<pack, threads, tombs, exposed, died, heirs, erased>>
               PROVE  RecordsShape'
  <2>1. CASE UpdateSession(r)
    <3> DEFINE h == [Waiting EXCEPT !.at = "patch", !.policy = session.policy + 1]
    <3>1. session.policy + 1 \in 0..MaxPolicy
      BY <2>1, Numbers DEF UpdateSession, RecordsShape, Sessions
    <3>2. h \in Held /\ Fits(h)
      BY <1>1, <3>1 DEF Held, Fits
    <3>3. QED
      BY <1>3, <2>1, <3>2 DEF UpdateSession, RecordsShape, historyVars
  <2>2. CASE Preflight(r)
    BY <1>1, <1>3, <2>2 DEF Preflight, RecordsShape, Sessions, historyVars
  <2>3. CASE StartSession(r)
    <3> DEFINE h == [Waiting EXCEPT !.at = "freeze"]
    <3>1. h \in Held /\ Fits(h)
      BY <1>1 DEF Held, Fits
    <3>2. QED
      BY <1>3, <2>3, <3>1 DEF StartSession, RecordsShape, historyVars
  <2>4. CASE AddItem(r)
    <3>1. PICK i \in Items, row \in Given :
            /\ item' = [item EXCEPT ![i] = row] /\ Goes(r, [Waiting EXCEPT !.at = "look", !.i = i])
            /\ declared' \in {declared, declared \union {i}}
      BY <2>4 DEF AddItem
    <3> DEFINE h == [Waiting EXCEPT !.at = "look", !.i = i]
    <3>2. h \in Held /\ Fits(h)
      BY <1>1 DEF Held, Fits
    <3>3. item' \in [Items -> Rows] /\ declared' \subseteq Items
      BY <3>1, GivenRow DEF RecordsShape
    <3>4. QED
      BY <1>3, <2>4, <3>1, <3>2, <3>3 DEF AddItem, RecordsShape, historyVars
  <2>5. CASE ReviewItem(r) \/ ResolveItem(r)
    <3>1. PICK i \in Known, new \in Updates :
            Goes(r, ToWrite(i, new)) /\ edited' \in {edited, edited \union {i}}
      BY <2>5, ReviewServed
    <3>2. i \in Items
      BY DEF Known
    <3>3. ToWrite(i, new) \in Held /\ Fits(ToWrite(i, new))
      BY <1>1, <3>2 DEF Held, Fits, ToWrite
    <3>4. edited' \subseteq Items
      BY <3>1, <3>2 DEF RecordsShape
    <3>5. QED
      BY <1>3, <2>5, <3>1, <3>3, <3>4 DEF ReviewItem, ResolveItem, RecordsShape, historyVars
  <2>6. CASE Supersede(r)
    <3>1. PICK i \in Known, old \in Known :
            Goes(r, [Waiting EXCEPT !.at = "retire", !.i = i, !.put = Update("AGREED", "USER_CONFIRMED", old)])
      BY <2>6 DEF Supersede
    <3> DEFINE put == Update("AGREED", "USER_CONFIRMED", old)
               h   == [Waiting EXCEPT !.at = "retire", !.i = i, !.put = put]
    <3>2. i \in Items /\ old \in Items
      BY DEF Known
    <3>3. put \in Updates
      BY <3>2 DEF Update, Updates, ItemStates, Reviews, Confirmed
    <3>4. h \in Held /\ Fits(h)
      BY <1>1, <3>2, <3>3 DEF Held, Fits
    <3>5. QED
      BY <1>3, <2>6, <3>1, <3>4 DEF Supersede, RecordsShape, historyVars
  <2>7. CASE EndSession(r)
    <3>1. CASE UNCHANGED request
      BY <1>1, <1>3, <2>7, <3>1 DEF EndSession, RecordsShape, historyVars
    <3>2. CASE ~UNCHANGED request
      <4>1. PICK todo \in {{}, IF pack = NotYet THEN {} ELSE Sentences \ Extracted} :
              Goes(r, [Waiting EXCEPT !.at = "extract", !.todo = todo])
        BY <2>7, <3>2 DEF EndSession
      <4> DEFINE h == [Waiting EXCEPT !.at = "extract", !.todo = todo]
      <4>2. todo \in SUBSET Sentences
        OBVIOUS
      <4>3. h \in Held /\ Fits(h)
        BY <1>1, <4>2 DEF Held, Fits
      <4>4. QED
        BY <1>3, <2>7, <4>1, <4>3 DEF EndSession, RecordsShape, historyVars
    <3>3. QED
      BY <3>1, <3>2
  <2>8. CASE DeleteSession(r)
    <3> DEFINE h == [Waiting EXCEPT !.at = "erase", !.seen = ConfirmedItems, !.gone = ThreadsOf(ConfirmedItems)]
    <3>1. ConfirmedItems \subseteq Items /\ ThreadsOf(ConfirmedItems) \subseteq Nat
      BY DEF ConfirmedItems, Known, ThreadsOf, RecordsShape
    <3>2. h \in Held /\ Fits(h)
      BY <1>1, <3>1 DEF Held, Fits
    <3>3. QED
      BY <1>3, <2>8, <3>1, <3>2 DEF DeleteSession, RecordsShape, historyVars
  <2>9. QED
    BY <2>1, <2>2, <2>3, <2>4, <2>5, <2>6, <2>7, <2>8 DEF Served
<1>4. request' \in [Requests -> Held]
  BY <1>3, Moves DEF RecordsShape
<1>5. \A s \in Requests : Fits(request'[s])
  BY <1>3, Moves DEF RecordsShape
<1>6. QED
  BY <1>2, <1>3, <1>4, <1>5 DEF RecordsShape

\* The threads a synchronisation leaves are threads, and finitely many.
LEMMA SyncedThreads ==
    ASSUME RecordsShape, NEW r \in Requests, SyncThread(r)
    PROVE  threads' \subseteq [n : Nat, i : Items, status : {"OPEN", "RESOLVED"}] /\ IsFiniteSet(threads')
<1> DEFINE q == request[r]
           status == IF Unsettled(q.row) THEN "OPEN" ELSE "RESOLVED"
           Set(t) == IF t.n = LatestThread(q.seen) THEN [t EXCEPT !.status = status] ELSE t
<1>1. \/ threads' = {Set(t) : t \in threads}
      \/ threads' = threads \union {[n |-> FreshThread, i |-> q.i, status |-> "OPEN"]}
      \/ threads' = threads
  BY DEF SyncThread
<1>2. CASE threads' = {Set(t) : t \in threads}
  <2> DEFINE f == [t \in threads |-> Set(t)]
  <2>1. f \in Surjection(threads, threads')
    BY <1>2 DEF Surjection
  <2>2. IsFiniteSet(threads')
    BY <2>1, FS_Surjection DEF RecordsShape
  <2>3. QED
    BY <1>2, <2>2 DEF RecordsShape
<1>3. CASE threads' = threads \union {[n |-> FreshThread, i |-> q.i, status |-> "OPEN"]}
  <2>1. q.i \in Items
    BY DEF SyncThread, Within, RecordsShape, Fits
  <2>2. IsFiniteSet(threads')
    BY <1>3, FS_AddElement DEF RecordsShape
  <2>3. [n |-> FreshThread, i |-> q.i, status |-> "OPEN"] \in [n : Nat, i : Items, status : {"OPEN", "RESOLVED"}]
    BY <2>1, FreshNumber
  <2>4. QED
    BY <1>3, <2>2, <2>3 DEF RecordsShape
<1>4. QED
  BY <1>1, <1>2, <1>3 DEF RecordsShape

\* The store calls keep the types.
LEMMA ProgressShape ==
    ASSUME RecordsShape, NEW r \in Requests, Progress(r)
    PROVE  RecordsShape'
<1>1. Waiting \in Held /\ Fits(Waiting) /\ request[r] \in Held
  BY WaitingHeld DEF RecordsShape
<1>2. ops' = ops /\ exposed' = exposed /\ died' = died /\ edited' = edited
  BY DEF Progress, PatchSession, FreezePack, NotePack, Activate, RetireOld, WriteItem, LookForThread, SyncThread,
     ExtractItem, SetEnded, EraseSession, Within, historyVars
<1>3. SUFFICES ASSUME NEW h \in Held, Goes(r, h), Fits(h),
                      session' \in Sessions,
                      pack' \in {NotYet} \union 0..MaxPolicy, item' \in [Items -> Rows],
                      threads' \subseteq [n : Nat, i : Items, status : {"OPEN", "RESOLVED"}],
                      IsFiniteSet(threads'), tombs' \subseteq Items, erased' \subseteq Items,
                      declared' \subseteq Items, heirs' \subseteq Items
               PROVE  RecordsShape'
  <2>1. CASE PatchSession(r) \/ Activate(r) \/ SetEnded(r)
    BY <1>1, <1>3, <2>1 DEF PatchSession, Activate, SetEnded, Within, Ends, RecordsShape, Sessions, Held, historyVars
  <2>2. CASE FreezePack(r) \/ NotePack(r)
    <3>1. pack' \in {NotYet} \union 0..MaxPolicy /\ session' \in Sessions
      BY <2>2 DEF FreezePack, NotePack, RecordsShape, Sessions
    <3> DEFINE h(where) == [request[r] EXCEPT !.at = where]
    <3>2. \A where \in {"note", "activate"} : h(where) \in Held /\ Fits(h(where))
      BY <1>1 DEF Held, Fits
    <3>3. Ends(r) \/ \E where \in {"note", "activate"} : Goes(r, h(where))
      BY <2>2 DEF FreezePack, NotePack
    <3> HIDE DEF h
    <3>4. QED
      BY <1>1, <1>3, <2>2, <3>1, <3>2, <3>3 DEF FreezePack, NotePack, Within, Ends, RecordsShape, historyVars
  <2>3. CASE RetireOld(r)
    <3>1. item' \in [Items -> Rows]
      BY <2>3, RetiredRow
    <3> DEFINE h == [request[r] EXCEPT !.at = "write"]
    <3>2. h \in Held /\ Fits(h)
      BY <1>1 DEF Held, Fits
    <3>3. QED
      BY <1>1, <1>3, <2>3, <3>1, <3>2 DEF RetireOld, Within, RecordsShape, historyVars
  <2>4. CASE WriteItem(r)
    <3>1. \A i \in Items : Written(item[i], request[r].put) \in Rows
      BY <1>1, WrittenRow DEF Held, RecordsShape
    <3>2. item' \in [Items -> Rows]
      BY <2>4, <3>1 DEF WriteItem, RecordsShape, Known
    <3> DEFINE h == [request[r] EXCEPT !.at = "look"]
    <3>3. h \in Held /\ Fits(h)
      BY <1>1 DEF Held, Fits
    <3>4. heirs' \subseteq Items
      BY <2>4 DEF WriteItem, RecordsShape, Known
    <3>5. QED
      BY <1>1, <1>3, <2>4, <3>2, <3>3, <3>4 DEF WriteItem, Ends, RecordsShape
  <2>5. CASE LookForThread(r)
    <3> DEFINE seen == {t.n : t \in {u \in threads : u.i = request[r].i}}
               h    == [request[r] EXCEPT !.at = "sync", !.row = item[request[r].i], !.seen = seen]
    <3>1. CASE request[r].i \in Known
      <4>1. item[request[r].i] \in Rows /\ seen \subseteq Nat
        BY <3>1 DEF Known, RecordsShape
      <4>2. h \in Held /\ Fits(h)
        BY <1>1, <3>1, <4>1 DEF Held, Fits, Known
      <4>3. QED
        BY <1>1, <1>3, <2>5, <4>2 DEF LookForThread, Within, Ends, RecordsShape, historyVars
    <3>2. CASE request[r].i \notin Known
      BY <1>1, <1>3, <2>5, <3>2 DEF LookForThread, Within, Ends, RecordsShape, historyVars
    <3>3. QED
      BY <3>1, <3>2
  <2>6. CASE SyncThread(r)
    <3>1. threads' \subseteq [n : Nat, i : Items, status : {"OPEN", "RESOLVED"}] /\ IsFiniteSet(threads')
      BY <2>6, SyncedThreads
    <3>2. QED
      BY <1>1, <1>3, <2>6, <3>1 DEF SyncThread, Within, Ends, RecordsShape, historyVars
  <2>7. CASE ExtractItem(r)
    <3>1. PICK s \in request[r].todo, i \in Items :
            /\ item' = [item EXCEPT ![i] = Candidate(s)]
            /\ Goes(r, [request[r] EXCEPT !.todo = @ \ {s}])
      BY <2>7 DEF ExtractItem
    <3>2. Candidate(s) \in Rows
      BY <1>1, CandidateRow DEF Held
    <3>3. item' \in [Items -> Rows]
      BY <3>1, <3>2 DEF RecordsShape
    <3> DEFINE h == [request[r] EXCEPT !.todo = @ \ {s}]
    <3>4. h \in Held /\ Fits(h)
      BY <1>1, <2>7 DEF Held, Fits, ExtractItem, Within
    <3>5. QED
      BY <1>1, <1>3, <2>7, <3>1, <3>3, <3>4 DEF ExtractItem, Within, RecordsShape, historyVars
  <2>8. CASE EraseSession(r)
    <3>1. item' \in [Items -> Rows]
      BY <2>8 DEF EraseSession, NoItem, Rows, ItemStates, Reviews, Sentences
    <3>2. IsFiniteSet(threads') /\ threads' \subseteq threads
      BY <2>8, FS_Subset DEF EraseSession, RecordsShape
    <3>3. tombs' \subseteq Items /\ erased' \subseteq Items /\ declared' = {} /\ heirs' = {}
      BY <2>8 DEF EraseSession, RecordsShape, Fits, ConfirmedItems, Known
    <3>4. session' \in Sessions
      BY <2>8 DEF EraseSession, RecordsShape, Sessions
    <3>5. QED
      BY <1>1, <1>3, <2>8, <3>1, <3>2, <3>3, <3>4 DEF EraseSession, Ends, RecordsShape
  <2>9. QED
    BY <2>1, <2>2, <2>3, <2>4, <2>5, <2>6, <2>7, <2>8 DEF Progress
<1>4. request' \in [Requests -> Held]
  BY <1>3, Moves
<1>5. \A s \in Requests : Fits(request'[s])
  BY <1>3, Moves DEF RecordsShape
<1>6. QED
  BY <1>2, <1>3, <1>4, <1>5 DEF RecordsShape

\* The end of the process keeps the types.
LEMMA DieShape == ASSUME RecordsShape, Die PROVE RecordsShape'
<1>1. ops' \in 0..MaxOps
  BY Numbers DEF Die, RecordsShape
<1>2. request' \in [Requests -> Held] /\ \A r \in Requests : Fits(request'[r])
  BY WaitingHeld DEF Die
<1>3. QED
  BY <1>1, <1>2 DEF Die, RecordsShape
-----------------------------------------------------------------------------
\* Where the thread of a request that is served is afterwards; the others stay.
LEMMA ServedMoves ==
    ASSUME RecordsShape, NEW r \in Requests
    PROVE  /\ UpdateSession(r) => At(r, "patch")'
           /\ StartSession(r) => At(r, "freeze")'
           /\ AddItem(r) => At(r, "look")'
           /\ ReviewItem(r) \/ ResolveItem(r) => At(r, "write")'
           /\ Supersede(r) => At(r, "retire")'
           /\ EndSession(r) => At(r, "extract")' \/ request' = request
           /\ DeleteSession(r) => At(r, "erase")'
           /\ Preflight(r) => request' = request
           /\ Served(r) => \A s \in Requests : s # r => request'[s] = request[s]
<1>1. r \in DOMAIN request /\ request \in [Requests -> Held] /\ Waiting \in Held
  BY WaitingHeld DEF RecordsShape
<1>3. /\ UpdateSession(r) => At(r, "patch")'
      /\ StartSession(r) => At(r, "freeze")'
  <2>1. [Waiting EXCEPT !.at = "patch", !.policy = session.policy + 1].at = "patch"
    BY DEF Waiting
  <2>2. [Waiting EXCEPT !.at = "freeze"].at = "freeze"
    BY DEF Waiting
  <2>3. QED
    BY <1>1, <2>1, <2>2 DEF UpdateSession, StartSession, Goes, At
<1>4. AddItem(r) => At(r, "look")'
  BY <1>1 DEF AddItem, Goes, At, Held
<1>5. ReviewItem(r) \/ ResolveItem(r) => At(r, "write")'
  <2>1. \A i \in Known, new \in Updates : ToWrite(i, new).at = "write"
    BY DEF ToWrite, Waiting
  <2>2. QED
    BY <1>1, <2>1, ReviewServed DEF Goes, At
<1>6. Supersede(r) => At(r, "retire")'
  BY <1>1 DEF Supersede, Goes, At, Held
<1>7. EndSession(r) => At(r, "extract")' \/ request' = request
  <2>1. \A todo : [Waiting EXCEPT !.at = "extract", !.todo = todo].at = "extract"
    BY DEF Waiting
  <2>2. QED
    BY <1>1, <2>1 DEF EndSession, Goes, At
<1>8. DeleteSession(r) => At(r, "erase")'
  BY <1>1 DEF DeleteSession, Goes, At, Held
<1>9. Served(r) => (\E h : Goes(r, h)) \/ request' = request
  BY DEF Served, UpdateSession, Preflight, StartSession, AddItem, ReviewItem, ResolveItem, Supersede,
     EndSession, DeleteSession
<1>10. Served(r) => \A s \in Requests : s # r => request'[s] = request[s]
  BY <1>1, <1>9 DEF Goes
<1>11. Preflight(r) => request' = request
  BY DEF Preflight
<1>12. QED
  BY <1>3, <1>4, <1>5, <1>6, <1>7, <1>8, <1>10, <1>11

\* Where the thread of a store call comes from and goes; the others stay.
LEMMA ProgressMoves ==
    ASSUME RecordsShape, NEW r \in Requests
    PROVE  /\ PatchSession(r) => At(r, "patch") /\ At(r, "idle")'
           /\ FreezePack(r) => At(r, "freeze") /\ (At(r, "idle")' \/ At(r, "note")' \/ At(r, "activate")')
           /\ NotePack(r) => At(r, "note") /\ At(r, "activate")'
           /\ Activate(r) => At(r, "activate") /\ At(r, "idle")'
           /\ RetireOld(r) => /\ At(r, "retire") /\ At(r, "write")'
                              /\ request'[r].put = request[r].put /\ request'[r].i = request[r].i
           /\ WriteItem(r) => /\ At(r, "write") /\ (At(r, "idle")' \/ At(r, "look")')
                              /\ At(r, "look")' => request'[r].i = request[r].i
           /\ LookForThread(r) => /\ At(r, "look") /\ (At(r, "idle")' \/ At(r, "sync")')
                                  /\ At(r, "sync")' => request'[r].i = request[r].i
           /\ SyncThread(r) => At(r, "sync") /\ At(r, "idle")'
           /\ ExtractItem(r) => At(r, "extract") /\ At(r, "extract")'
           /\ SetEnded(r) => At(r, "extract") /\ At(r, "idle")'
           /\ EraseSession(r) => At(r, "erase") /\ At(r, "idle")'
           /\ Progress(r) => ~IdleThread(r) /\ \A s \in Requests : s # r => request'[s] = request[s]
<1>1. /\ r \in DOMAIN request /\ request \in [Requests -> Held] /\ request[r] \in Held
      /\ Waiting \in Held /\ Waiting.at = "idle"
  BY WaitingHeld DEF RecordsShape
<1>2. /\ PatchSession(r) => At(r, "patch") /\ At(r, "idle")'
      /\ Activate(r) => At(r, "activate") /\ At(r, "idle")'
      /\ SyncThread(r) => At(r, "sync") /\ At(r, "idle")'
      /\ SetEnded(r) => At(r, "extract") /\ At(r, "idle")'
      /\ EraseSession(r) => At(r, "erase") /\ At(r, "idle")'
  BY <1>1 DEF PatchSession, Activate, SyncThread, SetEnded, EraseSession, Within, Ends, Goes, At
<1>3. /\ FreezePack(r) => At(r, "freeze") /\ (At(r, "idle")' \/ At(r, "note")' \/ At(r, "activate")')
      /\ NotePack(r) => At(r, "note") /\ At(r, "activate")'
  BY <1>1 DEF FreezePack, NotePack, Within, Ends, Goes, At, Held
<1>4. RetireOld(r) => /\ At(r, "retire") /\ At(r, "write")'
                      /\ request'[r].put = request[r].put /\ request'[r].i = request[r].i
  BY <1>1 DEF RetireOld, Within, Goes, At, Held
<1>5. WriteItem(r) => /\ At(r, "write") /\ (At(r, "idle")' \/ At(r, "look")')
                      /\ At(r, "look")' => request'[r].i = request[r].i
  BY <1>1 DEF WriteItem, Within, Ends, Goes, At, Held
<1>6. LookForThread(r) => /\ At(r, "look") /\ (At(r, "idle")' \/ At(r, "sync")')
                          /\ At(r, "sync")' => request'[r].i = request[r].i
  <2>1. CASE request'[r] = Waiting
    BY <1>1, <2>1 DEF LookForThread, Within, At
  <2>2. CASE \E row, seen : request'[r] = [request[r] EXCEPT !.at = "sync", !.row = row, !.seen = seen]
    <3>1. request'[r].at = "sync" /\ request'[r].i = request[r].i
      BY <1>1, <2>2 DEF Held
    <3>2. QED
      BY <3>1 DEF LookForThread, Within, At
  <2>3. LookForThread(r) => \/ request'[r] = Waiting
                            \/ \E row, seen :
                                 request'[r] = [request[r] EXCEPT !.at = "sync", !.row = row, !.seen = seen]
    BY <1>1 DEF LookForThread, Ends, Goes
  <2>4. QED
    BY <2>1, <2>2, <2>3
<1>7. ExtractItem(r) => At(r, "extract") /\ At(r, "extract")'
  BY <1>1 DEF ExtractItem, Within, Goes, At, Held
<1>8. Progress(r) => \E h : Goes(r, h)
  BY DEF Progress, PatchSession, FreezePack, NotePack, Activate, RetireOld, WriteItem, LookForThread,
     SyncThread, ExtractItem, SetEnded, EraseSession, Ends
<1>9. Progress(r) => ~IdleThread(r)
  BY <1>2, <1>3, <1>4, <1>5, <1>6, <1>7 DEF Progress, At, IdleThread
<1>10. Progress(r) => \A s \in Requests : s # r => request'[s] = request[s]
  BY <1>1, <1>8 DEF Goes
<1>11. QED
  BY <1>2, <1>3, <1>4, <1>5, <1>6, <1>7, <1>9, <1>10

\* When the process dies every thread is idle, and the store stays.
LEMMA DieMoves ==
    ASSUME Die
    PROVE  /\ \A r \in Requests : At(r, "idle")' /\ IdleThread(r)'
           /\ died' = TRUE
           /\ UNCHANGED <<session, pack, item, threads, tombs, exposed, edited, declared, heirs, erased>>
BY WaitingHeld DEF Die, At, IdleThread

\* Requests are served one at a time: the others are idle, before and after.
LEMMA OthersIdle ==
    ASSUME RecordsShape, OneAtATime, Alone, NEW r \in Requests, Served(r) \/ Progress(r)
    PROVE  \A s \in Requests : s # r => IdleThread(s) /\ request'[s] = request[s]
<1>1. CASE Served(r)
  BY <1>1, ServedServes, ServedMoves DEF Serve, OneAtATime
<1>2. CASE Progress(r)
  BY <1>2, ProgressMoves DEF Alone
<1>3. QED
  BY <1>1, <1>2

\* One request is served at a time.
LEMMA AloneStep ==
    ASSUME RecordsShape, OneAtATime, Alone, RecordsNext
    PROVE  Alone'
<1>1. CASE Die
  BY <1>1, DieMoves DEF Alone
<1>2. ASSUME NEW r \in Requests, Served(r) \/ Progress(r) PROVE Alone'
  BY <1>2, OthersIdle DEF Alone, IdleThread
<1>3. QED
  BY <1>1, <1>2, Steps
-----------------------------------------------------------------------------
\* What is agreed was confirmed, in the items and in what will be written.
LEMMA TruthStep ==
    ASSUME RecordsShape, PutsConfirmed, AgreedIsConfirmed, RecordsNext
    PROVE  PutsConfirmed' /\ AgreedIsConfirmed'
<1>1. CASE Die
  BY <1>1, DieMoves DEF PutsConfirmed, AgreedIsConfirmed, Known, At
<1>2. ASSUME NEW r \in Requests, Served(r) PROVE PutsConfirmed' /\ AgreedIsConfirmed'
  <2>1. CASE UpdateSession(r) \/ Preflight(r) \/ StartSession(r) \/ EndSession(r) \/ DeleteSession(r)
    <3>1. item' = item /\ declared' = declared
      BY <2>1 DEF UpdateSession, Preflight, StartSession, EndSession, DeleteSession, historyVars
    <3>2. \A s \in Requests : request'[s] = request[s] \/ request'[s].at \notin {"write", "retire"}
      BY <1>2, <2>1, ServedMoves DEF At
    <3>3. QED
      BY <3>1, <3>2 DEF PutsConfirmed, AgreedIsConfirmed, Known
  <2>2. CASE AddItem(r)
    <3>1. \A s \in Requests : request'[s] = request[s] \/ request'[s].at \notin {"write", "retire"}
      BY <1>2, <2>2, ServedMoves DEF At
    <3>2. PICK i \in Items, row \in Given :
            /\ item' = [item EXCEPT ![i] = row]
            /\ declared' = IF row.state \in {"DONE", "SUPERSEDED"} THEN declared \union {i} ELSE declared
      BY <2>2 DEF AddItem
    <3>3. QED
      BY <3>1, <3>2, GivenRow DEF PutsConfirmed, AgreedIsConfirmed, Known, RecordsShape
  <2>3. CASE ReviewItem(r) \/ ResolveItem(r)
    <3>1. item' = item /\ declared' = declared
      BY <2>3 DEF ReviewItem, ResolveItem, historyVars
    <3>2. PICK i \in Known, new \in Updates : Goes(r, ToWrite(i, new)) /\ RowChange(item[i], new)
      BY <2>3, ReviewServed
    <3>3. ToWrite(i, new).put = new
      BY DEF ToWrite, Waiting
    <3>4. QED
      BY <3>1, <3>2, <3>3, Moves DEF PutsConfirmed, AgreedIsConfirmed, Known, RowChange
  <2>4. CASE Supersede(r)
    <3>1. PICK i \in Known, old \in Known :
            Goes(r, [Waiting EXCEPT !.at = "retire", !.i = i, !.put = Update("AGREED", "USER_CONFIRMED", old)])
      BY <2>4 DEF Supersede
    <3> DEFINE put == Update("AGREED", "USER_CONFIRMED", old)
               h   == [Waiting EXCEPT !.at = "retire", !.i = i, !.put = put]
    <3>2. h.put.review = "USER_CONFIRMED"
      BY DEF Waiting, Update
    <3>3. request'[r].put.review = "USER_CONFIRMED"
      BY <3>1, <3>2, Moves
    <3>4. item' = item /\ declared' = declared
      BY <2>4 DEF Supersede, historyVars
    <3>5. QED
      BY <1>2, <3>3, <3>4, ServedMoves DEF PutsConfirmed, AgreedIsConfirmed, Known, Confirmed
  <2>5. QED
    BY <1>2, <2>1, <2>2, <2>3, <2>4 DEF Served
<1>3. ASSUME NEW r \in Requests, Progress(r) PROVE PutsConfirmed' /\ AgreedIsConfirmed'
  <2>1. PutsConfirmed'
    BY <1>3, ProgressMoves DEF Progress, PutsConfirmed, At
  <2>2. CASE item' = item /\ declared' = declared
    BY <2>1, <2>2 DEF AgreedIsConfirmed, Known
  <2>3. CASE RetireOld(r)
    <3>1. /\ \A i \in Items : /\ item'[i] = item[i] \/ item'[i].state = "SUPERSEDED"
                              /\ item'[i].kind = item[i].kind
          /\ declared' = declared
      BY <2>3, RetiredRow DEF RetireOld, Within, historyVars
    <3>2. QED
      BY <2>1, <3>1 DEF AgreedIsConfirmed, Known
  <2>4. CASE WriteItem(r)
    <3> DEFINE q == request[r]
    <3>1. CASE q.i \in Known
      <4>1. /\ item' = [item EXCEPT ![q.i] = Written(item[q.i], q.put)] /\ q.at = "write"
            /\ declared' = declared
        BY <2>4, <3>1 DEF WriteItem
      <4>2. item[q.i] \in Rows /\ q.put \in Updates /\ q.i \in Items
        BY <3>1 DEF RecordsShape, Held, Known
      <4>3. item'[q.i] = Written(item[q.i], q.put) /\ \A i \in Items : i # q.i => item'[i] = item[i]
        BY <4>1, <4>2 DEF RecordsShape
      <4>4. item'[q.i].review \in Confirmed \/ item'[q.i].state = "UNKNOWN"
        BY <4>1, <4>2, <4>3, WrittenRow DEF PutsConfirmed, Keep
      <4>5. QED
        BY <2>1, <4>1, <4>3, <4>4 DEF AgreedIsConfirmed, Known
    <3>2. CASE q.i \notin Known
      BY <2>1, <2>2, <2>4, <3>2 DEF WriteItem
    <3>3. QED
      BY <3>1, <3>2
  <2>5. CASE ExtractItem(r)
    <3>1. PICK s \in request[r].todo, i \in Items :
            item' = [item EXCEPT ![i] = Candidate(s)] /\ declared' = declared
      BY <2>5 DEF ExtractItem, Within, historyVars
    <3>2. Candidate(s).state = "PROPOSED"
      BY DEF Candidate
    <3>3. QED
      BY <2>1, <3>1, <3>2 DEF AgreedIsConfirmed, Known, RecordsShape
  <2>6. CASE EraseSession(r)
    BY <2>1, <2>6 DEF EraseSession, AgreedIsConfirmed, Known, NoItem
  <2>7. QED
    BY <1>3, <2>2, <2>3, <2>4, <2>5, <2>6
    DEF Progress, PatchSession, FreezePack, NotePack, Activate, LookForThread, SyncThread, SetEnded, Within,
        historyVars
<1>4. QED
  BY <1>1, <1>2, <1>3, Steps
-----------------------------------------------------------------------------
\* While a request is served alone, what its arrival and the rest of its steps leave.
LEMMA ServedAlone ==
    ASSUME RecordsShape, OneAtATime, NEW r \in Requests, Served(r)
    PROVE  /\ \A s \in Requests : IdleThread(s) /\ (s # r => IdleThread(s)')
           /\ session.status # "deleted" /\ died' = died /\ exposed' = exposed /\ pack' = pack
           /\ threads' = threads /\ tombs' = tombs /\ erased' = erased /\ heirs' = heirs
           /\ ~AddItem(r) => item' = item /\ declared' = declared
           /\ ~Preflight(r) => session' = session
           /\ session'.status = session.status /\ session'.policy = session.policy
           /\ session'.packed = session.packed
<1>1. /\ died' = died /\ exposed' = exposed /\ pack' = pack
      /\ threads' = threads /\ tombs' = tombs /\ erased' = erased /\ heirs' = heirs
  BY DEF Served, UpdateSession, Preflight, StartSession, AddItem, ReviewItem, ResolveItem, Supersede,
     EndSession, DeleteSession, historyVars
<1>2. (~AddItem(r) => item' = item /\ declared' = declared) /\ (~Preflight(r) => session' = session)
  BY DEF Served, UpdateSession, Preflight, StartSession, AddItem, ReviewItem, ResolveItem, Supersede,
     EndSession, DeleteSession, historyVars
<1>3. /\ session'.status = session.status /\ session'.policy = session.policy
      /\ session'.packed = session.packed
  BY <1>2 DEF Preflight, RecordsShape, Sessions
<1>4. (\A s \in Requests : IdleThread(s)) /\ session.status # "deleted"
  BY ServedServes DEF Serve, OneAtATime
<1>5. QED
  BY <1>1, <1>2, <1>3, <1>4, ServedMoves DEF IdleThread

\* The same of its store calls.
LEMMA ProgressAlone ==
    ASSUME RecordsShape, OneAtATime, Alone, NEW r \in Requests, Progress(r)
    PROVE  /\ \A s \in Requests : s # r => IdleThread(s) /\ IdleThread(s)'
           /\ ~IdleThread(r) /\ died' = died /\ exposed' = exposed /\ edited' = edited
<1>1. \A s \in Requests : s # r => IdleThread(s) /\ IdleThread(s)'
  BY OthersIdle DEF IdleThread
<1>2. QED
  BY <1>1, ProgressMoves
  DEF Progress, PatchSession, FreezePack, NotePack, Activate, RetireOld, WriteItem, LookForThread,
      SyncThread, ExtractItem, SetEnded, EraseSession, Within, historyVars

\* An active session is under the policy of its pack.
LEMMA PolicyStep ==
    ASSUME RecordsShape, OneAtATime, Alone, Policy, RecordsNext
    PROVE  Policy'
<1>1. CASE Die
  BY <1>1, DieMoves DEF Policy, At, IdleThread
<1>2. ASSUME NEW r \in Requests, Served(r) PROVE Policy'
  <2>1. /\ \A s \in Requests : IdleThread(s) /\ (s # r => IdleThread(s)')
        /\ session.status # "deleted" /\ died' = died /\ pack' = pack
        /\ session'.status = session.status /\ session'.policy = session.policy
        /\ session'.packed = session.packed
    BY <1>2, ServedAlone
  <2>2. ~died => /\ session.status = "ACTIVE" => pack = session.policy /\ session.packed
                 /\ session.status = "UPCOMING" => pack = NotYet
    BY <2>1 DEF Policy, At, IdleThread
  <2>3. /\ At(r, "patch")' => session.status = "UPCOMING"
        /\ At(r, "freeze")' => session.status \in {"UPCOMING", "ACTIVE"}
        /\ ~At(r, "activate")' /\ ~At(r, "note")'
    BY <1>2, <2>1, ServedMoves
    DEF Served, UpdateSession, StartSession, RecordsShape, Sessions, At, IdleThread
  <2>4. QED
    BY <2>1, <2>2, <2>3 DEF Policy, At, IdleThread
<1>3. ASSUME NEW r \in Requests, Progress(r) PROVE Policy'
  <2>1. /\ \A s \in Requests : s # r => IdleThread(s) /\ IdleThread(s)'
        /\ ~IdleThread(r) /\ died' = died
    BY <1>3, ProgressAlone
  <2>2. session.status # "deleted"
    BY <2>1 DEF Policy
  <2>3. CASE PatchSession(r)
    <3>1. At(r, "patch") /\ At(r, "idle")'
      BY <2>3, ProgressMoves
    <3>2. session.status = "UPCOMING" /\ session'.status = session.status /\ pack' = pack
      BY <2>2, <2>3, <3>1 DEF Policy, PatchSession, RecordsShape, Sessions
    <3>3. ~died => pack = NotYet
      BY <2>1, <3>1, <3>2 DEF Policy, At, IdleThread
    <3>4. QED
      BY <2>1, <3>1, <3>2, <3>3 DEF Policy, At, IdleThread
  <2>4. CASE FreezePack(r)
    <3>1. At(r, "freeze") /\ session' = session /\ pack' = IF pack = NotYet THEN session.policy ELSE pack
      BY <2>2, <2>4, ProgressMoves DEF FreezePack
    <3>2. IF pack = NotYet THEN At(r, "note")' ELSE At(r, "activate")'
      BY <2>2, <2>4 DEF FreezePack, Goes, At, RecordsShape, Held
    <3>3. session.status \in {"UPCOMING", "ACTIVE"}
      BY <3>1 DEF Policy
    <3>4. ~died => pack' = session.policy /\ (pack # NotYet => session.packed)
      BY <2>1, <3>1, <3>3 DEF Policy, At, IdleThread
    <3>5. \A s \in Requests : s # r => ~At(s, "patch")' /\ ~At(s, "freeze")' /\ ~At(s, "note")' /\ ~At(s, "activate")'
      BY <2>1 DEF At, IdleThread
    <3>6. CASE pack = NotYet
      <4>1. At(r, "note")' /\ ~At(r, "patch")' /\ ~At(r, "freeze")' /\ ~At(r, "activate")'
        BY <3>2, <3>6 DEF At
      <4>2. ~died => session.status # "ACTIVE"
        <5>1. NotYet # session.policy
          BY Numbers DEF RecordsShape, Sessions, NotYet
        <5>2. QED
          BY <3>6, <5>1 DEF Policy
      <4>3. QED
        BY <2>1, <2>2, <3>1, <3>3, <3>4, <3>5, <4>1, <4>2 DEF Policy
    <3>7. CASE pack # NotYet
      <4>1. At(r, "activate")' /\ ~At(r, "patch")' /\ ~At(r, "freeze")' /\ ~At(r, "note")'
        BY <3>2, <3>7 DEF At
      <4>2. QED
        BY <2>1, <2>2, <3>1, <3>3, <3>4, <3>5, <3>7, <4>1 DEF Policy
    <3>8. QED
      BY <3>6, <3>7
  <2>10. CASE NotePack(r)
    <3>1. At(r, "note") /\ At(r, "activate")' /\ pack' = pack
      BY <2>10, ProgressMoves DEF NotePack
    <3>2. session'.status = session.status /\ session'.policy = session.policy /\ session'.packed
      BY <2>2, <2>10 DEF NotePack, RecordsShape, Sessions
    <3>3. session.status \in {"UPCOMING", "ACTIVE"} /\ (~died => pack = session.policy)
      BY <3>1 DEF Policy
    <3>4. QED
      BY <2>1, <2>2, <3>1, <3>2, <3>3 DEF Policy, At, IdleThread
  <2>5. CASE Activate(r)
    <3>1. At(r, "activate") /\ At(r, "idle")' /\ pack' = pack
      BY <2>5, ProgressMoves DEF Activate
    <3>2. /\ session'.status = "ACTIVE" /\ session'.policy = session.policy
          /\ session'.packed = session.packed
      BY <2>2, <2>5 DEF Activate, RecordsShape, Sessions
    <3>3. QED
      BY <2>1, <3>1, <3>2 DEF Policy, At, IdleThread
  <2>6. CASE SetEnded(r)
    <3>1. At(r, "idle")' /\ pack' = pack
      BY <2>6, ProgressMoves DEF SetEnded
    <3>2. session'.status = "ENDED"
      BY <2>2, <2>6 DEF SetEnded, RecordsShape, Sessions
    <3>3. QED
      BY <2>1, <3>1, <3>2 DEF Policy, At, IdleThread
  <2>7. CASE EraseSession(r)
    <3>1. At(r, "idle")' /\ session'.status = "deleted"
      BY <2>7, ProgressMoves DEF EraseSession, RecordsShape, Sessions
    <3>2. QED
      BY <2>1, <3>1 DEF Policy, At, IdleThread
  <2>8. CASE RetireOld(r) \/ WriteItem(r) \/ LookForThread(r) \/ SyncThread(r) \/ ExtractItem(r)
    <3>1. session' = session /\ pack' = pack
      BY <2>8 DEF RetireOld, WriteItem, LookForThread, SyncThread, ExtractItem
    <3>2. /\ request'[r].at \notin {"patch", "freeze", "note", "activate"}
          /\ request[r].at \notin {"note", "activate"}
      BY <2>8, ProgressMoves DEF At
    <3>3. QED
      BY <2>1, <2>2, <3>1, <3>2 DEF Policy, At, IdleThread
  <2>9. QED
    BY <1>3, <2>3, <2>4, <2>5, <2>6, <2>7, <2>8, <2>10 DEF Progress
<1>4. QED
  BY <1>1, <1>2, <1>3, Steps
-----------------------------------------------------------------------------
\* The tombstones are of the items that were confirmed.
LEMMA ErasureStep ==
    ASSUME RecordsShape, OneAtATime, Alone, Policy, Erasure, RecordsNext
    PROVE  Erasure'
<1>1. CASE Die
  BY <1>1, DieMoves DEF Erasure, At
<1>2. ASSUME NEW r \in Requests, Served(r) PROVE Erasure'
  <2>1. tombs' = erased' /\ tombs' = {} /\ threads' = threads
    BY <1>2, ServedAlone DEF Erasure
  <2>2. \A s \in Requests : s # r => ~At(s, "erase")'
    BY <1>2, ServedAlone DEF At, IdleThread
  <2>3. CASE DeleteSession(r)
    <3> DEFINE h == [Waiting EXCEPT !.at = "erase", !.seen = ConfirmedItems, !.gone = ThreadsOf(ConfirmedItems)]
    <3>1. Goes(r, h) /\ item' = item
      BY <2>3 DEF DeleteSession
    <3>2. h.seen = ConfirmedItems /\ h.gone = ThreadsOf(ConfirmedItems)
      BY DEF Waiting
    <3> HIDE DEF h
    <3>3. request'[r].seen = ConfirmedItems /\ request'[r].gone = ThreadsOf(ConfirmedItems)
      BY <3>1, <3>2, Moves
    <3>4. ConfirmedItems' = ConfirmedItems /\ ThreadsOf(ConfirmedItems)' = ThreadsOf(ConfirmedItems)
      BY <2>1, <3>1 DEF ConfirmedItems, Known, ThreadsOf
    <3>5. QED
      BY <2>1, <2>2, <3>3, <3>4 DEF Erasure
  <2>4. CASE ~DeleteSession(r)
    <3>1. ~At(r, "erase")'
      BY <1>2, <2>4, ServedMoves, ServedAlone DEF Served, At, IdleThread
    <3>2. QED
      BY <2>1, <2>2, <3>1 DEF Erasure
  <2>5. QED
    BY <2>3, <2>4
<1>3. ASSUME NEW r \in Requests, Progress(r) PROVE Erasure'
  <2>1. \A s \in Requests : ~At(s, "erase")'
    BY <1>3, ProgressAlone, ProgressMoves DEF Progress, At, IdleThread
  <2>2. session.status # "deleted" /\ tombs = {}
    BY <1>3, ProgressAlone DEF Policy, Erasure
  <2>3. CASE EraseSession(r)
    <3>1. request[r].seen = ConfirmedItems
      BY <2>3, ProgressMoves DEF Erasure
    <3>2. session'.status = "deleted" /\ tombs' = erased'
      BY <2>2, <2>3, <3>1 DEF EraseSession, RecordsShape, Sessions
    <3>3. QED
      BY <2>1, <3>2 DEF Erasure
  <2>4. CASE ~EraseSession(r)
    <3>1. tombs' = tombs /\ erased' = erased
      BY <1>3, <2>4
      DEF Progress, PatchSession, FreezePack, NotePack, Activate, RetireOld, WriteItem, LookForThread,
          SyncThread, ExtractItem, SetEnded, Within, historyVars
    <3>2. QED
      BY <2>1, <2>2, <3>1 DEF Erasure
  <2>5. QED
    BY <2>3, <2>4
<1>4. QED
  BY <1>1, <1>2, <1>3, Steps
-----------------------------------------------------------------------------
\* A new item, and nothing else about items.
LEMMA Added ==
    ASSUME RecordsShape, NEW i \in Items, NextItem(i), NEW row \in Rows, row.kind # "none",
           item' = [item EXCEPT ![i] = row]
    PROVE  /\ i \notin Known /\ Known' = Known \union {i} /\ item'[i] = row
           /\ \A j \in Known : item'[j] = item[j] /\ j # i
           /\ \A j \in Items : j # i => item'[j] = item[j]
BY DEF RecordsShape, NextItem, Known

LEMMA AddedByUser ==
    ASSUME RecordsShape, NEW r \in Requests, AddItem(r)
    PROVE  \E i \in Items, row \in Given :
              /\ i \notin Known /\ Known' = Known \union {i} /\ item'[i] = row
              /\ declared' = IF row.state \in {"DONE", "SUPERSEDED"} THEN declared \union {i} ELSE declared
              /\ \A j \in Known : item'[j] = item[j] /\ j # i
              /\ \A j \in Items : j # i => item'[j] = item[j]
              /\ Goes(r, [Waiting EXCEPT !.at = "look", !.i = i])
<1>1. PICK i \in Items, row \in Given :
        /\ NextItem(i) /\ item' = [item EXCEPT ![i] = row] /\ Goes(r, [Waiting EXCEPT !.at = "look", !.i = i])
        /\ declared' = IF row.state \in {"DONE", "SUPERSEDED"} THEN declared \union {i} ELSE declared
  BY DEF AddItem
<1>2. row \in Rows /\ row.kind # "none"
  BY GivenRow
<1>3. /\ i \notin Known /\ Known' = Known \union {i} /\ item'[i] = row
      /\ \A j \in Known : item'[j] = item[j] /\ j # i
      /\ \A j \in Items : j # i => item'[j] = item[j]
  BY <1>1, <1>2, Added
<1>4. QED
  BY <1>1, <1>3

LEMMA AddedByExtraction ==
    ASSUME RecordsShape, NEW r \in Requests, ExtractItem(r)
    PROVE  \E i \in Items, s \in request[r].todo :
              /\ i \notin Known /\ Known' = Known \union {i}
              /\ item'[i].from = s /\ item'[i].state = "PROPOSED" /\ item'[i].old = 0
              /\ item'[i].review = "AI_EXTRACTED" /\ item'[i].kind \in {"question", "decision"}
              /\ \A j \in Known : item'[j] = item[j] /\ j # i
              /\ \A j \in Items : j # i => item'[j] = item[j]
              /\ request'[r].todo = request[r].todo \ {s}
<1>1. PICK s \in request[r].todo, i \in Items :
        /\ NextItem(i) /\ item' = [item EXCEPT ![i] = Candidate(s)]
        /\ Goes(r, [request[r] EXCEPT !.todo = @ \ {s}])
  BY DEF ExtractItem
<1> DEFINE row == Candidate(s)
<1>2. s \in Sentences
  BY DEF RecordsShape, Held
<1>3. /\ row \in Rows /\ row.kind \in {"question", "decision"} /\ row.from = s /\ row.state = "PROPOSED"
      /\ row.old = 0 /\ row.review = "AI_EXTRACTED"
  BY <1>2, CandidateRow
<1>4. /\ i \notin Known /\ Known' = Known \union {i} /\ item'[i] = row
      /\ \A j \in Known : item'[j] = item[j] /\ j # i
      /\ \A j \in Items : j # i => item'[j] = item[j]
  BY <1>1, <1>2, <1>3, Added
<1>5. [request[r] EXCEPT !.todo = @ \ {s}].todo = request[r].todo \ {s}
  BY DEF RecordsShape, Held
<1>6. request'[r].todo = request[r].todo \ {s}
  BY <1>1, <1>5, Moves
<1>7. QED
  BY <1>2, <1>3, <1>4, <1>6

\* The writes of a review or a succession keep which items there are and where they
\* come from.
LEMMA WrittenItem ==
    ASSUME RecordsShape, NEW r \in Requests, WriteItem(r), request[r].i \in Known
    PROVE  LET q == request[r] IN
           /\ Known' = Known /\ \A j \in Items : j # q.i => item'[j] = item[j]
           /\ item'[q.i] = Written(item[q.i], q.put) /\ item[q.i] \in Rows /\ q.put \in Updates
           /\ item'[q.i].kind = item[q.i].kind /\ item'[q.i].from = item[q.i].from
           /\ item'[q.i].review = q.put.review
           /\ item'[q.i].old = IF q.put.old = 0 THEN item[q.i].old ELSE q.put.old
           /\ item'[q.i].state = IF q.put.state = Keep THEN item[q.i].state ELSE q.put.state
           /\ heirs' = IF q.put.old = 0 THEN heirs ELSE heirs \union {q.i}
           /\ declared' = declared /\ At(r, "look")'
<1> DEFINE q == request[r]
<1>1. /\ item' = [item EXCEPT ![q.i] = Written(item[q.i], q.put)] /\ Goes(r, [q EXCEPT !.at = "look"])
      /\ heirs' = IF q.put.old = 0 THEN heirs ELSE heirs \union {q.i}
      /\ declared' = declared
  BY DEF WriteItem
<1>2. q.i \in Items /\ item[q.i] \in Rows /\ q.put \in Updates
  BY DEF RecordsShape, Held, Known
<1>3. item'[q.i] = Written(item[q.i], q.put) /\ \A j \in Items : j # q.i => item'[j] = item[j]
  BY <1>1, <1>2 DEF RecordsShape
<1>4. At(r, "look")'
  BY <1>1 DEF Goes, At, RecordsShape, Held
<1>5. Known' = Known
  BY <1>2, <1>3, WrittenRow DEF Known
<1>6. QED
  BY <1>1, <1>2, <1>3, <1>4, <1>5, WrittenRow

LEMMA Rewritten ==
    ASSUME RecordsShape, NEW r \in Requests, RetireOld(r) \/ WriteItem(r)
    PROVE  Known' = Known /\ \A i \in Items : item'[i].kind = item[i].kind /\ item'[i].from = item[i].from
<1>1. CASE RetireOld(r)
  BY <1>1, RetiredRow DEF Known
<1>2. CASE WriteItem(r) /\ request[r].i \in Known
  BY <1>2, WrittenItem
<1>3. CASE WriteItem(r) /\ request[r].i \notin Known
  BY <1>3 DEF WriteItem, Known
<1>4. QED
  BY <1>1, <1>2, <1>3
-----------------------------------------------------------------------------
\* No sentence becomes two items.
LEMMA ExtractionStep ==
    ASSUME RecordsShape, OneAtATime, Alone, Policy, Extraction, RecordsNext
    PROVE  Extraction'
<1>1. CASE Die
  BY <1>1, DieMoves DEF Extraction, At, Known
<1>2. ASSUME NEW r \in Requests, Served(r) PROVE Extraction'
  <2>1. /\ \A s \in Requests : IdleThread(s) /\ (s # r => IdleThread(s)')
        /\ session.status # "deleted" /\ died' = died /\ session'.status = session.status
    BY <1>2, ServedAlone
  <2>2. edited \subseteq edited'
    BY <1>2, ReviewServed
    DEF Served, UpdateSession, Preflight, StartSession, AddItem, Supersede, EndSession, DeleteSession, historyVars
  <2>3. SUFFICES ASSUME ~(died /\ edited # {}) PROVE Extraction'
    BY <2>1, <2>2 DEF Extraction
  <2>4. /\ \A i, j \in Known : item[i].from = item[j].from /\ i # j => item[i].from = Typed
        /\ ~died /\ session.status \in {"UPCOMING", "ACTIVE"} => \A i \in Known : item[i].from = Typed
    BY <2>1, <2>3 DEF Extraction, At, IdleThread
  <2>5. CASE AddItem(r)
    <3>1. PICK i \in Items, row \in Given :
            /\ i \notin Known /\ Known' = Known \union {i} /\ item'[i] = row
            /\ \A j \in Known : item'[j] = item[j] /\ j # i
      BY <2>5, AddedByUser
    <3>2. item'[i].from = Typed
      BY <3>1, GivenRow
    <3>3. \A s \in Requests : ~At(s, "extract")'
      BY <2>1, <2>5, ServedMoves DEF At, IdleThread
    <3>4. QED
      BY <2>1, <2>4, <3>1, <3>2, <3>3 DEF Extraction
  <2>6. CASE EndSession(r)
    <3>1. item' = item /\ Known' = Known
      BY <2>6 DEF EndSession, Known
    <3>2. CASE request' = request
      BY <2>1, <2>4, <3>1, <3>2 DEF Extraction, At, IdleThread
    <3>3. CASE request' # request
      <4>1. PICK todo \in {{}, IF pack = NotYet THEN {} ELSE Sentences \ Extracted} :
              Goes(r, [Waiting EXCEPT !.at = "extract", !.todo = todo])
        BY <2>6, <3>3 DEF EndSession
      <4>2. [Waiting EXCEPT !.at = "extract", !.todo = todo].todo = todo
        BY DEF Waiting
      <4>3. request'[r].todo = todo /\ At(r, "extract")'
        BY <2>6, <3>3, <4>1, <4>2, Moves, ServedMoves
      <4>4. session.status \in {"UPCOMING", "ACTIVE"}
        BY <2>1, <2>6, <3>3 DEF EndSession, RecordsShape, Sessions
      <4>5. \A i \in Known : item[i].from \in todo => item[i].from = Typed
        <5>1. CASE ~died
          BY <2>4, <4>4, <5>1
        <5>2. CASE edited = {}
          BY <4>1, <5>2 DEF Extracted
        <5>3. QED
          BY <2>3, <5>1, <5>2
      <4>6. QED
        BY <2>1, <2>4, <3>1, <4>3, <4>5 DEF Extraction, At, IdleThread
    <3>4. QED
      BY <3>2, <3>3
  <2>7. CASE ~AddItem(r) /\ ~EndSession(r)
    <3>1. item' = item /\ Known' = Known
      BY <1>2, <2>7, ServedAlone DEF Known
    <3>2. \A s \in Requests : ~At(s, "extract")'
      BY <1>2, <2>1, <2>7, ServedMoves DEF Served, At, IdleThread
    <3>3. QED
      BY <2>1, <2>4, <3>1, <3>2 DEF Extraction
  <2>8. QED
    BY <2>5, <2>6, <2>7
<1>3. ASSUME NEW r \in Requests, Progress(r) PROVE Extraction'
  <2>1. /\ \A s \in Requests : s # r => IdleThread(s) /\ IdleThread(s)'
        /\ ~IdleThread(r) /\ died' = died /\ edited' = edited
    BY <1>3, ProgressAlone
  <2>2. session.status # "deleted"
    BY <2>1 DEF Policy
  <2>3. SUFFICES ASSUME ~(died /\ edited # {}) PROVE Extraction'
    BY <2>1 DEF Extraction
  <2>4. /\ \A i, j \in Known : item[i].from = item[j].from /\ i # j => item[i].from = Typed
        /\ At(r, "extract") =>
              \A i \in Known : item[i].from \in request[r].todo => item[i].from = Typed
        /\ ~died /\ session.status \in {"UPCOMING", "ACTIVE"} /\ ~At(r, "extract") =>
              \A i \in Known : item[i].from = Typed
    BY <2>1, <2>3 DEF Extraction, At, IdleThread
  <2>5. CASE RetireOld(r) \/ WriteItem(r)
    <3>1. Known' = Known /\ \A i \in Items : item'[i].from = item[i].from
      BY <2>5, Rewritten
    <3>2. ~At(r, "extract") /\ ~At(r, "extract")' /\ session' = session
      BY <2>5, ProgressMoves DEF At, RetireOld, WriteItem
    <3>3. QED
      BY <2>1, <2>4, <3>1, <3>2 DEF Extraction, At, IdleThread, Known
  <2>6. CASE ExtractItem(r)
    <3>1. PICK i \in Items, s \in request[r].todo :
            /\ i \notin Known /\ Known' = Known \union {i} /\ item'[i].from = s
            /\ \A j \in Known : item'[j] = item[j] /\ j # i
            /\ request'[r].todo = request[r].todo \ {s}
      BY <2>6, AddedByExtraction
    <3>2. At(r, "extract") /\ At(r, "extract")'
      BY <2>6, ProgressMoves
    <3>3. QED
      BY <2>1, <2>4, <3>1, <3>2 DEF Extraction, At, IdleThread
  <2>7. CASE SetEnded(r)
    <3>1. session'.status = "ENDED" /\ item' = item
      BY <2>2, <2>7 DEF SetEnded, RecordsShape, Sessions
    <3>2. ~At(r, "extract")'
      BY <2>7, ProgressMoves DEF At
    <3>3. QED
      BY <2>1, <2>4, <3>1, <3>2 DEF Extraction, At, IdleThread, Known
  <2>8. CASE EraseSession(r)
    <3>1. Known' = {} /\ ~At(r, "extract")'
      BY <2>8, ProgressMoves DEF EraseSession, Known, NoItem, At
    <3>2. QED
      BY <2>1, <3>1 DEF Extraction, At, IdleThread
  <2>9. CASE \/ PatchSession(r) \/ FreezePack(r) \/ NotePack(r) \/ Activate(r) \/ LookForThread(r)
             \/ SyncThread(r)
    <3>1. item' = item /\ Known' = Known
      BY <2>9 DEF PatchSession, FreezePack, NotePack, Activate, LookForThread, SyncThread, Known
    <3>2. ~At(r, "extract") /\ ~At(r, "extract")'
      BY <2>9, ProgressMoves DEF At
    <3>3. session.status \in {"UPCOMING", "ACTIVE"} \/ session'.status = session.status
      BY <2>9, ProgressMoves
      DEF PatchSession, FreezePack, NotePack, Activate, LookForThread, SyncThread, Policy, RecordsShape, Sessions
    <3>4. QED
      BY <2>1, <2>4, <3>1, <3>2, <3>3 DEF Extraction, At, IdleThread
  <2>10. QED
    BY <1>3, <2>5, <2>6, <2>7, <2>8, <2>9 DEF Progress
<1>4. QED
  BY <1>1, <1>2, <1>3, Steps
-----------------------------------------------------------------------------
\* A decision has one successor, and its successor is known.
LEMMA LineageServed ==
    ASSUME RecordsShape, OneAtATime, Lineage, NEW r \in Requests, Served(r)
    PROVE  Lineage'
<1>1. /\ \A s \in Requests : IdleThread(s) /\ (s # r => IdleThread(s)')
      /\ died' = died /\ heirs' = heirs /\ (~AddItem(r) => item' = item /\ declared' = declared)
  BY ServedAlone
<1>2. /\ heirs \subseteq Known
      /\ \A i \in Successors :
            /\ item[i].state # "PROPOSED"
            /\ item[i].old \in Known /\ item[item[i].old].kind = "decision"
            /\ item[item[i].old].state \in Retired
      /\ \A i, j \in Successors : item[i].old = item[j].old => i = j
      /\ ~died => \A o \in Known \ declared :
            item[o].state = "SUPERSEDED" => \E i \in Successors : item[i].old = o
  BY <1>1 DEF Lineage, At, IdleThread
<1>3. CASE AddItem(r)
  <2>1. PICK i \in Items, row \in Given :
          /\ i \notin Known /\ Known' = Known \union {i} /\ item'[i] = row
          /\ declared' = IF row.state \in {"DONE", "SUPERSEDED"} THEN declared \union {i} ELSE declared
          /\ \A j \in Known : item'[j] = item[j] /\ j # i
    BY <1>3, AddedByUser
  <2>2. Successors' = Successors /\ Successors \subseteq Known
    BY <1>1, <1>2, <2>1 DEF Successors
  <2>3. \A s \in Requests : ~At(s, "retire")' /\ ~At(s, "write")'
    BY <1>1, <1>3, ServedMoves DEF At, IdleThread
  <2>4. \A o \in Known' \ declared' : item'[o].state = "SUPERSEDED" => o \in Known \ declared
    BY <2>1
  <2>5. QED
    BY <1>1, <1>2, <2>1, <2>2, <2>3, <2>4 DEF Lineage
<1>4. CASE ReviewItem(r) \/ ResolveItem(r)
  <2>1. item' = item /\ Known' = Known /\ Successors' = Successors /\ declared' = declared
    BY <1>1, <1>4 DEF ReviewItem, ResolveItem, Known, Successors, historyVars
  <2>2. PICK i \in Known, new \in Updates : Goes(r, ToWrite(i, new)) /\ RowChange(item[i], new)
    BY <1>4, ReviewServed
  <2>3. ToWrite(i, new).i = i /\ ToWrite(i, new).put = new
    BY DEF ToWrite, Waiting
  <2>4. request'[r].i = i /\ request'[r].put = new
    BY <2>2, <2>3, Moves
  <2>5. Reviewing(request[r])'
    BY <2>1, <2>2, <2>4 DEF Reviewing, RowChange
  <2>6. At(r, "write")'
    BY <1>4, ServedMoves
  <2>7. QED
    BY <1>1, <1>2, <2>1, <2>5, <2>6 DEF Lineage, At, IdleThread
<1>5. CASE Supersede(r)
  <2>1. item' = item /\ Known' = Known /\ Successors' = Successors /\ declared' = declared
    BY <1>1, <1>5 DEF Supersede, Known, Successors, historyVars
  <2>2. PICK i \in Known, old \in Known :
          /\ i # old /\ Supersedes(item[i], old)
          /\ Goes(r, [Waiting EXCEPT !.at = "retire", !.i = i, !.put = Update("AGREED", "USER_CONFIRMED", old)])
    BY <1>5 DEF Supersede
  <2> DEFINE h == [Waiting EXCEPT !.at = "retire", !.i = i, !.put = Update("AGREED", "USER_CONFIRMED", old)]
  <2>3. h.i = i /\ h.put.state = "AGREED" /\ h.put.review = "USER_CONFIRMED" /\ h.put.old = old
    BY DEF Waiting, Update
  <2> HIDE DEF h
  <2>4. /\ request'[r].i = i /\ request'[r].put.state = "AGREED"
        /\ request'[r].put.review = "USER_CONFIRMED" /\ request'[r].put.old = old
    BY <2>2, <2>3, Moves DEF h
  <2>5. \A j \in Successors : item[j].old # old
    BY <1>2, <2>2 DEF Supersedes, Retired
  <2>6. Superseding(request[r], "AGREED")'
    BY <2>1, <2>2, <2>4, <2>5 DEF Superseding, Supersedes
  <2>7. At(r, "retire")'
    BY <1>5, ServedMoves
  <2>8. QED
    BY <1>1, <1>2, <2>1, <2>6, <2>7 DEF Lineage, At, IdleThread
<1>6. CASE ~AddItem(r) /\ ~(ReviewItem(r) \/ ResolveItem(r)) /\ ~Supersede(r)
  <2>1. item' = item /\ Known' = Known /\ Successors' = Successors /\ declared' = declared
    BY <1>1, <1>6 DEF Known, Successors
  <2>2. \A s \in Requests : ~At(s, "retire")' /\ ~At(s, "write")'
    BY <1>1, <1>6, ServedMoves DEF Served, At, IdleThread
  <2>3. QED
    BY <1>1, <1>2, <2>1, <2>2 DEF Lineage
<1>7. QED
  BY <1>3, <1>4, <1>5, <1>6

LEMMA LineageProgress ==
    ASSUME RecordsShape, OneAtATime, Alone, Lineage, NEW r \in Requests, Progress(r)
    PROVE  Lineage'
<1> DEFINE q == request[r]
<1>1. /\ \A s \in Requests : s # r => IdleThread(s) /\ IdleThread(s)'
      /\ ~IdleThread(r) /\ died' = died
  BY ProgressAlone
<1>2. /\ heirs \subseteq Known /\ Successors \subseteq Known
      /\ \A i \in Successors :
            /\ item[i].state # "PROPOSED"
            /\ item[i].old \in Known /\ item[item[i].old].kind = "decision"
            /\ item[item[i].old].state \in Retired
      /\ \A i, j \in Successors : item[i].old = item[j].old => i = j
      /\ ~died => \A o \in Known \ declared : item[o].state = "SUPERSEDED" =>
            (\E i \in Successors : item[i].old = o) \/ (At(r, "write") /\ q.put.old = o)
  BY <1>1 DEF Lineage, Successors, At, IdleThread
<1>4. CASE RetireOld(r)
  <2>1. At(r, "retire") /\ At(r, "write")' /\ request'[r].put = q.put /\ request'[r].i = q.i
    BY <1>4, ProgressMoves
  <2>2. Superseding(q, "AGREED")
    BY <2>1 DEF Lineage
  <2> DEFINE o == q.put.old
  <2>3. /\ Known' = Known /\ o \in Items
        /\ \A i \in Items : i # o => item'[i] = item[i]
        /\ \A i \in Items : item'[i].old = item[i].old /\ item'[i].kind = item[i].kind
        /\ item'[o].state = "SUPERSEDED"
    BY <1>4, <2>2, RetiredRow, Rewritten DEF Superseding, Known
  <2>4. heirs' = heirs /\ declared' = declared /\ Successors' = Successors
    BY <1>4, <2>3 DEF RetireOld, Within, historyVars, Successors
  <2>5. Known \subseteq Items
    BY DEF Known
  <2>6. Superseding(request[r], "SUPERSEDED")'
    BY <1>2, <2>1, <2>2, <2>3, <2>4, <2>5 DEF Superseding
  <2>7. \A i \in Successors :
            /\ item'[i].state # "PROPOSED"
            /\ item'[i].old \in Known /\ item'[item'[i].old].kind = "decision"
            /\ item'[item'[i].old].state \in Retired
    BY <1>2, <2>3, <2>5 DEF Retired
  <2>8. \A i, j \in Successors : item'[i].old = item'[j].old => i = j
    BY <1>2, <2>3, <2>5
  <2>9. ~died => \A p \in Known \ declared : item'[p].state = "SUPERSEDED" =>
            (\E i \in Successors : item'[i].old = p) \/ request'[r].put.old = p
    BY <1>2, <2>1, <2>3, <2>5 DEF At
  <2>10. QED
    BY <1>1, <1>2, <2>1, <2>3, <2>4, <2>6, <2>7, <2>8, <2>9 DEF Lineage, At, IdleThread
<1>5. CASE WriteItem(r)
  <2>1. At(r, "write")
    BY <1>5, ProgressMoves
  <2>2. Reviewing(q) \/ Superseding(q, "SUPERSEDED")
    BY <2>1 DEF Lineage
  <2>3. q.i \in Known /\ q.i \in Items /\ Known \subseteq Items
    BY <2>2 DEF Reviewing, Superseding, Known
  <2>4. /\ Known' = Known /\ \A j \in Items : j # q.i => item'[j] = item[j]
        /\ item'[q.i].kind = item[q.i].kind
        /\ item'[q.i].old = IF q.put.old = 0 THEN item[q.i].old ELSE q.put.old
        /\ item'[q.i].state = IF q.put.state = Keep THEN item[q.i].state ELSE q.put.state
        /\ heirs' = IF q.put.old = 0 THEN heirs ELSE heirs \union {q.i}
        /\ declared' = declared /\ At(r, "look")'
    BY <1>5, <2>3, WrittenItem
  <2>5. \A s \in Requests : ~At(s, "retire")' /\ ~At(s, "write")'
    BY <1>1, <2>4 DEF At, IdleThread
  <2>6. CASE Reviewing(q)
    <3>1. item'[q.i].old = item[q.i].old /\ heirs' = heirs /\ Successors' = Successors
      BY <2>4, <2>6 DEF Reviewing, Successors
    <3>2. /\ item'[q.i].state = "PROPOSED" => item[q.i].state = "PROPOSED"
          /\ item'[q.i].state = "SUPERSEDED" => item[q.i].state = "SUPERSEDED"
          /\ item[q.i].kind = "decision" /\ item[q.i].state \in Retired => item'[q.i].state \in Retired
      BY <2>4, <2>6 DEF Reviewing
    <3>3. \A i \in Known :
              /\ item'[i].old = item[i].old /\ item'[i].kind = item[i].kind
              /\ item'[i].state = "PROPOSED" => item[i].state = "PROPOSED"
              /\ item'[i].state = "SUPERSEDED" => item[i].state = "SUPERSEDED"
              /\ item[i].kind = "decision" /\ item[i].state \in Retired => item'[i].state \in Retired
      BY <2>3, <2>4, <3>1, <3>2
    <3>4. \A i \in Successors :
              /\ item'[i].state # "PROPOSED"
              /\ item'[i].old \in Known /\ item'[item'[i].old].kind = "decision"
              /\ item'[item'[i].old].state \in Retired
      BY <1>2, <3>3
    <3>5. \A i, j \in Successors : item'[i].old = item'[j].old => i = j
      BY <1>2, <3>3
    <3>6. ~died => \A p \in Known \ declared :
              item'[p].state = "SUPERSEDED" => \E i \in Successors : item'[i].old = p
      <4>1. SUFFICES ASSUME ~died, NEW p \in Known \ declared, item'[p].state = "SUPERSEDED"
                     PROVE  \E i \in Successors : item'[i].old = p
        OBVIOUS
      <4>2. q.put.old # p
        BY <2>6, <4>1, Numbers DEF Reviewing, Known
      <4>3. \E i \in Successors : item[i].old = p
        BY <1>2, <3>3, <4>1, <4>2
      <4>4. QED
        BY <1>2, <3>3, <4>3
    <3>7. QED
      BY <1>1, <1>2, <2>4, <2>5, <3>1, <3>4, <3>5, <3>6 DEF Lineage
  <2>7. CASE Superseding(q, "SUPERSEDED")
    <3> DEFINE o == q.put.old
    <3>1. /\ item[q.i].state = "PROPOSED" /\ o \in Known /\ o # q.i /\ o # 0
          /\ item[o].kind = "decision" /\ item[o].state = "SUPERSEDED"
          /\ \A i \in Successors : item[i].old # o
      BY <2>7, Numbers DEF Superseding, Known
    <3>2. item'[q.i].old = o /\ item'[q.i].state = "AGREED" /\ q.i \notin Successors
      BY <1>2, <2>4, <2>7, <3>1 DEF Superseding, Keep
    <3>3. Successors' = Successors \union {q.i} /\ heirs' \subseteq Known
      BY <1>2, <2>3, <2>4, <3>1 DEF Successors
    <3>4. \A i \in Known : i # q.i => item'[i] = item[i]
      BY <2>3, <2>4
    <3>5. \A i \in Successors' :
              /\ item'[i].state # "PROPOSED"
              /\ item'[i].old \in Known /\ item'[item'[i].old].kind = "decision"
              /\ item'[item'[i].old].state \in Retired
      <4>1. \A i \in Successors : item[i].old # q.i
        BY <1>2, <3>1 DEF Retired
      <4>2. QED
        BY <1>2, <3>1, <3>2, <3>3, <3>4, <4>1 DEF Retired
    <3>6. \A i, j \in Successors' : item'[i].old = item'[j].old => i = j
      BY <1>2, <3>1, <3>2, <3>3, <3>4
    <3>7. ~died => \A p \in Known \ declared :
              item'[p].state = "SUPERSEDED" => \E i \in Successors' : item'[i].old = p
      <4>1. SUFFICES ASSUME ~died, NEW p \in Known \ declared, item'[p].state = "SUPERSEDED", p # o
                     PROVE  \E i \in Successors' : item'[i].old = p
        BY <3>2, <3>3
      <4>2. item[p].state = "SUPERSEDED"
        BY <3>2, <3>4, <4>1
      <4>3. PICK i \in Successors : item[i].old = p
        BY <1>2, <4>1, <4>2
      <4>4. QED
        BY <1>2, <3>2, <3>3, <3>4, <4>3
    <3>8. QED
      BY <1>1, <2>4, <2>5, <3>3, <3>5, <3>6, <3>7 DEF Lineage
  <2>8. QED
    BY <2>2, <2>6, <2>7
<1>6. CASE ExtractItem(r)
  <2>1. PICK i \in Items, s \in q.todo :
          /\ i \notin Known /\ Known' = Known \union {i}
          /\ item'[i].state = "PROPOSED" /\ item'[i].old = 0
          /\ \A j \in Known : item'[j] = item[j] /\ j # i
    BY <1>6, AddedByExtraction
  <2>2. At(r, "extract") /\ At(r, "extract")'
    BY <1>6, ProgressMoves
  <2>3. \A s2 \in Requests : ~At(s2, "retire")' /\ ~At(s2, "write")'
    BY <1>1, <2>2 DEF At, IdleThread
  <2>4. ~died => \A o \in Known \ declared :
            item[o].state = "SUPERSEDED" => \E j \in Successors : item[j].old = o
    BY <1>2, <2>2 DEF At
  <2>5. heirs' = heirs /\ declared' = declared /\ Successors' = Successors
    BY <1>2, <1>6, <2>1 DEF ExtractItem, Within, historyVars, Successors
  <2>6. QED
    BY <1>1, <1>2, <2>1, <2>3, <2>4, <2>5 DEF Lineage
<1>7. CASE EraseSession(r)
  <2>1. Known' = {} /\ heirs' = {} /\ \A s \in Requests : ~At(s, "retire")' /\ ~At(s, "write")'
    BY <1>1, <1>7, ProgressMoves DEF EraseSession, Known, NoItem, At, IdleThread
  <2>2. QED
    BY <2>1 DEF Lineage, Successors
<1>8. CASE \/ PatchSession(r) \/ FreezePack(r) \/ NotePack(r) \/ Activate(r) \/ LookForThread(r)
           \/ SyncThread(r) \/ SetEnded(r)
  <2>1. /\ item' = item /\ Known' = Known /\ heirs' = heirs /\ declared' = declared
        /\ Successors' = Successors
    BY <1>8 DEF PatchSession, FreezePack, NotePack, Activate, LookForThread, SyncThread, SetEnded, Known,
       Successors, Within, historyVars
  <2>2. /\ ~At(r, "write")
        /\ \A s \in Requests : ~At(s, "retire")' /\ ~At(s, "write")'
    BY <1>1, <1>8, ProgressMoves DEF At, IdleThread
  <2>3. QED
    BY <1>1, <1>2, <2>1, <2>2 DEF Lineage
<1>9. QED
  BY <1>4, <1>5, <1>6, <1>7, <1>8 DEF Progress

LEMMA LineageStep ==
    ASSUME RecordsShape, OneAtATime, Alone, Lineage, RecordsNext
    PROVE  Lineage'
<1>1. CASE Die
  BY <1>1, DieMoves DEF Lineage, Successors, At, Known
<1>2. QED
  BY <1>1, LineageServed, LineageProgress, Steps
-----------------------------------------------------------------------------
\* A synchronisation leaves the thread of its item open or resolved as the item says,
\* one thread of each item, and the threads of other items.
LEMMA SyncOutcome ==
    ASSUME RecordsShape, ThreadsDistinct, Syncing, session.status # "deleted",
           NEW r \in Requests, SyncThread(r)
    PROVE  LET i == request[r].i IN
           /\ i \in Known /\ item[i].kind = "question" /\ item' = item /\ Known' = Known
           /\ \A t, u \in threads' : t.n = u.n \/ t.i = u.i => t = u
           /\ {t.n : t \in threads'} = 1 .. Cardinality({t.n : t \in threads'})
           /\ \A t \in threads' : t.i = i \/ t \in threads
           /\ \A t \in threads : t.i = i \/ t \in threads'
           /\ (\E t \in threads' : t.i = i /\ t.status = "OPEN") <=> Unsettled(item[i])
<1> DEFINE q == request[r]
           i == q.i
           status == IF Unsettled(q.row) THEN "OPEN" ELSE "RESOLVED"
           Set(t) == IF t.n = LatestThread(q.seen) THEN [t EXCEPT !.status = status] ELSE t
           N == {t.n : t \in threads}
           fresh == [n |-> FreshThread, i |-> i, status |-> "OPEN"]
<1>1. /\ i \in Known /\ i \in Items /\ item[i].kind = "question" /\ q.row = item[i]
      /\ q.seen = {t.n : t \in {u \in threads : u.i = i}}
  BY ProgressMoves DEF Syncing, Known
<1>2. item' = item /\ Known' = Known
  BY DEF SyncThread, Known
<1>3. /\ \A t, u \in threads : t.n = u.n \/ t.i = u.i => t = u
      /\ N = 1 .. Cardinality(N)
      /\ threads \subseteq [n : Nat, i : Items, status : {"OPEN", "RESOLVED"}]
  BY DEF ThreadsDistinct, RecordsShape
<1>4. CASE q.seen # {}
  <2>1. threads' = {Set(t) : t \in threads}
    BY <1>4 DEF SyncThread
  <2>2. PICK old \in threads : old.i = i
    BY <1>1, <1>4
  <2>3. q.seen = {old.n} /\ old.n \in Nat
    BY <1>1, <1>3, <2>2
  <2>4. LatestThread(q.seen) = old.n
    BY <2>3 DEF LatestThread
  <2>5. /\ \A t \in threads : t # old => Set(t) = t /\ t.i # i
        /\ Set(old) = [old EXCEPT !.status = status]
    BY <1>3, <2>2, <2>4
  <2>6. Set(old).n = old.n /\ Set(old).i = i /\ Set(old).status = status
    BY <1>3, <2>2, <2>5
  <2>7. \A t \in threads : Set(t).n = t.n /\ Set(t).i = t.i
    BY <2>2, <2>5, <2>6
  <2> HIDE DEF Set
  <2>8. \A t, u \in threads' : t.n = u.n \/ t.i = u.i => t = u
    BY <1>3, <2>1, <2>7
  <2>9. {t.n : t \in threads'} = N
    <3>1. \A t \in threads' : \E u \in threads : t.n = u.n
      BY <2>1, <2>7
    <3>2. \A u \in threads : \E t \in threads' : t.n = u.n
      BY <2>1, <2>7
    <3>3. QED
      BY <3>1, <3>2
  <2>10. /\ \A t \in threads' : t.i = i \/ t \in threads
         /\ \A t \in threads : t.i = i \/ t \in threads'
    BY <2>1, <2>2, <2>5, <2>6
  <2>11. (\E t \in threads' : t.i = i /\ t.status = "OPEN") <=> Unsettled(item[i])
    <3>1. Set(old) \in threads' /\ \A t \in threads' : t.i = i => t = Set(old)
      BY <2>1, <2>5, <2>7
    <3>2. QED
      BY <1>1, <2>6, <3>1
  <2>12. QED
    BY <1>1, <1>2, <1>3, <2>8, <2>9, <2>10, <2>11
<1>5. CASE q.seen = {} /\ Unsettled(q.row)
  <2>1. threads' = threads \union {fresh}
    BY <1>5 DEF SyncThread
  <2>2. \A t \in threads : t.i # i
    BY <1>1, <1>5
  <2>3. Cardinality(N) \in Nat /\ FreshThread = Cardinality(N) + 1
    BY FreshNumber
  <2>4. fresh.n = Cardinality(N) + 1 /\ fresh.i = i /\ fresh.status = "OPEN"
    BY <2>3
  <2>5. \A t \in threads : t.n # fresh.n
    <3>1. \A t \in threads : t.n \in 1 .. Cardinality(N)
      BY <1>3
    <3>2. QED
      BY <2>3, <2>4, <3>1
  <2>6. {t.n : t \in threads'} = 1 .. Cardinality(N) + 1
    <3>1. {t.n : t \in threads'} = N \union {fresh.n}
      BY <2>1
    <3>2. \A c \in Nat : 1 .. c + 1 = (1 .. c) \union {c + 1}
      OBVIOUS
    <3>3. N \union {fresh.n} = (1 .. Cardinality(N)) \union {Cardinality(N) + 1}
      BY <1>3, <2>4
    <3>4. QED
      BY <2>3, <3>1, <3>2, <3>3
  <2>7. Cardinality(1 .. Cardinality(N) + 1) = Cardinality(N) + 1
    BY <2>3, FS_Interval
  <2>8. {t.n : t \in threads'} = 1 .. Cardinality({t.n : t \in threads'})
    BY <2>6, <2>7
  <2>9. \A t, u \in threads' : t.n = u.n \/ t.i = u.i => t = u
    BY <1>3, <2>1, <2>2, <2>4, <2>5
  <2>10. /\ \A t \in threads' : t.i = i \/ t \in threads
         /\ \A t \in threads : t.i = i \/ t \in threads'
         /\ \E t \in threads' : t.i = i /\ t.status = "OPEN"
    BY <2>1, <2>4
  <2>11. QED
    BY <1>1, <1>2, <1>5, <2>8, <2>9, <2>10
<1>6. CASE q.seen = {} /\ ~Unsettled(q.row)
  <2>1. threads' = threads
    BY <1>6 DEF SyncThread
  <2>2. \A t \in threads : t.i # i
    BY <1>1, <1>6
  <2>3. QED
    BY <1>1, <1>2, <1>3, <1>6, <2>1, <2>2
<1>7. QED
  BY <1>4, <1>5, <1>6

\* The open threads are the unsettled questions, but for the item under way.
ThreadsInv == ThreadsDistinct /\ Syncing /\ Projection

LEMMA ThreadsServed ==
    ASSUME RecordsShape, OneAtATime, ThreadsInv, NEW r \in Requests, Served(r)
    PROVE  ThreadsInv'
<1>1. /\ \A s \in Requests : IdleThread(s) /\ (s # r => IdleThread(s)')
      /\ session.status # "deleted" /\ died' = died /\ threads' = threads
      /\ (~AddItem(r) => item' = item)
  BY ServedAlone
<1>2. /\ \A t, u \in threads : t.n = u.n \/ t.i = u.i => t = u
      /\ {t.n : t \in threads} = 1 .. Cardinality({t.n : t \in threads})
      /\ \A t \in threads : t.i \in Known /\ item[t.i].kind = "question"
      /\ ~died => \A i \in Items : Follows(i)
  BY <1>1 DEF ThreadsInv, ThreadsDistinct, Projection, IdleThread
<1>3. CASE AddItem(r)
  <2>1. PICK i \in Items, row \in Given :
          /\ i \notin Known /\ Known' = Known \union {i}
          /\ \A j \in Items : j # i => item'[j] = item[j]
          /\ Goes(r, [Waiting EXCEPT !.at = "look", !.i = i])
    BY <1>3, AddedByUser
  <2>2. [Waiting EXCEPT !.at = "look", !.i = i].i = i
    BY DEF Waiting
  <2>3. request'[r].i = i /\ At(r, "look")'
    BY <1>3, <2>1, <2>2, Moves, ServedMoves
  <2>4. ThreadsDistinct'
    BY <1>1, <1>2, <2>1 DEF ThreadsDistinct, Known
  <2>5. Syncing'
    BY <1>1, <2>1, <2>3 DEF Syncing, At, IdleThread
  <2>6. Projection'
    BY <1>1, <1>2, <2>1, <2>3 DEF Projection, Follows, At
  <2>7. QED
    BY <2>4, <2>5, <2>6 DEF ThreadsInv
<1>4. CASE ~AddItem(r)
  <2>1. item' = item /\ Known' = Known
    BY <1>1, <1>4 DEF Known
  <2>2. \A s \in Requests : ~At(s, "look")' /\ ~At(s, "sync")'
    BY <1>1, <1>4, ServedMoves DEF Served, At, IdleThread
  <2>3. QED
    BY <1>1, <1>2, <2>1, <2>2 DEF ThreadsInv, ThreadsDistinct, Syncing, Projection, Follows
<1>5. QED
  BY <1>3, <1>4

LEMMA ThreadsProgress ==
    ASSUME RecordsShape, OneAtATime, Alone, Lineage, Policy, Erasure, ThreadsInv,
           NEW r \in Requests, Progress(r)
    PROVE  ThreadsInv'
<1> DEFINE q == request[r]
<1>1. /\ \A s \in Requests : s # r => IdleThread(s) /\ IdleThread(s)'
      /\ ~IdleThread(r) /\ died' = died
  BY ProgressAlone
<1>2. /\ \A t, u \in threads : t.n = u.n \/ t.i = u.i => t = u
      /\ {t.n : t \in threads} = 1 .. Cardinality({t.n : t \in threads})
      /\ \A t \in threads : t.i \in Known /\ item[t.i].kind = "question"
      /\ session.status # "deleted"
  BY <1>1 DEF ThreadsInv, ThreadsDistinct, Policy
<1>3. ~died => \A i \in Items : (q.at \in {"look", "sync"} => i # q.i) => Follows(i)
  BY <1>1 DEF ThreadsInv, Projection, IdleThread
<1>4. CASE PatchSession(r) \/ FreezePack(r) \/ NotePack(r) \/ Activate(r) \/ SetEnded(r)
  <2>1. item' = item /\ Known' = Known /\ threads' = threads
    BY <1>4 DEF PatchSession, FreezePack, NotePack, Activate, SetEnded, Known
  <2>2. q.at \notin {"look", "sync"} /\ request'[r].at \notin {"look", "sync"}
    BY <1>4, ProgressMoves DEF At
  <2>3. QED
    BY <1>1, <1>2, <1>3, <2>1, <2>2
    DEF ThreadsInv, ThreadsDistinct, Syncing, Projection, Follows, At, IdleThread
<1>5. CASE RetireOld(r)
  <2>1. q.at = "retire" /\ request'[r].at = "write" /\ threads' = threads
    BY <1>5, ProgressMoves DEF At, RetireOld
  <2>2. q.put.old \in Known /\ item[q.put.old].kind = "decision"
    BY <2>1 DEF Lineage, At, Superseding
  <2>3. /\ Known' = Known
        /\ \A i \in Items : item'[i].kind = item[i].kind /\ (i # q.put.old => item'[i] = item[i])
    BY <1>5, Rewritten, RetiredRow
  <2>4. \A i \in Items : Follows(i) => Follows(i)'
    BY <2>1, <2>2, <2>3 DEF Follows
  <2>5. QED
    BY <1>1, <1>2, <1>3, <2>1, <2>3, <2>4
    DEF ThreadsInv, ThreadsDistinct, Syncing, Projection, At, IdleThread, Known
<1>6. CASE WriteItem(r)
  <2>1. q.at = "write" /\ q.i \in Known
    BY <1>6, ProgressMoves DEF Lineage, At, Reviewing, Superseding
  <2>2. /\ Known' = Known /\ \A j \in Items : j # q.i => item'[j] = item[j]
        /\ item'[q.i].kind = item[q.i].kind /\ At(r, "look")'
    BY <1>6, <2>1, WrittenItem
  <2>3. request'[r].i = q.i /\ threads' = threads
    BY <1>6, <2>2, ProgressMoves DEF WriteItem
  <2>4. \A i \in Items : i # q.i /\ Follows(i) => Follows(i)'
    BY <2>2, <2>3 DEF Follows
  <2>5. QED
    BY <1>1, <1>2, <1>3, <2>1, <2>2, <2>3, <2>4
    DEF ThreadsInv, ThreadsDistinct, Syncing, Projection, At, IdleThread, Known
<1>7. CASE LookForThread(r)
  <2>1. q.at = "look" /\ item' = item /\ Known' = Known /\ threads' = threads
    BY <1>7, ProgressMoves DEF LookForThread, At, Known
  <2>2. q.i \in Known
    BY <2>1 DEF ThreadsInv, Syncing, At
  <2>3. CASE item[q.i].kind = "question"
    <3> DEFINE seen == {t.n : t \in {u \in threads : u.i = q.i}}
    <3>1. Goes(r, [q EXCEPT !.at = "sync", !.row = item[q.i], !.seen = seen])
      BY <1>7, <2>2, <2>3 DEF LookForThread
    <3>2. q \in Held
      BY DEF RecordsShape
    <3> DEFINE h == [q EXCEPT !.at = "sync", !.row = item[q.i], !.seen = seen]
    <3>3. h.at = "sync" /\ h.i = q.i /\ h.row = item[q.i] /\ h.seen = seen
      BY <3>2 DEF Held
    <3> HIDE DEF h
    <3>4. /\ request'[r].at = "sync" /\ request'[r].i = q.i
          /\ request'[r].row = item[q.i] /\ request'[r].seen = seen
      BY <3>1, <3>3, Moves DEF h
    <3>5. QED
      BY <1>1, <1>2, <1>3, <2>1, <2>2, <2>3, <3>4
      DEF ThreadsInv, ThreadsDistinct, Syncing, Projection, Follows, At, IdleThread
  <2>4. CASE item[q.i].kind # "question"
    <3>1. request'[r].at = "idle"
      BY <1>7, <2>4, WaitingHeld, Moves DEF LookForThread, Ends
    <3>2. Follows(q.i)
      BY <1>2, <2>4 DEF Follows
    <3>3. ThreadsDistinct' /\ Syncing'
      BY <1>1, <1>2, <2>1, <3>1 DEF ThreadsInv, ThreadsDistinct, Syncing, At, IdleThread
    <3>4. \A i \in Items : ~died => Follows(i)'
      BY <1>3, <2>1, <3>2 DEF Follows
    <3>5. QED
      BY <1>1, <3>3, <3>4 DEF ThreadsInv, Projection
  <2>5. QED
    BY <2>3, <2>4
<1>8. CASE SyncThread(r)
  <2>1. q.at = "sync" /\ request'[r].at = "idle"
    BY <1>8, ProgressMoves DEF At
  <2>2. /\ q.i \in Known /\ item[q.i].kind = "question" /\ item' = item /\ Known' = Known
        /\ \A t, u \in threads' : t.n = u.n \/ t.i = u.i => t = u
        /\ {t.n : t \in threads'} = 1 .. Cardinality({t.n : t \in threads'})
        /\ \A t \in threads' : t.i = q.i \/ t \in threads
        /\ \A t \in threads : t.i = q.i \/ t \in threads'
        /\ (\E t \in threads' : t.i = q.i /\ t.status = "OPEN") <=> Unsettled(item[q.i])
    BY <1>2, <1>8, SyncOutcome DEF ThreadsInv
  <2>3. ThreadsDistinct'
    BY <1>2, <2>2 DEF ThreadsDistinct
  <2>4. Syncing'
    BY <1>1, <2>1 DEF Syncing, At, IdleThread
  <2>5. Projection'
    <3>1. SUFFICES ASSUME ~died, NEW i \in Items PROVE Follows(i)'
      BY <1>1 DEF Projection
    <3>2. CASE i = q.i
      BY <2>2, <3>2 DEF Follows
    <3>3. CASE i # q.i
      <4>1. Follows(i)
        BY <1>3, <3>1, <3>3
      <4>2. QED
        BY <2>2, <3>3, <4>1 DEF Follows
    <3>4. QED
      BY <3>2, <3>3
  <2>6. QED
    BY <2>3, <2>4, <2>5 DEF ThreadsInv
<1>9. CASE ExtractItem(r)
  <2>1. PICK i \in Items, s \in q.todo :
          /\ i \notin Known /\ Known' = Known \union {i} /\ item'[i].review = "AI_EXTRACTED"
          /\ \A j \in Items : j # i => item'[j] = item[j]
    BY <1>9, AddedByExtraction
  <2>2. q.at = "extract" /\ request'[r].at = "extract" /\ threads' = threads
    BY <1>9, ProgressMoves DEF At, ExtractItem
  <2>3. Follows(i)'
    BY <1>2, <2>1, <2>2 DEF Follows, Unsettled, Confirmed
  <2>4. QED
    BY <1>1, <1>2, <1>3, <2>1, <2>2, <2>3
    DEF ThreadsInv, ThreadsDistinct, Syncing, Projection, Follows, At, IdleThread, Known
<1>10. CASE EraseSession(r)
  <2>1. q.at = "erase" /\ request'[r].at = "idle" /\ session'.status = "deleted"
    BY <1>10, ProgressMoves DEF EraseSession, At, RecordsShape, Sessions
  <2>2. threads' \subseteq {t \in threads : t.i \notin ConfirmedItems} /\ item' = [i \in Items |-> NoItem]
    BY <1>10, <2>1 DEF EraseSession, Erasure, At, ThreadsOf
  <2>3. ThreadsDistinct'
    BY <1>2, <2>1, <2>2 DEF ThreadsDistinct
  <2>4. Syncing'
    BY <1>1, <2>1 DEF Syncing, At, IdleThread
  <2>5. Projection'
    <3>1. SUFFICES ASSUME ~died, NEW i \in Items PROVE Follows(i)'
      BY <1>1 DEF Projection
    <3>2. item'[i].kind # "question"
      BY <2>2 DEF NoItem
    <3>3. ~ \E t \in threads' : t.i = i /\ t.status = "OPEN"
      <4>1. SUFFICES ASSUME NEW t \in threads, t.i = i, t.status = "OPEN" PROVE t.i \in ConfirmedItems
        BY <2>2
      <4>2. Unsettled(item[i])
        BY <1>3, <2>1, <3>1, <4>1 DEF Follows
      <4>3. QED
        BY <1>2, <4>1, <4>2 DEF Unsettled, ConfirmedItems
    <3>4. QED
      BY <3>2, <3>3 DEF Follows
  <2>6. QED
    BY <2>3, <2>4, <2>5 DEF ThreadsInv
<1>11. QED
  BY <1>4, <1>5, <1>6, <1>7, <1>8, <1>9, <1>10 DEF Progress

LEMMA ThreadsStep ==
    ASSUME RecordsShape, OneAtATime, Alone, Lineage, Policy, Erasure, ThreadsInv, RecordsNext
    PROVE  ThreadsInv'
<1>1. CASE Die
  BY <1>1, DieMoves DEF ThreadsInv, ThreadsDistinct, Syncing, Projection, At, Known
<1>2. QED
  BY <1>1, ThreadsServed, ThreadsProgress, Steps
-----------------------------------------------------------------------------
\* The invariant gives what the runs check.
LEMMA RecordsBounds == RecordsIInv => RecordsInv
<1>1. SUFFICES ASSUME RecordsIInv PROVE RecordsInv
  OBVIOUS
<1>2. RecordsTypeOK
  BY <1>1 DEF RecordsIInv, RecordsShape, RecordsTypeOK, Held, Sessions
<1>3. OneSuccessor
  <2>1. SUFFICES ASSUME OneAtATime, NEW old \in Known
                 PROVE  LET successors == {i \in Known \intersect heirs : item[i].old = old} IN
                        /\ Cardinality(successors) <= 1
                        /\ NoneServed /\ ~died /\ item[old].state = "SUPERSEDED" /\ old \notin declared =>
                              successors # {}
    BY DEF OneSuccessor
  <2> DEFINE successors == {i \in Known \intersect heirs : item[i].old = old}
  <2>2. Lineage
    BY <1>1, <2>1 DEF RecordsIInv
  <2>3. \A i, j \in successors : i = j
    BY <2>1, <2>2 DEF Lineage, Successors
  <2>4. Cardinality(successors) <= 1
    <3>1. CASE successors = {}
      BY <3>1, FS_EmptySet
    <3>2. CASE successors # {}
      <4>1. PICK i : i \in successors
        BY <3>2
      <4>2. successors = {i}
        BY <2>3, <4>1
      <4>3. Cardinality({i}) = 1
        BY FS_Singleton
      <4>4. QED
        BY <4>2, <4>3
    <3>3. QED
      BY <3>1, <3>2
  <2>5. NoneServed /\ ~died /\ item[old].state = "SUPERSEDED" /\ old \notin declared => successors # {}
    BY <2>2 DEF Lineage, Successors, NoneServed, IdleThread, At
  <2>6. QED
    BY <2>4, <2>5
<1>4. TruthInv
  BY <1>1, <1>3 DEF RecordsIInv, Extraction, ExtractedOnce, TruthInv
<1>5. ThreadsFollowItems
  BY <1>1 DEF RecordsIInv, ThreadsFollowItems, ThreadsDistinct, Projection, Follows, NoneServed, IdleThread
<1>6. ConfirmedLeaveTombstones /\ PackIsPolicy
  BY <1>1 DEF RecordsIInv, Erasure, Policy, ConfirmedLeaveTombstones, PackIsPolicy
<1>7. QED
  BY <1>2, <1>4, <1>5, <1>6 DEF RecordsInv

\* The invariant holds at the start.
LEMMA RecordsInitInv == RecordsInit => RecordsIInv
<1>1. SUFFICES ASSUME RecordsInit PROVE RecordsIInv
  OBVIOUS
<1>2. /\ \A r \in Requests : request[r].at = "idle"
      /\ Known = {} /\ heirs = {} /\ threads = {} /\ tombs = erased /\ tombs = {}
      /\ session.status = "UPCOMING" /\ pack = NotYet
  BY <1>1, WaitingHeld DEF RecordsInit, Known, NoItem
<1>3. PutsConfirmed /\ AgreedIsConfirmed
  BY <1>2 DEF PutsConfirmed, AgreedIsConfirmed
<1>4. Alone /\ Lineage /\ Extraction /\ Syncing /\ Erasure /\ Policy
  BY <1>2 DEF Alone, Lineage, Successors, Extraction, Syncing, Erasure, Policy, At, IdleThread
<1>5. ThreadsDistinct
  <2>1. {t.n : t \in threads} = {} /\ Cardinality({}) = 0 /\ 1..0 = {}
    BY <1>2, FS_EmptySet
  <2>2. QED
    BY <1>2, <2>1 DEF ThreadsDistinct
<1>6. Projection
  BY <1>1, <1>2 DEF RecordsInit, Projection, Follows, NoItem
<1>7. QED
  BY <1>1, <1>3, <1>4, <1>5, <1>6, ShapeInit DEF RecordsIInv

\* Every step keeps it.
LEMMA RecordsStep == RecordsIInv /\ [RecordsNext]_recordsVars => RecordsIInv'
<1>1. SUFFICES ASSUME RecordsIInv, [RecordsNext]_recordsVars PROVE RecordsIInv'
  OBVIOUS
<1>2. CASE RecordsNext
  <2>1. RecordsShape /\ PutsConfirmed /\ AgreedIsConfirmed
    BY <1>1 DEF RecordsIInv
  <2>2. RecordsShape'
    BY <1>2, <2>1, Steps, ServedShape, ProgressShape, DieShape
  <2>3. PutsConfirmed' /\ AgreedIsConfirmed'
    BY <1>2, <2>1, TruthStep
  <2>4. ASSUME OneAtATime'
        PROVE  (Alone /\ Lineage /\ Extraction /\ ThreadsDistinct /\ Syncing /\ Projection /\ Erasure /\ Policy)'
    <3>1. exposed' = exposed
      BY <1>2 DEF RecordsNext, UpdateSession, PatchSession, Preflight, StartSession, FreezePack, NotePack, Activate,
         AddItem, ReviewItem, ResolveItem, Supersede, RetireOld, WriteItem, LookForThread, SyncThread, EndSession,
         ExtractItem, SetEnded, DeleteSession, EraseSession, Die, Within, historyVars
    <3>2. OneAtATime
      BY <2>4, <3>1 DEF OneAtATime
    <3>3. Alone /\ Lineage /\ Extraction /\ ThreadsInv /\ Erasure /\ Policy
      BY <1>1, <3>2 DEF RecordsIInv, ThreadsInv
    <3>4. Alone' /\ Policy' /\ Erasure'
      BY <1>2, <2>1, <3>2, <3>3, AloneStep, PolicyStep, ErasureStep
    <3>5. Lineage' /\ Extraction'
      BY <1>2, <2>1, <3>2, <3>3, LineageStep, ExtractionStep
    <3>6. ThreadsInv'
      BY <1>2, <2>1, <3>2, <3>3, ThreadsStep
    <3>7. QED
      BY <3>4, <3>5, <3>6 DEF ThreadsInv
  <2>5. QED
    BY <2>2, <2>3, <2>4 DEF RecordsIInv
<1>3. CASE UNCHANGED recordsVars
  <2>1. /\ RecordsShape' = RecordsShape /\ PutsConfirmed' = PutsConfirmed
        /\ AgreedIsConfirmed' = AgreedIsConfirmed /\ OneAtATime' = OneAtATime
    BY <1>3 DEF recordsVars, historyVars, RecordsShape, PutsConfirmed, AgreedIsConfirmed, OneAtATime, Known
  <2>2. Alone' = Alone /\ Erasure' = Erasure /\ Policy' = Policy
    BY <1>3 DEF recordsVars, historyVars, Alone, IdleThread, Erasure, ConfirmedItems, ThreadsOf, Known, Policy, At
  <2>3. Lineage' = Lineage /\ Extraction' = Extraction
    BY <1>3 DEF recordsVars, historyVars, Lineage, Successors, Superseding, Reviewing, Extraction, Known, At
  <2>4. ThreadsDistinct' = ThreadsDistinct /\ Syncing' = Syncing /\ Projection' = Projection
    BY <1>3 DEF recordsVars, historyVars, ThreadsDistinct, Syncing, Projection, Follows, Known, At
  <2>5. QED
    BY <1>1, <2>1, <2>2, <2>3, <2>4 DEF RecordsIInv
<1>4. QED
  BY <1>1, <1>2, <1>3

\* In every behaviour what is agreed, committed or done was confirmed or added so,
\* whatever reviews overlap; and while requests are served one at a time no decision
\* has two successors and no question two threads, the extraction repeats nothing, and,
\* if the process did not die between two store calls, threads, successors and the
\* frozen policy follow the items and the session.
THEOREM RecordsInvariance == RecordsSpec => []RecordsInv
<1>1. RecordsInit => RecordsIInv
  BY RecordsInitInv
<1>2. RecordsIInv /\ [RecordsNext]_recordsVars => RecordsIInv'
  BY RecordsStep
<1>3. RecordsIInv => RecordsInv
  BY RecordsBounds
<1>4. QED
  BY <1>1, <1>2, <1>3, PTL DEF RecordsSpec
=============================================================================

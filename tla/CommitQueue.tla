---------------------------- MODULE CommitQueue ----------------------------
(***************************************************************************)
(* The ordered commit queue of the answer pipeline                         *)
(* (src/backend/api/assist/pipeline.py, scheduler.py, answer_worker.py).   *)
(*                                                                         *)
(* Questions are answered by parallel worker threads but their answers     *)
(* enter the session's qa_pairs in submission order.  Every submission     *)
(* takes the next sequence number; a worker that ends either flushes a     *)
(* commit closure for its number or marks the number skipped, and whoever  *)
(* holds _commit_lock drains the queue from _next_commit_seq upwards.      *)
(* A reset (stop, start, clear) bumps the session version under            *)
(* _dispatch_lock and LATER, under _commit_lock, empties the queue and     *)
(* moves _next_commit_seq to the cut it took in its first critical         *)
(* section; the two halves of several resets and of the drain interleave.  *)
(***************************************************************************)
EXTENDS Integers, Sequences, FiniteSets

CONSTANTS
    Resetters,     \* threads that may run cancel_answer_work at the same time
    MaxSubmits,    \* bound: questions submitted
    MaxResets,     \* bound: resets begun
    MaxFaults,     \* bound: workers that die without reporting
    QaCap          \* Session.MAX_QA_PAIRS

ASSUME BoundsAssumption ==
    /\ MaxSubmits \in Nat
    /\ MaxResets \in Nat
    /\ MaxFaults \in Nat
    /\ QaCap \in Nat \ {0}

VARIABLES
    nextSubmitSeq,   \* _next_submit_seq
    sessionVersion,  \* _task_session_version
    ver,             \* ver[s]: the session version captured when s was submitted
    owed,            \* numbers whose owner (queue or worker) has yet to report
    commitBuffer,    \* keys of _commit_buffer
    skippedSeqs,     \* _skipped_commit_seqs
    nextCommitSeq,   \* _next_commit_seq, or the drain's local copy of it
    drain,           \* the holder of _commit_lock inside drain_commit_queue
    reset,           \* reset[r]: progress of resetter r
    qaPairs,         \* sequence numbers behind session.qa_pairs, in list order
    lost,            \* history: numbers whose worker died without reporting
    clobbered,       \* history: a reset discarded state newer than its cut
    clearedAt        \* history: newest version whose reset emptied qa_pairs

queueVars == <<commitBuffer, skippedSeqs, nextCommitSeq, drain>>
ghostVars == <<lost, clobbered, clearedAt>>
vars == <<nextSubmitSeq, sessionVersion, ver, owed, queueVars, reset, qaPairs,
          ghostVars>>

Seqs == 0 .. MaxSubmits - 1

\* No resetter is between its halves / nobody is draining.
Idle == [pc |-> "idle", cut |-> 0, v |-> 0]
Free == [pc |-> "free", pre |-> 0]
Looping == [pc |-> "loop", pre |-> 0]

LockFree == drain.pc = "free"

\* The drain has popped the closure of nextCommitSeq and is running it.
Applying == drain.pc \in {"write", "wrote"}

Init ==
    /\ nextSubmitSeq = 0
    /\ sessionVersion = 0
    /\ ver = [s \in Seqs |-> 0]
    /\ owed = {}
    /\ commitBuffer = {}
    /\ skippedSeqs = {}
    /\ nextCommitSeq = 0
    /\ drain = Free
    /\ reset = [r \in Resetters |-> Idle]
    /\ qaPairs = <<>>
    /\ lost = {}
    /\ clobbered = FALSE
    /\ clearedAt = 0

-----------------------------------------------------------------------------
(* Producers: submission, and the two ways a number is reported.           *)

\* submit_answer_task: number and version are captured in one critical section.
SubmitAnswerTask ==
    /\ nextSubmitSeq < MaxSubmits
    /\ nextSubmitSeq' = nextSubmitSeq + 1
    /\ ver' = [ver EXCEPT ![nextSubmitSeq] = sessionVersion]
    /\ owed' = owed \union {nextSubmitSeq}
    /\ UNCHANGED <<sessionVersion, queueVars, reset, qaPairs, ghostVars>>

\* Mutant: the closure is stored and nobody drains.
FlushCommitNoDrain(s) ==
    /\ s \in owed
    /\ LockFree
    /\ owed' = owed \ {s}
    /\ commitBuffer' = IF s < nextCommitSeq THEN commitBuffer
                       ELSE commitBuffer \union {s}
    /\ UNCHANGED <<nextSubmitSeq, sessionVersion, ver, skippedSeqs, nextCommitSeq,
                   drain, reset, qaPairs, ghostVars>>

\* _flush_commit: a late number is dropped, any other starts a drain.
FlushCommit(s) ==
    /\ s \in owed
    /\ LockFree
    /\ owed' = owed \ {s}
    /\ IF s < nextCommitSeq
       THEN UNCHANGED queueVars
       ELSE /\ commitBuffer' = commitBuffer \union {s}
            /\ drain' = Looping
            /\ UNCHANGED <<skippedSeqs, nextCommitSeq>>
    /\ UNCHANGED <<nextSubmitSeq, sessionVersion, ver, reset, qaPairs, ghostVars>>

\* Mutant: the test for a late number is off by one.
MarkSeqSkippedLate(s) ==
    /\ s \in owed
    /\ LockFree
    /\ owed' = owed \ {s}
    /\ IF s <= nextCommitSeq
       THEN UNCHANGED queueVars
       ELSE /\ skippedSeqs' = skippedSeqs \union {s}
            /\ drain' = Looping
            /\ UNCHANGED <<commitBuffer, nextCommitSeq>>
    /\ UNCHANGED <<nextSubmitSeq, sessionVersion, ver, reset, qaPairs, ghostVars>>

\* _mark_seq_skipped: the same for a number that has no answer to commit.
MarkSeqSkipped(s) ==
    /\ s \in owed
    /\ LockFree
    /\ owed' = owed \ {s}
    /\ IF s < nextCommitSeq
       THEN UNCHANGED queueVars
       ELSE /\ skippedSeqs' = skippedSeqs \union {s}
            /\ drain' = Looping
            /\ UNCHANGED <<commitBuffer, nextCommitSeq>>
    /\ UNCHANGED <<nextSubmitSeq, sessionVersion, ver, reset, qaPairs, ghostVars>>

\* _run_answer_worker has a finally but no except: an exception raised outside
\* the handlers of process_question_parallel ends the thread with no report.
WorkerDies(s) ==
    /\ s \in owed
    /\ Cardinality(lost) < MaxFaults
    /\ owed' = owed \ {s}
    /\ lost' = lost \union {s}
    /\ UNCHANGED <<nextSubmitSeq, sessionVersion, ver, queueVars, reset, qaPairs,
                   clobbered, clearedAt>>

-----------------------------------------------------------------------------
(* drain_commit_queue, run by whoever reported, with _commit_lock held.    *)

DrainSkip ==
    /\ drain.pc = "loop"
    /\ nextCommitSeq \in skippedSeqs
    /\ skippedSeqs' = skippedSeqs \ {nextCommitSeq}
    /\ nextCommitSeq' = nextCommitSeq + 1
    /\ UNCHANGED <<nextSubmitSeq, sessionVersion, ver, owed, commitBuffer, drain,
                   reset, qaPairs, ghostVars>>

\* Mutant: _commit does not ask is_session_current.
DrainApplyStale ==
    /\ drain.pc = "loop"
    /\ nextCommitSeq \notin skippedSeqs
    /\ nextCommitSeq \in commitBuffer
    /\ commitBuffer' = commitBuffer \ {nextCommitSeq}
    /\ drain' = [pc |-> "write", pre |-> Len(qaPairs)]
    /\ UNCHANGED <<nextSubmitSeq, sessionVersion, ver, owed, skippedSeqs,
                   nextCommitSeq, reset, qaPairs, ghostVars>>

\* Mutant: closures run as they arrive.
DrainApplyAny ==
    /\ drain.pc = "loop"
    /\ \E s \in commitBuffer :
          /\ ver[s] = sessionVersion
          /\ commitBuffer' = commitBuffer \ {s}
          /\ nextCommitSeq' = s
    /\ drain' = [pc |-> "write", pre |-> Len(qaPairs)]
    /\ UNCHANGED <<nextSubmitSeq, sessionVersion, ver, owed, skippedSeqs, reset,
                   qaPairs, ghostVars>>

\* Pop the closure; _commit first asks is_session_current and a stale answer
\* returns at once.  The length of qa_pairs is read here, before
\* conversation_lock is taken.
DrainApply ==
    /\ drain.pc = "loop"
    /\ nextCommitSeq \notin skippedSeqs
    /\ nextCommitSeq \in commitBuffer
    /\ commitBuffer' = commitBuffer \ {nextCommitSeq}
    /\ IF ver[nextCommitSeq] = sessionVersion
       THEN /\ drain' = [pc |-> "write", pre |-> Len(qaPairs)]
            /\ UNCHANGED nextCommitSeq
       ELSE /\ nextCommitSeq' = nextCommitSeq + 1
            /\ UNCHANGED drain
    /\ UNCHANGED <<nextSubmitSeq, sessionVersion, ver, owed, skippedSeqs, reset,
                   qaPairs, ghostVars>>

\* Session.add_qa keeps the newest MAX_QA_PAIRS.
KeepNewest(q) ==
    IF Len(q) > QaCap THEN SubSeq(q, Len(q) - QaCap + 1, Len(q)) ELSE q

DrainWrite ==
    /\ drain.pc = "write"
    /\ qaPairs' = KeepNewest(Append(qaPairs, nextCommitSeq))
    /\ drain' = [drain EXCEPT !.pc = "wrote"]
    /\ UNCHANGED <<nextSubmitSeq, sessionVersion, ver, owed, commitBuffer,
                   skippedSeqs, nextCommitSeq, reset, ghostVars>>

\* An exam preflight answer is only broadcast, and a closure that fails before
\* add_qa has nothing to undo: qa_pairs is left alone.
DrainNoWrite ==
    /\ drain.pc = "write"
    /\ nextCommitSeq' = nextCommitSeq + 1
    /\ drain' = Looping
    /\ UNCHANGED <<nextSubmitSeq, sessionVersion, ver, owed, commitBuffer,
                   skippedSeqs, reset, qaPairs, ghostVars>>

\* The closure returns; drain_commit_queue moves on to the next number.
DrainDone ==
    /\ drain.pc = "wrote"
    /\ nextCommitSeq' = nextCommitSeq + 1
    /\ drain' = Looping
    /\ UNCHANGED <<nextSubmitSeq, sessionVersion, ver, owed, commitBuffer,
                   skippedSeqs, reset, qaPairs, ghostVars>>

\* Mutant: the handler pops the oldest pair.
DrainRollbackOldest ==
    /\ drain.pc = "wrote"
    /\ qaPairs' = IF Len(qaPairs) > drain.pre THEN Tail(qaPairs) ELSE qaPairs
    /\ nextCommitSeq' = nextCommitSeq + 1
    /\ drain' = Looping
    /\ UNCHANGED <<nextSubmitSeq, sessionVersion, ver, owed, commitBuffer,
                   skippedSeqs, reset, ghostVars>>

\* Something after add_qa raises (traces, telemetry, broadcast): _commit's
\* handler pops the newest pair if the list is longer than it was before.
DrainRollback ==
    /\ drain.pc = "wrote"
    /\ qaPairs' = IF Len(qaPairs) > drain.pre
                  THEN SubSeq(qaPairs, 1, Len(qaPairs) - 1)
                  ELSE qaPairs
    /\ nextCommitSeq' = nextCommitSeq + 1
    /\ drain' = Looping
    /\ UNCHANGED <<nextSubmitSeq, sessionVersion, ver, owed, commitBuffer,
                   skippedSeqs, reset, ghostVars>>

DrainExit ==
    /\ drain.pc = "loop"
    /\ nextCommitSeq \notin skippedSeqs \union commitBuffer
    /\ drain' = Free
    /\ UNCHANGED <<nextSubmitSeq, sessionVersion, ver, owed, commitBuffer,
                   skippedSeqs, nextCommitSeq, reset, qaPairs, ghostVars>>

-----------------------------------------------------------------------------
(* cancel_answer_work in its three critical sections.                      *)

\* _dispatch_lock: the version is bumped, the cut is taken, and the questions
\* still pending (a part of owed) are forgotten; running workers report later.
ResetBegin(r) ==
    /\ reset[r].pc = "idle"
    /\ sessionVersion < MaxResets
    /\ sessionVersion' = sessionVersion + 1
    /\ \E wiped \in SUBSET owed : owed' = owed \ wiped
    /\ reset' = [reset EXCEPT ![r] = [pc |-> "commit", cut |-> nextSubmitSeq,
                                      v |-> sessionVersion + 1]]
    /\ UNCHANGED <<nextSubmitSeq, ver, queueVars, qaPairs, ghostVars>>

\* Newer than the cut, yet about to be overwritten by the reset that took it.
NewerThan(cut) ==
    nextCommitSeq > cut \/ \E s \in commitBuffer \union skippedSeqs : s >= cut

\* Mutant: the queue is restarted without _commit_lock.
ResetCommitUnlocked(r) ==
    /\ reset[r].pc = "commit"
    /\ commitBuffer' = {}
    /\ skippedSeqs' = {}
    /\ nextCommitSeq' = reset[r].cut
    /\ reset' = [reset EXCEPT ![r].pc = "data"]
    /\ clobbered' = (clobbered \/ NewerThan(reset[r].cut))
    /\ UNCHANGED <<nextSubmitSeq, sessionVersion, ver, owed, drain, qaPairs, lost,
                   clearedAt>>

\* _commit_lock: the queue is emptied and restarted at the cut.
ResetCommit(r) ==
    /\ reset[r].pc = "commit"
    /\ LockFree
    /\ commitBuffer' = {}
    /\ skippedSeqs' = {}
    /\ nextCommitSeq' = reset[r].cut
    /\ reset' = [reset EXCEPT ![r].pc = "data"]
    /\ clobbered' = (clobbered \/ NewerThan(reset[r].cut))
    /\ UNCHANGED <<nextSubmitSeq, sessionVersion, ver, owed, drain, qaPairs, lost,
                   clearedAt>>

\* conversation_lock: reset_session empties the session ...
ResetData(r) ==
    /\ reset[r].pc = "data"
    /\ qaPairs' = <<>>
    /\ reset' = [reset EXCEPT ![r] = Idle]
    /\ clearedAt' = IF reset[r].v > clearedAt THEN reset[r].v ELSE clearedAt
    /\ UNCHANGED <<nextSubmitSeq, sessionVersion, ver, owed, queueVars, lost,
                   clobbered>>

\* ... unless the caller asked to keep it (stop, ask/cancel).
ResetKeep(r) ==
    /\ reset[r].pc = "data"
    /\ reset' = [reset EXCEPT ![r] = Idle]
    /\ UNCHANGED <<nextSubmitSeq, sessionVersion, ver, owed, queueVars, qaPairs,
                   ghostVars>>

-----------------------------------------------------------------------------
Report(s) == FlushCommit(s) \/ MarkSeqSkipped(s)

Drain ==
    \/ DrainSkip
    \/ DrainApply
    \/ DrainWrite
    \/ DrainNoWrite
    \/ DrainDone
    \/ DrainRollback
    \/ DrainExit

ResetEnd(r) == ResetData(r) \/ ResetKeep(r)

Next ==
    \/ SubmitAnswerTask
    \/ \E s \in Seqs : Report(s) \/ WorkerDies(s)
    \/ Drain
    \/ \E r \in Resetters : ResetBegin(r) \/ ResetCommit(r) \/ ResetEnd(r)

Spec == Init /\ [][Next]_vars

\* A drain and a reset are straight-line code of a running thread, and a worker
\* ends: its provider calls carry timeouts and every stream checks for abort.
Fairness ==
    /\ WF_vars(Drain)
    /\ \A s \in Seqs : WF_vars(Report(s))
    /\ \A r \in Resetters : WF_vars(ResetCommit(r)) /\ WF_vars(ResetEnd(r))

FairSpec == Spec /\ Fairness

-----------------------------------------------------------------------------
\* Every variable keeps its type, and what is being applied is a number.
TypeOK ==
    /\ nextSubmitSeq \in 0 .. MaxSubmits
    /\ sessionVersion \in 0 .. MaxResets
    /\ ver \in [Seqs -> Nat]
    /\ owed \subseteq Seqs
    /\ commitBuffer \subseteq Seqs
    /\ skippedSeqs \subseteq Seqs
    /\ nextCommitSeq \in Nat
    /\ drain \in [pc : {"free", "loop", "write", "wrote"}, pre : Nat]
    /\ reset \in [Resetters -> [pc : {"idle", "commit", "data"}, cut : Nat, v : Nat]]
    /\ qaPairs \in Seq(Seqs)
    /\ lost \subseteq Seqs
    /\ clobbered \in BOOLEAN
    /\ clearedAt \in Nat
    /\ Applying => nextCommitSeq \in Seqs

\* Answers stand in qa_pairs in the order their questions were submitted, and
\* none is there twice, although workers finish in any order, resets overlap
\* and the queue may be rewound to an older cut.
LogOrdered ==
    \A i, j \in 1 .. Len(qaPairs) : i < j => qaPairs[i] < qaPairs[j]

\* Once a reset has emptied qa_pairs, no answer to a question asked before that
\* reset ever appears there, although the version check of _commit and its
\* write are not atomic with the version bump.
ClearedStaysClear ==
    \A i \in 1 .. Len(qaPairs) : ver[qaPairs[i]] >= clearedAt

\* Numbers of the current version the queue has not passed yet.
Outstanding ==
    {s \in Seqs : s < nextSubmitSeq /\ s >= nextCommitSeq /\ ver[s] = sessionVersion}

\* Somebody will still settle s: its owner, the queue or the running closure.
Accounted(s) ==
    s \in owed \union commitBuffer \union skippedSeqs \/ (Applying /\ s = nextCommitSeq)

\* The queue never waits for a number nobody will report, unless its worker
\* died silently or a reset overwrote newer state with its stale cut.
NothingStranded ==
    ~clobbered => \A s \in Outstanding : Accounted(s) \/ s \in lost

\* The same without the two excuses: what the comment in answer_worker.py asks,
\* that the queue must advance past a generation that failed.
QueueAdvances ==
    \A s \in Outstanding : Accounted(s)

\* Every submitted question is eventually passed by the queue, whether answered,
\* skipped or cut off by a reset, unless one of the two faults happened.
EverySeqSettles ==
    \A s \in Seqs :
        (s < nextSubmitSeq) ~> (nextCommitSeq > s \/ clobbered \/ lost # {})

-----------------------------------------------------------------------------
\* The numbers whose answer may still enter qa_pairs: of the current version and
\* not yet popped, or already past the version check of _commit.
Eligible ==
    {s \in owed \union commitBuffer : ver[s] = sessionVersion}
        \union {s \in {nextCommitSeq} : drain.pc = "write"}

\* The queue implements the ordered list of answers: whatever the interleaving of
\* reports, drains and resets, a reader sees a legal history of OrderedAnswers.
Ordered == INSTANCE OrderedAnswers WITH
    Limit <- MaxSubmits, Cap <- QaCap,
    submitted <- nextSubmitSeq, eligible <- Eligible, answers <- qaPairs

OrderedSpec == Ordered!Spec
=============================================================================

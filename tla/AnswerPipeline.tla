--------------------------- MODULE AnswerPipeline ---------------------------
(***************************************************************************)
(* The answer pipeline in front of the commit queue                        *)
(* (src/backend/api/assist/pipeline.py, scheduler.py, answer_worker.py,    *)
(* asr_state.py).                                                          *)
(*                                                                         *)
(* A question is appended to _pending, claimed for a model by a dispatch   *)
(* loop, answered by a worker thread and reported to the commit queue      *)
(* (module CommitQueue, whose actions the actions here conjoin).           *)
(* _try_dispatch runs in the submitting thread, in timers and in the       *)
(* finally of every worker, so several loops run at once; before it claims *)
(* it may ask an LLM, with no lock held, whether a pending ASR text is a   *)
(* question at all.  The ASR thread holds _asr_state_lock from the moment  *)
(* it opens a turn until its own dispatch loop returns.                    *)
(***************************************************************************)
EXTENDS CommitQueue

CONSTANTS
    Models,           \* enabled models with an API key
    VisionModels,     \* those that read images
    MaxParallel,      \* max_parallel_answers
    InterruptRunning, \* asr_interrupt_running: a new ASR turn supersedes old ones
    Dispatchers,      \* threads that may run _try_dispatch
    AsrThread,        \* the one that holds _asr_state_lock while it does
    MaxClusters,      \* questions one ASR turn may contain
    MaxTurns,         \* bound: ASR turns opened
    MaxTails,         \* bound: late constraints merged into one question
    MaxHealth         \* bound: changes of the models' health

ASSUME PipelineAssumption ==
    /\ VisionModels \subseteq Models
    /\ IsFiniteSet(Models)
    /\ Models # {}
    /\ MaxParallel \in Nat \ {0}
    /\ InterruptRunning \in BOOLEAN
    /\ AsrThread \in Dispatchers
    /\ MaxClusters \in Nat \ {0}
    /\ MaxTurns \in Nat /\ MaxTails \in Nat
    /\ MaxHealth \in Nat

VARIABLES
    pending,      \* _pending
    inFlight,     \* _in_flight_tasks: number -> model, at most one each
    latestTurn,   \* _latest_asr_turn_id
    generation,   \* _answer_generation
    bumped,       \* resetters that bumped the generation and not yet the version
    worker,       \* worker[s]: the thread answering number s
    disp,         \* disp[d]: where dispatch loop d is
    calls,        \* _try_dispatch calls made but not yet running
    holder,       \* whose report is being drained: it holds _commit_lock
    healthy,      \* models whose health is not "error"
    turns,        \* history: turns opened (bound)
    flips         \* history: health changes (bound)

pipeVars == <<pending, inFlight, latestTurn, generation, bumped, worker, disp,
              calls, holder, healthy, turns, flips>>
pvars == <<vars, pipeVars>>

\* A queued question.  sure: asr_kind is not "candidate"; wait: its
\* dispatch_after_mono is ahead; tail: how many late constraints were merged into it.
Item(s, asr, image, turn, sure, wait) ==
    [seq |-> s, asr |-> asr, image |-> image, turn |-> turn, sure |-> sure,
     wait |-> wait, tail |-> 0]

NoItem == Item(0, FALSE, FALSE, 0, TRUE, FALSE)

NoWorker == [pc |-> "none", task |-> NoItem, gen |-> 0]
NoLoop == [pc |-> "idle", at |-> 0, item |-> NoItem, skips |-> {}, left |-> 0]
Nobody == -1

PipelineInit ==
    /\ Init
    /\ pending = <<>>
    /\ inFlight = [s \in {} |-> {}]
    /\ latestTurn = 0
    /\ generation = 0
    /\ bumped = {}
    /\ worker = [s \in Seqs |-> NoWorker]
    /\ disp = [d \in Dispatchers |-> NoLoop]
    /\ calls = 0
    /\ holder = Nobody
    /\ healthy = Models
    /\ turns = 0
    /\ flips = 0

-----------------------------------------------------------------------------
(* Locks and the small decisions of scheduler.py.                          *)

Remove(q, i) == SubSeq(q, 1, i - 1) \o SubSeq(q, i + 1, Len(q))

PendingSeqs == {pending[i].seq : i \in 1 .. Len(pending)}

\* A rejected question is marked skipped with _dispatch_lock still held.
DispatchLockFree == \A d \in Dispatchers : disp[d].pc \notin {"reject", "rejecting"}

AsrLockFree == disp[AsrThread].pc = "idle"

\* Thread t is not inside a drain: what it reported has been dealt with.
NotDraining(t) == holder # t

SmallerOf(a, b) == IF a < b THEN a ELSE b
LargerOf(a, b) == IF a > b THEN a ELSE b

\* max_parallel_slots
MaxParallelSlots ==
    LargerOf(1, SmallerOf(MaxParallel, LargerOf(Cardinality(healthy), 1)))

\* _should_interrupt_stale_asr
InterruptStaleAsr == InterruptRunning /\ MaxParallelSlots <= 1

BusyModels == {inFlight[s] : s \in DOMAIN inFlight}

\* pick_model_index: free models that fit the task, unhealthy ones only when
\* nothing else is free (the priority among equals is left open).
PickModelIndex(item) ==
    LET free == (IF item.image THEN VisionModels ELSE Models) \ BusyModels
    IN  IF free \intersect healthy # {} THEN free \intersect healthy ELSE free

StaleTurn(item) == InterruptStaleAsr /\ item.asr /\ item.turn < latestTurn

\* Where the scan of claim_next_dispatch stops: the first item past its grace
\* that is stale or can be given a model.
Stops(item) == ~item.wait /\ (StaleTurn(item) \/ PickModelIndex(item) # {})

FirstWhere(Test(_)) ==
    {i \in 1 .. Len(pending) :
        Test(pending[i]) /\ \A j \in 1 .. i - 1 : ~Test(pending[j])}

\* Whoever reports becomes the holder of _commit_lock if its report drains.
ReportBy(t) == holder' = IF drain' # drain THEN t ELSE holder

-----------------------------------------------------------------------------
(* Submission.                                                             *)

\* submit_answer_task: refused when no model fits at all.
Enqueue(item) ==
    /\ item.image => VisionModels # {}
    /\ SubmitAnswerTask
    /\ DispatchLockFree
    /\ pending' = Append(pending, item)

\* An API request: a typed question or a screenshot.
ManualSubmit(image) ==
    /\ Enqueue(Item(nextSubmitSeq, FALSE, image, 0, TRUE, FALSE))
    /\ calls' = calls + 1
    /\ UNCHANGED <<inFlight, latestTurn, generation, bumped, worker, disp, holder,
                   healthy, turns, flips>>

\* The queue without its ASR questions, in order.
TypedOnly ==
    LET kept == {i \in 1 .. Len(pending) : ~pending[i].asr}
        at == CHOOSE f \in [1 .. Cardinality(kept) -> kept] :
                 \A j, k \in 1 .. Cardinality(kept) : j < k => f[j] < f[k]
    IN  [j \in 1 .. Cardinality(kept) |-> pending[at[j]]]

\* Mutant: dropped questions are not reported to the commit queue.
BeginAsrTurnSilent ==
    /\ disp[AsrThread].pc = "idle"
    /\ DispatchLockFree
    /\ turns < MaxTurns
    /\ turns' = turns + 1
    /\ latestTurn' = latestTurn + 1
    /\ \E n \in 1 .. MaxClusters :
          disp' = [disp EXCEPT ![AsrThread] = [NoLoop EXCEPT !.pc = "turn", !.left = n]]
    /\ pending' = IF InterruptStaleAsr THEN TypedOnly ELSE pending
    /\ UNCHANGED <<vars, inFlight, generation, bumped, worker, calls, holder, healthy,
                   flips>>

\* begin_asr_turn: the questions of older turns are dropped when one slot is left.
BeginAsrTurn ==
    /\ disp[AsrThread].pc = "idle"
    /\ DispatchLockFree
    /\ turns < MaxTurns
    /\ turns' = turns + 1
    /\ latestTurn' = latestTurn + 1
    /\ \E n \in 1 .. MaxClusters :
          disp' = [disp EXCEPT ![AsrThread] = [NoLoop EXCEPT
             !.pc = "turn", !.left = n,
             !.skips = IF InterruptStaleAsr
                       THEN {pending[i].seq : i \in {j \in 1 .. Len(pending) :
                                                       pending[j].asr}}
                       ELSE {}]]
    /\ pending' = IF InterruptStaleAsr THEN TypedOnly ELSE pending
    /\ UNCHANGED <<vars, inFlight, generation, bumped, worker, calls, holder, healthy,
                   flips>>

\* They are marked skipped one by one, with no lock but _asr_state_lock.
SkipSuperseded(s) ==
    /\ disp[AsrThread].pc = "turn"
    /\ s \in disp[AsrThread].skips
    /\ NotDraining(AsrThread)
    /\ MarkSeqSkipped(s)
    /\ ReportBy(AsrThread)
    /\ disp' = [disp EXCEPT ![AsrThread].skips = @ \ {s}]
    /\ UNCHANGED <<pending, inFlight, latestTurn, generation, bumped, worker, calls,
                   healthy, turns, flips>>

\* One question of the turn is submitted and its dispatch loop runs in place.
AsrSubmit(sure, wait) ==
    /\ disp[AsrThread].pc = "turn"
    /\ disp[AsrThread].skips = {}
    /\ NotDraining(AsrThread)
    /\ Enqueue(Item(nextSubmitSeq, TRUE, FALSE, latestTurn, sure, wait))
    /\ disp' = [disp EXCEPT ![AsrThread].pc = "top", ![AsrThread].left = @ - 1]
    /\ UNCHANGED <<inFlight, latestTurn, generation, bumped, worker, calls, holder,
                   healthy, turns, flips>>

\* _append_late_asr_constraint_tail: the newest ASR question still in its grace
\* absorbs what the speaker added.
AppendLateTail ==
    /\ disp[AsrThread].pc = "idle"
    /\ DispatchLockFree
    /\ \E i \in 1 .. Len(pending) :
          /\ pending[i].asr /\ pending[i].wait /\ pending[i].tail < MaxTails
          /\ \A j \in i + 1 .. Len(pending) : ~(pending[j].asr /\ pending[j].wait)
          /\ pending' = [pending EXCEPT ![i].tail = @ + 1]
    /\ UNCHANGED <<vars, inFlight, latestTurn, generation, bumped, worker, disp, calls,
                   holder, healthy, turns, flips>>

\* The grace of a question ends and the timer submit_answer_task set calls
\* _try_dispatch.
GraceEnds ==
    /\ \E i \in 1 .. Len(pending) :
          pending[i].wait /\ pending' = [pending EXCEPT ![i].wait = FALSE]
    /\ calls' = calls + 1
    /\ UNCHANGED <<vars, inFlight, latestTurn, generation, bumped, worker, disp, holder,
                   healthy, turns, flips>>

-----------------------------------------------------------------------------
(* _try_dispatch.                                                          *)

StartLoop(d) ==
    /\ d # AsrThread
    /\ disp[d].pc = "idle"
    /\ calls > 0
    /\ calls' = calls - 1
    /\ disp' = [disp EXCEPT ![d].pc = "top"]
    /\ UNCHANGED <<vars, pending, inFlight, latestTurn, generation, bumped, worker,
                   holder, healthy, turns, flips>>

\* _maybe_llm_judge_pending_asr, first half: remember the first unsure question
\* and its index, then let go of the lock.
JudgeRead(d) ==
    /\ disp[d].pc = "top"
    /\ DispatchLockFree
    /\ LET unsure == FirstWhere(LAMBDA item : ~item.sure)
       IN  IF unsure = {}
           THEN disp' = [disp EXCEPT ![d].pc = "claim"]
           ELSE \E i \in unsure :
                   disp' = [disp EXCEPT ![d].pc = "judge", ![d].at = i,
                                        ![d].item = pending[i]]
    /\ UNCHANGED <<vars, pending, inFlight, latestTurn, generation, bumped, worker,
                   calls, holder, healthy, turns, flips>>

\* cur != found_item compares the task, not the time that has passed.
SameTask(a, b) == [a EXCEPT !.wait = FALSE] = [b EXCEPT !.wait = FALSE]

StillThere(d) ==
    /\ disp[d].at <= Len(pending)
    /\ SameTask(pending[disp[d].at], disp[d].item)

\* Second half, after the LLM call: the verdict counts only for the same task
\* at the same index.
JudgeMoved(d) ==
    /\ disp[d].pc = "judge"
    /\ DispatchLockFree
    /\ ~StillThere(d)
    /\ disp' = [disp EXCEPT ![d].pc = "claim", ![d].at = 0, ![d].item = NoItem]
    /\ UNCHANGED <<vars, pending, inFlight, latestTurn, generation, bumped, worker,
                   calls, holder, healthy, turns, flips>>

JudgePromote(d) ==
    /\ disp[d].pc = "judge"
    /\ DispatchLockFree
    /\ StillThere(d)
    /\ pending' = [pending EXCEPT ![disp[d].at].sure = TRUE]
    /\ disp' = [disp EXCEPT ![d].pc = "claim", ![d].at = 0, ![d].item = NoItem]
    /\ UNCHANGED <<vars, inFlight, latestTurn, generation, bumped, worker, calls,
                   holder, healthy, turns, flips>>

\* Mutant: a rejection is applied to the index whatever is there by now.
JudgeRejectBlind(d) ==
    /\ disp[d].pc = "judge"
    /\ DispatchLockFree
    /\ disp[d].at <= Len(pending)
    /\ pending' = Remove(pending, disp[d].at)
    /\ disp' = [disp EXCEPT ![d].pc = "reject", ![d].at = 0, ![d].item = NoItem,
                            ![d].skips = {disp[d].item.seq}]
    /\ UNCHANGED <<vars, inFlight, latestTurn, generation, bumped, worker, calls,
                   holder, healthy, turns, flips>>

JudgeReject(d) ==
    /\ disp[d].pc = "judge"
    /\ DispatchLockFree
    /\ StillThere(d)
    /\ pending' = Remove(pending, disp[d].at)
    /\ disp' = [disp EXCEPT ![d].pc = "reject", ![d].at = 0, ![d].item = NoItem,
                            ![d].skips = {disp[d].item.seq}]
    /\ UNCHANGED <<vars, inFlight, latestTurn, generation, bumped, worker, calls,
                   holder, healthy, turns, flips>>

\* claim_next_dispatch finds a question of a superseded turn: drop it.
ClaimStale(d) ==
    /\ disp[d].pc = "claim"
    /\ DispatchLockFree
    /\ Cardinality(DOMAIN inFlight) < MaxParallelSlots
    /\ \E i \in FirstWhere(Stops) :
          /\ StaleTurn(pending[i])
          /\ pending' = Remove(pending, i)
          /\ disp' = [disp EXCEPT ![d].pc = "skip", ![d].skips = {pending[i].seq}]
    /\ UNCHANGED <<vars, inFlight, latestTurn, generation, bumped, worker, calls,
                   holder, healthy, turns, flips>>

\* It gives a question a model and a thread.
ClaimTask(d) ==
    /\ disp[d].pc = "claim"
    /\ DispatchLockFree
    /\ Cardinality(DOMAIN inFlight) < MaxParallelSlots
    /\ \E i \in FirstWhere(Stops) :
          /\ ~StaleTurn(pending[i])
          /\ \E m \in PickModelIndex(pending[i]) :
                inFlight' = [s \in DOMAIN inFlight \union {pending[i].seq} |->
                                IF s = pending[i].seq THEN m ELSE inFlight[s]]
          /\ worker' = [worker EXCEPT ![pending[i].seq] =
                           [pc |-> "start", task |-> pending[i], gen |-> 0]]
          /\ pending' = Remove(pending, i)
    /\ disp' = [disp EXCEPT ![d].pc = "top"]
    /\ UNCHANGED <<vars, latestTurn, generation, bumped, calls, holder, healthy, turns,
                   flips>>

\* Every slot is taken, or nothing in the queue can run: the loop returns, and
\* in the ASR thread the next question of the turn is submitted.
ClaimNothing(d) ==
    /\ disp[d].pc = "claim"
    /\ DispatchLockFree
    /\ \/ Cardinality(DOMAIN inFlight) >= MaxParallelSlots
       \/ FirstWhere(Stops) = {}
    /\ disp' = [disp EXCEPT ![d] = [NoLoop EXCEPT
                   !.pc = IF disp[d].left > 0 THEN "turn" ELSE "idle",
                   !.left = disp[d].left]]
    /\ UNCHANGED <<vars, pending, inFlight, latestTurn, generation, bumped, worker,
                   calls, holder, healthy, turns, flips>>

\* The dropped number is reported: with _dispatch_lock held after a rejection,
\* with no lock after a stale claim.
MarkDropped(d) ==
    /\ disp[d].pc \in {"reject", "skip"}
    /\ \E s \in disp[d].skips : MarkSeqSkipped(s)
    /\ ReportBy(d)
    /\ disp' = [disp EXCEPT ![d].skips = {},
                  ![d].pc = IF @ = "reject" THEN "rejecting" ELSE "skipping"]
    /\ UNCHANGED <<pending, inFlight, latestTurn, generation, bumped, worker, calls,
                   healthy, turns, flips>>

\* ... and the loop goes on when the drain it started is over.
AfterDropped(d) ==
    /\ disp[d].pc \in {"rejecting", "skipping"}
    /\ NotDraining(d)
    /\ disp' = [disp EXCEPT ![d].pc = IF @ = "rejecting" THEN "claim" ELSE "top"]
    /\ UNCHANGED <<vars, pending, inFlight, latestTurn, generation, bumped, worker,
                   calls, holder, healthy, turns, flips>>

-----------------------------------------------------------------------------
(* A worker thread: _run_answer_worker and process_question_parallel.      *)

Moves(s, from, to) ==
    /\ worker[s].pc = from
    /\ worker' = [worker EXCEPT ![s].pc = to]

\* aborted(): the session or generation changed, or a newer ASR turn opened.
Aborted(s) ==
    \/ ver[s] # sessionVersion
    \/ worker[s].gen # generation
    \/ StaleTurn(worker[s].task)

WorkerOnly ==
    UNCHANGED <<vars, pending, inFlight, latestTurn, generation, bumped, disp, calls,
                holder, healthy, turns, flips>>

\* The generation is captured, then start_abort_check compares the version.
WorkerStart(s) ==
    /\ worker[s].pc = "start"
    /\ worker' = [worker EXCEPT ![s].gen = generation,
                    ![s].pc = IF ver[s] # sessionVersion THEN "skip" ELSE "run"]
    /\ WorkerOnly

\* The policy gate, a failed stream, an empty answer, or an abort seen by a check
\* during or right after the stream.
WorkerFails(s) == Moves(s, "run", "skip") /\ WorkerOnly

\* The check after the stream passes; what follows never checks again.
WorkerAnswers(s) == ~Aborted(s) /\ Moves(s, "run", "commit") /\ WorkerOnly

WorkerFlush(s) ==
    /\ Moves(s, "commit", "reported")
    /\ FlushCommit(s)
    /\ ReportBy(s)
    /\ UNCHANGED <<pending, inFlight, latestTurn, generation, bumped, disp, calls,
                   healthy, turns, flips>>

WorkerMark(s) ==
    /\ Moves(s, "skip", "reported")
    /\ MarkSeqSkipped(s)
    /\ ReportBy(s)
    /\ UNCHANGED <<pending, inFlight, latestTurn, generation, bumped, disp, calls,
                   healthy, turns, flips>>

\* An exception nobody catches: only the finally below runs.
WorkerRaises(s) ==
    /\ Moves(s, "run", "reported")
    /\ WorkerDies(s)
    /\ UNCHANGED <<pending, inFlight, latestTurn, generation, bumped, disp, calls, holder,
                   healthy, turns, flips>>

\* Mutant: the slot is given back and nobody dispatches.
WorkerEndsQuietly(s) ==
    /\ Moves(s, "reported", "over")
    /\ NotDraining(s)
    /\ DispatchLockFree
    /\ inFlight' = [t \in DOMAIN inFlight \ {s} |-> inFlight[t]]
    /\ UNCHANGED <<vars, pending, latestTurn, generation, bumped, disp, calls, holder,
                   healthy, turns, flips>>

\* finally: give the slot back and dispatch again.
WorkerEnds(s) ==
    /\ Moves(s, "reported", "over")
    /\ NotDraining(s)
    /\ DispatchLockFree
    /\ inFlight' = [t \in DOMAIN inFlight \ {s} |-> inFlight[t]]
    /\ calls' = calls + 1
    /\ UNCHANGED <<vars, pending, latestTurn, generation, bumped, disp, holder, healthy,
                   turns, flips>>

-----------------------------------------------------------------------------
(* The commit queue's own steps, and cancel_answer_work.                   *)

\* The drain belongs to the thread that reported; at its end the lock is free.
DrainStep ==
    /\ Drain
    /\ holder' = IF drain'.pc = "free" THEN Nobody ELSE holder
    /\ UNCHANGED <<pending, inFlight, latestTurn, generation, bumped, worker, disp, calls,
                   healthy, turns, flips>>

\* _bump_generation comes first, under a lock of its own.
CancelBump(r) ==
    /\ reset[r].pc = "idle"
    /\ r \notin bumped
    /\ sessionVersion + Cardinality(bumped) < MaxResets
    /\ generation' = generation + 1
    /\ bumped' = bumped \union {r}
    /\ UNCHANGED <<vars, pending, inFlight, latestTurn, worker, disp, calls, holder,
                   healthy, turns, flips>>

\* _reset_answer_state under _asr_state_lock and _dispatch_lock.  Workers go on:
\* only the table of tasks in flight is forgotten.
CancelBegin(r) ==
    /\ r \in bumped
    /\ AsrLockFree
    /\ DispatchLockFree
    /\ ResetBegin(r)
    /\ owed' = owed \ PendingSeqs
    /\ pending' = <<>>
    /\ inFlight' = [s \in {} |-> {}]
    /\ latestTurn' = 0
    /\ bumped' = bumped \ {r}
    /\ UNCHANGED <<generation, worker, disp, calls, holder, healthy, turns, flips>>

CancelEnd(r) == (ResetCommit(r) \/ ResetEnd(r)) /\ UNCHANGED pipeVars

\* The health checker finds a model failing, or well again.
HealthChange ==
    /\ flips < MaxHealth
    /\ flips' = flips + 1
    /\ \E m \in Models :
          healthy' = IF m \in healthy THEN healthy \ {m} ELSE healthy \union {m}
    /\ UNCHANGED <<vars, pending, inFlight, latestTurn, generation, bumped, worker, disp,
                   calls, holder, turns>>

-----------------------------------------------------------------------------
LoopStep(d) ==
    \/ StartLoop(d)
    \/ JudgeRead(d)
    \/ JudgeMoved(d)
    \/ JudgePromote(d)
    \/ JudgeReject(d)
    \/ ClaimStale(d)
    \/ ClaimTask(d)
    \/ ClaimNothing(d)
    \/ MarkDropped(d)
    \/ AfterDropped(d)

WorkerStep(s) ==
    \/ WorkerStart(s)
    \/ WorkerFails(s)
    \/ WorkerAnswers(s)
    \/ WorkerFlush(s)
    \/ WorkerMark(s)
    \/ WorkerRaises(s)
    \/ WorkerEnds(s)

AsrStep ==
    \/ \E s \in Seqs : SkipSuperseded(s)
    \/ \E sure, wait \in BOOLEAN : AsrSubmit(sure, wait)

PipelineNext ==
    \/ \E image \in BOOLEAN : ManualSubmit(image)
    \/ BeginAsrTurn
    \/ AsrStep
    \/ AppendLateTail
    \/ GraceEnds
    \/ \E d \in Dispatchers : LoopStep(d)
    \/ \E s \in Seqs : WorkerStep(s)
    \/ DrainStep
    \/ \E r \in Resetters : CancelBump(r) \/ CancelBegin(r) \/ CancelEnd(r)
    \/ HealthChange

PipelineSpec == PipelineInit /\ [][PipelineNext]_pvars

\* Threads that run keep running, timers fire, provider calls (the judge's and
\* the worker's) end by answer, error or timeout.
PipelineFairness ==
    /\ WF_pvars(AsrStep)
    /\ WF_pvars(GraceEnds)
    /\ \A d \in Dispatchers : WF_pvars(LoopStep(d))
    /\ \A s \in Seqs : WF_pvars(WorkerStep(s))
    /\ WF_pvars(DrainStep)
    /\ \A r \in Resetters : WF_pvars(CancelBegin(r)) /\ WF_pvars(CancelEnd(r))

PipelineFairSpec == PipelineSpec /\ PipelineFairness

-----------------------------------------------------------------------------
\* Every variable keeps its type.
PipelineTypeOK ==
    /\ \A i \in 1 .. Len(pending) : pending[i].seq \in Seqs
    /\ DOMAIN inFlight \subseteq Seqs
    /\ BusyModels \subseteq Models
    /\ latestTurn \in 0 .. MaxTurns
    /\ generation \in 0 .. MaxResets
    /\ bumped \subseteq Resetters
    /\ calls \in Nat
    /\ holder \in Seqs \union Dispatchers \union {Nobody}
    /\ healthy \subseteq Models

\* Where a number that still owes its outcome can be.
InQueue == PendingSeqs
InWorker == {s \in Seqs : worker[s].pc \in {"start", "run", "commit", "skip"}}
InDropped(d) == disp[d].skips

\* Every number that owes its outcome has exactly one owner: the queue, one
\* worker or one thread about to mark it skipped.  Nothing is answered twice and
\* nothing falls between the queue and the workers, although the judge, claims,
\* turns and resets all remove from the queue.
OneOwner ==
    /\ owed = InQueue \union InWorker \union UNION {InDropped(d) : d \in Dispatchers}
    /\ Cardinality(InQueue) = Len(pending)
    /\ InQueue \intersect InWorker = {}
    /\ \A d \in Dispatchers :
          /\ InDropped(d) \intersect (InQueue \union InWorker) = {}
          /\ \A e \in Dispatchers \ {d} : InDropped(d) \intersect InDropped(e) = {}

\* Two questions in flight never share a model, and each has its live worker:
\* busy-model bookkeeping survives loops that claim at the same time, workers
\* that end late and resets that forget the table under them.
ModelsExclusive ==
    /\ \A s, t \in DOMAIN inFlight : s # t => inFlight[s] # inFlight[t]
    /\ \A s \in DOMAIN inFlight : worker[s].pc \notin {"none", "over"}

\* A question past its grace is never left in the queue with nobody to look at
\* it: a loop is running or called for, or a worker in flight will call one.
NoForgottenQuestion ==
    (\E i \in 1 .. Len(pending) : ~pending[i].wait) =>
        \/ calls > 0
        \/ \E d \in Dispatchers : disp[d].pc # "idle"
        \/ DOMAIN inFlight # {}

\* The pipeline's bookkeeping is sound in every state: of questions, of models
\* and of who is to look at the queue next.
PipelineInv == PipelineTypeOK /\ OneOwner /\ ModelsExclusive /\ NoForgottenQuestion

\* When the judge throws a text out, the text it judged leaves the queue and
\* nothing else does, although the lock was free during the LLM call.
JudgeExact ==
    [][\A d \in Dispatchers :
         (disp[d].pc = "judge" /\ disp'[d].pc = "reject") =>
            \E i \in 1 .. Len(pending) :
               /\ SameTask(pending[i], disp[d].item)
               /\ pending' = Remove(pending, i)]_pvars

\* Every submitted question is eventually answered, skipped or cut off, unless
\* one of the two faults of the commit queue happened.
EveryQuestionSettles == EverySeqSettles
=============================================================================

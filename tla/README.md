# Chengzhu in TLA+

Chengzhu answers interview questions while they are being asked. Audio becomes
text, text becomes questions, questions are answered by several LLMs at the same
time, and the answers enter the session in the order the questions were asked.
The backend is one Python process; its actors are threads: request handlers, the
capture, recognition (ASR) and flush threads, timers, one worker thread per answer,
memory compactors. Beside interviews it keeps conversations: it transcribes them,
extracts decisions and questions that the user reviews, and writes approved drafts to
external providers (an issue, an event, a mail). This directory models the parts
where threads, processes, tabs or several database writes meet.

## Inventory

| Component | State | Operations | Hard part | Correct when |
|---|---|---|---|---|
| Ordered commit queue (`pipeline.py`, `scheduler.py`, `answer_worker.py`) | `_next_submit_seq`, `_task_session_version`, `_commit_buffer`, `_skipped_commit_seqs`, `_next_commit_seq` | submit, `_flush_commit`, `_mark_seq_skipped`, `drain_commit_queue`, `_commit`, `cancel_answer_work` | workers finish in any order or never; a cancellation is three critical sections under three locks | answers are in submission order, nothing written before a clear returns, every number is passed |
| Answer pipeline (`pipeline.py`, `scheduler.py`, `asr_state.py`) | `_pending`, `_in_flight_tasks`, `_latest_asr_turn_id`, `_answer_generation`, model health | `submit_answer_task`, `_begin_asr_turn`, late tails, `_try_dispatch` with the LLM judge, workers | several dispatch loops at once; the judge decides without the lock; four actors take from the queue | each question has one owner, no model is claimed twice, no question is forgotten |
| ASR question grouping (`asr_state.py`) | merge buffer, pending group, provisional cue | partial and final sentences, grouping timer, force flush, discard | timers race sentences and resets; a group is cleared before it is submitted | no utterance is answered twice or lost, every provisional card is settled once |
| Interview lifecycle and capture (`routes.py`, `pipeline.py`, `conversation_capture.py`) | recording and pause flags, threads and their runtimes, the overlay of a Conversation | start, pause, resume, stop of both kinds | stop joins threads whose callbacks want the lock it holds; flags are read before and used after | speech stays with its owner, the device is released, requests return |
| Session and rolling memo (`session.py`, `memory.py`) | `conversation_history`, `qa_pairs`, `system_summary`, `_compaction_running`, active session | add messages and pairs, compaction thread, clear, create, activate, undo of a commit | counts and lengths are read before an LLM call or a lock and used after it | history in order, memo loses nothing, sessions do not mix |
| Interview state (`interview_state.py`) | folded state, snapshots on disk | apply an event, reset, restore | read, fold and persist are three sections | the state is the fold of its events, also after a crash |
| WebSocket broadcast and the client's cards (`ws.py`, `useInterviewWS.ts`, `interviewSlice.ts`) | bounded queue, clients, cards | broadcast, dispatch, connect with a snapshot, fold events | events overtaken by a snapshot, dropped by the queue | a client at rest shows the session |
| Leader election of tabs (`wsLeader.ts`) | leader and heartbeat of each tab | open, close, take over, tick | messages cross, tabs die | one WebSocket at last |
| Connector executions (`conversation_integrations.py`) | execution rows, connection rows, `_ACTIVE_EXECUTIONS`, `_EXECUTION_LOCK` | request, execute, recover orphans, reconcile, verify, sync, disconnect, revoke | a process stops during an external write; the outcome cannot be stored; connections change without the lock | no external write is repeated unless known not to have been applied; the audit is true; a withdrawn connection is not used |
| Provider adapters and sync (`sync_connection`, `github_connector.py`, `google_*_connector.py`, `microsoft_todo_connector.py`, `local_markdown_connector.py`) | cursor, snapshot rows; the Decision Log file | read an account page by page, store, save the cursor; post once; replace the file | edits at the provider between two pages; a reply that is lost; an editor that writes the same file | a cursor passes over nothing that is not stored; what an adapter calls done or failed is so |
| Conversation records (`conversations.py`) | session, pack, items, open threads, tombstones in SQLite | start, add, review, extract, end, delete | an operation is several transactions; the process may die between two | what was not confirmed is never agreed; projections follow their items |
| Resource lanes, background worker (`core/`) | semaphore, executor, bounded queue, sentinel | submit, cancel, stop, shutdown | limits and shutdown races | slots never leak, tasks run once, stop returns |
| HTTP API, configuration, model health, LLM streaming, prompts, grounding, stream guard, knowledge base, STT engines, audio devices, review, practice, goals, insights, storage schemas, desktop shell, the other pages of the web client | - | - | I/O, text and data | - |

How they meet: the ASR thread holds `_asr_state_lock` from the end of a question
group until the dispatch loop it runs returns. `_dispatch_lock` protects the queue
and the table of tasks in flight, `_commit_lock` the commit queue,
`conversation_lock` a session. A worker reports to the commit queue and, in its
`finally`, frees its slot and dispatches again. `_mark_seq_skipped` is called with
`_dispatch_lock` held in one place, the judge's rejection. Commit closures run in
the reporting thread with `_commit_lock` held and take `conversation_lock` inside.
A final transcription is published with `_asr_state_lock` held and asks the capture
bridge, under the bridge's own lock, whether a Conversation owns the transport.

## Modules

| Module | Models | Used by |
|---|---|---|
| `OrderedAnswers` | what a reader of a session is promised: an ordered list to which only a later answer can be added | refined by `CommitQueue` and, per session, by `SessionMemory` |
| `CommitQueue`, `CommitQueue_proofs` | submission numbers, reports, the drain with `_commit`'s check, write and undo, cancellation in three steps by several threads | extended by `AnswerPipeline` |
| `AnswerPipeline`, `AnswerPipeline_proofs` | `_pending`, ASR turns, judge, claims, workers, cancellation, with the `CommitQueue` actions conjoined | `MCAnswerPipeline` |
| `SessionMemory`, `SessionMemory_proofs` | sessions, histories, pairs, compactors, clear, switch | `MCStores` |
| `ExternalWrite` | what the audit of an external write promises: one attempt in doubt at a time, at most one effect | refined by `ConnectorExecution` |
| `ConnectorExecution`, `ConnectorExecution_proofs` | one approved draft and its execution rows, the call under the lock, the provider, connections | `MCStores` |
| `ConnectorSync` | an account that is edited, the syncs that read it, rows and cursor | `MCConnectorSync`, `MCEdges` |
| `ProviderWrites` | what one call of a write adapter does and what it says of it | `MCEdges` |
| `Providers_proofs` | proofs about the two | - |
| `LiveCapture` | the recording: its routes, the Conversation bridge, capture, recogniser and flush threads | `MCLiveCapture`, `MCEdges`, `MCServices` |
| `AsrQuestions` | fragments, groups and cues | `MCServices` |
| `Recording_proofs` | proofs about the two | - |
| `InterviewState` | events, snapshots, resets, crashes | `MCServices` |
| `LiveView` | broadcast queue, connections, cards | `MCServices` |
| `LeaderElection` | tabs and their messages | `MCServices` |
| `WebClient_proofs` | proofs about the two | - |
| `ResourceLane` | the low-priority executor | `MCServices` |
| `BackgroundWorker` | the best-effort thread | `MCServices` |
| `ConversationRecords` | the rows of one Conversation session | `MCServices` |
| `Services_proofs` | proofs about `ResourceLane`, `BackgroundWorker`, `InterviewState` and `ConversationRecords` | - |
| `MC*` | instances for TLC; `MCStores`, `MCEdges` and `MCServices` put components that share nothing side by side: a behaviour belongs to one of them (`store`, `edge`, `part`), the others stand still | - |

### CommitQueue

`drain` is `_commit_lock`: `free`, or held by a thread that is looking for the next
number (`loop`), has passed `is_session_current` (`write`), or has added the pair
and may still fail (`wrote`). `nextCommitSeq` is the module variable while the lock
is free and the local variable of `drain_commit_queue` while it is held; nobody
else can read it then. `owed` is who still has to report: the queue or a worker.
`reset[r]` is between the critical sections of `_reset_answer_state` and
`reset_session`, holding the cut it took. `WorkerDies` is an exception that escapes
`process_question_parallel`; `lost` remembers it. `clobbered` remembers that a reset
overwrote something newer than its cut, `clearedAt` the newest version whose reset
has emptied the session. Which pending questions a reset forgets is left open here
(any subset of `owed`) and fixed in `AnswerPipeline`.

### AnswerPipeline

A queue entry is a record: number, ASR or typed, image, turn, whether the judge
has still to see it (`sure`), whether its grace is running (`wait`), whether a late
constraint was merged into it (`tail`; later merges into the same entry change
nothing the model tells apart). Time is not a number: `GraceEnds` ends a grace and
is the timer's call of `_try_dispatch`. `disp[d]` is the program counter of a
dispatch loop: `top`, `judge` (LLM call, no lock), `claim`, `reject` (marking with
`_dispatch_lock` held), `skip` (marking without), and for the ASR thread `turn`,
between two questions of its turn; `_asr_state_lock` is held unless that thread is
`idle`. `holder` is the thread whose report is being drained; it takes no other
step until the drain ends. A worker's prompt, streaming and checks are one choice
among answer, failure, abort and an escaping exception; the generation it captures
and every comparison of `aborted()` are kept. Which of several equally good models
is picked is left open (`dispatch_model_order` is configuration).

A cancellation empties the table of tasks in flight while the workers go on. That
is the code's design: their answers are stale and they free nothing that is not
theirs. The number of provider calls running can exceed `max_parallel_answers`
for a while; `ModelsExclusive` speaks of the table.

### SessionMemory

A message is a number, `2q` for the question and `2q + 1` for the answer, so order
and identity are visible. `summary[x]` is the set of messages the memo covers: a
summary that succeeds covers the prior summary and the snapshot, one that fails or
returns nothing is the prior one. A commit is three steps: session and lengths
(no `conversation_lock`), write, and end or undo; a compactor or a clear fits
between any two. The rolling memo is assumed enabled (the default). Commits come
in the order `CommitQueue` guarantees.

### ConnectorExecution

One draft, any number of connections. `draft.ver` counts its reviews and stands for
`updated_at`, which is part of the idempotency key; capability, operation and target
follow from the draft, so the key is version and connection, and a row is known by
its key (`idempotency_key` is unique). `exec[k]` has the status and the one
field of the response that later code reads, `retry_safe`; `Runnable` is what
`execute_request` lets pass. `call` is the holder of `_EXECUTION_LOCK` between the
final check and the stored outcome: `checked`, `calling` (EXECUTING is written),
`answered` (the adapter returned or raised). Shorter uses of the lock are one step
each, guarded by `LockFree`. `task[t]` is a thread between the read and the write of
a request, a verification or a synchronisation, which take no lock. A write to the
database may fail at the two places where the failure is not simply an error
reply: before the `try` (`ClaimFails`, the key stays in `_ACTIVE_EXECUTIONS`) and
after the answer (`PersistFails`). `Crash` keeps the rows and nothing else.

The provider is outside the repository; it is `applied` and three assumptions. An
adapter returns `ok = true` only if the write was carried out and
`retry_safe = true` with `ok = false` only if it was not, as the protocol class
demands; anything else (an exception, a missing boolean, `ok = false` without
`retry_safe`) says nothing. Who reconciles tells what is at the provider. A call that
was interrupted has taken effect or not by the time anybody looks. Health checks may
fail at any time and need the credential.

`withdrawn[c]` remembers that the user disconnected or revoked `c` and did not start
a verification since, `overtaken[c]` that a verification or synchronisation was
under way at that moment.

### ConnectorSync

`edits` is the history of the account; the place of an edit in it is the version it
made, its `at` the whole second the provider dates it with, and edits may share a second.
A row of `conversation_connector_snapshot` is a version twice: `stamp`, from which its
metadata was taken, and `text`, from which its text was (a Drive file is read after it
was listed). `sync[s].at` follows `sync_connection`: `issues` (GitHub, page by page),
`events` (Calendar, with the token and the one call without it after HTTP 410), `folder`
and `files` (Drive), `store` (a transaction per row, then the cursor), `done`. No lock
is held anywhere. The `cursor` is a target and a mark: seconds for GitHub, a place in
the history for Calendar's token. Rows found by their content are not inserted twice.
A request that fails and a stop of the process leave what was stored and lose the rest.

`Risks` opens syncs that overlap, a connection that serves several Spaces or
repositories, and a listed issue edited between two pages. It is the code that is
exposed to these three, and the properties say which of them they exclude.

### ProviderWrites

`attempt` is the call `execute_request` makes of an adapter: its checks, for To Do the
look-up of the list, the `post` and its `reply`; for Local Markdown the look at the
file, the read, the comparison before the replacement, and the confirmation. `verdict`
is what the boundary is told: `ok`, `refused` and `retry` (`ok = false` with
`retry_safe`, final or not), `unknown`. `carried` is what happened. A service may have
carried out what it answers with a lost connection, a 5xx or a busy status, and has not
if it rejects. The `editor` saves what it opened, with its own changes, whatever the file
holds by then; `stat` stands for size and time of modification and is assumed to
change with every write. `Dangers` opens a save between comparison and replacement, and
a user who settles an unknown outcome without looking.

### LiveCapture

`call[c]` is a request thread: where it stands in start, pause, resume or stop of
the Interview or of the Conversation, and the values it has read. `wst[w]` and
`ast[w]` are the capture worker and its recogniser; a worker's runtime (`queue`,
`drain`) is what it took over when it started (see `CapturedIsTranscribed` below). `merge` and `pub` are the merge buffer and who
publishes out of it, holding `_asr_state_lock` and then wanting the bridge's lock. A
segment is a number that remembers for whom it was captured (`own`) and ends in the
Conversation's transcript (`heard`), the Interview's history (`noted`), among the
answers (`answered`), or dropped by the full queue (`lost`).

`Hazards` gives the sets of things that may go wrong in a behaviour: requests that
overlap, joins that give up, a worker that crashes, a model that does not load, a
device that does not open or dies, a pause between two tests of the capture loop, a
resume of a Conversation whose recording the Interview's stop has ended (`stray`).
Every property says under which of them it is claimed.

`CapturedIsTranscribed` is the property a pause can break. A worker that passed the
pause test finds the device closed, takes that for an unexpected end and leaves
(`pipeline.py:1848-1851`); its `finally` sets its runtime's `drain_event` (2063-2066)
while the recording stays on. A resume sees no live worker and starts one on the same
runtime (1352-1354, 1593), whose recogniser reads the event and ends at once (1476):
what is captured from then on is transcribed by nobody. A device that dies leads to
the same. Without hazards the property claims that every capturing worker is heard;
with a pause race, a dead device or a stray resume, but one request at a time, joins
that wait and workers that neither crash nor fail to load, it claims that a worker is
deaf only on a runtime that it shares with another one.
`backend/tests/test_pipeline_p0.py:420` asserts that the worker survives a pause; it
runs one schedule, in which the worker sees the pause before it finds the device closed.

`AsrMerge` is the merge window of the default settings. With
`assist_transcription_merge_gap_sec <= 0` (`asr_state.py:459-469`) a fragment is
handed on at once and the check for a Conversation is skipped; that path is left out.

### AsrQuestions

Every method runs under `_asr_state_lock` and is one action. `Now` is what they
change, handled as one value, so that `FlushGroup`, which every other method may
call, is a function of it. The verdicts (statement, question, noise, tail of the
question before) and the windows are choices. `turns`, `gone` and `ended` are history.

### InterviewState

`apply_event` is three actions: read, fold, persist; `restore_from_snapshot` is two:
the row that is read, and its return into memory. No guard orders them: a reset and a
restore come at any time, also over a state that is newer or was reset. After a crash
(`live` is false) the first event begins a state of version 0 whether or not anybody
restored, as in the code, and its rows replace those of the same versions.
`disk` holds the latest row of each version. `Modes` opens overlapping events, topic
resets and failing writes. `committed` is the history of the interview that goes on:
the events since it began, was reset or was restored; `durable` is what of it was
persisted. `drop_session`, which only scripts call, is left out.

`StateInv` says of events, resets and restores that come one at a time: the state is the
fold of `committed` (`StateIsFold`); what a restore would put back is `durable`, unless
rows of an older interview have higher versions (`OlderRowsAhead`: after a reset, or
after events that followed a crash without a restore); and when no write fails, all is
durable (`Recoverable`).

### LiveView

`answer[q]` is the server's side of an answer from its cue to its end; `bus` is
`_msg_queue`, `wire[c]` what is under way to a client, `card[c][q]` what it shows.
`Shown` is the reducer of the client's slice: what a card is after an event, and, by
`Told`, after one that speaks of this answer. A commit is `saving` (the pair is in the
session), `told` (`answer_done` is out) and `stored`; one `try` spans them, so that
`SaveFails` may undo it and say `answer_error` in either of the first two. A clear is
three sections: the commit queue is emptied under the commit lock (`ForgetCommits`), the
session under its own (`EmptySession`), and then the clients are told (`TellCleared`).
`excused` remembers the answers of which the full queue dropped an event, and those
that were being stored while a clear emptied the session, or between that and the
telling: a client may show too little or too much of these until its next snapshot. An
answer that a cancellation takes before a worker admitted it, or after one generated it,
ends without an event: it is an `orphan`, and its card may stay.

### LeaderElection

Rounds stand for the two-second timers: every tab ticks once in a round and messages
sent in a round arrive before the next. `leader[t]` is the tab's `leaderId`,
`age[t]` its ticks since it last heard of a leader; `promoting` are takeovers that
wait for their microtask.

### ResourceLane, BackgroundWorker

The lane's slot is taken by `submit` and given back by a done-callback added after the
lock is released: `called` are the tasks that have it. The worker's `stop` is four
steps under the lock (sentinel, drop the oldest on a full queue, join, give up or not);
`submit` starts the thread under the lock and puts its task without it.

### ConversationRecords

`request[r]` is a thread of the server's pool between two store calls, with what it
has read; each store call commits by itself. An item is its kind, where it came from,
its state, its review and what it replaces. A caller of `add_item` names all of these:
`Addable` is what the code lets pass, which asks for a confirmation only of what is agreed
or committed, and `Given` the rows an instance tries: plain candidates, a question
confirmed by its source, a decision that is agreed and says what it replaces, one that
is superseded by nothing, a task that is done and confirmed by nobody. A review
writes the columns its action sets (`put`), and leaves the others to whoever wrote them
last. `freeze_pack` is two commits, the pack and its note in the session; a deletion
chooses tombstones and threads before it erases. `Exposures` opens overlapping requests or
a death of the process between two calls; `died`, `edited`, `declared`, `heirs` and `erased` are history.

What the parts of `RecordsInv` leave out is in the code. `AgreedIsConfirmed`: a caller
may add an item as done that nobody confirmed (`declared`). `OneSuccessor`: callers may
add an item as superseded, and name an item replaced as often as they like, so that it
counts the successors a review made (`heirs`), one request at a time; a process that
died between the two writes leaves a decision superseded by nothing. `ThreadsFollowItems`: a process that died
leaves a projection that only the next review of the item mends. `ExtractedOnce`: an end
that was interrupted and repeated after a title was edited extracts that sentence
again. `PackIsPolicy`: a policy changed between the pack and the start, after a death or by an
overlapping request, starts a session under a pack it does not match. `ConfirmedLeaveTombstones`: an
item confirmed between the two halves of a deletion leaves none. Two frozen packs of
overlapping starts are not modelled (`pack` holds one).

## Runs and bounds

| Run | Bounds | Shows |
|---|---|---|
| `queue` | 3 questions, 2 resets by 2 threads, 1 dying worker, list of 2 | types, inductive invariant, order, cleared stays clear, nothing stranded, refinement of `OrderedAnswers`, every number settles |
| `queue_rewind` | 3 questions, no dying worker | the queue can be moved back or emptied by a stale cut and then stalls |
| `pipeline` | 2 typed questions, 2 turns of up to 2, 2 late tails to one question, 2 models (1 with vision), 1 health change, 1 dying worker, no cancellation; `Scope`: one call of `_try_dispatch` waits at a time, a worker dies only in one turn without a health change, a second turn has one question, without grace or image beside it | one owner per question, models exclusive, no forgotten question; a verdict removes what was judged, also from a question whose tail grew meanwhile |
| `pipeline_live` | 2 questions, 1 turn of 1, 1 reset, 1 model | the same invariant under cancellation; every question settles |
| `stores` | 2 reviews of the draft, 1 connection, 2 threads beside the lock, 1 stop of the process; 4 questions, 2 sessions, history 6, trigger 4, kept 2, pairs 2 | one effect per row, true audit, visible orphans, withdrawal, refinement of `ExternalWrite`; order, single compactor, memo, undo, every session an ordered list |
| `connector_withdrawn` | 1 review, no stop | a disconnected connection can be used again without a new verification |
| `memory_switch` | the sizes of `stores` | an answer is stored in a session it was not asked in |
| `edges` | capture: 2 clients, 3 calls, 2 segments (1 where calls overlap or joins give up), a queue of 1, 2 workers, one set of hazards at a time. Sync: 2 threads, 2 Spaces, 2 targets, 4 objects (1 a pull request), limit 2, 2 pages of 1, 3 edits (2 for Calendar and under the risks of overlap and places), 2 syncs. Writes: 2 requests, 3 calls, 2 saves of the editor | overlay, device and speech stay with the owner, no lock cycle unless calls overlap; rows in the order of versions, cursor covered, complete syncs mirror; an adapter's word is good, no request twice in the Decision Log, the editor's changes kept |
| `capture_lock` | 2 clients, overlapping calls | the lock cycle |
| `services` | see below | one part per component |
| `state_fold` | 2 overlapping events | one of them is lost |
| `sync_spaces` | 1 repository, 2 Spaces | the second Space misses what the first one's cursor passed |

Parts of `services`: `capture` without hazards, for `CallsReturn`; two tabs and five
acts; a lane of one thread with one place, three tasks; a worker with a queue of one, two
tasks, two stops; three events, restores at any time and two resets or crashes; three fragments, two
cues, two starts; one answer and one client, a queue of three, two
broken connections or cancellations; two items, four requests of two threads, one
change of policy. That a decision
is superseded twice takes three items and five requests; that it cannot is proved, not run.

Why the bounds are enough: a rewind needs two resets, or one reset and a report
after its cut, around numbers on both sides of the cut, three in all. No reset is needed in
`pipeline` and one is enough in `pipeline_live` because the interplay of resets is the
subject of `queue`; the pipeline takes its queue actions from there, and `QueueKeeps` carries
over what is proved of them, for any number of resets. Two dispatch loops (the ASR
thread's and one for all others) make every pair of loop positions meet. With two
models and one question without and one with an image, a claim can fail for
vision, health or occupancy, and one health change moves between one slot (a new
turn supersedes old questions) and two (it does not). In the session model the sizes keep the order
`kept < trigger < history` of the code (4 < 12 < 20), with room for two turns while
a compactor runs, so trims, cuts and undo meet. Two versions
of the draft give two rows, one of them requested before and one after the other was
tried; one stop meets every position of a call, and after it a retry, a recovery and
a reconciliation still fit. Three calls let a start meet a recording that another
client stops or pauses; a queue of one segment is full as soon as the recogniser
lags. Three edits make a list longer than one sync may take
and leave an edit to come in its middle; two syncs are one that fails, stops or is cut
short and the one after it, or two that overlap. Three calls of an adapter are two
of one request and one of another in between. Two tabs are every pair that can disagree. A queue of one and two tasks fill
the worker's queue before its sentinel. Two items are a decision and its successor,
or a sentence and the same one extracted again. What is proved holds for every size.
`CHECK_DEADLOCK FALSE` is used everywhere: when the bounded requests are served the
system is at rest.

Fairness: `CommitQueue` assumes that a drain, once started, and a reset, once
begun, go on (straight-line code of a running thread), and that every number is
reported by its owner (provider calls carry timeouts and every stream looks at the
abort check). `AnswerPipeline` assumes it of threads instead: dispatch loops, the
ASR thread inside a turn, workers, timers, cancellations. In `MCServices` a request
that is inside a call goes on, capture, recogniser and flush threads run, tabs tick and
deliver, the worker's thread takes its next task, the flush thread's tick comes
(`TickDue`), the dispatcher and the clients handle what is queued, and a clear that has emptied the
session goes on to tell it (the next line of the same handler). A handler of the
background worker may run for ever. No fairness is assumed of users, of speech, of
the health checker or of failures. `SessionMemory`, `ConnectorExecution`,
`ConnectorSync`, `ProviderWrites`, `ResourceLane`, `InterviewState` and `ConversationRecords` are safety only.

## What is proved

Every theorem is for every value of the constants the module's assumption allows.

`CommitQueue_proofs`: `TypeCorrect` (`[]TypeOK`), `Invariance` (`[]IInv`), `Order`
(`[]LogOrdered`), `Cleared` (`[]ClearedStaysClear`), `Stranding`
(`[]NothingStranded`), `Refinement` (`OrderedSpec`, the promise of `OrderedAnswers`).
None of the three safety properties is inductive. Order needs that everything in
the list is below the number being committed, or else of an older version: a rewind
moves `nextCommitSeq` below numbers already written, and only because every number
in between is of an older version, and fails the version check, is nothing written
twice. `IInv` says this with six named parts beside the properties themselves: `Known` (only submitted numbers are anywhere), `Apart` (a number is
owed, buffered or skipped, never two of them), `Cuts` (the cut of a reset under way
separates the versions before it from its own), `Passed` (the queue has not passed a
number of the current version that can still be answered), `LogBehind` (everything
in the list is below every number that may still be written) and `WriteFresh` (a
closure past its check is at least as new as every reset that may still empty the
list).

`ConnectorExecution_proofs`: `ConnectorInvariance` (`[]ConnectorInv`, types
included), `OnceOnly` (`[]AtMostOnce`), `Truthful` (`[]AuditTruth`), `Recoverable`
(`[]OrphansVisible`), `Withdrawn` (`[]WithdrawalWins`), `Audited` (`WriteSpec`, the promise of
`ExternalWrite`). At most one effect is not inductive: a second call begins only on a
runnable row, so the audit must be true of runnable rows (`AuditTruth`), and it
becomes true only because the row of the call under way is still the one that was
read or written (`CallSound`), unless the draft was deleted and every row with it
(`DeletedGone`: a deleted row must not be inserted again, which would forget what was
carried out). `WithdrawalWins` needs `Withdrawals`: a connection withdrawn in peace is
not connected and nobody is about to connect it. The step lemma is split along this
line: `RowStep` for rows, call and provider, `ConnStep` for connections.

`SessionMemory_proofs`: `MemoryInvariance` (`[]MemoryInv`: order of histories, one
compactor, memo and history apart), `MemoryGrowth` (`MemoGrows`), `RollbackIsOwn`
(`RollbackOnlyOwn`), `SessionsOrdered` (`EverySessionOrdered`, each session a
behaviour of `OrderedAnswers`). A write-back cuts by a count. That what it cuts is
what it summarised needs `Beyond` (past the length of the snapshot the history holds
none of it) and `Covered` (the history, and the length an undo would cut it to, are
never shorter than the snapshot; this is where the code must keep at least two
messages, `Keep` of `SizeAssumption`). `Ahead` orders everything written before everything that may still be
written, and `Added` says that what lies beyond the lengths a commit read is its own.

`AnswerPipeline_proofs`: `QueueKeeps`, the safety of the commit queue inside the pipeline
(every action is one of the queue's or leaves it alone, which is how the module is built); `PipelineInvariance` (`[]PipelineInv`: types, one
owner per number, models exclusive, no forgotten question); `JudgedExactly`
(`JudgeExact`). `PipelineIInv` has beside `ModelsExclusive` and `NoForgottenQuestion`
the parts `Shapes`, `Loops` (a dispatch loop holds one dropped number where it is about
to mark it, and none elsewhere), `Generations` (the generation is ahead of the version
by the cancellations that are between their sections) and `Owners`. That last part
divides the numbers that owe an outcome among queue, workers and what each loop
has dropped; every handler moves a number from one to another, so that the step is a
handful of lemmas on three sets (`QueueToWorker`, `QueueToLoop`, ...) and of lemmas on
sequences (append, remove, relabel, filter). That a filter keeps the order needs an
enumeration of a finite set of positions, which `EverySetListed` shows by least
counterexample (`Least`), as induction by the library's theorems is out of reach.

`Providers_proofs`: `ProviderInvariance` (`[]ProviderInv`). `WritesIInv` is `Types`,
`OneCall` (what is being called is the one call), `Counted` (a call carries out
at most once), `Truth`, `Texts` and `Notes`. That no request is twice in the Decision Log
is not inductive: an editor may bring an old text back, so `Texts` says of
every text that lies about (file, editor, what was read) that it holds each mark
once, and only marks of what was carried out. `Notes` says when the text read is still
the file: while `stat` is what it was.
`SyncInvariance` (`[]SyncInv`) and `SyncMirrors` (`[]MirrorAfterSync`). `SyncIInv` has
parts about the account, the rows and the cursor (`TimeGoesOn`, `RowsSound`,
`CursorCovered`) and `SyncGood` about every sync. Rows of an object come in the order of
its versions only because what a sync has read is `Fresh`, not older than any row of its
Space; the cursor passes over nothing only because every mark is `Past` (no edit
still to come is dated before it, and one second is read again), and because what a sync
has read so far `Covers` the mark it would save. For
GitHub that needs `PagesRead`: while the list does not shift, the pages before the
present one were full and all of them were read; `CutAdvances` counts their ranks.

`WebClient_proofs`: `ElectionInvariance` (`[]ElectionInv`), with `NoSelfMail` the only
strengthening. `ViewInvariance` (`[]ViewInv`) and `FinalInvariance` (`FinalStays`).
That clients at rest show the session says nothing of clients not at rest; `ViewIInv` speaks of
what is under way: nothing in queue or wire is false of its answer (`NothingFalse`), and
behind every event under way that could spoil what a card is to show comes one that
makes it good (`ViewsFollow`); and no announcement comes behind a failure (`NoneRises`),
as a save that failed after `answer_done` must end as an error in every view.

`Recording_proofs`: `CaptureInvariance` (`[]CaptureInv`), `SpeechIsKept`
(`[]SpeechKept`), `TranscriberLives` (`[]CapturedIsTranscribed`). `CaptureIInv` has
layers, each claimed of the behaviours whose hazards it survives. Of all: types, `Routes`,
`Publishing` (who publishes holds the lock, and where it stands), `Bridge`. Without
overlap: `OneCall`. Without overlap, crashes and failed loads: `FlagsFollow` (the request
at hand decides the flags). Where joins do not give up either: `OneWorker` and
`Emptied` (from a point of every start and stop on there is no worker, nothing merged,
nothing in publication), and by them `SpeechOwned`, that all speech under way belongs to
who has the transport, because it changes hands only in an emptied state. With no
hazard: `Recording` (a recording that runs has a worker, the worker a recogniser that
is not told to drain, and what ends it is a stop) and
`NothingForgotten` (what was cut is queued, in hand, merged, in publication, or where it
belongs; a queue without a recogniser is empty). `QuietLocks` follows
from `Emptied`: a start that drains with the bridge's lock in hand drains what is empty.
`QuestionInvariance` (`[]QuestionInv`): `Good` is the invariant of
the value the methods of `AsrQuestions` work on, shown for each of them as a function,
so that a method that calls another is one application of two lemmas.

`Services_proofs`: `LaneInvariance` (`[]LaneInv`); slots are conserved because every
accepted task is counted as a holder until it is both over and called back.
`WorkerInvariance` (`[]WorkerInv`); `Located` and `Once` tie
a task's status to its one place, `Undisturbed` to the stops.
`StateInvariance` (`[]StateInv`). `Numbered` ties a version to the number of events
folded in, and a row to its version; `InHand` says that what is read one at a time is still
the state when it is folded; `DiskInStep` that the row of `durable` is there whatever rows
of older interviews are. By the three, a row that is not `durable` and would be restored before it has a
higher version: `RestoresExactly` where no older row is ahead.
`RecordsInvariance` (`[]RecordsInv`). Of `RecordsIInv`, that what is agreed was confirmed
holds in every regime and needs only `PutsConfirmed`, the same of what is about to be written.
The rest holds while requests come one at a time, also when the process dies:
`Lineage` (a decision has one successor because neither a superseded decision nor
one that superseded another is ever proposed again), `Extraction`,
`ThreadsDistinct` (threads are numbered without gaps, so that the next number is new),
`Syncing` and `Projection` (a thread follows its item but for the one item that is being
synchronised), `Erasure` and `Policy`.

Only model-checked: the liveness properties (`EverySeqSettles`, `EveryQuestionSettles`,
`CallsReturn`, `OneLeaderAtLast`, `StopReturns`, `CuesSettle`, `ViewsConverge`), as the
proof system does not handle fairness, and the violations. Every invariant and every step
property of the passing runs is proved.

## What the violations show

- `queue_rewind`: `_reset_answer_state` applies, under `_commit_lock`, a cut it took
  earlier under `_dispatch_lock`. Two cancellations, or one and a quick answer to a
  question submitted right after the cut, leave `_next_commit_seq` on a number that
  was already reported; later answers are buffered and never committed, until the
  next reset.
- `memory_switch`: switching sessions does not outdate answers on their way; they
  are committed to the session active at that moment.
- `connector_withdrawn`: `verify_and_connect` writes `CONNECTED` after asking the
  provider, over a disconnect that came in between; the next request and execution
  use the connection. `sync_connection` does the same with the status it read.
- `capture_lock`: `start` of a Conversation stops an Interview that began after its
  check, with the bridge's lock held, and the threads it joins publish through a callback
  that wants that lock.
- `state_fold`: two events read the same state; the later fold overwrites the earlier.
- `sync_spaces`: the cursor belongs to the connection and its capability, the rows to a
  Space. A Space synced second is asked for what changed since the first one's cursor, and
  misses the rest until it is edited.

Exceptions that properties carry: `NothingStranded`, `EverySeqSettles` and
`EveryQuestionSettles` except a queue that a stale cut rewound (`clobbered`);
`OneCompactor`, `NotTwice` and `MemoGrows` sessions cleared while a compactor of theirs
ran (`disturbed`); `WithdrawalWins` connections withdrawn while they were verified or
synced (`overtaken`); `StateInv` overlapping events, and, for its restores, rows of an older
interview that are ahead (a reset, or events after a crash that nobody restored, count from 0 again,
and the next restore puts the older interview back);
`DeviceReleased` a model that fails to load (the worker ends and leaves the device
open), a worker that crashes, and a Conversation resumed after the Interview's stop (nothing
clears the stop that its new worker sees, and a second resume may open the device behind it);
`QuietLocks` and `SpeechStaysHome` requests that overlap, joins that give up, and workers that crash or
fail to load (one that fails within a resume lowers the flag of a recording whose successor
is alive); `CapturedIsTranscribed` a worker that took over a drained runtime; `QuietViewsAgree`
orphans, answers of which the queue dropped an event, and those that were being stored while a
clear emptied the session;
the parts of `RecordsInv` what is named under ConversationRecords above;
`LatestIsNewest` syncs that overlap (the slower one may store an older version last);
`CursorCovers` a list that shifts between two pages (the row that moves up is skipped and
the cursor passes it) and connections that serve several places; `CutAdvances` as many
issues as a sync may take within the second that is read again (every sync reads the
same ones); `EditorKept` a save between the comparison and the replacement (it is lost);
`HonestVerdicts` a user who settles an unknown outcome by mistake.

Behaviour the models show without a property about it: the write-back of a compactor
compares lengths, so after a trim or a clear it may cut messages it did not summarise,
and a failed summary cuts all the same, although
`backend/services/memory.py:3-4` says that a failure leaves things as they are (失败时维持原样); at `MAX_QA_PAIRS` or after a cut the undo of a
failed commit removes nothing, so the failed pair stays; the text of a Drive file may be
newer than the metadata it is stored with (`TextAsNewAsStamp` says it is never older).
A full read of a calendar starts one year back (`timeMin`); older events are taken not
to exist.

## Not modelled

Prompts, retrieval, speech recognition and audio devices, storage
schemas, the desktop shell and the pages of the web client are I/O, text, or
request-response over one row; what they can do to the modelled parts is a
nondeterministic result there. `PROJECT.json` lists them one by one with the reason.

Next: `AsrQuestions` composed with
`AnswerPipeline` at `BeginAsrTurn`; the retention preview and the spaces of
`conversations.py`, practice and coach sessions, product migrations.

----------------------------- MODULE LiveCapture -----------------------------
(***************************************************************************)
(* The life of one recording: the routes that start, pause, resume and     *)
(* stop the Interview (api/assist/routes.py), the Conversation bridge that *)
(* borrows the same transport (conversation_capture.py), and the threads   *)
(* of api/assist/pipeline.py they start, signal and join: the capture      *)
(* worker, the recogniser (ASR) thread and the flush thread.               *)
(*                                                                         *)
(* Two locks are nested by different threads: the bridge's _lock and the   *)
(* _asr_state_lock, held while a transcription is merged and published.    *)
(* There is one Conversation session: calls that name another one are      *)
(* refused and change nothing.  The candidate microphone, the voice        *)
(* detector's timing and the answer work are abstracted away.              *)
(***************************************************************************)
EXTENDS Naturals, Sequences, FiniteSets

CONSTANTS
    Callers,      \* request threads
    MaxCalls,     \* bound: calls made in one behaviour
    MaxWorkers,   \* bound: capture workers ever started
    MaxSegs,      \* bound: speech segments emitted
    SegQueue,     \* _interviewer_segment_queue_maxsize
    Hazards       \* the sets of hazards a behaviour may be exposed to

\* "overlap": requests run concurrently; "timeout": a join gives up on a live
\* thread; "crash": a worker raises; "load": the STT model does not load;
\* "device": audio does not open, or dies; "race": a pause falls between the
\* two tests of the capture loop; "stray": a Conversation is resumed of which
\* nothing records any more, as after the Interview's stop.
HazardKinds == {"overlap", "timeout", "crash", "load", "device", "race", "stray"}

Workers == 1..MaxWorkers
Segs == 1..MaxSegs
AsrOf(w) == <<"asr", w>>
FlushOf(w) == <<"flush", w>>
Publishers == Callers \union {AsrOf(w) : w \in Workers} \union {FlushOf(w) : w \in Workers}
Nobody == <<"nobody">>

\* A request thread is none of those it starts.
ASSUME CaptureBounds ==
    /\ Hazards \subseteq SUBSET HazardKinds
    /\ {MaxCalls, MaxWorkers, MaxSegs, SegQueue} \subseteq Nat \ {0}
    /\ \A c \in Callers, w \in Workers : c \notin {AsrOf(w), FlushOf(w), Nobody}

VARIABLES
    hazards,     \* subset of HazardKinds, fixed at the start of a behaviour
    call,        \* of each caller: where it is, what it calls, its local variables
    calls,       \* calls made so far
    captureLock, active, stopping, overlay, previous, snapshot,
    rec, paused, stopEv, pauseEv, audio,
    worker, asr, runtime,       \* the module's current thread and runtime
    wst, rt, ast, cur, auto,    \* of each worker and its recogniser thread
    queue, drain,               \* of each runtime
    asrLock, merge, pub,        \* the merge buffer and who publishes it
    micFor,      \* history: for whom the microphone was opened
    own, lost, heard, noted, answered \* history: whose speech, and where it went

callVars == <<call, calls>>
bridgeVars == <<captureLock, active, stopping, overlay, previous, snapshot>>
flagVars == <<rec, paused, stopEv, pauseEv, audio>>
threadVars == <<worker, asr, runtime, wst, rt, ast, cur, auto, queue, drain>>
mergeVars == <<asrLock, merge, pub>>
speechVars == <<own, lost>>
fateVars == <<heard, noted, answered>>
textVars == <<mergeVars, micFor, speechVars, fateVars>>
captureVars == <<hazards, callVars, bridgeVars, flagVars, threadVars, textVars>>

NoSnapshot == [rec |-> FALSE, paused |-> FALSE]
\* then: where stop_interview_loop returns to; joined: the runtime it captured;
\* kept: the overlay and flags conversation_capture.stop copies.
Idle == [at |-> "idle", op |-> "none", then |-> "idle", joined |-> 0,
         kept |-> [overlay |-> "base", flags |-> NoSnapshot]]
Silent == [text |-> {}, auto |-> FALSE, step |-> "none"]

CaptureInit ==
    /\ hazards \in Hazards
    /\ call = [c \in Callers |-> Idle]
    /\ calls = 0
    /\ captureLock = Nobody /\ active = FALSE /\ stopping = FALSE
    /\ overlay = "base" /\ previous = "base" /\ snapshot = NoSnapshot
    /\ rec = FALSE /\ paused = FALSE /\ stopEv = FALSE /\ pauseEv = FALSE
    /\ audio = FALSE /\ worker = 0 /\ asr = 0 /\ runtime = 0
    /\ wst = [w \in Workers |-> "unborn"] /\ rt = [w \in Workers |-> 0]
    /\ ast = [w \in Workers |-> "none"] /\ cur = [w \in Workers |-> 0]
    /\ auto = [w \in Workers |-> FALSE]
    /\ queue = [w \in Workers |-> <<>>] /\ drain = [w \in Workers |-> FALSE]
    /\ asrLock = Nobody /\ merge = {} /\ pub = [t \in Publishers |-> Silent]
    /\ micFor = "none" /\ own = [s \in Segs |-> "none"]
    /\ lost = {} /\ heard = {} /\ noted = {} /\ answered = {}

MayHold(lock, t) == lock \in {Nobody, t}
WorkerAlive(w) == w \in Workers /\ wst[w] \notin {"unborn", "dead"}
AsrAlive(w) == w \in Workers /\ ast[w] \notin {"none", "dead"}
\* Queue.unfinished_tasks of the runtime: queued, or taken and not done.
Backlog(r) == Len(queue[r]) + Cardinality({w \in Workers : rt[w] = r /\ cur[w] # 0})

At(c) == call[c].at
AllIdle == \A c \in Callers : At(c) = "idle"
-----------------------------------------------------------------------------
(* The routes: each call's own checks, up to the first shared step.        *)

MayCall(c) ==
    /\ At(c) = "idle" /\ calls < MaxCalls
    /\ "overlap" \in hazards \/ AllIdle

\* Every call in flight may still start one worker.
SpareWorker ==
    Cardinality({w \in Workers : wst[w] = "unborn"}) > Cardinality({c \in Callers : At(c) # "idle"})

Enter(c, o, label, after) ==
    /\ MayCall(c)
    /\ o \in {"iStart", "cStart", "iResume", "cResume"} => SpareWorker
    /\ calls' = calls + 1
    /\ call' = [call EXCEPT ![c] = [Idle EXCEPT !.at = label, !.op = o, !.then = after]]

\* api_start: refused while a Conversation owns the transport.
InterviewStart(c) ==
    /\ MayHold(captureLock, c) /\ ~active
    /\ Enter(c, "iStart", "signal", "open")
    /\ UNCHANGED <<hazards, bridgeVars, flagVars, threadVars, textVars>>

InterviewStop(c) ==
    /\ Enter(c, "iStop", "signal", "idle")
    /\ UNCHANGED <<hazards, bridgeVars, flagVars, threadVars, textVars>>

InterviewPause(c) ==
    /\ rec /\ ~pauseEv
    /\ Enter(c, "iPause", "hush", "idle")
    /\ UNCHANGED <<hazards, bridgeVars, flagVars, threadVars, textVars>>

InterviewResume(c) ==
    /\ rec /\ pauseEv
    /\ Enter(c, "iResume", "rearm", "idle")
    /\ UNCHANGED <<hazards, bridgeVars, flagVars, threadVars, textVars>>

\* start takes the bridge's lock and keeps it until it returns.
ConversationStart(c) ==
    /\ MayHold(captureLock, c) /\ ~active /\ ~rec
    /\ Enter(c, "cStart", "borrow", "open")
    /\ captureLock' = c
    /\ UNCHANGED <<hazards, active, stopping, overlay, previous, snapshot,
                   flagVars, threadVars, textVars>>

\* pause and resume test under the lock and act after releasing it.
ConversationPause(c) ==
    /\ MayHold(captureLock, c) /\ active /\ ~stopping
    /\ \/ Enter(c, "cPause", "hush", "idle")
       \/ (rec \/ "stray" \in hazards) /\ Enter(c, "cResume", "rearm", "idle")
    /\ UNCHANGED <<hazards, bridgeVars, flagVars, threadVars, textVars>>

\* Mutant: the transport is given back before it is drained.
ConversationStopEager(c) ==
    /\ MayHold(captureLock, c) /\ active /\ ~stopping
    /\ MayCall(c) /\ calls' = calls + 1
    /\ stopping' = TRUE /\ active' = FALSE
    /\ call' = [call EXCEPT ![c] = [Idle EXCEPT !.at = "signal", !.op = "cStop", !.then = "restore",
                                               !.kept = [overlay |-> previous, flags |-> snapshot]]]
    /\ UNCHANGED <<hazards, captureLock, overlay, previous, snapshot,
                   flagVars, threadVars, textVars>>

\* Mutant: stop keeps the bridge's lock while it drains.
ConversationStopLocked(c) ==
    /\ MayHold(captureLock, c) /\ active /\ ~stopping
    /\ MayCall(c) /\ calls' = calls + 1
    /\ stopping' = TRUE /\ captureLock' = c
    /\ call' = [call EXCEPT ![c] = [Idle EXCEPT !.at = "signal", !.op = "cStop", !.then = "restore",
                                               !.kept = [overlay |-> previous, flags |-> snapshot]]]
    /\ UNCHANGED <<hazards, active, overlay, previous, snapshot, flagVars, threadVars, textVars>>

\* stop marks the session as stopping and drains without the lock.
ConversationStop(c) ==
    /\ MayHold(captureLock, c) /\ active /\ ~stopping
    /\ MayCall(c) /\ calls' = calls + 1
    /\ stopping' = TRUE
    /\ call' = [call EXCEPT ![c] = [Idle EXCEPT !.at = "signal", !.op = "cStop", !.then = "restore",
                                               !.kept = [overlay |-> previous, flags |-> snapshot]]]
    /\ UNCHANGED <<hazards, captureLock, active, overlay, previous, snapshot,
                   flagVars, threadVars, textVars>>

\* c moves on inside its call, or returns.
Step(c, from, to) ==
    /\ At(c) = from /\ UNCHANGED <<hazards, calls>>
    /\ call' = [call EXCEPT ![c] = IF to = "idle" THEN Idle ELSE [@ EXCEPT !.at = to]]

Borrow(c) ==
    /\ Step(c, "borrow", "signal")
    /\ snapshot' = [rec |-> rec, paused |-> paused]
    /\ previous' = overlay /\ overlay' = "conversation" /\ active' = TRUE
    /\ UNCHANGED <<captureLock, stopping, flagVars, threadVars, textVars>>
-----------------------------------------------------------------------------
(* stop_interview_loop, run by every start and stop.                       *)

Signal(c) ==
    /\ At(c) = "signal"
    /\ call' = [call EXCEPT ![c].at = "join", ![c].joined = runtime]
    /\ stopEv' = TRUE /\ pauseEv' = FALSE /\ audio' = FALSE
    /\ UNCHANGED <<hazards, calls, bridgeVars, rec, paused, threadVars, textVars>>

GivesUp == "timeout" \in hazards

JoinWorker(c) ==
    /\ Step(c, "join", "drain")
    /\ ~WorkerAlive(worker) \/ GivesUp
    /\ worker' = 0
    /\ drain' = [r \in Workers |-> drain[r] \/ r = call[c].joined]
    /\ UNCHANGED <<bridgeVars, flagVars, asr, runtime, wst, rt, ast, cur,
                   auto, queue, textVars>>

FlushIdle == \A w \in Workers : pub[FlushOf(w)].step = "none"

\* The queued segments, the recogniser and the flush thread are awaited.
AwaitDrain(c) ==
    /\ Step(c, "drain", "flush")
    /\ \/ call[c].joined = 0
       \/ call[c].joined # 0 /\ Backlog(call[c].joined) = 0 /\ ~AsrAlive(asr) /\ FlushIdle
       \/ GivesUp
    /\ asr' = 0
    /\ UNCHANGED <<bridgeVars, flagVars, worker, runtime, wst, rt, ast, cur,
                   auto, queue, drain, textVars>>

\* t takes the ASR lock to publish the merge buffer.
Hold(t, answers) ==
    /\ asrLock = Nobody /\ asrLock' = t
    /\ pub' = [pub EXCEPT ![t] = [text |-> {}, auto |-> answers, step |-> "locked"]]

FinalFlush(c) ==
    /\ Step(c, "flush", "flushing")
    /\ asrLock = Nobody
    /\ IF merge = {} THEN UNCHANGED <<asrLock, pub>> ELSE Hold(c, overlay = "base")
    /\ UNCHANGED <<bridgeVars, flagVars, threadVars, merge, micFor, speechVars, fateVars>>

\* Mutant: the stopped runtime stays current and is reused.
SettleKeep(c) ==
    /\ Step(c, "flushing", call[c].then)
    /\ pub[c].step = "none" /\ MayHold(captureLock, c)
    /\ rec' = FALSE /\ paused' = FALSE
    /\ UNCHANGED <<bridgeVars, stopEv, pauseEv, audio, worker, asr, runtime, wst, rt,
                   ast, cur, auto, queue, drain, textVars>>

Settle(c) ==
    /\ Step(c, "flushing", call[c].then)
    /\ pub[c].step = "none" /\ MayHold(captureLock, c)
    /\ rec' = FALSE /\ paused' = FALSE /\ runtime' = 0
    /\ UNCHANGED <<bridgeVars, stopEv, pauseEv, audio, worker, asr, wst, rt,
                   ast, cur, auto, queue, drain, textVars>>
-----------------------------------------------------------------------------
(* The rest of start_nonblocking, and of conversation_capture.start.       *)

Open(c) ==
    /\ Step(c, "open", "flag")
    /\ stopEv' = FALSE /\ pauseEv' = FALSE /\ audio' = TRUE
    /\ micFor' = IF call[c].op = "cStart" THEN "conversation" ELSE "interview"
    /\ UNCHANGED <<bridgeVars, rec, paused, threadVars, asrLock, merge, pub,
                   speechVars, fateVars>>

\* The device does not open: the bridge puts everything back.
OpenFails(c) ==
    /\ "device" \in hazards
    /\ Step(c, "open", "idle")
    /\ stopEv' = FALSE /\ pauseEv' = FALSE
    /\ \/ /\ call[c].op = "cStart"
          /\ rec' = snapshot.rec /\ paused' = snapshot.paused
          /\ active' = FALSE /\ overlay' = previous /\ previous' = "base"
          /\ snapshot' = NoSnapshot /\ captureLock' = Nobody
       \/ call[c].op # "cStart" /\ UNCHANGED <<rec, paused, active, overlay, previous, snapshot, captureLock>>
    /\ UNCHANGED <<stopping, audio, threadVars, textVars>>

Flag(c) ==
    /\ Step(c, "flag", "spawn")
    /\ rec' = TRUE /\ paused' = FALSE
    /\ UNCHANGED <<bridgeVars, stopEv, pauseEv, audio, threadVars, textVars>>

\* _start_interview_worker_thread_if_needed.
SpawnIfNeeded ==
    IF WorkerAlive(worker) THEN UNCHANGED <<worker, wst>>
    ELSE \E w \in Workers :
            /\ wst[w] = "unborn" /\ \A v \in 1..(w - 1) : wst[v] # "unborn"
            /\ worker' = w /\ wst' = [wst EXCEPT ![w] = "load"]

Spawn(c) ==
    /\ Step(c, "spawn", IF call[c].op = "cStart" THEN "commit" ELSE "idle")
    /\ MayHold(captureLock, c)
    /\ SpawnIfNeeded
    /\ UNCHANGED <<bridgeVars, flagVars, asr, runtime, rt, ast, cur, auto,
                   queue, drain, textVars>>

Commit(c) ==
    /\ Step(c, "commit", "idle")
    /\ captureLock' = Nobody
    /\ UNCHANGED <<active, stopping, overlay, previous, snapshot, flagVars,
                   threadVars, textVars>>
-----------------------------------------------------------------------------
(* The end of conversation_capture.stop.                                   *)

Restore(c) ==
    /\ Step(c, "restore", "release")
    /\ overlay' = call[c].kept.overlay
    /\ rec' = call[c].kept.flags.rec /\ paused' = call[c].kept.flags.paused
    /\ UNCHANGED <<captureLock, active, stopping, previous, snapshot, stopEv,
                   pauseEv, audio, threadVars, textVars>>

Release(c) ==
    /\ Step(c, "release", "idle")
    /\ MayHold(captureLock, c)
    /\ active' = FALSE /\ stopping' = FALSE
    /\ previous' = "base" /\ snapshot' = NoSnapshot
    /\ UNCHANGED <<captureLock, overlay, flagVars, threadVars, textVars>>
-----------------------------------------------------------------------------
(* pause_interview and unpause_interview.                                  *)

Hush(c) ==
    /\ Step(c, "hush", "hushed")
    /\ pauseEv' = TRUE /\ audio' = FALSE
    /\ UNCHANGED <<bridgeVars, rec, paused, stopEv, threadVars, textVars>>

Hushed(c) ==
    /\ Step(c, "hushed", "idle")
    /\ paused' = TRUE
    /\ UNCHANGED <<bridgeVars, rec, stopEv, pauseEv, audio, threadVars, textVars>>

\* Without a device and with nothing running, only the flags are reset.
Rearm(c) ==
    /\ \E device \in IF call[c].op = "cResume" THEN {TRUE} ELSE BOOLEAN :
          \/ /\ device \/ WorkerAlive(worker) \/ audio
             /\ audio' = TRUE /\ Step(c, "rearm", "respawn")
          \/ /\ ~(device \/ WorkerAlive(worker) \/ audio)
             /\ UNCHANGED audio /\ Step(c, "rearm", "unhush")
          \/ /\ "device" \in hazards
             /\ UNCHANGED audio /\ Step(c, "rearm", "idle")
    /\ UNCHANGED <<bridgeVars, rec, paused, stopEv, pauseEv, threadVars, textVars>>

Respawn(c) ==
    /\ Step(c, "respawn", "unhush")
    /\ SpawnIfNeeded
    /\ UNCHANGED <<bridgeVars, flagVars, asr, runtime, rt, ast, cur, auto,
                   queue, drain, textVars>>

Unhush(c) ==
    /\ Step(c, "unhush", "idle")
    /\ pauseEv' = FALSE /\ paused' = FALSE
    /\ UNCHANGED <<bridgeVars, rec, stopEv, audio, threadVars, textVars>>
-----------------------------------------------------------------------------
(* _interview_worker: load, capture, drain its recogniser, end.            *)

Move(w, from, to) == wst[w] = from /\ wst' = [wst EXCEPT ![w] = to]

\* A runtime that is still current is taken over, its drain flag included.
Load(w) ==
    /\ Move(w, "load", "check")
    /\ LET r == IF runtime # 0 THEN runtime ELSE w IN
          rt' = [rt EXCEPT ![w] = r] /\ runtime' = r
    /\ asrLock = Nobody /\ merge' = {}
    /\ asr' = w /\ ast' = [ast EXCEPT ![w] = "wait"]
    /\ UNCHANGED <<hazards, callVars, bridgeVars, flagVars, worker, cur, auto, queue, drain,
                   asrLock, pub, micFor, speechVars, fateVars>>

\* The model does not load: an early return, before the try block.
LoadFails(w) ==
    /\ "load" \in hazards
    /\ Move(w, "load", "dead")
    /\ runtime' = IF runtime # 0 THEN runtime ELSE w
    /\ rt' = [rt EXCEPT ![w] = runtime']
    /\ rec' = FALSE
    /\ UNCHANGED <<hazards, callVars, bridgeVars, paused, stopEv, pauseEv, audio, worker, asr,
                   ast, cur, auto, queue, drain, textVars>>

NextSeg == CHOOSE n \in 1..(MaxSegs + 1) :
              (n \in Segs => own[n] = "none") /\ \A m \in 1..(n - 1) : own[m] # "none"

\* _emit_interviewer_segment: a full queue loses its oldest segment.
Emit(w) ==
    /\ NextSeg \in Segs
    /\ own' = [own EXCEPT ![NextSeg] = micFor]
    /\ LET q == queue[rt[w]]
           full == Len(q) = SegQueue IN
          /\ queue' = [queue EXCEPT ![rt[w]] = Append(IF full THEN Tail(q) ELSE q, NextSeg)]
          /\ lost' = IF full THEN lost \union {Head(q)} ELSE lost

MaybeEmit(w) == Emit(w) \/ UNCHANGED <<speechVars, queue>>

\* The head of the capture loop; while paused the rest of the speech is flushed.
Check(w) ==
    /\ \/ stopEv /\ Move(w, "check", "finish") /\ UNCHANGED <<speechVars, queue>>
       \/ ~stopEv /\ pauseEv /\ wst[w] = "check" /\ Emit(w) /\ UNCHANGED wst
       \/ ~stopEv /\ ~pauseEv /\ Move(w, "check", "look") /\ UNCHANGED <<speechVars, queue>>
    /\ UNCHANGED <<hazards, callVars, bridgeVars, flagVars, worker, asr, runtime, rt, ast, cur,
                   auto, drain, mergeVars, micFor, fateVars>>

\* A capture that stopped ends the loop; otherwise audio may complete a segment.
Look(w) ==
    /\ \/ audio /\ Move(w, "look", "check") /\ MaybeEmit(w)
       \/ ~audio /\ Move(w, "look", "finish") /\ UNCHANGED <<speechVars, queue>>
    /\ ~audio /\ pauseEv => "race" \in hazards
    /\ UNCHANGED <<hazards, callVars, bridgeVars, flagVars, worker, asr, runtime, rt, ast, cur,
                   auto, drain, mergeVars, micFor, fateVars>>

WorkerCrashes(w) ==
    /\ "crash" \in hazards
    /\ Move(w, "look", "finish")
    /\ rec' = FALSE
    /\ UNCHANGED <<hazards, callVars, bridgeVars, paused, stopEv, pauseEv, audio, worker, asr,
                   runtime, rt, ast, cur, auto, queue, drain, textVars>>

\* Mutant: the worker does not tell its recogniser to end.
FinishQuietly(w) ==
    /\ Move(w, "finish", "last")
    /\ MaybeEmit(w)
    /\ audio' = FALSE
    /\ UNCHANGED <<hazards, callVars, bridgeVars, rec, paused, stopEv, pauseEv, worker, asr,
                   runtime, rt, ast, cur, auto, drain, mergeVars, micFor, fateVars>>

\* The last speech is emitted, the device released, the recogniser told to end.
Finish(w) ==
    /\ Move(w, "finish", "last")
    /\ MaybeEmit(w)
    /\ audio' = FALSE
    /\ drain' = [r \in Workers |-> drain[r] \/ (r = rt[w] /\ AsrAlive(asr))]
    /\ UNCHANGED <<hazards, callVars, bridgeVars, rec, paused, stopEv, pauseEv, worker, asr,
                   runtime, rt, ast, cur, auto, mergeVars, micFor, fateVars>>

WorkerEnds(w) ==
    /\ Move(w, "last", "dead")
    /\ ~AsrAlive(asr) \/ GivesUp
    /\ UNCHANGED <<hazards, callVars, bridgeVars, flagVars, worker, asr, runtime, rt, ast, cur,
                   auto, queue, drain, textVars>>

AudioDies ==
    /\ "device" \in hazards /\ audio
    /\ audio' = FALSE
    /\ UNCHANGED <<hazards, callVars, bridgeVars, rec, paused, stopEv, pauseEv, threadVars,
                   textVars>>
-----------------------------------------------------------------------------
(* _interviewer_asr_worker and _flush_worker.                              *)

\* The configuration is read before the transcription it will be used for.
AsrTake(w) ==
    /\ ast[w] = "wait" /\ queue[rt[w]] # <<>>
    /\ cur' = [cur EXCEPT ![w] = Head(queue[rt[w]])]
    /\ queue' = [queue EXCEPT ![rt[w]] = Tail(@)]
    /\ auto' = [auto EXCEPT ![w] = (overlay = "base")]
    /\ ast' = [ast EXCEPT ![w] = "text"]
    /\ UNCHANGED <<hazards, callVars, bridgeVars, flagVars, worker, asr, runtime, wst, rt,
                   drain, textVars>>

\* append_transcription_fragment: merged, and published now or later.  This is its merge
\* window of a positive gap, the default; without one, it does not ask for a Conversation.
AsrMerge(w) ==
    /\ ast[w] = "text" /\ asrLock = Nobody
    /\ merge' = merge \union {cur[w]}
    /\ auto' = [auto EXCEPT ![w] = FALSE]
    /\ \/ Hold(AsrOf(w), auto[w]) /\ ast' = [ast EXCEPT ![w] = "publish"] /\ UNCHANGED cur
       \/ /\ UNCHANGED <<asrLock, pub>>
          /\ cur' = [cur EXCEPT ![w] = 0] /\ ast' = [ast EXCEPT ![w] = "wait"]
    /\ UNCHANGED <<hazards, callVars, bridgeVars, flagVars, worker, asr, runtime, wst, rt,
                   queue, drain, micFor, speechVars, fateVars>>

AsrDone(w) ==
    /\ ast[w] = "publish" /\ pub[AsrOf(w)].step = "none"
    /\ cur' = [cur EXCEPT ![w] = 0] /\ ast' = [ast EXCEPT ![w] = "wait"]
    /\ UNCHANGED <<hazards, callVars, bridgeVars, flagVars, worker, asr, runtime, wst, rt,
                   auto, queue, drain, textVars>>

AsrEnds(w) ==
    /\ ast[w] = "wait" /\ drain[rt[w]] /\ Backlog(rt[w]) = 0
    /\ ast' = [ast EXCEPT ![w] = "dead"]
    /\ UNCHANGED <<hazards, callVars, bridgeVars, flagVars, worker, asr, runtime, wst, rt,
                   cur, auto, queue, drain, textVars>>

FlushTick(w) ==
    /\ wst[w] \in {"check", "look"} /\ merge # {}
    /\ pub[FlushOf(w)].step = "none"
    /\ Hold(FlushOf(w), overlay = "base")
    /\ UNCHANGED <<hazards, callVars, bridgeVars, flagVars, threadVars, merge, micFor, speechVars, fateVars>>

\* flush_merge_buffer_now, under the ASR lock: is_active decides whether the
\* Interview's history keeps the text ...
Decide(t) ==
    /\ pub[t].step = "locked" /\ MayHold(captureLock, t)
    /\ pub' = [pub EXCEPT ![t].text = merge, ![t].step = "decided"]
    /\ merge' = {}
    /\ noted' = IF active THEN noted ELSE noted \union merge
    /\ UNCHANGED <<hazards, callVars, bridgeVars, flagVars, threadVars, asrLock, micFor, speechVars, heard, answered>>

\* ... and record_transcription, whether the Conversation does.
Record(t) ==
    /\ pub[t].step = "decided" /\ MayHold(captureLock, t)
    /\ heard' = IF active THEN heard \union pub[t].text ELSE heard
    /\ answered' = IF pub[t].auto THEN answered \union pub[t].text ELSE answered
    /\ pub' = [pub EXCEPT ![t] = Silent] /\ asrLock' = Nobody
    /\ UNCHANGED <<hazards, callVars, bridgeVars, flagVars, threadVars, merge, micFor, speechVars, noted>>
-----------------------------------------------------------------------------
Call(c) ==
    \/ InterviewStart(c) \/ InterviewStop(c) \/ InterviewPause(c) \/ InterviewResume(c)
    \/ ConversationStart(c) \/ ConversationPause(c) \/ ConversationStop(c)

Continue(c) ==
    \/ Borrow(c) \/ Signal(c) \/ JoinWorker(c) \/ AwaitDrain(c) \/ FinalFlush(c) \/ Settle(c)
    \/ Open(c) \/ OpenFails(c) \/ Flag(c) \/ Spawn(c) \/ Commit(c) \/ Restore(c)
    \/ Release(c) \/ Hush(c) \/ Hushed(c) \/ Rearm(c) \/ Respawn(c) \/ Unhush(c)

Work(w) ==
    \/ Load(w) \/ LoadFails(w) \/ Check(w) \/ Look(w) \/ WorkerCrashes(w) \/ Finish(w)
    \/ WorkerEnds(w)

Recognise(w) == AsrTake(w) \/ AsrMerge(w) \/ AsrDone(w) \/ AsrEnds(w)

Publish(t) == Decide(t) \/ Record(t)

CaptureNext ==
    \/ \E c \in Callers : Call(c) \/ Continue(c)
    \/ \E w \in Workers : Work(w) \/ Recognise(w) \/ FlushTick(w)
    \/ \E t \in Publishers : Publish(t)
    \/ AudioDies

\* A request that runs and a thread that is alive keep running; the routes need
\* never be called and the flush thread's timer need not fire.
CaptureFairness ==
    /\ \A c \in Callers : WF_captureVars(Continue(c))
    /\ \A w \in Workers : WF_captureVars(Work(w)) /\ WF_captureVars(Recognise(w))
    /\ \A t \in Publishers : WF_captureVars(Publish(t))

CaptureSpec == CaptureInit /\ [][CaptureNext]_captureVars /\ CaptureFairness
-----------------------------------------------------------------------------
Labels == {"idle", "signal", "join", "drain", "flush", "flushing", "open", "flag", "spawn",
           "commit", "borrow", "restore", "release", "hush", "hushed", "rearm", "respawn",
           "unhush"}

CallTypes ==
    [at : Labels, then : {"idle", "open", "restore"}, joined : 0..MaxWorkers,
     op : {"none", "iStart", "iStop", "iPause", "iResume", "cStart", "cStop", "cPause", "cResume"},
     kept : [overlay : {"base", "conversation"}, flags : [rec : BOOLEAN, paused : BOOLEAN]]]

\* The variables keep their types.
CaptureTypeOK ==
    /\ hazards \in Hazards
    /\ call \in [Callers -> CallTypes] /\ calls \in 0..MaxCalls
    /\ captureLock \in Callers \union {Nobody} /\ asrLock \in Publishers \union {Nobody}
    /\ {active, stopping, rec, paused, stopEv, pauseEv, audio} \subseteq BOOLEAN
    /\ {overlay, previous} \subseteq {"base", "conversation"}
    /\ {worker, asr, runtime} \subseteq 0..MaxWorkers
    /\ wst \in [Workers -> {"unborn", "load", "check", "look", "finish", "last", "dead"}]
    /\ ast \in [Workers -> {"none", "wait", "text", "publish", "dead"}]
    /\ rt \in [Workers -> 0..MaxWorkers] /\ cur \in [Workers -> 0..MaxSegs]
    /\ \A r \in Workers : queue[r] \in Seq(Segs) /\ Len(queue[r]) <= SegQueue
    /\ merge \subseteq Segs /\ heard \subseteq Segs /\ noted \subseteq Segs

\* The session overlay that turns automatic answers off is in force while a
\* Conversation owns the transport and is not yet stopping, and is gone once it
\* owns it no longer, whatever the requests, failures and time-outs in between.
OverlayFollowsOwner ==
    /\ active /\ ~stopping => overlay = "conversation"
    /\ ~active => overlay = "base"

Quiet == hazards = {}

\* A request drains the capture threads, or wants the ASR lock, with the bridge's
\* lock in hand, while the thread that publishes holds the ASR lock and wants the
\* bridge's: neither goes on before a join gives up, and at the ASR lock none does.
LockCycle ==
    \E c \in Callers, t \in Publishers \ Callers :
        /\ captureLock = c /\ At(c) \in {"join", "drain", "flush"}
        /\ asrLock = t /\ pub[t].step \in {"locked", "decided"}

\* conversation_capture.py warns of it: the shared workers are never drained
\* under the Conversation's lock by a request that could deadlock with them.
NoLockCycle == ~LockCycle

\* Requests come one at a time, every join waits for its thread, and no thread fails.
Patient == hazards \subseteq {"device", "race", "stray"}

\* One request at a time, it cannot happen: a start finds the threads of the
\* recording before it gone, unless a join gave up on them or one of them failed.
QuietLocks == Patient => NoLockCycle

\* Speech captured for the Interview never becomes a Conversation transcript,
\* and speech captured for a Conversation is neither kept in the Interview's
\* history nor answered: the last segments of either are drained before the
\* transport changes hands.
SpeechStaysHome ==
    Patient =>
        /\ \A s \in heard : own[s] = "conversation"
        /\ \A s \in noted \union answered : own[s] = "interview"

\* When a stopped recording is at rest, every segment that was cut is in the
\* transcript of its owner, except those the bounded queue dropped.
AtRest ==
    /\ AllIdle
    /\ \A w \in Workers : wst[w] \in {"unborn", "dead"} /\ ast[w] \in {"none", "dead"}

Dropped == {s \in Segs : own[s] # "none" /\ s \notin heard \union noted}

LastWordsKept == Quiet /\ AtRest /\ ~rec /\ ~active => Dropped \subseteq lost

\* When everything is at rest and the session is not recording, the device is
\* closed.
DeviceReleased ==
    hazards \subseteq {"device", "race", "timeout"} /\ AtRest /\ ~rec => ~audio

Heard(w) == wst[w] \in {"check", "look"} => AsrAlive(w)

\* Without hazards, a worker that captures has a recogniser that will transcribe what it
\* captures.  One request at a time, with joins that wait and workers that neither
\* crash nor fail to load, it is deaf only on a runtime that it shares with another
\* worker: one that ended while the recording went on, after a pause that fell between
\* the two tests of its loop or a device that died, and told that runtime to drain.  The
\* recogniser started on it ends at once, and what is captured is transcribed by nobody.
CapturedIsTranscribed ==
    /\ Quiet => \A w \in Workers : Heard(w)
    /\ Patient => \A w \in Workers : Heard(w) \/ \E v \in Workers \ {w} : rt[v] = rt[w]

\* Every request returns: no join, drain or lock holds it for ever, as long as
\* requests come one at a time.
CallsReturn ==
    \A c \in Callers : []<>(At(c) = "idle" \/ "overlap" \in hazards)

\* Between any two steps the overlay, the device and the owner of the transport agree,
\* and the two locks cannot end in a circle when requests come one at a time.
CaptureInv == CaptureTypeOK /\ OverlayFollowsOwner /\ DeviceReleased /\ QuietLocks

\* Every segment ends where it belongs: with the owner it was captured for, to the
\* last word before a stop.
SpeechKept == SpeechStaysHome /\ LastWordsKept
=============================================================================

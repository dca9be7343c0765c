-------------------------- MODULE Recording_proofs --------------------------
(***************************************************************************)
(* Proofs about LiveCapture and AsrQuestions for every number of requests, *)
(* workers, segments, fragments and recordings, and every queue size.      *)
(*                                                                         *)
(* LiveCapture.  CaptureIInv is layered by the hazards a behaviour is      *)
(* exposed to.  Under all of them each lock has one holder, which is where *)
(* it says, and every call is on its route.  One request at a time, the    *)
(* flags follow the request at hand.  When threads are joined to their     *)
(* end, a transport changes hands only where nothing of a recording is     *)
(* left (Emptied), so that what is under way is its owner's (SpeechOwned), *)
(* and a worker is deaf only on a runtime that another had (Hearing).      *)
(* When nothing fails, a recording has a worker and a recogniser           *)
(* (Recording), and every segment that was cut is somewhere                *)
(* (NothingForgotten).                                                     *)
(*                                                                         *)
(* AsrQuestions, at the end.  Every fragment is in one place and every     *)
(* provisional card is settled once.  The methods are functions of one     *)
(* record, so the invariant is stated of a record and of the fragments     *)
(* outside it, and each method is shown to keep it.                        *)
(***************************************************************************)
EXTENDS LiveCapture, AsrQuestions, WellFoundedInduction, FiniteSetTheorems, SequenceTheorems, TLAPS

-----------------------------------------------------------------------------
(* LiveCapture: the invariant.                                             *)

Flags == [rec : BOOLEAN, paused : BOOLEAN]
Texts == [text : SUBSET Segs, auto : BOOLEAN, step : {"none", "locked", "decided"}]
Owners == {"none", "interview", "conversation"}
WorkerPlaces == {"unborn", "load", "check", "look", "finish", "last", "dead"}
AsrPlaces == {"none", "wait", "text", "publish", "dead"}

\* The types.
CallShape ==
    /\ hazards \in Hazards
    /\ call \in [Callers -> CallTypes] /\ calls \in 0..MaxCalls
BridgeShape ==
    /\ captureLock \in Callers \union {Nobody}
    /\ active \in BOOLEAN /\ stopping \in BOOLEAN
    /\ overlay \in {"base", "conversation"} /\ previous \in {"base", "conversation"}
    /\ snapshot \in Flags
FlagShape ==
    /\ rec \in BOOLEAN /\ paused \in BOOLEAN /\ stopEv \in BOOLEAN /\ pauseEv \in BOOLEAN
    /\ audio \in BOOLEAN
ThreadShape ==
    /\ worker \in 0..MaxWorkers /\ asr \in 0..MaxWorkers /\ runtime \in 0..MaxWorkers
    /\ wst \in [Workers -> WorkerPlaces] /\ rt \in [Workers -> 0..MaxWorkers]
    /\ ast \in [Workers -> AsrPlaces] /\ cur \in [Workers -> 0..MaxSegs]
    /\ auto \in [Workers -> BOOLEAN]
    /\ queue \in [Workers -> Seq(Segs)] /\ drain \in [Workers -> BOOLEAN]
    /\ \A r \in Workers : Len(queue[r]) <= SegQueue
MergeShape ==
    /\ asrLock \in Publishers \union {Nobody}
    /\ merge \in SUBSET Segs /\ pub \in [Publishers -> Texts]
SpeechShape == micFor \in Owners /\ own \in [Segs -> Owners] /\ lost \in SUBSET Segs
FateShape == heard \in SUBSET Segs /\ noted \in SUBSET Segs /\ answered \in SUBSET Segs

CaptureShape ==
    CallShape /\ BridgeShape /\ FlagShape /\ ThreadShape /\ MergeShape /\ SpeechShape /\ FateShape

Fresh == {"unborn", "load"}
Capturing == {"check", "look", "finish", "last"}

\* A worker past its load has a runtime, and only such a worker a recogniser, which
\* holds a segment from its queue to its publication.
Loaded ==
    \A w \in Workers :
        /\ wst[w] \notin Fresh => rt[w] # 0
        /\ wst[w] \in Fresh => ast[w] = "none"
        /\ cur[w] # 0 <=> ast[w] \in {"text", "publish"}

\* Who publishes holds the lock: a request at its last flush, a recogniser that waits
\* for it, or a flush thread.
Publishing ==
    /\ \A t \in Publishers :
          /\ pub[t].step # "none" <=> asrLock = t
          /\ pub[t].step # "decided" => pub[t].text = {}
    /\ \A c \in Callers : pub[c].step # "none" => At(c) = "flushing"
    /\ \A w \in Workers : pub[AsrOf(w)].step # "none" => ast[w] = "publish"

Stopping == {"signal", "join", "drain", "flush", "flushing"}
Starting == Stopping \union {"open", "flag", "spawn"}
PlacesOf(op) ==
    CASE op = "none" -> {"idle"}
      [] op = "iStart" -> Starting
      [] op = "cStart" -> Starting \union {"borrow", "commit"}
      [] op = "iStop" -> Stopping
      [] op = "cStop" -> Stopping \union {"restore", "release"}
      [] op \in {"iPause", "cPause"} -> {"hush", "hushed"}
      [] op \in {"iResume", "cResume"} -> {"rearm", "respawn", "unhush"}
ThenOf(op) == CASE op \in {"iStart", "cStart"} -> "open" [] op = "cStop" -> "restore" [] OTHER -> "idle"

\* Every call is at a place of its own route.
Routes ==
    \A c \in Callers :
        /\ At(c) \in PlacesOf(call[c].op) /\ call[c].then = ThenOf(call[c].op)
        /\ At(c) = "idle" => call[c] = Idle

Op(c) == call[c].op

\* The bridge changes hands under its lock; a stop is one request's.
Bridge ==
    /\ previous = "base" /\ (stopping => active)
    /\ \A c \in Callers : captureLock = c <=> Op(c) = "cStart"
    /\ \A c \in Callers : Op(c) = "cStart" =>
          /\ ~stopping /\ (active <=> At(c) # "borrow")
    /\ \A c \in Callers : Op(c) = "cStop" =>
          /\ stopping /\ call[c].kept.overlay = "base"
          /\ overlay = IF At(c) = "release" THEN "base" ELSE "conversation"
          /\ \A d \in Callers : Op(d) = "cStop" => d = c
    /\ stopping => \E c \in Callers : Op(c) = "cStop"
    /\ OverlayFollowsOwner

-----------------------------------------------------------------------------
\* Requests come one at a time, no worker crashes and the model loads.
Calm == hazards \intersect {"overlap", "crash", "load"} = {}
NoneAt(places) == \A c \in Callers : At(c) \notin places

OneCall == \A c, d \in Callers : At(c) # "idle" /\ At(d) # "idle" => c = d

\* With one request at a time, the flags are what the request at hand makes them.
FlagsFollow ==
    /\ ~snapshot.rec
    /\ \A c \in Callers :
          /\ ~call[c].kept.flags.rec
          /\ At(c) \in {"borrow", "open", "flag", "restore", "release"} => ~rec
          /\ At(c) \in {"spawn", "commit"} => rec
          /\ Op(c) \in {"iPause", "iResume"} => rec
          /\ Op(c) \in {"cPause", "cResume"} => active
          /\ Op(c) = "cStart" /\ At(c) # "spawn" /\ At(c) # "commit" => ~rec
          /\ Op(c) = "iStart" => ~active

\* The device is open only for a recording.
OpenForRecording ==
    /\ \A c \in Callers :
          /\ At(c) \in {"join", "drain", "flush", "flushing", "open", "restore", "release"} => ~audio
          /\ Op(c) = "cResume" => rec
    /\ audio /\ NoneAt({"flag"}) => rec
-----------------------------------------------------------------------------
\* There is one worker, with one recogniser, and a runtime begins empty.
OneWorker ==
    /\ \A w \in Workers :
          /\ WorkerAlive(w) => w = worker
          /\ AsrAlive(w) => wst[w] \in Capturing /\ asr = w
          /\ wst[w] \in Capturing => rt[w] = runtime
          /\ rt[w] # 0 => wst[rt[w]] \notin Fresh
          /\ wst[w] \in Fresh => queue[w] = <<>> /\ ~drain[w]
    /\ runtime # 0 => wst[runtime] \notin Fresh
    /\ \A c \in Callers : call[c].joined # 0 => wst[call[c].joined] \notin Fresh

TakesOver(w) == \E v \in Workers \ {w} : rt[v] = rt[w]

\* The current runtime was made by a worker, and one that no worker had before is not
\* told to drain while its worker captures.
Hearing ==
    /\ runtime # 0 => \E v \in Workers : rt[v] = runtime
    /\ \A w \in Workers :
          /\ wst[w] \in Fresh => rt[w] = 0
          /\ wst[w] \in {"check", "look", "finish"} =>
                (AsrAlive(w) /\ ~drain[rt[w]]) \/ TakesOver(w)

NoWorker == \A w \in Workers : ~WorkerAlive(w)
EmptyPipe == NoWorker /\ FlushIdle /\ merge = {} /\ runtime = 0

\* Where nothing of a recording is left.
Emptied ==
    /\ \A c \in Callers :
          /\ At(c) \in {"drain", "flush", "flushing"} => NoWorker
          /\ At(c) = "flushing" => FlushIdle /\ (pub[c].step # "locked" => merge = {})
          /\ At(c) \in {"open", "flag", "spawn", "restore", "release"} => EmptyPipe
          /\ Op(c) = "cStart" /\ At(c) # "commit" => EmptyPipe
    /\ AllIdle /\ ~rec /\ ~active => EmptyPipe

Owner == IF active THEN "conversation" ELSE "interview"
Owned(S) == \A s \in S : own[s] = Owner
InQueue == IF runtime = 0 THEN {} ELSE {queue[runtime][i] : i \in 1..Len(queue[runtime])}
InHand == {cur[w] : w \in {v \in Workers : ast[v] = "text"}}
InPublication == UNION {pub[t].text : t \in Publishers}
Pipe == InQueue \union InHand \union merge \union InPublication

\* What is under way belongs to who has the transport.
SpeechOwned ==
    /\ Owned(Pipe)
    /\ NoWorker \/ micFor = Owner
    /\ \A c \in Callers : At(c) \in {"flag", "spawn"} => micFor = Owner
    /\ active \/ rec =>
          micFor = Owner \/ \E c \in Callers : Op(c) = "cStart" /\ At(c) \notin {"flag", "spawn", "commit"}
    /\ active => /\ \A w \in Workers : ast[w] = "text" => ~auto[w]
                 /\ \A t \in Publishers : pub[t].step # "none" => ~pub[t].auto
    /\ ~active => \A t \in Publishers : pub[t].text \subseteq noted
-----------------------------------------------------------------------------
\* A recording that runs has a worker, and only a stop ends it.
Recording ==
    /\ \A w \in Workers :
          /\ wst[w] = "load" => runtime = 0 /\ merge = {}
          /\ wst[w] \in {"finish", "last"} => stopEv
          /\ wst[w] \in {"load", "check", "look"} /\ ~stopEv => audio \/ pauseEv
          /\ wst[w] \in {"check", "look", "finish"} => AsrAlive(w) /\ ~drain[rt[w]]
    /\ \A c \in Callers :
          /\ At(c) \in {"flag", "spawn"} => ~stopEv /\ audio
          /\ At(c) \in {"respawn", "unhush"} => audio
    /\ rec /\ NoneAt(Stopping \union {"spawn"}) => ~stopEv /\ WorkerAlive(worker)

\* Nothing that was said is forgotten, and a queue without a recogniser is empty.
NothingForgotten ==
    /\ \A s \in Segs : own[s] # "none" => s \in heard \union noted \union lost \union Pipe
    /\ runtime # 0 /\ (\A w \in Workers : ~AsrAlive(w)) => queue[runtime] = <<>>

\* The layers: what always holds, and what holds under the hazards it survives.
CaptureIInv ==
    /\ CaptureShape /\ Loaded /\ Publishing /\ Routes /\ Bridge
    /\ "overlap" \notin hazards => OneCall
    /\ Calm => FlagsFollow
    /\ hazards \subseteq {"device", "race", "timeout"} => OpenForRecording
    /\ Patient => OneWorker /\ Hearing /\ Emptied /\ SpeechOwned /\ SpeechStaysHome
    /\ Quiet => Recording /\ NothingForgotten

-----------------------------------------------------------------------------
(* Calls.                                                                  *)

\* c alone goes on in its call, or returns.
Moves(c, to) ==
    /\ call' \in [Callers -> CallTypes]
    /\ \A d \in Callers \ {c} : call'[d] = call[d]
    /\ to = "idle" => call'[c] = Idle
    /\ to # "idle" =>
          /\ call'[c].at = to /\ call'[c].op = call[c].op /\ call'[c].then = call[c].then
          /\ call'[c].joined = call[c].joined /\ call'[c].kept = call[c].kept

\* A call that returns keeps the types.
LEMMA IdleTyped == Idle \in CallTypes
BY CaptureBounds DEF Idle, CallTypes, Labels, NoSnapshot

\* A step of a call, and what it does to the callers.
LEMMA StepMoves ==
    ASSUME CaptureShape, NEW c \in Callers, NEW from, NEW to \in Labels, Step(c, from, to)
    PROVE  At(c) = from /\ Moves(c, to) /\ UNCHANGED <<hazards, calls>>
<1>1. call \in [Callers -> CallTypes]
  BY DEF CaptureShape, CallShape
<1>2. call' = [call EXCEPT ![c] = IF to = "idle" THEN Idle ELSE [@ EXCEPT !.at = to]]
  BY DEF Step
<1>3. call'[c] = IF to = "idle" THEN Idle ELSE [call[c] EXCEPT !.at = to]
  BY <1>1, <1>2
<1>4. [call[c] EXCEPT !.at = to] \in CallTypes
  BY <1>1 DEF CallTypes
<1>5. call' \in [Callers -> CallTypes]
  BY <1>1, <1>2, <1>4, IdleTyped
<1>6. \A d \in Callers \ {c} : call'[d] = call[d]
  BY <1>1, <1>2
<1>7. to # "idle" =>
          /\ call'[c].at = to /\ call'[c].op = call[c].op /\ call'[c].then = call[c].then
          /\ call'[c].joined = call[c].joined /\ call'[c].kept = call[c].kept
  BY <1>1, <1>3 DEF CallTypes
<1>8. QED
  BY <1>3, <1>5, <1>6, <1>7 DEF Step, Moves

\* c enters a route.
Enters(c, o, label, after) ==
    /\ call' \in [Callers -> CallTypes]
    /\ \A d \in Callers \ {c} : call'[d] = call[d]
    /\ call'[c].at = label /\ call'[c].op = o /\ call'[c].then = after /\ call'[c].joined = 0

Entered == {"iStart", "iStop", "iPause", "iResume", "cStart", "cPause", "cResume"}

\* A call that begins.
LEMMA EnterMoves ==
    ASSUME CaptureShape, NEW c \in Callers, NEW o \in Entered, NEW label \in {"signal", "hush", "rearm", "borrow"},
           NEW after \in {"idle", "open"}, Enter(c, o, label, after)
    PROVE  /\ Enters(c, o, label, after) /\ call'[c].kept = Idle.kept
           /\ At(c) = "idle" /\ calls < MaxCalls /\ calls' = calls + 1
           /\ "overlap" \in hazards \/ AllIdle
<1>1. call \in [Callers -> CallTypes]
  BY DEF CaptureShape, CallShape
<1>2. call' = [call EXCEPT ![c] = [Idle EXCEPT !.at = label, !.op = o, !.then = after]]
  BY DEF Enter
<1>3. call'[c] = [Idle EXCEPT !.at = label, !.op = o, !.then = after]
  BY <1>1, <1>2
<1>4. call' \in [Callers -> CallTypes] /\ \A d \in Callers \ {c} : call'[d] = call[d]
  <2>1. [Idle EXCEPT !.at = label, !.op = o, !.then = after] \in CallTypes
    BY IdleTyped DEF Idle, CallTypes, Labels, Entered
  <2>2. QED
    BY <1>1, <1>2, <2>1
<1>5. /\ call'[c].at = label /\ call'[c].op = o /\ call'[c].then = after /\ call'[c].joined = 0
      /\ call'[c].kept = Idle.kept
  BY <1>3 DEF Idle
<1>6. QED
  BY <1>4, <1>5 DEF Enter, Enters, MayCall

\* The stop of a Conversation, with the overlay and flags it copies.
LEMMA StopMoves ==
    ASSUME CaptureShape, NEW c \in Callers, ConversationStop(c)
    PROVE  /\ Enters(c, "cStop", "signal", "restore")
           /\ call'[c].kept = [overlay |-> previous, flags |-> snapshot]
           /\ At(c) = "idle" /\ calls < MaxCalls /\ calls' = calls + 1
           /\ "overlap" \in hazards \/ AllIdle
<1> DEFINE kept == [overlay |-> previous, flags |-> snapshot]
           route == [Idle EXCEPT !.at = "signal", !.op = "cStop", !.then = "restore", !.kept = kept]
<1>1. call \in [Callers -> CallTypes]
  BY DEF CaptureShape, CallShape
<1>2. call' = [call EXCEPT ![c] = route]
  BY DEF ConversationStop
<1>3. call'[c] = route
  BY <1>1, <1>2
<1>4. kept \in [overlay : {"base", "conversation"}, flags : [rec : BOOLEAN, paused : BOOLEAN]]
  BY DEF CaptureShape, BridgeShape, Flags
<1>5. route \in CallTypes
  BY <1>4, IdleTyped DEF Idle, CallTypes, Labels
<1>6. call' \in [Callers -> CallTypes] /\ \A d \in Callers \ {c} : call'[d] = call[d]
  BY <1>1, <1>2, <1>5
<1>7. /\ route.at = "signal" /\ route.op = "cStop" /\ route.then = "restore" /\ route.joined = 0
      /\ route.kept = kept
  BY DEF Idle
<1>8. QED
  BY <1>3, <1>6, <1>7 DEF ConversationStop, Enters, MayCall

\* The signal, which captures the runtime to drain.
LEMMA SignalMoves ==
    ASSUME CaptureShape, NEW c \in Callers, Signal(c)
    PROVE  /\ call' \in [Callers -> CallTypes]
           /\ \A d \in Callers \ {c} : call'[d] = call[d]
           /\ At(c) = "signal" /\ call'[c].at = "join" /\ call'[c].joined = runtime
           /\ call'[c].op = call[c].op /\ call'[c].then = call[c].then /\ call'[c].kept = call[c].kept
<1>1. call \in [Callers -> CallTypes] /\ runtime \in 0..MaxWorkers
  BY DEF CaptureShape, CallShape, ThreadShape
<1>2. call' = [call EXCEPT ![c].at = "join", ![c].joined = runtime]
  BY DEF Signal
<1>3. call'[c] = [call[c] EXCEPT !.at = "join", !.joined = runtime]
  BY <1>1, <1>2
<1>4. call'[c] \in CallTypes
  BY <1>1, <1>3 DEF CallTypes, Labels
<1>5. call' \in [Callers -> CallTypes] /\ \A d \in Callers \ {c} : call'[d] = call[d]
  BY <1>1, <1>2, <1>4
<1>6. QED
  BY <1>1, <1>3, <1>5 DEF Signal, At, CallTypes

-----------------------------------------------------------------------------
(* Queues.                                                                 *)

Held(q) == {q[i] : i \in 1..Len(q)}

\* A queue without its head.
LEMMA TakeFirst ==
    ASSUME NEW q \in Seq(Segs), q # <<>>
    PROVE  /\ Head(q) \in Segs /\ Tail(q) \in Seq(Segs) /\ Len(Tail(q)) = Len(q) - 1
           /\ Held(q) = {Head(q)} \union Held(Tail(q))
<1>1. /\ Len(q) \in Nat /\ Len(q) >= 1 /\ Head(q) = q[1]
      /\ Tail(q) \in Seq(Segs) /\ Len(Tail(q)) = Len(q) - 1
      /\ \A i \in 1..Len(q) - 1 : Tail(q)[i] = q[i + 1]
      /\ \A i \in 1..Len(q) : q[i] \in Segs
  OBVIOUS
<1>2. Held(q) \subseteq {Head(q)} \union Held(Tail(q))
  <2>1. SUFFICES ASSUME NEW i \in 1..Len(q)
                 PROVE  q[i] \in {Head(q)} \union Held(Tail(q))
    BY DEF Held
  <2>2. CASE i = 1
    BY <2>2, <1>1
  <2>3. CASE i # 1
    <3>1. i - 1 \in 1..Len(q) - 1 /\ (i - 1) + 1 = i
      BY <2>3, <1>1
    <3>2. Tail(q)[i - 1] = q[i]
      BY <3>1, <1>1
    <3>3. QED
      BY <3>1, <3>2, <1>1 DEF Held
  <2>4. QED
    BY <2>2, <2>3
<1>3. Held(Tail(q)) \subseteq Held(q)
  <2>1. SUFFICES ASSUME NEW i \in 1..Len(q) - 1
                 PROVE  Tail(q)[i] \in Held(q)
    BY <1>1 DEF Held
  <2>2. i + 1 \in 1..Len(q) /\ Tail(q)[i] = q[i + 1]
    BY <1>1
  <2>3. QED
    BY <2>2 DEF Held
<1>4. Head(q) \in Held(q)
  BY <1>1 DEF Held
<1>5. QED
  BY <1>1, <1>2, <1>3, <1>4

\* A queue with one more segment.
LEMMA AddLast ==
    ASSUME NEW q \in Seq(Segs), NEW s \in Segs
    PROVE  /\ Append(q, s) \in Seq(Segs) /\ Len(Append(q, s)) = Len(q) + 1
           /\ Held(Append(q, s)) = Held(q) \union {s}
<1>1. /\ Append(q, s) \in Seq(Segs) /\ Len(Append(q, s)) = Len(q) + 1 /\ Len(q) \in Nat
      /\ \A i \in 1..Len(q) : Append(q, s)[i] = q[i]
      /\ Append(q, s)[Len(q) + 1] = s
  OBVIOUS
<1>2. Held(Append(q, s)) \subseteq Held(q) \union {s}
  BY <1>1 DEF Held
<1>3. Held(q) \subseteq Held(Append(q, s))
  <2>1. SUFFICES ASSUME NEW i \in 1..Len(q)
                 PROVE  q[i] \in Held(Append(q, s))
    BY DEF Held
  <2>2. i \in 1..Len(Append(q, s)) /\ Append(q, s)[i] = q[i]
    BY <1>1
  <2>3. QED
    BY <2>2 DEF Held
<1>4. s \in Held(Append(q, s))
  BY <1>1 DEF Held
<1>5. QED
  BY <1>1, <1>2, <1>3, <1>4

\* An empty queue holds nothing.
LEMMA EmptyHeld == Held(<<>>) = {}
BY DEF Held

\* A queue holds segments.
LEMMA HeldSegs ==
    ASSUME NEW q \in Seq(Segs)
    PROVE  Held(q) \subseteq Segs
BY DEF Held

\* The next number for a segment is the least that is free.
LEMMA NextIsFree ==
    ASSUME CaptureShape, NextSeg \in Segs
    PROVE  own[NextSeg] = "none"
<1> DEFINE Free(n) == n \in Segs => own[n] = "none"
           T == {n \in 1..(MaxSegs + 1) : Free(n)}
<1>1. MaxSegs \in Nat
  BY CaptureBounds
<1>2. T \subseteq Nat
  BY <1>1
<1>3. MaxSegs + 1 \in T
  BY <1>1 DEF Segs
<1>4. \E x \in T : \A y \in T : ~ (<<y, x>> \in OpToRel(<, Nat))
  BY <1>2, <1>3, NatLessThanWellFounded, WFMin
<1>5. PICK x \in T : \A y \in T : ~ (<<y, x>> \in OpToRel(<, Nat))
  BY <1>4
<1>6. \A y \in T : ~(y < x)
  BY <1>2, <1>5 DEF OpToRel
<1>7. \A m \in 1..(x - 1) : m \in 1..(MaxSegs + 1) /\ m < x
  BY <1>1
<1>8. \A m \in 1..(x - 1) : own[m] # "none"
  BY <1>6, <1>7
<1>9. \E n \in 1..(MaxSegs + 1) :
          (n \in Segs => own[n] = "none") /\ \A m \in 1..(n - 1) : own[m] # "none"
  BY <1>8
<1>10. NextSeg \in Segs => own[NextSeg] = "none"
  BY <1>9 DEF NextSeg
<1>11. QED
  BY <1>10

\* A segment that is cut joins its queue, and what a full queue drops is lost.
Cut(w) ==
    \E s \in Segs :
        /\ own[s] = "none" /\ own' = [own EXCEPT ![s] = micFor]
        /\ queue' \in [Workers -> Seq(Segs)] /\ Len(queue'[rt[w]]) <= SegQueue
        /\ \A r \in Workers : r # rt[w] => queue'[r] = queue[r]
        /\ lost \subseteq lost' /\ lost' \subseteq Segs
        /\ Held(queue'[rt[w]]) \subseteq Held(queue[rt[w]]) \union {s}
        /\ Held(queue[rt[w]]) \union {s} \subseteq Held(queue'[rt[w]]) \union lost'

\* _emit_interviewer_segment cuts.
LEMMA EmitCuts ==
    ASSUME CaptureShape, NEW w \in Workers, rt[w] \in Workers, Emit(w)
    PROVE  Cut(w)
<1> DEFINE s == NextSeg
           q == queue[rt[w]]
           full == Len(q) = SegQueue
           rest == IF full THEN Tail(q) ELSE q
<1>1. s \in Segs /\ own[s] = "none" /\ own' = [own EXCEPT ![s] = micFor]
  BY NextIsFree DEF Emit
<1>2. queue \in [Workers -> Seq(Segs)] /\ q \in Seq(Segs) /\ Len(q) <= SegQueue /\ lost \subseteq Segs
  BY DEF CaptureShape, ThreadShape, SpeechShape
<1>3. /\ queue' = [queue EXCEPT ![rt[w]] = Append(rest, s)]
      /\ lost' = IF full THEN lost \union {Head(q)} ELSE lost
  BY DEF Emit
<1>4. SegQueue \in Nat /\ SegQueue >= 1
  BY CaptureBounds
<1>5. full => q # <<>>
  BY <1>2, <1>4
<1>6. /\ rest \in Seq(Segs) /\ Len(rest) < SegQueue
      /\ full => Head(q) \in Segs /\ Held(q) = {Head(q)} \union Held(rest)
  <2>1. CASE full
    BY <2>1, <1>2, <1>4, <1>5, TakeFirst
  <2>2. CASE ~full
    BY <2>2, <1>2, <1>4
  <2>3. QED
    BY <2>1, <2>2
<1>7. /\ Append(rest, s) \in Seq(Segs) /\ Len(Append(rest, s)) = Len(rest) + 1
      /\ Held(Append(rest, s)) = Held(rest) \union {s}
  BY <1>1, <1>6, AddLast
<1>8. queue' \in [Workers -> Seq(Segs)] /\ queue'[rt[w]] = Append(rest, s)
  BY <1>2, <1>3, <1>7
<1>9. \A r \in Workers : r # rt[w] => queue'[r] = queue[r]
  BY <1>2, <1>3
<1>10. lost \subseteq lost' /\ lost' \subseteq Segs
  BY <1>2, <1>3, <1>6
<1>11. Len(Append(rest, s)) <= SegQueue
  BY <1>4, <1>6, <1>7
<1>12. ~full => rest = q
  OBVIOUS
<1>13. /\ Held(Append(rest, s)) \subseteq Held(q) \union {s}
       /\ Held(q) \union {s} \subseteq Held(Append(rest, s)) \union lost'
  BY <1>3, <1>6, <1>7, <1>12
<1>14. QED
  BY <1>1, <1>8, <1>9, <1>10, <1>11, <1>13 DEF Cut

-----------------------------------------------------------------------------
(* What each part of the state is changed by.                              *)

\* The bridge.
LEMMA BridgeFrame ==
    ASSUME CaptureNext
    PROVE  \/ UNCHANGED bridgeVars
           \/ \E c \in Callers : ConversationStart(c) \/ ConversationStop(c) \/ Borrow(c)
              \/ OpenFails(c) \/ Commit(c) \/ Restore(c) \/ Release(c)
<1>1. CASE \E c \in Callers : Call(c)
  BY <1>1 DEF Call, InterviewStart, InterviewStop, InterviewPause, InterviewResume,
     ConversationPause, bridgeVars
<1>2. CASE \E c \in Callers : Continue(c)
  <2>1. PICK c \in Callers : Continue(c)
    BY <1>2
  <2>2. CASE Signal(c) \/ JoinWorker(c) \/ AwaitDrain(c) \/ FinalFlush(c) \/ Settle(c)
             \/ Open(c) \/ Flag(c)
    BY <2>2 DEF Signal, JoinWorker, AwaitDrain, FinalFlush, Settle, Open, Flag, Step,
       bridgeVars
  <2>3. CASE Spawn(c) \/ Hush(c) \/ Hushed(c) \/ Rearm(c) \/ Respawn(c) \/ Unhush(c)
    BY <2>3 DEF Spawn, Hush, Hushed, Rearm, Respawn, Unhush, Step, bridgeVars
  <2>4. CASE Borrow(c) \/ OpenFails(c) \/ Commit(c) \/ Restore(c) \/ Release(c)
    BY <2>4
  <2>5. QED
    BY <2>1, <2>2, <2>3, <2>4 DEF Continue
<1>3. CASE \E w \in Workers : Work(w) \/ Recognise(w) \/ FlushTick(w)
  BY <1>3 DEF Work, Recognise, Load, LoadFails, Check, Look, WorkerCrashes, Finish,
     WorkerEnds, AsrTake, AsrMerge, AsrDone, AsrEnds, FlushTick, bridgeVars
<1>4. CASE (\E t \in Publishers : Publish(t)) \/ AudioDies
  BY <1>4 DEF Publish, Decide, Record, AudioDies, bridgeVars
<1>5. QED
  BY <1>1, <1>2, <1>3, <1>4 DEF CaptureNext

\* The flags and the device.
LEMMA FlagFrame ==
    ASSUME CaptureNext
    PROVE  \/ UNCHANGED flagVars
           \/ \E c \in Callers : Signal(c) \/ Settle(c) \/ Open(c) \/ OpenFails(c) \/ Flag(c)
              \/ Restore(c) \/ Hush(c) \/ Hushed(c) \/ Rearm(c) \/ Unhush(c)
           \/ \E w \in Workers : LoadFails(w) \/ WorkerCrashes(w) \/ Finish(w)
           \/ AudioDies
<1>1. CASE \E c \in Callers : Call(c)
  BY <1>1 DEF Call, InterviewStart, InterviewStop, InterviewPause, InterviewResume,
     ConversationStart, ConversationPause, ConversationStop, flagVars
<1>2. CASE \E c \in Callers : Continue(c)
  BY <1>2 DEF Continue, Borrow, JoinWorker, AwaitDrain, FinalFlush, Spawn, Commit,
     Release, Respawn, Step, flagVars
<1>3. CASE \E w \in Workers : Work(w) \/ Recognise(w) \/ FlushTick(w)
  BY <1>3 DEF Work, Recognise, Load, Check, Look, WorkerEnds, AsrTake, AsrMerge,
     AsrDone, AsrEnds, FlushTick, flagVars
<1>4. CASE (\E t \in Publishers : Publish(t)) \/ AudioDies
  BY <1>4 DEF Publish, Decide, Record, flagVars
<1>5. QED
  BY <1>1, <1>2, <1>3, <1>4 DEF CaptureNext

\* The threads and their queues.
LEMMA ThreadFrame ==
    ASSUME CaptureNext
    PROVE  \/ UNCHANGED threadVars
           \/ \E c \in Callers : JoinWorker(c) \/ AwaitDrain(c) \/ Settle(c) \/ Spawn(c)
              \/ Respawn(c)
           \/ \E w \in Workers : Load(w) \/ LoadFails(w) \/ Check(w) \/ Look(w)
              \/ WorkerCrashes(w) \/ Finish(w) \/ WorkerEnds(w) \/ AsrTake(w)
              \/ AsrMerge(w) \/ AsrDone(w) \/ AsrEnds(w)
<1>1. CASE \E c \in Callers : Call(c)
  BY <1>1 DEF Call, InterviewStart, InterviewStop, InterviewPause, InterviewResume,
     ConversationStart, ConversationPause, ConversationStop, threadVars
<1>2. CASE \E c \in Callers : Continue(c)
  <2>1. PICK c \in Callers : Continue(c)
    BY <1>2
  <2>2. CASE Borrow(c) \/ Signal(c) \/ FinalFlush(c) \/ Open(c) \/ OpenFails(c) \/
             Flag(c) \/ Commit(c)
    BY <2>2 DEF Borrow, Signal, FinalFlush, Open, OpenFails, Flag, Commit, Step,
       threadVars
  <2>3. CASE Restore(c) \/ Release(c) \/ Hush(c) \/ Hushed(c) \/ Rearm(c) \/ Unhush(c)
    BY <2>3 DEF Restore, Release, Hush, Hushed, Rearm, Unhush, Step, threadVars
  <2>4. CASE JoinWorker(c) \/ AwaitDrain(c) \/ Settle(c) \/ Spawn(c) \/ Respawn(c)
    BY <2>4
  <2>5. QED
    BY <2>1, <2>2, <2>3, <2>4 DEF Continue
<1>3. CASE \E w \in Workers : Work(w) \/ Recognise(w) \/ FlushTick(w)
  BY <1>3 DEF Work, Recognise, FlushTick, threadVars
<1>4. CASE (\E t \in Publishers : Publish(t)) \/ AudioDies
  BY <1>4 DEF Publish, Decide, Record, AudioDies, threadVars
<1>5. QED
  BY <1>1, <1>2, <1>3, <1>4 DEF CaptureNext

\* The merge buffer and its publication.
LEMMA MergeFrame ==
    ASSUME CaptureNext
    PROVE  \/ UNCHANGED mergeVars
           \/ \E c \in Callers : FinalFlush(c)
           \/ \E w \in Workers : Load(w) \/ AsrMerge(w) \/ FlushTick(w)
           \/ \E t \in Publishers : Decide(t) \/ Record(t)
<1>1. CASE \E c \in Callers : Call(c)
  BY <1>1 DEF Call, InterviewStart, InterviewStop, InterviewPause, InterviewResume,
     ConversationStart, ConversationPause, ConversationStop, mergeVars, textVars
<1>2. CASE \E c \in Callers : Continue(c)
  <2>1. PICK c \in Callers : Continue(c)
    BY <1>2
  <2>2. CASE Borrow(c) \/ Signal(c) \/ JoinWorker(c) \/ AwaitDrain(c) \/ Settle(c) \/
             Open(c)
    BY <2>2 DEF Borrow, Signal, JoinWorker, AwaitDrain, Settle, Open, Step, mergeVars,
       textVars
  <2>3. CASE OpenFails(c) \/ Flag(c) \/ Spawn(c) \/ Commit(c) \/ Restore(c) \/
             Release(c)
    BY <2>3 DEF OpenFails, Flag, Spawn, Commit, Restore, Release, Step, mergeVars,
       textVars
  <2>4. CASE Hush(c) \/ Hushed(c) \/ Rearm(c) \/ Respawn(c) \/ Unhush(c)
    BY <2>4 DEF Hush, Hushed, Rearm, Respawn, Unhush, Step, mergeVars, textVars
  <2>5. CASE FinalFlush(c)
    BY <2>5
  <2>6. QED
    BY <2>1, <2>2, <2>3, <2>4, <2>5 DEF Continue
<1>3. CASE \E w \in Workers : Work(w) \/ Recognise(w) \/ FlushTick(w)
  BY <1>3 DEF Work, Recognise, LoadFails, Check, Look, WorkerCrashes, Finish,
     WorkerEnds, AsrTake, AsrDone, AsrEnds, mergeVars, textVars
<1>4. CASE (\E t \in Publishers : Publish(t)) \/ AudioDies
  BY <1>4 DEF Publish, AudioDies, mergeVars, textVars
<1>5. QED
  BY <1>1, <1>2, <1>3, <1>4 DEF CaptureNext

\* The segments, and whom the device is open for.
LEMMA SpeechFrame ==
    ASSUME CaptureNext
    PROVE  \/ UNCHANGED <<micFor, speechVars>>
           \/ \E c \in Callers : Open(c)
           \/ \E w \in Workers : Check(w) \/ Look(w) \/ Finish(w)
<1>1. CASE \E c \in Callers : Call(c)
  BY <1>1 DEF Call, InterviewStart, InterviewStop, InterviewPause, InterviewResume,
     ConversationStart, ConversationPause, ConversationStop, speechVars, textVars
<1>2. CASE \E c \in Callers : Continue(c)
  <2>1. PICK c \in Callers : Continue(c)
    BY <1>2
  <2>2. CASE Borrow(c) \/ Signal(c) \/ JoinWorker(c) \/ AwaitDrain(c) \/ FinalFlush(c)
             \/ Settle(c)
    BY <2>2 DEF Borrow, Signal, JoinWorker, AwaitDrain, FinalFlush, Settle, Step,
       speechVars, textVars
  <2>3. CASE OpenFails(c) \/ Flag(c) \/ Spawn(c) \/ Commit(c) \/ Restore(c) \/
             Release(c)
    BY <2>3 DEF OpenFails, Flag, Spawn, Commit, Restore, Release, Step, speechVars,
       textVars
  <2>4. CASE Hush(c) \/ Hushed(c) \/ Rearm(c) \/ Respawn(c) \/ Unhush(c)
    BY <2>4 DEF Hush, Hushed, Rearm, Respawn, Unhush, Step, speechVars, textVars
  <2>5. CASE Open(c)
    BY <2>5
  <2>6. QED
    BY <2>1, <2>2, <2>3, <2>4, <2>5 DEF Continue
<1>3. CASE \E w \in Workers : Work(w) \/ Recognise(w) \/ FlushTick(w)
  BY <1>3 DEF Work, Recognise, Load, LoadFails, WorkerCrashes, WorkerEnds, AsrTake,
     AsrMerge, AsrDone, AsrEnds, FlushTick, speechVars, textVars
<1>4. CASE (\E t \in Publishers : Publish(t)) \/ AudioDies
  BY <1>4 DEF Publish, Decide, Record, AudioDies, speechVars, textVars
<1>5. QED
  BY <1>1, <1>2, <1>3, <1>4 DEF CaptureNext

\* The texts.
LEMMA FateFrame ==
    ASSUME CaptureNext
    PROVE  \/ UNCHANGED fateVars
           \/ \E t \in Publishers : Decide(t) \/ Record(t)
<1>1. CASE \E c \in Callers : Call(c)
  BY <1>1 DEF Call, InterviewStart, InterviewStop, InterviewPause, InterviewResume,
     ConversationStart, ConversationPause, ConversationStop, fateVars, textVars
<1>2. CASE \E c \in Callers : Continue(c)
  <2>1. PICK c \in Callers : Continue(c)
    BY <1>2
  <2>2. CASE Borrow(c) \/ Signal(c) \/ JoinWorker(c) \/ AwaitDrain(c) \/ FinalFlush(c)
             \/ Settle(c)
    BY <2>2 DEF Borrow, Signal, JoinWorker, AwaitDrain, FinalFlush, Settle, Step,
       fateVars, textVars
  <2>3. CASE Open(c) \/ OpenFails(c) \/ Flag(c) \/ Spawn(c) \/ Commit(c) \/ Restore(c)
    BY <2>3 DEF Open, OpenFails, Flag, Spawn, Commit, Restore, Step, fateVars, textVars
  <2>4. CASE Release(c) \/ Hush(c) \/ Hushed(c) \/ Rearm(c) \/ Respawn(c) \/ Unhush(c)
    BY <2>4 DEF Release, Hush, Hushed, Rearm, Respawn, Unhush, Step, fateVars, textVars
  <2>5. QED
    BY <2>1, <2>2, <2>3, <2>4 DEF Continue
<1>3. CASE \E w \in Workers : Work(w) \/ Recognise(w) \/ FlushTick(w)
  BY <1>3 DEF Work, Recognise, Load, LoadFails, Check, Look, WorkerCrashes, Finish,
     WorkerEnds, AsrTake, AsrMerge, AsrDone, AsrEnds, FlushTick, fateVars, textVars
<1>4. CASE (\E t \in Publishers : Publish(t)) \/ AudioDies
  BY <1>4 DEF Publish, AudioDies, fateVars, textVars
<1>5. QED
  BY <1>1, <1>2, <1>3, <1>4 DEF CaptureNext

\* The calls.
LEMMA CallFrame ==
    ASSUME CaptureNext
    PROVE  \/ UNCHANGED callVars
           \/ \E c \in Callers : InterviewStart(c) \/ InterviewStop(c) \/ InterviewPause(c)
              \/ InterviewResume(c) \/ ConversationStart(c) \/ ConversationPause(c)
              \/ ConversationStop(c) \/ Borrow(c) \/ Signal(c) \/ JoinWorker(c)
              \/ AwaitDrain(c) \/ FinalFlush(c) \/ Settle(c) \/ Open(c)
              \/ OpenFails(c) \/ Flag(c) \/ Spawn(c) \/ Commit(c) \/ Restore(c)
              \/ Release(c) \/ Hush(c) \/ Hushed(c) \/ Rearm(c) \/ Respawn(c)
              \/ Unhush(c)
<1>1. CASE \E c \in Callers : Call(c)
  BY <1>1 DEF Call, callVars
<1>2. CASE \E c \in Callers : Continue(c)
  BY <1>2 DEF Continue, Step, callVars
<1>3. CASE \E w \in Workers : Work(w) \/ Recognise(w) \/ FlushTick(w)
  BY <1>3 DEF Work, Recognise, Load, LoadFails, Check, Look, WorkerCrashes, Finish,
     WorkerEnds, AsrTake, AsrMerge, AsrDone, AsrEnds, FlushTick, callVars
<1>4. CASE (\E t \in Publishers : Publish(t)) \/ AudioDies
  BY <1>4 DEF Publish, Decide, Record, AudioDies, callVars
<1>5. QED
  BY <1>1, <1>2, <1>3, <1>4 DEF CaptureNext

-----------------------------------------------------------------------------
(* Types.                                                                  *)

\* The actions of a caller keep the callers' types.
LEMMA CallsTyped ==
    ASSUME CaptureShape, NEW c \in Callers, Call(c)
    PROVE  call' \in [Callers -> CallTypes] /\ calls' \in 0..MaxCalls
<1>1. calls \in 0..MaxCalls /\ MaxCalls \in Nat
  BY CaptureBounds DEF CaptureShape, CallShape
<1>4. CASE InterviewStart(c)
  BY <1>1, <1>4, EnterMoves DEF Entered, InterviewStart, Enters
<1>5. CASE InterviewStop(c)
  BY <1>1, <1>5, EnterMoves DEF Entered, InterviewStop, Enters
<1>6. CASE InterviewPause(c)
  BY <1>1, <1>6, EnterMoves DEF Entered, InterviewPause, Enters
<1>7. CASE InterviewResume(c)
  BY <1>1, <1>7, EnterMoves DEF Entered, InterviewResume, Enters
<1>8. CASE ConversationStart(c)
  BY <1>1, <1>8, EnterMoves DEF Entered, ConversationStart, Enters
<1>9. CASE ConversationPause(c)
  BY <1>1, <1>9, EnterMoves DEF Entered, ConversationPause, Enters
<1>10. CASE ConversationStop(c)
  BY <1>1, <1>10, StopMoves DEF Enters
<1>11. QED
  BY <1>4, <1>5, <1>6, <1>7, <1>8, <1>9, <1>10 DEF Call

\* Where each step inside a call leads.
LEMMA Continued ==
    ASSUME CaptureShape, NEW c \in Callers
    PROVE  /\ Borrow(c) => At(c) = "borrow" /\ Moves(c, "signal")
           /\ JoinWorker(c) => At(c) = "join" /\ Moves(c, "drain")
           /\ AwaitDrain(c) => At(c) = "drain" /\ Moves(c, "flush")
           /\ FinalFlush(c) => At(c) = "flush" /\ Moves(c, "flushing")
           /\ Settle(c) => At(c) = "flushing" /\ Moves(c, call[c].then)
           /\ Open(c) => At(c) = "open" /\ Moves(c, "flag")
           /\ OpenFails(c) => At(c) = "open" /\ Moves(c, "idle")
           /\ Flag(c) => At(c) = "flag" /\ Moves(c, "spawn")
           /\ Spawn(c) => At(c) = "spawn" /\ Moves(c, IF call[c].op = "cStart" THEN "commit" ELSE "idle")
           /\ Commit(c) => At(c) = "commit" /\ Moves(c, "idle")
           /\ Restore(c) => At(c) = "restore" /\ Moves(c, "release")
           /\ Release(c) => At(c) = "release" /\ Moves(c, "idle")
           /\ Hush(c) => At(c) = "hush" /\ Moves(c, "hushed")
           /\ Hushed(c) => At(c) = "hushed" /\ Moves(c, "idle")
           /\ Rearm(c) => At(c) = "rearm" /\ (Moves(c, "respawn") \/ Moves(c, "unhush") \/ Moves(c, "idle"))
           /\ Respawn(c) => At(c) = "respawn" /\ Moves(c, "unhush")
           /\ Unhush(c) => At(c) = "unhush" /\ Moves(c, "idle")
           /\ Continue(c) => UNCHANGED <<hazards, calls>>
<1>1. /\ {"idle", "join", "drain", "flush", "flushing", "open", "flag", "spawn", "commit", "signal",
          "restore", "release", "hushed", "respawn", "unhush"} \subseteq Labels
      /\ call[c].then \in Labels
  BY DEF CaptureShape, CallShape, CallTypes, Labels
<1>2. Borrow(c) => At(c) = "borrow" /\ Moves(c, "signal") /\ UNCHANGED <<hazards, calls>>
  BY <1>1, StepMoves DEF Borrow
<1>3. JoinWorker(c) => At(c) = "join" /\ Moves(c, "drain") /\ UNCHANGED <<hazards, calls>>
  BY <1>1, StepMoves DEF JoinWorker
<1>4. AwaitDrain(c) => At(c) = "drain" /\ Moves(c, "flush") /\ UNCHANGED <<hazards, calls>>
  BY <1>1, StepMoves DEF AwaitDrain
<1>5. FinalFlush(c) => At(c) = "flush" /\ Moves(c, "flushing") /\ UNCHANGED <<hazards, calls>>
  BY <1>1, StepMoves DEF FinalFlush
<1>6. Settle(c) => At(c) = "flushing" /\ Moves(c, call[c].then) /\ UNCHANGED <<hazards, calls>>
  BY <1>1, StepMoves DEF Settle
<1>7. Open(c) => At(c) = "open" /\ Moves(c, "flag") /\ UNCHANGED <<hazards, calls>>
  BY <1>1, StepMoves DEF Open
<1>8. OpenFails(c) => At(c) = "open" /\ Moves(c, "idle") /\ UNCHANGED <<hazards, calls>>
  BY <1>1, StepMoves DEF OpenFails
<1>9. Flag(c) => At(c) = "flag" /\ Moves(c, "spawn") /\ UNCHANGED <<hazards, calls>>
  BY <1>1, StepMoves DEF Flag
<1>10. Spawn(c) => At(c) = "spawn" /\ Moves(c, IF call[c].op = "cStart" THEN "commit" ELSE "idle") /\ UNCHANGED <<hazards, calls>>
  BY <1>1, StepMoves DEF Spawn
<1>11. Commit(c) => At(c) = "commit" /\ Moves(c, "idle") /\ UNCHANGED <<hazards, calls>>
  BY <1>1, StepMoves DEF Commit
<1>12. Restore(c) => At(c) = "restore" /\ Moves(c, "release") /\ UNCHANGED <<hazards, calls>>
  BY <1>1, StepMoves DEF Restore
<1>13. Release(c) => At(c) = "release" /\ Moves(c, "idle") /\ UNCHANGED <<hazards, calls>>
  BY <1>1, StepMoves DEF Release
<1>14. Hush(c) => At(c) = "hush" /\ Moves(c, "hushed") /\ UNCHANGED <<hazards, calls>>
  BY <1>1, StepMoves DEF Hush
<1>15. Hushed(c) => At(c) = "hushed" /\ Moves(c, "idle") /\ UNCHANGED <<hazards, calls>>
  BY <1>1, StepMoves DEF Hushed
<1>16. Rearm(c) => At(c) = "rearm" /\ (Moves(c, "respawn") \/ Moves(c, "unhush") \/ Moves(c, "idle")) /\ UNCHANGED <<hazards, calls>>
  BY <1>1, StepMoves DEF Rearm
<1>17. Respawn(c) => At(c) = "respawn" /\ Moves(c, "unhush") /\ UNCHANGED <<hazards, calls>>
  BY <1>1, StepMoves DEF Respawn
<1>18. Unhush(c) => At(c) = "unhush" /\ Moves(c, "idle") /\ UNCHANGED <<hazards, calls>>
  BY <1>1, StepMoves DEF Unhush
<1>19. QED
  BY <1>2, <1>3, <1>4, <1>5, <1>6, <1>7, <1>8, <1>9, <1>10, <1>11, <1>12, <1>13, <1>14, <1>15, <1>16, <1>17, <1>18 DEF Continue, Signal

\* A behaviour's hazards are fixed at its start.
LEMMA HazardsFixed == CaptureNext => hazards' = hazards
<1>1. ASSUME NEW c \in Callers, Call(c)
     PROVE  hazards' = hazards
  BY <1>1 DEF Call, InterviewStart, InterviewStop, InterviewPause, InterviewResume,
     ConversationStart, ConversationPause, ConversationStop
<1>2. ASSUME NEW c \in Callers, Continue(c)
     PROVE  hazards' = hazards
  <2>1. CASE Borrow(c) \/ Signal(c) \/ JoinWorker(c) \/ AwaitDrain(c) \/ FinalFlush(c) \/ Settle(c) \/ Open(c) \/ OpenFails(c) \/ Flag(c)
    BY <2>1 DEF Borrow, Signal, JoinWorker, AwaitDrain, FinalFlush, Settle, Open, OpenFails,
       Flag, Step
  <2>2. CASE Spawn(c) \/ Commit(c) \/ Restore(c) \/ Release(c) \/ Hush(c) \/ Hushed(c) \/ Rearm(c) \/ Respawn(c) \/ Unhush(c)
    BY <2>2 DEF Spawn, Commit, Restore, Release, Hush, Hushed, Rearm, Respawn, Unhush, Step
  <2>3. QED
    BY <1>2, <2>1, <2>2 DEF Continue
<1>3. ASSUME NEW w \in Workers, Work(w) \/ Recognise(w) \/ FlushTick(w)
     PROVE  hazards' = hazards
  BY <1>3 DEF Work, Recognise, FlushTick, Load, LoadFails, Check, Look, WorkerCrashes,
     Finish, WorkerEnds, AsrTake, AsrMerge, AsrDone, AsrEnds
<1>4. CASE (\E t \in Publishers : Publish(t)) \/ AudioDies
  BY <1>4 DEF Publish, AudioDies, Decide, Record
<1>5. QED
  BY <1>1, <1>2, <1>3, <1>4 DEF CaptureNext

\* The types of the callers are kept.
LEMMA CallStep ==
    ASSUME CaptureShape, CaptureNext
    PROVE  CallShape'
<1>1. CallShape /\ hazards' = hazards
  BY HazardsFixed DEF CaptureShape
<1>2. CASE UNCHANGED callVars
  BY <1>1, <1>2 DEF CallShape, callVars
<1>3. ASSUME NEW c \in Callers, Call(c)
     PROVE  CallShape'
  BY <1>1, <1>3, CallsTyped DEF CallShape
<1>4. ASSUME NEW c \in Callers, Signal(c)
     PROVE  CallShape'
  BY <1>1, <1>4, SignalMoves DEF CallShape, Signal
<1>5. ASSUME NEW c \in Callers, Continue(c), ~Signal(c)
     PROVE  CallShape'
  <2>1. \E to \in Labels : Moves(c, to)
    <3>1. call[c].then \in Labels
      BY <1>1 DEF CallShape, CallTypes, Labels
    <3>2. QED
      BY <1>5, <3>1, Continued DEF Continue, Labels
  <2>2. QED
    BY <1>1, <1>5, <2>1, Continued DEF CallShape, Moves
<1>6. QED
  BY <1>2, <1>3, <1>4, <1>5, CallFrame DEF Call, Continue

\* The types of the bridge are kept.
LEMMA BridgeTyped ==
    ASSUME CaptureShape, CaptureNext
    PROVE  BridgeShape'
<1>1. CASE UNCHANGED bridgeVars
  BY <1>1 DEF BridgeShape, CaptureShape, bridgeVars
<1>2. ASSUME NEW c \in Callers, ConversationStart(c)
     PROVE  BridgeShape'
  BY <1>2 DEF BridgeShape, CaptureShape, ConversationStart
<1>3. ASSUME NEW c \in Callers, ConversationStop(c)
     PROVE  BridgeShape'
  BY <1>3 DEF BridgeShape, CaptureShape, ConversationStop
<1>4. ASSUME NEW c \in Callers, Borrow(c)
     PROVE  BridgeShape'
  BY <1>4 DEF BridgeShape, CaptureShape, Borrow, FlagShape, Flags
<1>5. ASSUME NEW c \in Callers, OpenFails(c)
     PROVE  BridgeShape'
  <2>1. NoSnapshot \in Flags
    BY DEF NoSnapshot, Flags
  <2>2. CASE /\ active' = FALSE /\ overlay' = previous /\ previous' = "base"
             /\ snapshot' = NoSnapshot /\ captureLock' = Nobody
    BY <1>5, <2>1, <2>2 DEF CaptureShape, BridgeShape, OpenFails
  <2>3. CASE UNCHANGED <<active, overlay, previous, snapshot, captureLock>>
    BY <1>5, <2>3 DEF CaptureShape, BridgeShape, OpenFails
  <2>4. QED
    BY <1>5, <2>2, <2>3 DEF OpenFails
<1>6. ASSUME NEW c \in Callers, Commit(c)
     PROVE  BridgeShape'
  BY <1>6 DEF BridgeShape, CaptureShape, Commit
<1>7. ASSUME NEW c \in Callers, Restore(c)
     PROVE  BridgeShape'
  BY <1>7 DEF BridgeShape, CaptureShape, Restore, CallShape, CallTypes
<1>8. ASSUME NEW c \in Callers, Release(c)
     PROVE  BridgeShape'
  BY <1>8 DEF BridgeShape, CaptureShape, Release, NoSnapshot, Flags
<1>9. QED
  BY <1>1, <1>2, <1>3, <1>4, <1>5, <1>6, <1>7, <1>8, BridgeFrame

\* The types of the flags are kept.
LEMMA FlagTyped ==
    ASSUME CaptureShape, CaptureNext
    PROVE  FlagShape'
<1>1. CASE UNCHANGED flagVars
  BY <1>1 DEF FlagShape, CaptureShape, flagVars
<1>2. ASSUME NEW c \in Callers, Signal(c)
     PROVE  FlagShape'
  BY <1>2 DEF FlagShape, CaptureShape, Signal
<1>3. ASSUME NEW c \in Callers, Settle(c)
     PROVE  FlagShape'
  BY <1>3 DEF FlagShape, CaptureShape, Settle
<1>4. ASSUME NEW c \in Callers, Open(c)
     PROVE  FlagShape'
  BY <1>4 DEF FlagShape, CaptureShape, Open
<1>5. ASSUME NEW c \in Callers, OpenFails(c)
     PROVE  FlagShape'
  BY <1>5 DEF FlagShape, CaptureShape, OpenFails, BridgeShape, Flags
<1>6. ASSUME NEW c \in Callers, Flag(c)
     PROVE  FlagShape'
  BY <1>6 DEF FlagShape, CaptureShape, Flag
<1>7. ASSUME NEW c \in Callers, Restore(c)
     PROVE  FlagShape'
  BY <1>7 DEF FlagShape, CaptureShape, Restore, CallShape, CallTypes
<1>8. ASSUME NEW c \in Callers, Hush(c)
     PROVE  FlagShape'
  BY <1>8 DEF FlagShape, CaptureShape, Hush
<1>9. ASSUME NEW c \in Callers, Hushed(c)
     PROVE  FlagShape'
  BY <1>9 DEF FlagShape, CaptureShape, Hushed
<1>10. ASSUME NEW c \in Callers, Rearm(c)
     PROVE  FlagShape'
  BY <1>10 DEF FlagShape, CaptureShape, Rearm
<1>11. ASSUME NEW c \in Callers, Unhush(c)
     PROVE  FlagShape'
  BY <1>11 DEF FlagShape, CaptureShape, Unhush
<1>12. ASSUME NEW w \in Workers, LoadFails(w)
     PROVE  FlagShape'
  BY <1>12 DEF FlagShape, CaptureShape, LoadFails
<1>13. ASSUME NEW w \in Workers, WorkerCrashes(w)
     PROVE  FlagShape'
  BY <1>13 DEF FlagShape, CaptureShape, WorkerCrashes
<1>14. ASSUME NEW w \in Workers, Finish(w)
     PROVE  FlagShape'
  BY <1>14 DEF FlagShape, CaptureShape, Finish
<1>15. ASSUME AudioDies
     PROVE  FlagShape'
  BY <1>15 DEF FlagShape, CaptureShape, AudioDies
<1>16. QED
  BY <1>1, <1>2, <1>3, <1>4, <1>5, <1>6, <1>7, <1>8, <1>9, <1>10, <1>11, <1>12, <1>13,
     <1>14, <1>15, FlagFrame

\* A publisher that takes the ASR lock.
LEMMA HoldTyped ==
    ASSUME MergeShape, NEW t \in Publishers, NEW a \in BOOLEAN, Hold(t, a)
    PROVE  /\ asrLock = Nobody /\ asrLock' = t /\ pub' \in [Publishers -> Texts]
           /\ pub'[t] = [text |-> {}, auto |-> a, step |-> "locked"]
           /\ \A u \in Publishers \ {t} : pub'[u] = pub[u]
<1>1. [text |-> {}, auto |-> a, step |-> "locked"] \in Texts
  BY DEF Texts
<1>2. QED
  BY <1>1 DEF MergeShape, Hold

\* The bounds are numbers, and a queue has room for a segment.
LEMMA Sizes == MaxCalls \in Nat /\ MaxWorkers \in Nat /\ MaxSegs \in Nat /\ SegQueue \in Nat /\ SegQueue > 0
BY CaptureBounds

\* A worker past its load has a runtime.
LEMMA HasRuntime ==
    ASSUME CaptureShape, Loaded, NEW w \in Workers, wst[w] \notin Fresh
    PROVE  rt[w] \in Workers
BY Sizes DEF CaptureShape, ThreadShape, Loaded, Workers

\* A recogniser at work has a segment.
LEMMA HasSegment ==
    ASSUME CaptureShape, Loaded, NEW w \in Workers, ast[w] \in {"text", "publish"}
    PROVE  cur[w] \in Segs
BY Sizes DEF CaptureShape, ThreadShape, Loaded, Segs

\* Requests, recognisers and flush threads publish.
LEMMA WhoPublishes ==
    /\ Callers \subseteq Publishers
    /\ \A w \in Workers : AsrOf(w) \in Publishers /\ FlushOf(w) \in Publishers
BY DEF Publishers

\* The types of the threads are kept.
LEMMA ThreadTyped ==
    ASSUME CaptureShape, Loaded, CaptureNext
    PROVE  ThreadShape'
<1>1. ThreadShape /\ CaptureShape /\ Loaded
  BY DEF CaptureShape
<1>2. CASE UNCHANGED threadVars
  BY <1>2, <1>1, CaptureBounds DEF ThreadShape, threadVars
<1>3. ASSUME NEW c \in Callers, JoinWorker(c)
     PROVE  ThreadShape'
  <2>1. drain' \in [Workers -> BOOLEAN]
    BY <1>3 DEF JoinWorker
  <2>2. QED
    BY <1>1, <1>3, <2>1, CaptureBounds DEF ThreadShape, JoinWorker
<1>4. ASSUME NEW c \in Callers, AwaitDrain(c)
     PROVE  ThreadShape'
  BY <1>4, <1>1, CaptureBounds DEF ThreadShape, AwaitDrain
<1>5. ASSUME NEW c \in Callers, Settle(c)
     PROVE  ThreadShape'
  BY <1>5, <1>1, CaptureBounds DEF ThreadShape, Settle
<1>6. ASSUME NEW c \in Callers, Spawn(c)
     PROVE  ThreadShape'
  <2>1. CASE UNCHANGED <<worker, wst>>
    BY <1>1, <1>6, <2>1 DEF ThreadShape, Spawn
  <2>2. ASSUME NEW w \in Workers, worker' = w, wst' = [wst EXCEPT ![w] = "load"]
        PROVE  ThreadShape'
    BY <1>1, <1>6, <2>2, Sizes DEF ThreadShape, Spawn, WorkerPlaces, Workers
  <2>3. QED
    BY <1>6, <2>1, <2>2 DEF Spawn, SpawnIfNeeded
<1>7. ASSUME NEW c \in Callers, Respawn(c)
     PROVE  ThreadShape'
  <2>1. CASE UNCHANGED <<worker, wst>>
    BY <1>1, <1>7, <2>1 DEF ThreadShape, Respawn
  <2>2. ASSUME NEW w \in Workers, worker' = w, wst' = [wst EXCEPT ![w] = "load"]
        PROVE  ThreadShape'
    BY <1>1, <1>7, <2>2, Sizes DEF ThreadShape, Respawn, WorkerPlaces, Workers
  <2>3. QED
    BY <1>7, <2>1, <2>2 DEF Respawn, SpawnIfNeeded
<1>8. ASSUME NEW w \in Workers, Load(w)
     PROVE  ThreadShape'
  BY <1>8, <1>1, CaptureBounds DEF ThreadShape, Load, Move, Workers, WorkerPlaces, AsrPlaces
<1>9. ASSUME NEW w \in Workers, LoadFails(w)
     PROVE  ThreadShape'
  BY <1>9, <1>1, CaptureBounds DEF ThreadShape, LoadFails, Move, Workers, WorkerPlaces
<1>10. ASSUME NEW w \in Workers, Check(w)
     PROVE  ThreadShape'
  <2>1. rt[w] \in Workers
    BY <1>1, <1>10, HasRuntime DEF Fresh, Check, Move
  <2>2. CASE Emit(w)
    <3>1. Cut(w)
      BY <2>1, <2>2, EmitCuts
    <3>2. queue' \in [Workers -> Seq(Segs)] /\ \A r \in Workers : Len(queue'[r]) <= SegQueue
      BY <1>1, <3>1 DEF Cut, ThreadShape
    <3>3. QED
      BY <1>1, <1>10, <3>2, CaptureBounds DEF ThreadShape, Check, Move, WorkerPlaces, AsrPlaces
  <2>3. CASE UNCHANGED queue
    BY <1>1, <1>10, <2>3, CaptureBounds DEF ThreadShape, Check, Move, WorkerPlaces, AsrPlaces
  <2>4. QED
    BY <1>10, <2>2, <2>3 DEF Check, MaybeEmit
<1>11. ASSUME NEW w \in Workers, Look(w)
     PROVE  ThreadShape'
  <2>1. rt[w] \in Workers
    BY <1>1, <1>11, HasRuntime DEF Fresh, Look, Move
  <2>2. CASE Emit(w)
    <3>1. Cut(w)
      BY <2>1, <2>2, EmitCuts
    <3>2. queue' \in [Workers -> Seq(Segs)] /\ \A r \in Workers : Len(queue'[r]) <= SegQueue
      BY <1>1, <3>1 DEF Cut, ThreadShape
    <3>3. QED
      BY <1>1, <1>11, <3>2, CaptureBounds DEF ThreadShape, Look, Move, WorkerPlaces, AsrPlaces
  <2>3. CASE UNCHANGED queue
    BY <1>1, <1>11, <2>3, CaptureBounds DEF ThreadShape, Look, Move, WorkerPlaces, AsrPlaces
  <2>4. QED
    BY <1>11, <2>2, <2>3 DEF Look, MaybeEmit
<1>12. ASSUME NEW w \in Workers, WorkerCrashes(w)
     PROVE  ThreadShape'
  BY <1>12, <1>1, CaptureBounds DEF ThreadShape, WorkerCrashes, Move, WorkerPlaces
<1>13. ASSUME NEW w \in Workers, Finish(w)
     PROVE  ThreadShape'
  <2>1. rt[w] \in Workers
    BY <1>1, <1>13, HasRuntime DEF Fresh, Finish, Move
  <2>9. drain' \in [Workers -> BOOLEAN] /\ wst' \in [Workers -> WorkerPlaces]
    BY <1>1, <1>13 DEF Finish, Move, ThreadShape, WorkerPlaces
  <2>2. CASE Emit(w)
    <3>1. Cut(w)
      BY <2>1, <2>2, EmitCuts
    <3>2. queue' \in [Workers -> Seq(Segs)] /\ \A r \in Workers : Len(queue'[r]) <= SegQueue
      BY <1>1, <3>1 DEF Cut, ThreadShape
    <3>3. QED
      BY <1>1, <1>13, <2>9, <3>2 DEF ThreadShape, Finish
  <2>3. CASE UNCHANGED queue
    BY <1>1, <1>13, <2>9, <2>3 DEF ThreadShape, Finish
  <2>4. QED
    BY <1>13, <2>2, <2>3 DEF Finish, MaybeEmit
<1>14. ASSUME NEW w \in Workers, WorkerEnds(w)
     PROVE  ThreadShape'
  BY <1>14, <1>1, CaptureBounds DEF ThreadShape, WorkerEnds, Move, WorkerPlaces
<1>15. ASSUME NEW w \in Workers, AsrTake(w)
     PROVE  ThreadShape'
  <2>1. /\ rt[w] \in Workers /\ queue[rt[w]] \in Seq(Segs) /\ queue[rt[w]] # <<>>
        /\ Len(queue[rt[w]]) <= SegQueue
    BY <1>1, <1>15 DEF Loaded, AsrTake, ThreadShape, Workers
  <2>2. /\ Head(queue[rt[w]]) \in Segs /\ Tail(queue[rt[w]]) \in Seq(Segs)
        /\ Len(Tail(queue[rt[w]])) = Len(queue[rt[w]]) - 1
    BY <2>1, TakeFirst
  <2>3. queue' \in [Workers -> Seq(Segs)] /\ \A r \in Workers : Len(queue'[r]) <= SegQueue
    <3>1. queue' = [queue EXCEPT ![rt[w]] = Tail(queue[rt[w]])] BY <1>15 DEF AsrTake
    <3>2. queue \in [Workers -> Seq(Segs)] /\ \A r \in Workers : Len(queue[r]) <= SegQueue
      BY <1>1 DEF ThreadShape
    <3>3. Len(Tail(queue[rt[w]])) <= SegQueue BY <2>1, <2>2, Sizes
    <3> QED BY <2>1, <2>2, <3>1, <3>2, <3>3
  <2>4. (overlay = "base") \in BOOLEAN
    OBVIOUS
  <2>5. cur' \in [Workers -> 0..MaxSegs] /\ ast' \in [Workers -> AsrPlaces]
    <3>1. Head(queue[rt[w]]) \in 0..MaxSegs BY <2>2, Sizes DEF Segs
    <3>2. cur' \in [Workers -> 0..MaxSegs] BY <1>1, <1>15, <3>1 DEF AsrTake, ThreadShape
    <3>3. ast' \in [Workers -> AsrPlaces] BY <1>1, <1>15 DEF AsrTake, ThreadShape, AsrPlaces
    <3> QED BY <3>2, <3>3
  <2>7. auto' \in [Workers -> BOOLEAN]
    BY <1>1, <1>15, <2>4 DEF AsrTake, ThreadShape
  <2>6. QED
    BY <1>1, <1>15, <2>3, <2>5, <2>7 DEF AsrTake, ThreadShape
<1>16. ASSUME NEW w \in Workers, AsrMerge(w)
     PROVE  ThreadShape'
  <2>1. cur' \in [Workers -> 0..MaxSegs] /\ ast' \in [Workers -> AsrPlaces]
    <3>1. CASE ast' = [ast EXCEPT ![w] = "publish"] /\ UNCHANGED cur
      BY <1>1, <3>1 DEF ThreadShape, AsrPlaces
    <3>2. CASE cur' = [cur EXCEPT ![w] = 0] /\ ast' = [ast EXCEPT ![w] = "wait"]
      BY <1>1, <3>2, Sizes DEF ThreadShape, AsrPlaces
    <3>3. QED
      BY <1>16, <3>1, <3>2 DEF AsrMerge
  <2>2. auto' \in [Workers -> BOOLEAN]
    BY <1>1, <1>16 DEF AsrMerge, ThreadShape
  <2>3. QED
    BY <1>1, <1>16, <2>1, <2>2 DEF AsrMerge, ThreadShape
<1>17. ASSUME NEW w \in Workers, AsrDone(w)
     PROVE  ThreadShape'
  BY <1>17, <1>1, CaptureBounds DEF ThreadShape, AsrDone, AsrPlaces
<1>18. ASSUME NEW w \in Workers, AsrEnds(w)
     PROVE  ThreadShape'
  BY <1>18, <1>1, CaptureBounds DEF ThreadShape, AsrEnds, AsrPlaces
<1>19. QED
  BY <1>2, <1>3, <1>4, <1>5, <1>6, <1>7, <1>8, <1>9, <1>10, <1>11, <1>12, <1>13, <1>14,
     <1>15, <1>16, <1>17, <1>18, ThreadFrame

\* The types of the merge buffer and its publishers are kept.
LEMMA MergeTyped ==
    ASSUME CaptureShape, Loaded, CaptureNext
    PROVE  MergeShape'
<1>1. CaptureShape /\ MergeShape
  BY DEF CaptureShape
<1>2. CASE UNCHANGED mergeVars
  BY <1>2, <1>1 DEF MergeShape, mergeVars
<1>3. ASSUME NEW c \in Callers, FinalFlush(c)
     PROVE  MergeShape'
  <2>1. c \in Publishers /\ (overlay = "base") \in BOOLEAN
    BY <1>1, WhoPublishes DEF CaptureShape, ThreadShape
  <2>2. CASE Hold(c, overlay = "base")
    BY <1>1, <1>3, <2>1, <2>2, HoldTyped DEF MergeShape, FinalFlush
  <2>3. CASE UNCHANGED <<asrLock, pub>>
    BY <1>1, <1>3, <2>3 DEF MergeShape, FinalFlush
  <2>4. QED
    BY <1>3, <2>2, <2>3 DEF FinalFlush
<1>4. ASSUME NEW w \in Workers, Load(w)
     PROVE  MergeShape'
  BY <1>4, <1>1 DEF MergeShape, Load
<1>5. ASSUME NEW w \in Workers, AsrMerge(w)
     PROVE  MergeShape'
  <2>1. AsrOf(w) \in Publishers /\ auto[w] \in BOOLEAN
    BY <1>1, WhoPublishes DEF CaptureShape, ThreadShape
  <2>2. merge' \in SUBSET Segs
    BY <1>1, <1>5, HasSegment DEF AsrMerge, MergeShape
  <2>3. CASE Hold(AsrOf(w), auto[w])
    BY <2>1, <2>2, <2>3, <1>1, HoldTyped DEF MergeShape
  <2>4. CASE UNCHANGED <<asrLock, pub>>
    BY <2>2, <2>4, <1>1 DEF MergeShape
  <2>5. QED
    BY <1>5, <2>3, <2>4 DEF AsrMerge
<1>6. ASSUME NEW w \in Workers, FlushTick(w)
     PROVE  MergeShape'
  <2>1. FlushOf(w) \in Publishers /\ (overlay = "base") \in BOOLEAN
    BY <1>1, WhoPublishes DEF CaptureShape, ThreadShape
  <2>2. CASE Hold(FlushOf(w), overlay = "base")
    BY <1>1, <1>6, <2>1, <2>2, HoldTyped DEF MergeShape, FlushTick
  <2>3. QED
    BY <1>6, <2>2 DEF FlushTick
<1>7. ASSUME NEW t \in Publishers, Decide(t)
     PROVE  MergeShape'
  BY <1>7, <1>1 DEF MergeShape, Decide, Texts
<1>8. ASSUME NEW t \in Publishers, Record(t)
     PROVE  MergeShape'
  BY <1>8, <1>1 DEF MergeShape, Record, Texts, Silent
<1>9. QED
  BY <1>2, <1>3, <1>4, <1>5, <1>6, <1>7, <1>8, MergeFrame

\* The types of the speech are kept.
LEMMA SpeechTyped ==
    ASSUME CaptureShape, Loaded, CaptureNext
    PROVE  SpeechShape'
<1>1. CaptureShape /\ SpeechShape /\ Loaded
  BY DEF CaptureShape
<1>2. CASE UNCHANGED <<micFor, speechVars>>
  BY <1>2, <1>1 DEF SpeechShape, speechVars
<1>3. ASSUME NEW c \in Callers, Open(c)
     PROVE  SpeechShape'
  BY <1>3, <1>1 DEF SpeechShape, Open, Owners, speechVars
<1>4. ASSUME NEW w \in Workers, Check(w)
     PROVE  SpeechShape'
  <2>1. rt[w] \in Workers
    BY <1>1, <1>4, HasRuntime DEF Fresh, Check, Move
  <2>2. CASE Emit(w)
    <3>1. Cut(w)
      BY <2>1, <2>2, EmitCuts
    <3>2. QED
      BY <1>1, <1>4, <3>1 DEF Cut, SpeechShape, Check
  <2>3. CASE UNCHANGED speechVars
    BY <1>1, <1>4, <2>3 DEF SpeechShape, Check, speechVars
  <2>4. QED
    BY <1>4, <2>2, <2>3 DEF Check, MaybeEmit
<1>5. ASSUME NEW w \in Workers, Look(w)
     PROVE  SpeechShape'
  <2>1. rt[w] \in Workers
    BY <1>1, <1>5, HasRuntime DEF Fresh, Look, Move
  <2>2. CASE Emit(w)
    <3>1. Cut(w)
      BY <2>1, <2>2, EmitCuts
    <3>2. QED
      BY <1>1, <1>5, <3>1 DEF Cut, SpeechShape, Look
  <2>3. CASE UNCHANGED speechVars
    BY <1>1, <1>5, <2>3 DEF SpeechShape, Look, speechVars
  <2>4. QED
    BY <1>5, <2>2, <2>3 DEF Look, MaybeEmit
<1>6. ASSUME NEW w \in Workers, Finish(w)
     PROVE  SpeechShape'
  <2>1. rt[w] \in Workers
    BY <1>1, <1>6, HasRuntime DEF Fresh, Finish, Move
  <2>2. CASE Emit(w)
    <3>1. Cut(w)
      BY <2>1, <2>2, EmitCuts
    <3>2. QED
      BY <1>1, <1>6, <3>1 DEF Cut, SpeechShape, Finish
  <2>3. CASE UNCHANGED speechVars
    BY <1>1, <1>6, <2>3 DEF SpeechShape, Finish, speechVars
  <2>4. QED
    BY <1>6, <2>2, <2>3 DEF Finish, MaybeEmit
<1>7. QED
  BY <1>2, <1>3, <1>4, <1>5, <1>6, SpeechFrame

\* The types of what became of the speech are kept.
LEMMA FateTyped ==
    ASSUME CaptureShape, CaptureNext
    PROVE  FateShape'
<1>1. CASE UNCHANGED fateVars
  BY <1>1 DEF FateShape, CaptureShape, fateVars
<1>2. ASSUME NEW t \in Publishers, Decide(t)
     PROVE  FateShape'
  BY <1>2 DEF FateShape, CaptureShape, Decide, MergeShape
<1>3. ASSUME NEW t \in Publishers, Record(t)
     PROVE  FateShape'
  BY <1>3 DEF FateShape, CaptureShape, Record, MergeShape, Texts
<1>4. QED
  BY <1>1, <1>2, <1>3, FateFrame

\* All types are kept.
LEMMA ShapeStep ==
    ASSUME CaptureShape, Loaded, CaptureNext
    PROVE  CaptureShape'
BY CallStep, BridgeTyped, FlagTyped, ThreadTyped, MergeTyped, SpeechTyped, FateTyped DEF CaptureShape

-----------------------------------------------------------------------------
(* Threads, publication and routes.                                        *)

\* Runtimes and recognisers belong to loaded workers.
LEMMA LoadedStep ==
    ASSUME CaptureShape, Loaded, CaptureNext
    PROVE  Loaded'
<1>1. ThreadShape /\ Loaded
  BY DEF CaptureShape
<1>2. CASE UNCHANGED threadVars
  BY <1>2, <1>1 DEF Loaded, ThreadShape, threadVars
<1>3. ASSUME NEW c \in Callers, JoinWorker(c)
     PROVE  Loaded'
  BY <1>3, <1>1 DEF Loaded, ThreadShape, JoinWorker, Move, Fresh, Workers
<1>4. ASSUME NEW c \in Callers, AwaitDrain(c)
     PROVE  Loaded'
  BY <1>4, <1>1 DEF Loaded, ThreadShape, AwaitDrain, Move, Fresh, Workers
<1>5. ASSUME NEW c \in Callers, Settle(c)
     PROVE  Loaded'
  BY <1>5, <1>1 DEF Loaded, ThreadShape, Settle, Move, Fresh, Workers
<1>6. ASSUME NEW c \in Callers, Spawn(c)
     PROVE  Loaded'
  <2>1. CASE UNCHANGED <<worker, wst>>
    BY <1>1, <1>6, <2>1 DEF Loaded, Spawn
  <2>2. ASSUME NEW w \in Workers, wst[w] = "unborn", wst' = [wst EXCEPT ![w] = "load"]
        PROVE  Loaded'
    BY <1>1, <1>6, <2>2 DEF Loaded, ThreadShape, Spawn, Fresh
  <2>3. QED
    BY <1>6, <2>1, <2>2 DEF Spawn, SpawnIfNeeded
<1>7. ASSUME NEW c \in Callers, Respawn(c)
     PROVE  Loaded'
  <2>1. CASE UNCHANGED <<worker, wst>>
    BY <1>1, <1>7, <2>1 DEF Loaded, Respawn
  <2>2. ASSUME NEW w \in Workers, wst[w] = "unborn", wst' = [wst EXCEPT ![w] = "load"]
        PROVE  Loaded'
    BY <1>1, <1>7, <2>2 DEF Loaded, ThreadShape, Respawn, Fresh
  <2>3. QED
    BY <1>7, <2>1, <2>2 DEF Respawn, SpawnIfNeeded
<1>8. ASSUME NEW w \in Workers, Load(w)
     PROVE  Loaded'
  BY <1>8, <1>1 DEF Loaded, ThreadShape, Load, Move, Fresh, Workers
<1>9. ASSUME NEW w \in Workers, LoadFails(w)
     PROVE  Loaded'
  BY <1>9, <1>1 DEF Loaded, ThreadShape, LoadFails, Move, Fresh, Workers
<1>10. ASSUME NEW w \in Workers, Check(w)
     PROVE  Loaded'
  BY <1>10, <1>1 DEF Loaded, ThreadShape, Check, Move, Fresh, Workers
<1>11. ASSUME NEW w \in Workers, Look(w)
     PROVE  Loaded'
  BY <1>11, <1>1 DEF Loaded, ThreadShape, Look, Move, Fresh, Workers
<1>12. ASSUME NEW w \in Workers, WorkerCrashes(w)
     PROVE  Loaded'
  BY <1>12, <1>1 DEF Loaded, ThreadShape, WorkerCrashes, Move, Fresh, Workers
<1>13. ASSUME NEW w \in Workers, Finish(w)
     PROVE  Loaded'
  BY <1>13, <1>1 DEF Loaded, ThreadShape, Finish, Move, Fresh, Workers
<1>14. ASSUME NEW w \in Workers, WorkerEnds(w)
     PROVE  Loaded'
  BY <1>14, <1>1 DEF Loaded, ThreadShape, WorkerEnds, Move, Fresh, Workers
<1>15. ASSUME NEW w \in Workers, AsrTake(w)
     PROVE  Loaded'
  <2>1. rt[w] \in Workers /\ queue[rt[w]] \in Seq(Segs) /\ queue[rt[w]] # <<>>
    BY <1>1, <1>15, HasRuntime DEF AsrTake, ThreadShape, Loaded
  <2>2. Head(queue[rt[w]]) \in Segs
    BY <2>1, TakeFirst
  <2>3. QED
    BY <1>1, <1>15, <2>2, Sizes DEF Loaded, ThreadShape, AsrTake, Segs
<1>16. ASSUME NEW w \in Workers, AsrMerge(w)
     PROVE  Loaded'
  <2>1. CASE ast' = [ast EXCEPT ![w] = "publish"] /\ UNCHANGED cur
    BY <1>1, <1>16, <2>1 DEF Loaded, ThreadShape, AsrMerge
  <2>2. CASE cur' = [cur EXCEPT ![w] = 0] /\ ast' = [ast EXCEPT ![w] = "wait"]
    BY <1>1, <1>16, <2>2 DEF Loaded, ThreadShape, AsrMerge
  <2>3. QED
    BY <1>16, <2>1, <2>2 DEF AsrMerge
<1>17. ASSUME NEW w \in Workers, AsrDone(w)
     PROVE  Loaded'
  BY <1>17, <1>1 DEF Loaded, ThreadShape, AsrDone, Move, Fresh, Workers
<1>18. ASSUME NEW w \in Workers, AsrEnds(w)
     PROVE  Loaded'
  BY <1>18, <1>1 DEF Loaded, ThreadShape, AsrEnds, Move, Fresh, Workers
<1>19. QED
  BY <1>2, <1>3, <1>4, <1>5, <1>6, <1>7, <1>8, <1>9, <1>10, <1>11, <1>12, <1>13, <1>14,
     <1>15, <1>16, <1>17, <1>18, ThreadFrame

Ops == {"none", "iStart", "iStop", "iPause", "iResume", "cStart", "cStop", "cPause", "cResume"}

\* The places of each route.
LEMMA Places ==
    /\ PlacesOf("none") = {"idle"}
    /\ PlacesOf("iStart") = {"signal", "join", "drain", "flush", "flushing", "open", "flag", "spawn"}
    /\ PlacesOf("cStart") = {"signal", "join", "drain", "flush", "flushing", "open", "flag", "spawn",
                             "borrow", "commit"}
    /\ PlacesOf("iStop") = {"signal", "join", "drain", "flush", "flushing"}
    /\ PlacesOf("cStop") = {"signal", "join", "drain", "flush", "flushing", "restore", "release"}
    /\ \A op \in {"iPause", "cPause"} : PlacesOf(op) = {"hush", "hushed"}
    /\ \A op \in {"iResume", "cResume"} : PlacesOf(op) = {"rearm", "respawn", "unhush"}
<1>1. PlacesOf("none") = {"idle"}
  BY DEF PlacesOf
<1>2. PlacesOf("iStart") = Starting /\ PlacesOf("cStart") = Starting \union {"borrow", "commit"}
  BY DEF PlacesOf
<1>3. PlacesOf("iStop") = Stopping /\ PlacesOf("cStop") = Stopping \union {"restore", "release"}
  BY DEF PlacesOf
<1>4. /\ \A op \in {"iPause", "cPause"} : PlacesOf(op) = {"hush", "hushed"}
      /\ \A op \in {"iResume", "cResume"} : PlacesOf(op) = {"rearm", "respawn", "unhush"}
  BY DEF PlacesOf
<1>5. QED
  BY <1>1, <1>2, <1>3, <1>4 DEF Starting, Stopping

\* Where stop_interview_loop returns to.
LEMMA Thens ==
    /\ \A op \in {"iStart", "cStart"} : ThenOf(op) = "open"
    /\ ThenOf("cStop") = "restore"
    /\ \A op \in {"none", "iStop", "iPause", "iResume", "cPause", "cResume"} : ThenOf(op) = "idle"
BY DEF ThenOf

\* A caller is on one of the routes.
LEMMA OpTyped == CallShape => \A c \in Callers : Op(c) \in Ops /\ call[c] \in CallTypes
BY DEF CallShape, CallTypes, Op, Ops

\* Which call is where.
LEMMA WhoIsThere ==
    ASSUME CallShape, Routes, NEW c \in Callers
    PROVE  /\ At(c) = "idle" <=> Op(c) = "none"
           /\ At(c) \in {"open", "flag", "spawn"} => Op(c) \in {"iStart", "cStart"}
           /\ At(c) \in {"borrow", "commit"} => Op(c) = "cStart"
           /\ At(c) \in {"restore", "release"} => Op(c) = "cStop"
           /\ At(c) \in {"hush", "hushed"} => Op(c) \in {"iPause", "cPause"}
           /\ At(c) \in {"rearm", "respawn", "unhush"} => Op(c) \in {"iResume", "cResume"}
           /\ At(c) \in Stopping => Op(c) \in {"iStart", "cStart", "iStop", "cStop"}
<1>1. At(c) \in PlacesOf(Op(c)) /\ Op(c) \in Ops
  BY OpTyped DEF Routes, Op
<1>2. At(c) = "idle" => Op(c) = "none"
  BY DEF Routes, Op, At, Idle
<1>3. QED
  BY <1>1, <1>2, Places DEF Ops, Stopping

\* A caller that moves within its route stays on it.
LEMMA MovesRoutes ==
    ASSUME CallShape, Routes, NEW c \in Callers, NEW to, Moves(c, to),
           to = "idle" \/ to \in PlacesOf(Op(c))
    PROVE  Routes'
<1>1. /\ call'[c].at \in PlacesOf(call'[c].op) /\ call'[c].then = ThenOf(call'[c].op)
      /\ call'[c].at = "idle" => call'[c] = Idle
  <2>1. CASE to = "idle"
    BY <2>1, Places, Thens DEF Moves, Idle
  <2>2. CASE to # "idle"
    BY <2>2 DEF Moves, Routes, Op
  <2>3. QED
    BY <2>1, <2>2
<1>2. QED
  BY <1>1 DEF Routes, At, Moves

\* A caller that enters a route is on it.
LEMMA EntersRoutes ==
    ASSUME CallShape, Routes, NEW c \in Callers, NEW o, NEW label, NEW after, Enters(c, o, label, after),
           label \in PlacesOf(o), label # "idle", after = ThenOf(o)
    PROVE  Routes'
BY DEF Routes, At, Enters

\* Callers stay on their routes.
LEMMA RoutesStep ==
    ASSUME CaptureShape, Routes, CaptureNext
    PROVE  Routes'
<1>1. CaptureShape /\ CallShape /\ Routes
  BY DEF CaptureShape
<1>2. CASE UNCHANGED callVars
  BY <1>2, <1>1 DEF Routes, At, callVars
<1>3. ASSUME NEW c \in Callers, InterviewStart(c)
     PROVE  Routes'
  <2>1. Enters(c, "iStart", "signal", "open")
    BY <1>3, EnterMoves DEF InterviewStart, Entered
  <2>2. QED
    BY <1>1, <2>1, EntersRoutes, Places, Thens
<1>4. ASSUME NEW c \in Callers, InterviewStop(c)
     PROVE  Routes'
  <2>1. Enters(c, "iStop", "signal", "idle")
    BY <1>4, EnterMoves DEF InterviewStop, Entered
  <2>2. QED
    BY <1>1, <2>1, EntersRoutes, Places, Thens
<1>5. ASSUME NEW c \in Callers, InterviewPause(c)
     PROVE  Routes'
  <2>1. Enters(c, "iPause", "hush", "idle")
    BY <1>5, EnterMoves DEF InterviewPause, Entered
  <2>2. QED
    BY <1>1, <2>1, EntersRoutes, Places, Thens
<1>6. ASSUME NEW c \in Callers, InterviewResume(c)
     PROVE  Routes'
  <2>1. Enters(c, "iResume", "rearm", "idle")
    BY <1>6, EnterMoves DEF InterviewResume, Entered
  <2>2. QED
    BY <1>1, <2>1, EntersRoutes, Places, Thens
<1>7. ASSUME NEW c \in Callers, ConversationStart(c)
     PROVE  Routes'
  <2>1. Enters(c, "cStart", "borrow", "open")
    BY <1>7, EnterMoves DEF ConversationStart, Entered
  <2>2. QED
    BY <1>1, <2>1, EntersRoutes, Places, Thens
<1>8. ASSUME NEW c \in Callers, ConversationPause(c)
     PROVE  Routes'
  <2>1. Enters(c, "cPause", "hush", "idle") \/ Enters(c, "cResume", "rearm", "idle")
    BY <1>8, EnterMoves DEF ConversationPause, Entered
  <2>2. QED
    BY <1>1, <2>1, EntersRoutes, Places, Thens
<1>9. ASSUME NEW c \in Callers, ConversationStop(c)
     PROVE  Routes'
  BY <1>1, <1>9, StopMoves, EntersRoutes, Places, Thens
<1>10. ASSUME NEW c \in Callers, Borrow(c)
     PROVE  Routes'
  BY <1>1, <1>10, Continued, WhoIsThere, MovesRoutes, Places DEF Stopping, Op
<1>11. ASSUME NEW c \in Callers, Signal(c)
     PROVE  Routes'
  <2>1. Op(c) \in {"iStart", "cStart", "iStop", "cStop"}
    BY <1>1, <1>11, WhoIsThere DEF Signal, Stopping
  <2>2. "join" \in PlacesOf(Op(c))
    BY <2>1, Places
  <2>3. QED
    BY <1>1, <1>11, <2>2, SignalMoves DEF Routes, At, Op
<1>12. ASSUME NEW c \in Callers, JoinWorker(c)
     PROVE  Routes'
  BY <1>1, <1>12, Continued, WhoIsThere, MovesRoutes, Places DEF Stopping, Op
<1>13. ASSUME NEW c \in Callers, AwaitDrain(c)
     PROVE  Routes'
  BY <1>1, <1>13, Continued, WhoIsThere, MovesRoutes, Places DEF Stopping, Op
<1>14. ASSUME NEW c \in Callers, FinalFlush(c)
     PROVE  Routes'
  BY <1>1, <1>14, Continued, WhoIsThere, MovesRoutes, Places DEF Stopping, Op
<1>15. ASSUME NEW c \in Callers, Settle(c)
     PROVE  Routes'
  <2>1. Op(c) \in {"iStart", "cStart", "iStop", "cStop"} /\ call[c].then = ThenOf(Op(c))
    BY <1>1, <1>15, WhoIsThere, Continued DEF Stopping, Routes, Op
  <2>2. call[c].then = "idle" \/ call[c].then \in PlacesOf(Op(c))
    BY <2>1, Places, Thens
  <2>3. QED
    BY <1>1, <1>15, <2>2, MovesRoutes, Continued
<1>16. ASSUME NEW c \in Callers, Open(c)
     PROVE  Routes'
  BY <1>1, <1>16, Continued, WhoIsThere, MovesRoutes, Places DEF Stopping, Op
<1>17. ASSUME NEW c \in Callers, OpenFails(c)
     PROVE  Routes'
  BY <1>1, <1>17, Continued, WhoIsThere, MovesRoutes, Places DEF Stopping, Op
<1>18. ASSUME NEW c \in Callers, Flag(c)
     PROVE  Routes'
  BY <1>1, <1>18, Continued, WhoIsThere, MovesRoutes, Places DEF Stopping, Op
<1>19. ASSUME NEW c \in Callers, Spawn(c)
     PROVE  Routes'
  BY <1>1, <1>19, Continued, WhoIsThere, MovesRoutes, Places DEF Stopping, Op
<1>20. ASSUME NEW c \in Callers, Commit(c)
     PROVE  Routes'
  BY <1>1, <1>20, Continued, WhoIsThere, MovesRoutes, Places DEF Stopping, Op
<1>21. ASSUME NEW c \in Callers, Restore(c)
     PROVE  Routes'
  BY <1>1, <1>21, Continued, WhoIsThere, MovesRoutes, Places DEF Stopping, Op
<1>22. ASSUME NEW c \in Callers, Release(c)
     PROVE  Routes'
  BY <1>1, <1>22, Continued, WhoIsThere, MovesRoutes, Places DEF Stopping, Op
<1>23. ASSUME NEW c \in Callers, Hush(c)
     PROVE  Routes'
  BY <1>1, <1>23, Continued, WhoIsThere, MovesRoutes, Places DEF Stopping, Op
<1>24. ASSUME NEW c \in Callers, Hushed(c)
     PROVE  Routes'
  BY <1>1, <1>24, Continued, WhoIsThere, MovesRoutes, Places DEF Stopping, Op
<1>25. ASSUME NEW c \in Callers, Rearm(c)
     PROVE  Routes'
  BY <1>1, <1>25, Continued, WhoIsThere, MovesRoutes, Places DEF Stopping, Op
<1>26. ASSUME NEW c \in Callers, Respawn(c)
     PROVE  Routes'
  BY <1>1, <1>26, Continued, WhoIsThere, MovesRoutes, Places DEF Stopping, Op
<1>27. ASSUME NEW c \in Callers, Unhush(c)
     PROVE  Routes'
  BY <1>1, <1>27, Continued, WhoIsThere, MovesRoutes, Places DEF Stopping, Op
<1>28. QED
  BY <1>2, <1>3, <1>4, <1>5, <1>6, <1>7, <1>8, <1>9, <1>10, <1>11, <1>12, <1>13, <1>14,
     <1>15, <1>16, <1>17, <1>18, <1>19, <1>20, <1>21, <1>22, <1>23, <1>24, <1>25, <1>26,
     <1>27, CallFrame

\* No two threads are the same publisher.
LEMMA Distinct ==
    /\ Nobody \notin Publishers
    /\ \A c \in Callers, w \in Workers : c # AsrOf(w) /\ c # FlushOf(w)
    /\ \A v, w \in Workers : AsrOf(v) # FlushOf(w)
    /\ \A v, w \in Workers : (AsrOf(v) = AsrOf(w) => v = w) /\ (FlushOf(v) = FlushOf(w) => v = w)
<1>1. \A c \in Callers, w \in Workers : c # AsrOf(w) /\ c # FlushOf(w)
  BY CaptureBounds
<1>2. \A v, w \in Workers : AsrOf(v) # FlushOf(w)
  BY DEF AsrOf, FlushOf
<1>3. \A v, w \in Workers : (AsrOf(v) = AsrOf(w) => v = w) /\ (FlushOf(v) = FlushOf(w) => v = w)
  BY DEF AsrOf, FlushOf
<1>4. \A w \in Workers : Nobody # AsrOf(w) /\ Nobody # FlushOf(w)
  BY DEF AsrOf, FlushOf, Nobody
<1>5. \A c \in Callers : c # Nobody
  <2>1. SUFFICES ASSUME NEW c \in Callers, c = Nobody
                 PROVE  FALSE
    OBVIOUS
  <2>2. 1 \in Workers
    BY CaptureBounds DEF Workers
  <2>3. QED
    BY <2>1, <2>2, CaptureBounds
<1>6. QED
  BY <1>1, <1>2, <1>3, <1>4, <1>5 DEF Publishers

\* Who holds the lock publishes.
Holding ==
    \A t \in Publishers :
        /\ pub[t].step # "none" <=> asrLock = t
        /\ pub[t].step # "decided" => pub[t].text = {}

\* The publisher at work is the holder of the ASR lock.
LEMMA HoldingStep ==
    ASSUME CaptureShape, Loaded, Holding, CaptureNext
    PROVE  Holding'
<1>1. MergeShape /\ ThreadShape /\ Holding
  BY DEF CaptureShape
<1>2. CASE UNCHANGED mergeVars
  BY <1>2, <1>1 DEF Holding, MergeShape, mergeVars
<1>3. ASSUME NEW c \in Callers, FinalFlush(c)
     PROVE  Holding'
  <2>1. c \in Publishers /\ (overlay = "base") \in BOOLEAN
    BY <1>1, WhoPublishes DEF ThreadShape
  <2>2. CASE Hold(c, overlay = "base")
    <3>1. /\ asrLock = Nobody /\ asrLock' = c
          /\ pub'[c] = [text |-> {}, auto |-> overlay = "base", step |-> "locked"]
          /\ \A u \in Publishers \ {c} : pub'[u] = pub[u]
      BY <1>1, <2>1, <2>2, HoldTyped
    <3>2. pub'[c].text = {} /\ pub'[c].step = "locked"
      BY <3>1
    <3>3. QED
      BY <1>1, <2>1, <3>1, <3>2, Distinct DEF Holding
  <2>3. CASE UNCHANGED <<asrLock, pub>>
    BY <1>1, <2>3 DEF Holding
  <2>4. QED
    BY <1>3, <2>2, <2>3 DEF FinalFlush
<1>4. ASSUME NEW w \in Workers, Load(w)
     PROVE  Holding'
  BY <1>4, <1>1 DEF Holding, MergeShape, Load
<1>5. ASSUME NEW w \in Workers, AsrMerge(w)
     PROVE  Holding'
  <2>1. AsrOf(w) \in Publishers /\ (auto[w]) \in BOOLEAN
    BY <1>1, WhoPublishes DEF ThreadShape
  <2>2. CASE Hold(AsrOf(w), auto[w])
    <3>1. /\ asrLock = Nobody /\ asrLock' = AsrOf(w)
          /\ pub'[AsrOf(w)] = [text |-> {}, auto |-> auto[w], step |-> "locked"]
          /\ \A u \in Publishers \ {AsrOf(w)} : pub'[u] = pub[u]
      BY <1>1, <2>1, <2>2, HoldTyped
    <3>2. pub'[AsrOf(w)].text = {} /\ pub'[AsrOf(w)].step = "locked"
      BY <3>1
    <3>3. QED
      BY <1>1, <2>1, <3>1, <3>2, Distinct DEF Holding
  <2>3. CASE UNCHANGED <<asrLock, pub>>
    BY <1>1, <2>3 DEF Holding
  <2>4. QED
    BY <1>5, <2>2, <2>3 DEF AsrMerge
<1>6. ASSUME NEW w \in Workers, FlushTick(w)
     PROVE  Holding'
  <2>1. FlushOf(w) \in Publishers /\ (overlay = "base") \in BOOLEAN
    BY <1>1, WhoPublishes DEF ThreadShape
  <2>2. CASE Hold(FlushOf(w), overlay = "base")
    <3>1. /\ asrLock = Nobody /\ asrLock' = FlushOf(w)
          /\ pub'[FlushOf(w)] = [text |-> {}, auto |-> overlay = "base", step |-> "locked"]
          /\ \A u \in Publishers \ {FlushOf(w)} : pub'[u] = pub[u]
      BY <1>1, <2>1, <2>2, HoldTyped
    <3>2. pub'[FlushOf(w)].text = {} /\ pub'[FlushOf(w)].step = "locked"
      BY <3>1
    <3>3. QED
      BY <1>1, <2>1, <3>1, <3>2, Distinct DEF Holding
  <2>4. QED
    BY <1>6, <2>2 DEF FlushTick
<1>7. ASSUME NEW t \in Publishers, Decide(t)
     PROVE  Holding'
  BY <1>7, <1>1, Distinct DEF Holding, MergeShape, Decide, Texts
<1>8. ASSUME NEW t \in Publishers, Record(t)
     PROVE  Holding'
  BY <1>8, <1>1, Distinct DEF Holding, MergeShape, Record, Texts, Silent
<1>9. QED
  BY <1>2, <1>3, <1>4, <1>5, <1>6, <1>7, <1>8, MergeFrame

CallersPublish == \A c \in Callers : pub[c].step # "none" => At(c) = "flushing"

\* A request that moves from elsewhere than its last flush publishes nothing.
LEMMA PublishersMove ==
    ASSUME CallersPublish, NEW c \in Callers, At(c) # "flushing", NEW to, Moves(c, to), UNCHANGED pub
    PROVE  CallersPublish'
<1>1. \A d \in Callers \ {c} : call'[d] = call[d]
  BY DEF Moves
<1>2. QED
  BY <1>1 DEF CallersPublish, At

\* A request publishes at its last flush.
LEMMA CallersPublishStep ==
    ASSUME CaptureShape, Loaded, Holding, CallersPublish, CaptureNext
    PROVE  CallersPublish'
<1>1. CaptureShape /\ MergeShape /\ ThreadShape /\ CallShape /\ Holding /\ CallersPublish /\ Callers \subseteq Publishers
  BY WhoPublishes DEF CaptureShape
<1>2. CASE UNCHANGED callVars /\ UNCHANGED mergeVars
  BY <1>2, <1>1 DEF CallersPublish, At, MergeShape, callVars, mergeVars
<1>3. ASSUME NEW c \in Callers, InterviewStart(c)
     PROVE  CallersPublish'
  <2>1. At(c) = "idle" /\ \A d \in Callers \ {c} : call'[d] = call[d]
    BY <1>3, EnterMoves DEF InterviewStart, Entered, Enters
  <2>2. UNCHANGED pub
    BY <1>3 DEF InterviewStart, textVars, mergeVars
  <2>3. QED
    BY <1>1, <2>1, <2>2 DEF CallersPublish, At
<1>4. ASSUME NEW c \in Callers, InterviewStop(c)
     PROVE  CallersPublish'
  <2>1. At(c) = "idle" /\ \A d \in Callers \ {c} : call'[d] = call[d]
    BY <1>4, EnterMoves DEF InterviewStop, Entered, Enters
  <2>2. UNCHANGED pub
    BY <1>4 DEF InterviewStop, textVars, mergeVars
  <2>3. QED
    BY <1>1, <2>1, <2>2 DEF CallersPublish, At
<1>5. ASSUME NEW c \in Callers, InterviewPause(c)
     PROVE  CallersPublish'
  <2>1. At(c) = "idle" /\ \A d \in Callers \ {c} : call'[d] = call[d]
    BY <1>5, EnterMoves DEF InterviewPause, Entered, Enters
  <2>2. UNCHANGED pub
    BY <1>5 DEF InterviewPause, textVars, mergeVars
  <2>3. QED
    BY <1>1, <2>1, <2>2 DEF CallersPublish, At
<1>6. ASSUME NEW c \in Callers, InterviewResume(c)
     PROVE  CallersPublish'
  <2>1. At(c) = "idle" /\ \A d \in Callers \ {c} : call'[d] = call[d]
    BY <1>6, EnterMoves DEF InterviewResume, Entered, Enters
  <2>2. UNCHANGED pub
    BY <1>6 DEF InterviewResume, textVars, mergeVars
  <2>3. QED
    BY <1>1, <2>1, <2>2 DEF CallersPublish, At
<1>7. ASSUME NEW c \in Callers, ConversationStart(c)
     PROVE  CallersPublish'
  <2>1. At(c) = "idle" /\ \A d \in Callers \ {c} : call'[d] = call[d]
    BY <1>7, EnterMoves DEF ConversationStart, Entered, Enters
  <2>2. UNCHANGED pub
    BY <1>7 DEF ConversationStart, textVars, mergeVars
  <2>3. QED
    BY <1>1, <2>1, <2>2 DEF CallersPublish, At
<1>8. ASSUME NEW c \in Callers, ConversationPause(c)
     PROVE  CallersPublish'
  <2>1. At(c) = "idle" /\ \A d \in Callers \ {c} : call'[d] = call[d]
    BY <1>8, EnterMoves DEF ConversationPause, Entered, Enters
  <2>2. UNCHANGED pub
    BY <1>8 DEF ConversationPause, textVars, mergeVars
  <2>3. QED
    BY <1>1, <2>1, <2>2 DEF CallersPublish, At
<1>9. ASSUME NEW c \in Callers, ConversationStop(c)
     PROVE  CallersPublish'
  BY <1>9, <1>1, StopMoves DEF CallersPublish, At, MergeShape, ConversationStop, Enters,
     textVars, mergeVars
<1>10. ASSUME NEW c \in Callers, Borrow(c)
     PROVE  CallersPublish'
  <2>1. At(c) = "borrow" /\ Moves(c, "signal")
    BY <1>1, <1>10, Continued
  <2>2. UNCHANGED pub
    BY <1>10 DEF Borrow, textVars, mergeVars
  <2>3. QED
    BY <1>1, <2>1, <2>2, PublishersMove
<1>11. ASSUME NEW c \in Callers, Signal(c)
     PROVE  CallersPublish'
  BY <1>11, <1>1, SignalMoves DEF CallersPublish, At, MergeShape, Signal, textVars,
     mergeVars
<1>12. ASSUME NEW c \in Callers, JoinWorker(c)
     PROVE  CallersPublish'
  <2>1. At(c) = "join" /\ Moves(c, "drain")
    BY <1>1, <1>12, Continued
  <2>2. UNCHANGED pub
    BY <1>12 DEF JoinWorker, textVars, mergeVars
  <2>3. QED
    BY <1>1, <2>1, <2>2, PublishersMove
<1>13. ASSUME NEW c \in Callers, AwaitDrain(c)
     PROVE  CallersPublish'
  <2>1. At(c) = "drain" /\ Moves(c, "flush")
    BY <1>1, <1>13, Continued
  <2>2. UNCHANGED pub
    BY <1>13 DEF AwaitDrain, textVars, mergeVars
  <2>3. QED
    BY <1>1, <2>1, <2>2, PublishersMove
<1>14. ASSUME NEW c \in Callers, FinalFlush(c)
     PROVE  CallersPublish'
  <2>1. c \in Publishers /\ (overlay = "base") \in BOOLEAN
    BY <1>1
  <2>2. At(c) = "flush" /\ Moves(c, "flushing")
    BY <1>14, Continued
  <2>3. CASE Hold(c, overlay = "base")
    BY <1>1, <2>1, <2>2, <2>3, HoldTyped DEF CallersPublish, Moves, At
  <2>4. CASE UNCHANGED pub
    BY <1>1, <2>2, <2>4 DEF CallersPublish, Moves, At
  <2>5. QED
    BY <1>14, <2>3, <2>4 DEF FinalFlush
<1>15. ASSUME NEW c \in Callers, Settle(c)
     PROVE  CallersPublish'
  <2>1. pub[c].step = "none" /\ (Moves(c, call[c].then))
    BY <1>15, Continued DEF Settle
  <2>2. \A d \in Callers \ {c} : call'[d] = call[d]
    BY <2>1 DEF Moves
  <2>3. UNCHANGED pub
    BY <1>15 DEF Settle, textVars, mergeVars
  <2>4. QED
    BY <1>1, <2>1, <2>2, <2>3 DEF CallersPublish, At
<1>16. ASSUME NEW c \in Callers, Open(c)
     PROVE  CallersPublish'
  <2>1. At(c) = "open" /\ Moves(c, "flag")
    BY <1>1, <1>16, Continued
  <2>2. UNCHANGED pub
    BY <1>16 DEF Open, textVars, mergeVars
  <2>3. QED
    BY <1>1, <2>1, <2>2, PublishersMove
<1>17. ASSUME NEW c \in Callers, OpenFails(c)
     PROVE  CallersPublish'
  <2>1. At(c) = "open" /\ (Moves(c, "idle"))
    BY <1>17, Continued DEF OpenFails
  <2>2. \A d \in Callers \ {c} : call'[d] = call[d]
    BY <2>1 DEF Moves
  <2>3. UNCHANGED pub
    BY <1>17 DEF OpenFails, textVars, mergeVars
  <2>4. QED
    BY <1>1, <2>1, <2>2, <2>3 DEF CallersPublish, At
<1>18. ASSUME NEW c \in Callers, Flag(c)
     PROVE  CallersPublish'
  <2>1. At(c) = "flag" /\ Moves(c, "spawn")
    BY <1>1, <1>18, Continued
  <2>2. UNCHANGED pub
    BY <1>18 DEF Flag, textVars, mergeVars
  <2>3. QED
    BY <1>1, <2>1, <2>2, PublishersMove
<1>19. ASSUME NEW c \in Callers, Spawn(c)
     PROVE  CallersPublish'
  <2>1. At(c) = "spawn" /\ Moves(c, IF call[c].op = "cStart" THEN "commit" ELSE "idle")
    BY <1>1, <1>19, Continued
  <2>2. UNCHANGED pub
    BY <1>19 DEF Spawn, textVars, mergeVars
  <2>3. QED
    BY <1>1, <2>1, <2>2, PublishersMove
<1>20. ASSUME NEW c \in Callers, Commit(c)
     PROVE  CallersPublish'
  <2>1. At(c) = "commit" /\ Moves(c, "idle")
    BY <1>1, <1>20, Continued
  <2>2. UNCHANGED pub
    BY <1>20 DEF Commit, textVars, mergeVars
  <2>3. QED
    BY <1>1, <2>1, <2>2, PublishersMove
<1>21. ASSUME NEW c \in Callers, Restore(c)
     PROVE  CallersPublish'
  <2>1. At(c) = "restore" /\ Moves(c, "release")
    BY <1>1, <1>21, Continued
  <2>2. UNCHANGED pub
    BY <1>21 DEF Restore, textVars, mergeVars
  <2>3. QED
    BY <1>1, <2>1, <2>2, PublishersMove
<1>22. ASSUME NEW c \in Callers, Release(c)
     PROVE  CallersPublish'
  <2>1. At(c) = "release" /\ (Moves(c, "idle"))
    BY <1>22, Continued DEF Release
  <2>2. \A d \in Callers \ {c} : call'[d] = call[d]
    BY <2>1 DEF Moves
  <2>3. UNCHANGED pub
    BY <1>22 DEF Release, textVars, mergeVars
  <2>4. QED
    BY <1>1, <2>1, <2>2, <2>3 DEF CallersPublish, At
<1>23. ASSUME NEW c \in Callers, Hush(c)
     PROVE  CallersPublish'
  <2>1. At(c) = "hush" /\ Moves(c, "hushed")
    BY <1>1, <1>23, Continued
  <2>2. UNCHANGED pub
    BY <1>23 DEF Hush, textVars, mergeVars
  <2>3. QED
    BY <1>1, <2>1, <2>2, PublishersMove
<1>24. ASSUME NEW c \in Callers, Hushed(c)
     PROVE  CallersPublish'
  <2>1. At(c) = "hushed" /\ Moves(c, "idle")
    BY <1>1, <1>24, Continued
  <2>2. UNCHANGED pub
    BY <1>24 DEF Hushed, textVars, mergeVars
  <2>3. QED
    BY <1>1, <2>1, <2>2, PublishersMove
<1>25. ASSUME NEW c \in Callers, Rearm(c)
     PROVE  CallersPublish'
  <2>1. At(c) = "rearm" /\ (Moves(c, "respawn") \/ Moves(c, "unhush") \/ Moves(c, "idle"))
    BY <1>25, Continued DEF Rearm
  <2>2. \A d \in Callers \ {c} : call'[d] = call[d]
    BY <2>1 DEF Moves
  <2>3. UNCHANGED pub
    BY <1>25 DEF Rearm, textVars, mergeVars
  <2>4. QED
    BY <1>1, <2>1, <2>2, <2>3 DEF CallersPublish, At
<1>26. ASSUME NEW c \in Callers, Respawn(c)
     PROVE  CallersPublish'
  <2>1. At(c) = "respawn" /\ Moves(c, "unhush")
    BY <1>1, <1>26, Continued
  <2>2. UNCHANGED pub
    BY <1>26 DEF Respawn, textVars, mergeVars
  <2>3. QED
    BY <1>1, <2>1, <2>2, PublishersMove
<1>27. ASSUME NEW c \in Callers, Unhush(c)
     PROVE  CallersPublish'
  <2>1. At(c) = "unhush" /\ (Moves(c, "idle"))
    BY <1>27, Continued DEF Unhush
  <2>2. \A d \in Callers \ {c} : call'[d] = call[d]
    BY <2>1 DEF Moves
  <2>3. UNCHANGED pub
    BY <1>27 DEF Unhush, textVars, mergeVars
  <2>4. QED
    BY <1>1, <2>1, <2>2, <2>3 DEF CallersPublish, At
<1>28. ASSUME NEW w \in Workers, Load(w)
     PROVE  CallersPublish'
  BY <1>28, <1>1 DEF CallersPublish, At, MergeShape, Load, callVars
<1>29. ASSUME NEW w \in Workers, AsrMerge(w)
     PROVE  CallersPublish'
  <2>1. AsrOf(w) \in Publishers /\ (auto[w]) \in BOOLEAN
    BY <1>1, WhoPublishes DEF ThreadShape
  <2>2. CASE Hold(AsrOf(w), auto[w])
    BY <1>1, <1>29, <2>1, <2>2, HoldTyped, Distinct DEF CallersPublish, At, AsrMerge, callVars
  <2>3. CASE UNCHANGED pub
    BY <1>1, <1>29, <2>3 DEF CallersPublish, At, AsrMerge, callVars
  <2>4. QED
    BY <1>29, <2>2, <2>3 DEF AsrMerge
<1>30. ASSUME NEW w \in Workers, FlushTick(w)
     PROVE  CallersPublish'
  <2>1. FlushOf(w) \in Publishers /\ (overlay = "base") \in BOOLEAN
    BY <1>1, WhoPublishes DEF ThreadShape
  <2>2. CASE Hold(FlushOf(w), overlay = "base")
    BY <1>1, <1>30, <2>1, <2>2, HoldTyped, Distinct DEF CallersPublish, At, FlushTick, callVars
  <2>4. QED
    BY <1>30, <2>2 DEF FlushTick
<1>31. ASSUME NEW t \in Publishers, Decide(t)
     PROVE  CallersPublish'
  BY <1>31, <1>1 DEF CallersPublish, At, MergeShape, Decide, callVars, Texts
<1>32. ASSUME NEW t \in Publishers, Record(t)
     PROVE  CallersPublish'
  BY <1>32, <1>1 DEF CallersPublish, At, MergeShape, Record, callVars, Texts, Silent
<1>33. QED
  BY <1>2, <1>3, <1>4, <1>5, <1>6, <1>7, <1>8, <1>9, <1>10, <1>11, <1>12, <1>13, <1>14,
     <1>15, <1>16, <1>17, <1>18, <1>19, <1>20, <1>21, <1>22, <1>23, <1>24, <1>25, <1>26,
     <1>27, <1>28, <1>29, <1>30, <1>31, <1>32, CallFrame, MergeFrame

AsrPublishes == \A w \in Workers : pub[AsrOf(w)].step # "none" => ast[w] = "publish"

\* A recogniser publishes the segment in its hand.
LEMMA AsrPublishesStep ==
    ASSUME CaptureShape, Loaded, Holding, AsrPublishes, CaptureNext
    PROVE  AsrPublishes'
<1>1. CaptureShape /\ MergeShape /\ ThreadShape /\ Loaded /\ Holding /\ AsrPublishes /\ \A w \in Workers : AsrOf(w) \in Publishers
  BY WhoPublishes DEF CaptureShape
<1>2. CASE UNCHANGED threadVars /\ UNCHANGED mergeVars
  BY <1>2, <1>1 DEF AsrPublishes, ThreadShape, MergeShape, threadVars, mergeVars
<1>3. ASSUME NEW c \in Callers, JoinWorker(c)
     PROVE  AsrPublishes'
  BY <1>3, <1>1 DEF AsrPublishes, ThreadShape, MergeShape, JoinWorker, textVars, mergeVars
<1>4. ASSUME NEW c \in Callers, AwaitDrain(c)
     PROVE  AsrPublishes'
  BY <1>4, <1>1 DEF AsrPublishes, ThreadShape, MergeShape, AwaitDrain, textVars, mergeVars
<1>5. ASSUME NEW c \in Callers, Settle(c)
     PROVE  AsrPublishes'
  BY <1>5, <1>1 DEF AsrPublishes, ThreadShape, MergeShape, Settle, textVars, mergeVars
<1>6. ASSUME NEW c \in Callers, Spawn(c)
     PROVE  AsrPublishes'
  BY <1>6, <1>1 DEF AsrPublishes, ThreadShape, MergeShape, Spawn, textVars, mergeVars
<1>7. ASSUME NEW c \in Callers, Respawn(c)
     PROVE  AsrPublishes'
  BY <1>7, <1>1 DEF AsrPublishes, ThreadShape, MergeShape, Respawn, textVars, mergeVars
<1>8. ASSUME NEW w \in Workers, Load(w)
     PROVE  AsrPublishes'
  BY <1>8, <1>1 DEF AsrPublishes, ThreadShape, MergeShape, Load, textVars, mergeVars,
     Loaded, Fresh, Move
<1>9. ASSUME NEW w \in Workers, LoadFails(w)
     PROVE  AsrPublishes'
  BY <1>9, <1>1 DEF AsrPublishes, ThreadShape, MergeShape, LoadFails, textVars, mergeVars
<1>10. ASSUME NEW w \in Workers, Check(w)
     PROVE  AsrPublishes'
  BY <1>10, <1>1 DEF AsrPublishes, ThreadShape, MergeShape, Check, textVars, mergeVars
<1>11. ASSUME NEW w \in Workers, Look(w)
     PROVE  AsrPublishes'
  BY <1>11, <1>1 DEF AsrPublishes, ThreadShape, MergeShape, Look, textVars, mergeVars
<1>12. ASSUME NEW w \in Workers, WorkerCrashes(w)
     PROVE  AsrPublishes'
  BY <1>12, <1>1 DEF AsrPublishes, ThreadShape, MergeShape, WorkerCrashes, textVars,
     mergeVars
<1>13. ASSUME NEW w \in Workers, Finish(w)
     PROVE  AsrPublishes'
  BY <1>13, <1>1 DEF AsrPublishes, ThreadShape, MergeShape, Finish, textVars, mergeVars
<1>14. ASSUME NEW w \in Workers, WorkerEnds(w)
     PROVE  AsrPublishes'
  BY <1>14, <1>1 DEF AsrPublishes, ThreadShape, MergeShape, WorkerEnds, textVars, mergeVars
<1>15. ASSUME NEW w \in Workers, AsrTake(w)
     PROVE  AsrPublishes'
  BY <1>15, <1>1 DEF AsrPublishes, ThreadShape, MergeShape, AsrTake, textVars, mergeVars
<1>16. ASSUME NEW w \in Workers, AsrMerge(w)
     PROVE  AsrPublishes'
  <2>1. AsrOf(w) \in Publishers /\ auto[w] \in BOOLEAN
    BY <1>1 DEF ThreadShape
  <2>2. CASE Hold(AsrOf(w), auto[w]) /\ ast' = [ast EXCEPT ![w] = "publish"]
    BY <1>1, <2>1, <2>2, HoldTyped, Distinct DEF AsrPublishes, ThreadShape
  <2>3. CASE UNCHANGED <<asrLock, pub>> /\ ast' = [ast EXCEPT ![w] = "wait"]
    BY <1>1, <1>16, <2>1, <2>3 DEF AsrPublishes, ThreadShape, AsrMerge
  <2>4. QED
    BY <1>16, <2>2, <2>3 DEF AsrMerge
<1>17. ASSUME NEW w \in Workers, AsrDone(w)
     PROVE  AsrPublishes'
  BY <1>17, <1>1 DEF AsrPublishes, ThreadShape, MergeShape, AsrDone, textVars, mergeVars
<1>18. ASSUME NEW w \in Workers, AsrEnds(w)
     PROVE  AsrPublishes'
  BY <1>18, <1>1 DEF AsrPublishes, ThreadShape, MergeShape, AsrEnds, textVars, mergeVars
<1>19. ASSUME NEW c \in Callers, FinalFlush(c)
     PROVE  AsrPublishes'
  <2>1. c \in Publishers /\ (overlay = "base") \in BOOLEAN /\ UNCHANGED ast
    BY <1>19, WhoPublishes DEF FinalFlush, threadVars
  <2>3. CASE Hold(c, overlay = "base")
    BY <1>1, <2>1, <2>3, HoldTyped, Distinct DEF AsrPublishes
  <2>4. CASE UNCHANGED pub
    BY <1>1, <2>1, <2>4 DEF AsrPublishes
  <2>5. QED
    BY <1>19, <2>3, <2>4 DEF FinalFlush
<1>20. ASSUME NEW w \in Workers, FlushTick(w)
     PROVE  AsrPublishes'
  <2>1. FlushOf(w) \in Publishers /\ (overlay = "base") \in BOOLEAN /\ UNCHANGED ast
    BY <1>20, WhoPublishes DEF FlushTick, threadVars
  <2>2. QED
    BY <1>1, <1>20, <2>1, HoldTyped, Distinct DEF AsrPublishes, FlushTick
<1>21. ASSUME NEW t \in Publishers, Decide(t)
     PROVE  AsrPublishes'
  BY <1>21, <1>1 DEF AsrPublishes, ThreadShape, MergeShape, Decide, threadVars, Texts
<1>22. ASSUME NEW t \in Publishers, Record(t)
     PROVE  AsrPublishes'
  BY <1>22, <1>1 DEF AsrPublishes, ThreadShape, MergeShape, Record, threadVars, Texts,
     Silent
<1>23. QED
  BY <1>2, <1>3, <1>4, <1>5, <1>6, <1>7, <1>8, <1>9, <1>10, <1>11, <1>12, <1>13, <1>14,
     <1>15, <1>16, <1>17, <1>18, <1>19, <1>20, <1>21, <1>22, ThreadFrame, MergeFrame

\* Who publishes holds the lock.
LEMMA PublishingStep ==
    ASSUME CaptureShape, Loaded, Publishing, CaptureNext
    PROVE  Publishing'
<1>1. Holding /\ CallersPublish /\ AsrPublishes
  BY DEF Publishing, Holding, CallersPublish, AsrPublishes
<1>2. Holding' /\ CallersPublish' /\ AsrPublishes'
  BY <1>1, HoldingStep, CallersPublishStep, AsrPublishesStep
<1>3. QED
  BY <1>2 DEF Publishing, Holding, CallersPublish, AsrPublishes

-----------------------------------------------------------------------------
(* The bridge.                                                             *)

\* The bridge changes hands under its lock.
LEMMA BridgeStep ==
    ASSUME CaptureShape, Routes, Bridge, CaptureNext
    PROVE  Bridge'
<1>1. CallShape /\ Routes /\ Bridge
  BY DEF CaptureShape
<1>2. \A c \in Callers : c # Nobody
  BY WhoPublishes, Distinct
<1>3. CASE UNCHANGED callVars /\ UNCHANGED bridgeVars
  BY <1>3, <1>1, <1>2 DEF Bridge, OverlayFollowsOwner, At, Op, callVars, bridgeVars
<1>4. ASSUME NEW c \in Callers, InterviewStart(c)
     PROVE  Bridge'
  <2>1. At(c) = "idle" /\ Enters(c, "iStart", "signal", "open") /\ call'[c].kept = Idle.kept
    BY <1>4, EnterMoves DEF InterviewStart, Entered
  <2>2. Op(c) = "none"
    BY <1>1, <2>1, WhoIsThere
  <2>3. UNCHANGED bridgeVars
    BY <1>4 DEF InterviewStart, bridgeVars
  <2>4. QED
    BY <1>1, <2>1, <2>3, <2>2 DEF Bridge, OverlayFollowsOwner, At, Op, Enters, bridgeVars
<1>5. ASSUME NEW c \in Callers, InterviewStop(c)
     PROVE  Bridge'
  <2>1. At(c) = "idle" /\ Enters(c, "iStop", "signal", "idle") /\ call'[c].kept = Idle.kept
    BY <1>5, EnterMoves DEF InterviewStop, Entered
  <2>2. Op(c) = "none"
    BY <1>1, <2>1, WhoIsThere
  <2>3. UNCHANGED bridgeVars
    BY <1>5 DEF InterviewStop, bridgeVars
  <2>4. QED
    BY <1>1, <2>1, <2>3, <2>2 DEF Bridge, OverlayFollowsOwner, At, Op, Enters, bridgeVars
<1>6. ASSUME NEW c \in Callers, InterviewPause(c)
     PROVE  Bridge'
  <2>1. At(c) = "idle" /\ Enters(c, "iPause", "hush", "idle") /\ call'[c].kept = Idle.kept
    BY <1>6, EnterMoves DEF InterviewPause, Entered
  <2>2. Op(c) = "none"
    BY <1>1, <2>1, WhoIsThere
  <2>3. UNCHANGED bridgeVars
    BY <1>6 DEF InterviewPause, bridgeVars
  <2>4. QED
    BY <1>1, <2>1, <2>3, <2>2 DEF Bridge, OverlayFollowsOwner, At, Op, Enters, bridgeVars
<1>7. ASSUME NEW c \in Callers, InterviewResume(c)
     PROVE  Bridge'
  <2>1. At(c) = "idle" /\ Enters(c, "iResume", "rearm", "idle") /\ call'[c].kept = Idle.kept
    BY <1>7, EnterMoves DEF InterviewResume, Entered
  <2>2. Op(c) = "none"
    BY <1>1, <2>1, WhoIsThere
  <2>3. UNCHANGED bridgeVars
    BY <1>7 DEF InterviewResume, bridgeVars
  <2>4. QED
    BY <1>1, <2>1, <2>3, <2>2 DEF Bridge, OverlayFollowsOwner, At, Op, Enters, bridgeVars
<1>8. ASSUME NEW c \in Callers, ConversationStart(c)
     PROVE  Bridge'
  <2>1. At(c) = "idle" /\ Enters(c, "cStart", "borrow", "open") /\ call'[c].kept = Idle.kept
    BY <1>8, EnterMoves DEF ConversationStart, Entered
  <2>2. Op(c) = "none"
    BY <1>1, <2>1, WhoIsThere
  <2>3. QED
    BY <1>1, <1>2, <1>8, <2>1, <2>2 DEF Bridge, OverlayFollowsOwner, At, Op, Enters,
       ConversationStart, MayHold
<1>9. ASSUME NEW c \in Callers, ConversationPause(c)
     PROVE  Bridge'
  <2>1. /\ At(c) = "idle"
        /\ Enters(c, "cPause", "hush", "idle") \/ Enters(c, "cResume", "rearm", "idle")
        /\ call'[c].kept = Idle.kept
    BY <1>9, EnterMoves DEF ConversationPause, Entered
  <2>2. Op(c) = "none"
    BY <1>1, <2>1, WhoIsThere
  <2>3. UNCHANGED bridgeVars
    BY <1>9 DEF ConversationPause, bridgeVars
  <2>4. QED
    BY <1>1, <2>1, <2>3, <2>2 DEF Bridge, OverlayFollowsOwner, At, Op, Enters, bridgeVars
<1>10. ASSUME NEW c \in Callers, ConversationStop(c)
     PROVE  Bridge'
  <2>1. /\ At(c) = "idle" /\ Enters(c, "cStop", "signal", "restore")
        /\ call'[c].kept = [overlay |-> previous, flags |-> snapshot]
    BY <1>10, StopMoves
  <2>2. Op(c) = "none"
    BY <1>1, <2>1, WhoIsThere
  <2>3. QED
    BY <1>1, <1>2, <1>10, <2>1, <2>2 DEF Bridge, OverlayFollowsOwner, At, Op, Enters,
       ConversationStop, MayHold
<1>11. ASSUME NEW c \in Callers, Borrow(c)
     PROVE  Bridge'
  <2>1. At(c) = "borrow" /\ Moves(c, "signal")
    BY <1>11, Continued
  <2>2. Op(c) = "cStart"
    BY <1>1, <2>1, WhoIsThere, Thens DEF Stopping, Routes, Op
  <2>3. QED
    BY <1>1, <1>2, <1>11, <2>1, <2>2 DEF Bridge, OverlayFollowsOwner, At, Op, Moves, Idle,
       Borrow
<1>12. ASSUME NEW c \in Callers, Signal(c)
     PROVE  Bridge'
  <2>1. /\ At(c) = "signal" /\ call'[c].at = "join" /\ call'[c].joined = runtime
        /\ call'[c].op = call[c].op /\ call'[c].then = call[c].then /\ call'[c].kept = call[c].kept
        /\ \A d \in Callers \ {c} : call'[d] = call[d]
    BY <1>12, SignalMoves
  <2>2. Op(c) \in {"iStart", "cStart", "iStop", "cStop"}
    BY <1>1, <2>1, WhoIsThere, Thens DEF Stopping, Routes, Op
  <2>3. UNCHANGED bridgeVars
    BY <1>12 DEF Signal, bridgeVars
  <2>4. QED
    BY <1>1, <2>1, <2>3, <2>2 DEF Bridge, OverlayFollowsOwner, At, Op, Idle, bridgeVars
<1>13. ASSUME NEW c \in Callers, JoinWorker(c)
     PROVE  Bridge'
  <2>1. At(c) = "join" /\ Moves(c, "drain")
    BY <1>13, Continued
  <2>2. Op(c) \in {"iStart", "cStart", "iStop", "cStop"}
    BY <1>1, <2>1, WhoIsThere, Thens DEF Stopping, Routes, Op
  <2>3. UNCHANGED bridgeVars
    BY <1>13 DEF JoinWorker, bridgeVars
  <2>4. QED
    BY <1>1, <2>1, <2>3, <2>2 DEF Bridge, OverlayFollowsOwner, At, Op, Moves, Idle,
       bridgeVars
<1>14. ASSUME NEW c \in Callers, AwaitDrain(c)
     PROVE  Bridge'
  <2>1. At(c) = "drain" /\ Moves(c, "flush")
    BY <1>14, Continued
  <2>2. Op(c) \in {"iStart", "cStart", "iStop", "cStop"}
    BY <1>1, <2>1, WhoIsThere, Thens DEF Stopping, Routes, Op
  <2>3. UNCHANGED bridgeVars
    BY <1>14 DEF AwaitDrain, bridgeVars
  <2>4. QED
    BY <1>1, <2>1, <2>3, <2>2 DEF Bridge, OverlayFollowsOwner, At, Op, Moves, Idle,
       bridgeVars
<1>15. ASSUME NEW c \in Callers, FinalFlush(c)
     PROVE  Bridge'
  <2>1. At(c) = "flush" /\ Moves(c, "flushing")
    BY <1>15, Continued
  <2>2. Op(c) \in {"iStart", "cStart", "iStop", "cStop"}
    BY <1>1, <2>1, WhoIsThere, Thens DEF Stopping, Routes, Op
  <2>3. UNCHANGED bridgeVars
    BY <1>15 DEF FinalFlush, bridgeVars
  <2>4. QED
    BY <1>1, <2>1, <2>3, <2>2 DEF Bridge, OverlayFollowsOwner, At, Op, Moves, Idle,
       bridgeVars
<1>16. ASSUME NEW c \in Callers, Settle(c)
     PROVE  Bridge'
  <2>1. At(c) = "flushing" /\ Moves(c, call[c].then)
    BY <1>16, Continued
  <2>2. Op(c) \in {"iStart", "cStart", "iStop", "cStop"} /\ call[c].then = ThenOf(Op(c))
    BY <1>1, <2>1, WhoIsThere, Thens DEF Stopping, Routes, Op
  <2>3. UNCHANGED bridgeVars
    BY <1>16 DEF Settle, bridgeVars
  <2>4. QED
    BY <1>1, <2>1, <2>3, Thens, <2>2 DEF Bridge, OverlayFollowsOwner, At, Op, Moves, Idle,
       bridgeVars
<1>17. ASSUME NEW c \in Callers, Open(c)
     PROVE  Bridge'
  <2>1. At(c) = "open" /\ Moves(c, "flag")
    BY <1>17, Continued
  <2>2. Op(c) \in {"iStart", "cStart"}
    BY <1>1, <2>1, WhoIsThere, Thens DEF Stopping, Routes, Op
  <2>3. UNCHANGED bridgeVars
    BY <1>17 DEF Open, bridgeVars
  <2>4. QED
    BY <1>1, <2>1, <2>3, <2>2 DEF Bridge, OverlayFollowsOwner, At, Op, Moves, Idle,
       bridgeVars
<1>18. ASSUME NEW c \in Callers, OpenFails(c)
     PROVE  Bridge'
  <2>1. At(c) = "open" /\ Moves(c, "idle")
    BY <1>18, Continued
  <2>2. Op(c) \in {"iStart", "cStart"}
    BY <1>1, <2>1, WhoIsThere, Thens DEF Stopping, Routes, Op
  <2>3. QED
    BY <1>1, <1>2, <1>18, <2>1, <2>2 DEF Bridge, OverlayFollowsOwner, At, Op, Moves, Idle,
       OpenFails
<1>19. ASSUME NEW c \in Callers, Flag(c)
     PROVE  Bridge'
  <2>1. At(c) = "flag" /\ Moves(c, "spawn")
    BY <1>19, Continued
  <2>2. Op(c) \in {"iStart", "cStart"}
    BY <1>1, <2>1, WhoIsThere, Thens DEF Stopping, Routes, Op
  <2>3. UNCHANGED bridgeVars
    BY <1>19 DEF Flag, bridgeVars
  <2>4. QED
    BY <1>1, <2>1, <2>3, <2>2 DEF Bridge, OverlayFollowsOwner, At, Op, Moves, Idle,
       bridgeVars
<1>20. ASSUME NEW c \in Callers, Spawn(c)
     PROVE  Bridge'
  <2>1. At(c) = "spawn" /\ Moves(c, IF call[c].op = "cStart" THEN "commit" ELSE "idle")
    BY <1>20, Continued
  <2>2. Op(c) \in {"iStart", "cStart"}
    BY <1>1, <2>1, WhoIsThere, Thens DEF Stopping, Routes, Op
  <2>3. UNCHANGED bridgeVars
    BY <1>20 DEF Spawn, bridgeVars
  <2>4. QED
    BY <1>1, <2>1, <2>3, <2>2 DEF Bridge, OverlayFollowsOwner, At, Op, Moves, Idle,
       bridgeVars
<1>21. ASSUME NEW c \in Callers, Commit(c)
     PROVE  Bridge'
  <2>1. At(c) = "commit" /\ Moves(c, "idle")
    BY <1>21, Continued
  <2>2. Op(c) = "cStart"
    BY <1>1, <2>1, WhoIsThere, Thens DEF Stopping, Routes, Op
  <2>3. QED
    BY <1>1, <1>2, <1>21, <2>1, <2>2 DEF Bridge, OverlayFollowsOwner, At, Op, Moves, Idle,
       Commit
<1>22. ASSUME NEW c \in Callers, Restore(c)
     PROVE  Bridge'
  <2>1. At(c) = "restore" /\ Moves(c, "release")
    BY <1>22, Continued
  <2>2. Op(c) = "cStop"
    BY <1>1, <2>1, WhoIsThere, Thens DEF Stopping, Routes, Op
  <2>3. QED
    BY <1>1, <1>2, <1>22, <2>1, <2>2 DEF Bridge, OverlayFollowsOwner, At, Op, Moves, Idle,
       Restore
<1>23. ASSUME NEW c \in Callers, Release(c)
     PROVE  Bridge'
  <2>1. At(c) = "release" /\ Moves(c, "idle")
    BY <1>23, Continued
  <2>2. Op(c) = "cStop"
    BY <1>1, <2>1, WhoIsThere, Thens DEF Stopping, Routes, Op
  <2>3. QED
    BY <1>1, <1>2, <1>23, <2>1, <2>2 DEF Bridge, OverlayFollowsOwner, At, Op, Moves, Idle,
       Release, MayHold
<1>24. ASSUME NEW c \in Callers, Hush(c)
     PROVE  Bridge'
  <2>1. At(c) = "hush" /\ Moves(c, "hushed")
    BY <1>24, Continued
  <2>2. Op(c) \in {"iPause", "cPause"}
    BY <1>1, <2>1, WhoIsThere, Thens DEF Stopping, Routes, Op
  <2>3. UNCHANGED bridgeVars
    BY <1>24 DEF Hush, bridgeVars
  <2>4. QED
    BY <1>1, <2>1, <2>3, <2>2 DEF Bridge, OverlayFollowsOwner, At, Op, Moves, Idle,
       bridgeVars
<1>25. ASSUME NEW c \in Callers, Hushed(c)
     PROVE  Bridge'
  <2>1. At(c) = "hushed" /\ Moves(c, "idle")
    BY <1>25, Continued
  <2>2. Op(c) \in {"iPause", "cPause"}
    BY <1>1, <2>1, WhoIsThere, Thens DEF Stopping, Routes, Op
  <2>3. UNCHANGED bridgeVars
    BY <1>25 DEF Hushed, bridgeVars
  <2>4. QED
    BY <1>1, <2>1, <2>3, <2>2 DEF Bridge, OverlayFollowsOwner, At, Op, Moves, Idle,
       bridgeVars
<1>26. ASSUME NEW c \in Callers, Rearm(c)
     PROVE  Bridge'
  <2>1. At(c) = "rearm" /\ (Moves(c, "respawn") \/ Moves(c, "unhush") \/ Moves(c, "idle"))
    BY <1>26, Continued
  <2>2. Op(c) \in {"iResume", "cResume"}
    BY <1>1, <2>1, WhoIsThere, Thens DEF Stopping, Routes, Op
  <2>3. UNCHANGED bridgeVars
    BY <1>26 DEF Rearm, bridgeVars
  <2>4. QED
    BY <1>1, <2>1, <2>3, <2>2 DEF Bridge, OverlayFollowsOwner, At, Op, Moves, Idle,
       bridgeVars
<1>27. ASSUME NEW c \in Callers, Respawn(c)
     PROVE  Bridge'
  <2>1. At(c) = "respawn" /\ Moves(c, "unhush")
    BY <1>27, Continued
  <2>2. Op(c) \in {"iResume", "cResume"}
    BY <1>1, <2>1, WhoIsThere, Thens DEF Stopping, Routes, Op
  <2>3. UNCHANGED bridgeVars
    BY <1>27 DEF Respawn, bridgeVars
  <2>4. QED
    BY <1>1, <2>1, <2>3, <2>2 DEF Bridge, OverlayFollowsOwner, At, Op, Moves, Idle,
       bridgeVars
<1>28. ASSUME NEW c \in Callers, Unhush(c)
     PROVE  Bridge'
  <2>1. At(c) = "unhush" /\ Moves(c, "idle")
    BY <1>28, Continued
  <2>2. Op(c) \in {"iResume", "cResume"}
    BY <1>1, <2>1, WhoIsThere, Thens DEF Stopping, Routes, Op
  <2>3. UNCHANGED bridgeVars
    BY <1>28 DEF Unhush, bridgeVars
  <2>4. QED
    BY <1>1, <2>1, <2>3, <2>2 DEF Bridge, OverlayFollowsOwner, At, Op, Moves, Idle,
       bridgeVars
<1>29. QED
  BY <1>3, <1>4, <1>5, <1>6, <1>7, <1>8, <1>9, <1>10, <1>11, <1>12, <1>13, <1>14, <1>15,
     <1>16, <1>17, <1>18, <1>19, <1>20, <1>21, <1>22, <1>23, <1>24, <1>25, <1>26, <1>27,
     <1>28, CallFrame, BridgeFrame

-----------------------------------------------------------------------------
(* One request at a time.                                                  *)

\* Without overlap there is one call.
LEMMA OneCallStep ==
    ASSUME CaptureShape, OneCall, CaptureNext, "overlap" \notin hazards
    PROVE  OneCall'
<1>1. CASE UNCHANGED callVars
  BY <1>1 DEF OneCall, At, callVars
<1>2. ASSUME NEW c \in Callers, InterviewStart(c)
     PROVE  OneCall'
  <2>1. At(c) = "idle" /\ Enters(c, "iStart", "signal", "open") /\ call'[c].kept = Idle.kept
    BY <1>2, EnterMoves DEF InterviewStart, Entered
  <2>2. AllIdle
    BY <1>2, EnterMoves DEF InterviewStart, Entered
  <2>3. QED
    BY <2>1, <2>2 DEF OneCall, AllIdle, At, Enters
<1>3. ASSUME NEW c \in Callers, InterviewStop(c)
     PROVE  OneCall'
  <2>1. At(c) = "idle" /\ Enters(c, "iStop", "signal", "idle") /\ call'[c].kept = Idle.kept
    BY <1>3, EnterMoves DEF InterviewStop, Entered
  <2>2. AllIdle
    BY <1>3, EnterMoves DEF InterviewStop, Entered
  <2>3. QED
    BY <2>1, <2>2 DEF OneCall, AllIdle, At, Enters
<1>4. ASSUME NEW c \in Callers, InterviewPause(c)
     PROVE  OneCall'
  <2>1. At(c) = "idle" /\ Enters(c, "iPause", "hush", "idle") /\ call'[c].kept = Idle.kept
    BY <1>4, EnterMoves DEF InterviewPause, Entered
  <2>2. AllIdle
    BY <1>4, EnterMoves DEF InterviewPause, Entered
  <2>3. QED
    BY <2>1, <2>2 DEF OneCall, AllIdle, At, Enters
<1>5. ASSUME NEW c \in Callers, InterviewResume(c)
     PROVE  OneCall'
  <2>1. At(c) = "idle" /\ Enters(c, "iResume", "rearm", "idle") /\ call'[c].kept = Idle.kept
    BY <1>5, EnterMoves DEF InterviewResume, Entered
  <2>2. AllIdle
    BY <1>5, EnterMoves DEF InterviewResume, Entered
  <2>3. QED
    BY <2>1, <2>2 DEF OneCall, AllIdle, At, Enters
<1>6. ASSUME NEW c \in Callers, ConversationStart(c)
     PROVE  OneCall'
  <2>1. At(c) = "idle" /\ Enters(c, "cStart", "borrow", "open") /\ call'[c].kept = Idle.kept
    BY <1>6, EnterMoves DEF ConversationStart, Entered
  <2>2. AllIdle
    BY <1>6, EnterMoves DEF ConversationStart, Entered
  <2>3. QED
    BY <2>1, <2>2 DEF OneCall, AllIdle, At, Enters
<1>7. ASSUME NEW c \in Callers, ConversationPause(c)
     PROVE  OneCall'
  <2>1. /\ At(c) = "idle"
        /\ Enters(c, "cPause", "hush", "idle") \/ Enters(c, "cResume", "rearm", "idle")
        /\ call'[c].kept = Idle.kept
    BY <1>7, EnterMoves DEF ConversationPause, Entered
  <2>2. AllIdle
    BY <1>7, EnterMoves DEF ConversationPause, Entered
  <2>3. QED
    BY <2>1, <2>2 DEF OneCall, AllIdle, At, Enters
<1>8. ASSUME NEW c \in Callers, ConversationStop(c)
     PROVE  OneCall'
  <2>1. /\ At(c) = "idle" /\ Enters(c, "cStop", "signal", "restore")
        /\ call'[c].kept = [overlay |-> previous, flags |-> snapshot]
    BY <1>8, StopMoves
  <2>2. AllIdle
    BY <1>8, EnterMoves DEF ConversationStop, Entered, MayCall
  <2>3. QED
    BY <2>1, <2>2 DEF OneCall, AllIdle, At, Enters
<1>9. ASSUME NEW c \in Callers, Borrow(c)
     PROVE  OneCall'
  <2>1. At(c) = "borrow" /\ Moves(c, "signal")
    BY <1>9, Continued
  <2>2. QED
    BY <2>1 DEF OneCall, At, Moves
<1>10. ASSUME NEW c \in Callers, Signal(c)
     PROVE  OneCall'
  <2>1. /\ At(c) = "signal" /\ call'[c].at = "join" /\ call'[c].joined = runtime
        /\ call'[c].op = call[c].op /\ call'[c].then = call[c].then /\ call'[c].kept = call[c].kept
        /\ \A d \in Callers \ {c} : call'[d] = call[d]
    BY <1>10, SignalMoves
  <2>2. QED
    BY <2>1 DEF OneCall, At
<1>11. ASSUME NEW c \in Callers, JoinWorker(c)
     PROVE  OneCall'
  <2>1. At(c) = "join" /\ Moves(c, "drain")
    BY <1>11, Continued
  <2>2. QED
    BY <2>1 DEF OneCall, At, Moves
<1>12. ASSUME NEW c \in Callers, AwaitDrain(c)
     PROVE  OneCall'
  <2>1. At(c) = "drain" /\ Moves(c, "flush")
    BY <1>12, Continued
  <2>2. QED
    BY <2>1 DEF OneCall, At, Moves
<1>13. ASSUME NEW c \in Callers, FinalFlush(c)
     PROVE  OneCall'
  <2>1. At(c) = "flush" /\ Moves(c, "flushing")
    BY <1>13, Continued
  <2>2. QED
    BY <2>1 DEF OneCall, At, Moves
<1>14. ASSUME NEW c \in Callers, Settle(c)
     PROVE  OneCall'
  <2>1. At(c) = "flushing" /\ Moves(c, call[c].then)
    BY <1>14, Continued
  <2>2. QED
    BY <2>1 DEF OneCall, At, Moves
<1>15. ASSUME NEW c \in Callers, Open(c)
     PROVE  OneCall'
  <2>1. At(c) = "open" /\ Moves(c, "flag")
    BY <1>15, Continued
  <2>2. QED
    BY <2>1 DEF OneCall, At, Moves
<1>16. ASSUME NEW c \in Callers, OpenFails(c)
     PROVE  OneCall'
  <2>1. At(c) = "open" /\ Moves(c, "idle")
    BY <1>16, Continued
  <2>2. QED
    BY <2>1 DEF OneCall, At, Moves
<1>17. ASSUME NEW c \in Callers, Flag(c)
     PROVE  OneCall'
  <2>1. At(c) = "flag" /\ Moves(c, "spawn")
    BY <1>17, Continued
  <2>2. QED
    BY <2>1 DEF OneCall, At, Moves
<1>18. ASSUME NEW c \in Callers, Spawn(c)
     PROVE  OneCall'
  <2>1. At(c) = "spawn" /\ Moves(c, IF call[c].op = "cStart" THEN "commit" ELSE "idle")
    BY <1>18, Continued
  <2>2. QED
    BY <2>1 DEF OneCall, At, Moves
<1>19. ASSUME NEW c \in Callers, Commit(c)
     PROVE  OneCall'
  <2>1. At(c) = "commit" /\ Moves(c, "idle")
    BY <1>19, Continued
  <2>2. QED
    BY <2>1 DEF OneCall, At, Moves
<1>20. ASSUME NEW c \in Callers, Restore(c)
     PROVE  OneCall'
  <2>1. At(c) = "restore" /\ Moves(c, "release")
    BY <1>20, Continued
  <2>2. QED
    BY <2>1 DEF OneCall, At, Moves
<1>21. ASSUME NEW c \in Callers, Release(c)
     PROVE  OneCall'
  <2>1. At(c) = "release" /\ Moves(c, "idle")
    BY <1>21, Continued
  <2>2. QED
    BY <2>1 DEF OneCall, At, Moves
<1>22. ASSUME NEW c \in Callers, Hush(c)
     PROVE  OneCall'
  <2>1. At(c) = "hush" /\ Moves(c, "hushed")
    BY <1>22, Continued
  <2>2. QED
    BY <2>1 DEF OneCall, At, Moves
<1>23. ASSUME NEW c \in Callers, Hushed(c)
     PROVE  OneCall'
  <2>1. At(c) = "hushed" /\ Moves(c, "idle")
    BY <1>23, Continued
  <2>2. QED
    BY <2>1 DEF OneCall, At, Moves
<1>24. ASSUME NEW c \in Callers, Rearm(c)
     PROVE  OneCall'
  <2>1. At(c) = "rearm" /\ (Moves(c, "respawn") \/ Moves(c, "unhush") \/ Moves(c, "idle"))
    BY <1>24, Continued
  <2>2. QED
    BY <2>1 DEF OneCall, At, Moves
<1>25. ASSUME NEW c \in Callers, Respawn(c)
     PROVE  OneCall'
  <2>1. At(c) = "respawn" /\ Moves(c, "unhush")
    BY <1>25, Continued
  <2>2. QED
    BY <2>1 DEF OneCall, At, Moves
<1>26. ASSUME NEW c \in Callers, Unhush(c)
     PROVE  OneCall'
  <2>1. At(c) = "unhush" /\ Moves(c, "idle")
    BY <1>26, Continued
  <2>2. QED
    BY <2>1 DEF OneCall, At, Moves
<1>27. QED
  BY <1>1, <1>2, <1>3, <1>4, <1>5, <1>6, <1>7, <1>8, <1>9, <1>10, <1>11, <1>12, <1>13,
     <1>14, <1>15, <1>16, <1>17, <1>18, <1>19, <1>20, <1>21, <1>22, <1>23, <1>24, <1>25,
     <1>26, CallFrame

\* The caller that is not idle is alone.
LEMMA Alone ==
    ASSUME Routes, OneCall, NEW c \in Callers, At(c) # "idle"
    PROVE  \A d \in Callers \ {c} : call[d] = Idle
BY DEF Routes, OneCall

\* When all are idle, each has returned.
LEMMA AllAlone ==
    ASSUME Routes, AllIdle
    PROVE  \A d \in Callers : call[d] = Idle
BY DEF Routes, AllIdle

\* A call that has returned.
LEMMA IdleIs == /\ Idle.at = "idle" /\ Idle.op = "none" /\ Idle.joined = 0
                /\ Idle.kept.overlay = "base" /\ Idle.kept.flags.rec = FALSE
BY DEF Idle, NoSnapshot

\* What a calm behaviour is spared.
LEMMA CalmIs == Calm => "overlap" \notin hazards /\ "crash" \notin hazards /\ "load" \notin hazards
BY DEF Calm

\* The flags follow the request at hand.
LEMMA FlagsStep ==
    ASSUME CaptureShape, Routes, Bridge, OneCall, FlagsFollow, Calm, CaptureNext
    PROVE  FlagsFollow'
<1>1. CallShape /\ FlagShape /\ Routes /\ Bridge /\ FlagsFollow /\ "overlap" \notin hazards
  BY CalmIs DEF CaptureShape
<1>2. CASE UNCHANGED callVars /\ UNCHANGED bridgeVars /\ UNCHANGED flagVars
  BY <1>2, <1>1 DEF FlagsFollow, At, Op, callVars, bridgeVars, flagVars
<1>3. ASSUME NEW c \in Callers, InterviewStart(c)
     PROVE  FlagsFollow'
  <2>1. At(c) = "idle" /\ Enters(c, "iStart", "signal", "open") /\ call'[c].kept = Idle.kept
    BY <1>3, EnterMoves DEF InterviewStart, Entered
  <2>2. Op(c) = "none"
    BY <1>1, <2>1, WhoIsThere
  <2>3. \A d \in Callers : call[d] = Idle
    BY <1>1, <1>3, EnterMoves, AllAlone DEF InterviewStart, Entered
  <2>4. QED
    BY <1>1, <1>3, <2>1, <2>2, <2>3, IdleIs DEF FlagsFollow, At, Op, InterviewStart, Enters,
       bridgeVars, flagVars
<1>4. ASSUME NEW c \in Callers, InterviewStop(c)
     PROVE  FlagsFollow'
  <2>1. At(c) = "idle" /\ Enters(c, "iStop", "signal", "idle") /\ call'[c].kept = Idle.kept
    BY <1>4, EnterMoves DEF InterviewStop, Entered
  <2>2. Op(c) = "none"
    BY <1>1, <2>1, WhoIsThere
  <2>3. \A d \in Callers : call[d] = Idle
    BY <1>1, <1>4, EnterMoves, AllAlone DEF InterviewStop, Entered
  <2>4. QED
    BY <1>1, <1>4, <2>1, <2>2, <2>3, IdleIs DEF FlagsFollow, At, Op, InterviewStop, Enters,
       bridgeVars, flagVars
<1>5. ASSUME NEW c \in Callers, InterviewPause(c)
     PROVE  FlagsFollow'
  <2>1. At(c) = "idle" /\ Enters(c, "iPause", "hush", "idle") /\ call'[c].kept = Idle.kept
    BY <1>5, EnterMoves DEF InterviewPause, Entered
  <2>2. Op(c) = "none"
    BY <1>1, <2>1, WhoIsThere
  <2>3. \A d \in Callers : call[d] = Idle
    BY <1>1, <1>5, EnterMoves, AllAlone DEF InterviewPause, Entered
  <2>4. QED
    BY <1>1, <1>5, <2>1, <2>2, <2>3, IdleIs DEF FlagsFollow, At, Op, InterviewPause, Enters,
       bridgeVars, flagVars
<1>6. ASSUME NEW c \in Callers, InterviewResume(c)
     PROVE  FlagsFollow'
  <2>1. At(c) = "idle" /\ Enters(c, "iResume", "rearm", "idle") /\ call'[c].kept = Idle.kept
    BY <1>6, EnterMoves DEF InterviewResume, Entered
  <2>2. Op(c) = "none"
    BY <1>1, <2>1, WhoIsThere
  <2>3. \A d \in Callers : call[d] = Idle
    BY <1>1, <1>6, EnterMoves, AllAlone DEF InterviewResume, Entered
  <2>4. QED
    BY <1>1, <1>6, <2>1, <2>2, <2>3, IdleIs DEF FlagsFollow, At, Op, InterviewResume,
       Enters, bridgeVars, flagVars
<1>7. ASSUME NEW c \in Callers, ConversationStart(c)
     PROVE  FlagsFollow'
  <2>1. At(c) = "idle" /\ Enters(c, "cStart", "borrow", "open") /\ call'[c].kept = Idle.kept
    BY <1>7, EnterMoves DEF ConversationStart, Entered
  <2>2. Op(c) = "none"
    BY <1>1, <2>1, WhoIsThere
  <2>3. \A d \in Callers : call[d] = Idle
    BY <1>1, <1>7, EnterMoves, AllAlone DEF ConversationStart, Entered
  <2>4. QED
    BY <1>1, <1>7, <2>1, <2>2, <2>3, IdleIs DEF FlagsFollow, At, Op, ConversationStart,
       Enters, bridgeVars, flagVars
<1>8. ASSUME NEW c \in Callers, ConversationPause(c)
     PROVE  FlagsFollow'
  <2>1. /\ At(c) = "idle"
        /\ Enters(c, "cPause", "hush", "idle") \/ Enters(c, "cResume", "rearm", "idle")
        /\ call'[c].kept = Idle.kept
    BY <1>8, EnterMoves DEF ConversationPause, Entered
  <2>2. Op(c) = "none"
    BY <1>1, <2>1, WhoIsThere
  <2>3. \A d \in Callers : call[d] = Idle
    BY <1>1, <1>8, EnterMoves, AllAlone DEF ConversationPause, Entered
  <2>4. QED
    BY <1>1, <1>8, <2>1, <2>2, <2>3, IdleIs DEF FlagsFollow, At, Op, ConversationPause,
       Enters, bridgeVars, flagVars
<1>9. ASSUME NEW c \in Callers, ConversationStop(c)
     PROVE  FlagsFollow'
  <2>1. /\ At(c) = "idle" /\ Enters(c, "cStop", "signal", "restore")
        /\ call'[c].kept = [overlay |-> previous, flags |-> snapshot]
    BY <1>9, StopMoves
  <2>2. Op(c) = "none"
    BY <1>1, <2>1, WhoIsThere
  <2>3. \A d \in Callers : call[d] = Idle
    BY <1>1, <1>9, EnterMoves, AllAlone DEF ConversationStop, Entered, MayCall
  <2>4. QED
    BY <1>1, <1>9, <2>1, <2>2, <2>3, IdleIs DEF FlagsFollow, At, Op, ConversationStop,
       Enters, bridgeVars, flagVars
<1>10. ASSUME NEW c \in Callers, Borrow(c)
     PROVE  FlagsFollow'
  <2>1. At(c) = "borrow" /\ Moves(c, "signal")
    BY <1>10, Continued
  <2>2. Op(c) = "cStart"
    BY <1>1, <2>1, WhoIsThere, Thens DEF Stopping, Routes, Op
  <2>3. \A d \in Callers \ {c} : call[d] = Idle
    BY <2>1, Alone
  <2>4. QED
    BY <1>1, <1>10, <2>1, <2>2, <2>3, IdleIs DEF FlagsFollow, At, Op, Borrow, Moves,
       bridgeVars, flagVars
<1>11. ASSUME NEW c \in Callers, Signal(c)
     PROVE  FlagsFollow'
  <2>1. /\ At(c) = "signal" /\ call'[c].at = "join" /\ call'[c].joined = runtime
        /\ call'[c].op = call[c].op /\ call'[c].then = call[c].then /\ call'[c].kept = call[c].kept
        /\ \A d \in Callers \ {c} : call'[d] = call[d]
    BY <1>11, SignalMoves
  <2>2. Op(c) \in {"iStart", "cStart", "iStop", "cStop"}
    BY <1>1, <2>1, WhoIsThere, Thens DEF Stopping, Routes, Op
  <2>3. \A d \in Callers \ {c} : call[d] = Idle
    BY <2>1, Alone
  <2>4. UNCHANGED <<bridgeVars, rec>>
    BY <1>11 DEF Signal
  <2>5. QED
    BY <1>1, <2>4, <2>1, <2>2, <2>3, IdleIs DEF FlagsFollow, At, Op, bridgeVars, flagVars
<1>12. ASSUME NEW c \in Callers, JoinWorker(c)
     PROVE  FlagsFollow'
  <2>1. At(c) = "join" /\ Moves(c, "drain")
    BY <1>12, Continued
  <2>2. Op(c) \in {"iStart", "cStart", "iStop", "cStop"}
    BY <1>1, <2>1, WhoIsThere, Thens DEF Stopping, Routes, Op
  <2>3. \A d \in Callers \ {c} : call[d] = Idle
    BY <2>1, Alone
  <2>4. QED
    BY <1>1, <1>12, <2>1, <2>2, <2>3, IdleIs DEF FlagsFollow, At, Op, JoinWorker, Moves,
       bridgeVars, flagVars
<1>13. ASSUME NEW c \in Callers, AwaitDrain(c)
     PROVE  FlagsFollow'
  <2>1. At(c) = "drain" /\ Moves(c, "flush")
    BY <1>13, Continued
  <2>2. Op(c) \in {"iStart", "cStart", "iStop", "cStop"}
    BY <1>1, <2>1, WhoIsThere, Thens DEF Stopping, Routes, Op
  <2>3. \A d \in Callers \ {c} : call[d] = Idle
    BY <2>1, Alone
  <2>4. QED
    BY <1>1, <1>13, <2>1, <2>2, <2>3, IdleIs DEF FlagsFollow, At, Op, AwaitDrain, Moves,
       bridgeVars, flagVars
<1>14. ASSUME NEW c \in Callers, FinalFlush(c)
     PROVE  FlagsFollow'
  <2>1. At(c) = "flush" /\ Moves(c, "flushing")
    BY <1>14, Continued
  <2>2. Op(c) \in {"iStart", "cStart", "iStop", "cStop"}
    BY <1>1, <2>1, WhoIsThere, Thens DEF Stopping, Routes, Op
  <2>3. \A d \in Callers \ {c} : call[d] = Idle
    BY <2>1, Alone
  <2>4. QED
    BY <1>1, <1>14, <2>1, <2>2, <2>3, IdleIs DEF FlagsFollow, At, Op, FinalFlush, Moves,
       bridgeVars, flagVars
<1>15. ASSUME NEW c \in Callers, Settle(c)
     PROVE  FlagsFollow'
  <2>1. At(c) = "flushing" /\ Moves(c, call[c].then)
    BY <1>15, Continued
  <2>2. Op(c) \in {"iStart", "cStart", "iStop", "cStop"} /\ call[c].then = ThenOf(Op(c))
    BY <1>1, <2>1, WhoIsThere, Thens DEF Stopping, Routes, Op
  <2>3. \A d \in Callers \ {c} : call[d] = Idle
    BY <2>1, Alone
  <2>4. QED
    BY <1>1, <1>15, <2>1, <2>2, <2>3, IdleIs, Thens DEF FlagsFollow, At, Op, Settle, Moves,
       bridgeVars, flagVars
<1>16. ASSUME NEW c \in Callers, Open(c)
     PROVE  FlagsFollow'
  <2>1. At(c) = "open" /\ Moves(c, "flag")
    BY <1>16, Continued
  <2>2. Op(c) \in {"iStart", "cStart"}
    BY <1>1, <2>1, WhoIsThere, Thens DEF Stopping, Routes, Op
  <2>3. \A d \in Callers \ {c} : call[d] = Idle
    BY <2>1, Alone
  <2>4. QED
    BY <1>1, <1>16, <2>1, <2>2, <2>3, IdleIs DEF FlagsFollow, At, Op, Open, Moves,
       bridgeVars, flagVars
<1>17. ASSUME NEW c \in Callers, OpenFails(c)
     PROVE  FlagsFollow'
  <2>1. At(c) = "open" /\ Moves(c, "idle")
    BY <1>17, Continued
  <2>2. Op(c) \in {"iStart", "cStart"}
    BY <1>1, <2>1, WhoIsThere, Thens DEF Stopping, Routes, Op
  <2>3. \A d \in Callers \ {c} : call[d] = Idle
    BY <2>1, Alone
  <2>4. QED
    BY <1>1, <1>17, <2>1, <2>2, <2>3, IdleIs DEF FlagsFollow, At, Op, OpenFails, Moves,
       NoSnapshot, bridgeVars, flagVars
<1>18. ASSUME NEW c \in Callers, Flag(c)
     PROVE  FlagsFollow'
  <2>1. At(c) = "flag" /\ Moves(c, "spawn")
    BY <1>18, Continued
  <2>2. Op(c) \in {"iStart", "cStart"}
    BY <1>1, <2>1, WhoIsThere, Thens DEF Stopping, Routes, Op
  <2>3. \A d \in Callers \ {c} : call[d] = Idle
    BY <2>1, Alone
  <2>4. QED
    BY <1>1, <1>18, <2>1, <2>2, <2>3, IdleIs DEF FlagsFollow, At, Op, Flag, Moves,
       bridgeVars, flagVars
<1>19. ASSUME NEW c \in Callers, Spawn(c)
     PROVE  FlagsFollow'
  <2>1. At(c) = "spawn" /\ Moves(c, IF call[c].op = "cStart" THEN "commit" ELSE "idle")
    BY <1>19, Continued
  <2>2. Op(c) \in {"iStart", "cStart"}
    BY <1>1, <2>1, WhoIsThere, Thens DEF Stopping, Routes, Op
  <2>3. \A d \in Callers \ {c} : call[d] = Idle
    BY <2>1, Alone
  <2>4. QED
    BY <1>1, <1>19, <2>1, <2>2, <2>3, IdleIs DEF FlagsFollow, At, Op, Spawn, Moves,
       bridgeVars, flagVars
<1>20. ASSUME NEW c \in Callers, Commit(c)
     PROVE  FlagsFollow'
  <2>1. At(c) = "commit" /\ Moves(c, "idle")
    BY <1>20, Continued
  <2>2. Op(c) = "cStart"
    BY <1>1, <2>1, WhoIsThere, Thens DEF Stopping, Routes, Op
  <2>3. \A d \in Callers \ {c} : call[d] = Idle
    BY <2>1, Alone
  <2>4. QED
    BY <1>1, <1>20, <2>1, <2>2, <2>3, IdleIs DEF FlagsFollow, At, Op, Commit, Moves,
       bridgeVars, flagVars
<1>21. ASSUME NEW c \in Callers, Restore(c)
     PROVE  FlagsFollow'
  <2>1. At(c) = "restore" /\ Moves(c, "release")
    BY <1>21, Continued
  <2>2. Op(c) = "cStop"
    BY <1>1, <2>1, WhoIsThere, Thens DEF Stopping, Routes, Op
  <2>3. \A d \in Callers \ {c} : call[d] = Idle
    BY <2>1, Alone
  <2>4. QED
    BY <1>1, <1>21, <2>1, <2>2, <2>3, IdleIs DEF FlagsFollow, At, Op, Restore, Moves,
       bridgeVars, flagVars
<1>22. ASSUME NEW c \in Callers, Release(c)
     PROVE  FlagsFollow'
  <2>1. At(c) = "release" /\ Moves(c, "idle")
    BY <1>22, Continued
  <2>2. Op(c) = "cStop"
    BY <1>1, <2>1, WhoIsThere, Thens DEF Stopping, Routes, Op
  <2>3. \A d \in Callers \ {c} : call[d] = Idle
    BY <2>1, Alone
  <2>4. QED
    BY <1>1, <1>22, <2>1, <2>2, <2>3, IdleIs DEF FlagsFollow, At, Op, Release, Moves,
       NoSnapshot, bridgeVars, flagVars
<1>23. ASSUME NEW c \in Callers, Hush(c)
     PROVE  FlagsFollow'
  <2>1. At(c) = "hush" /\ Moves(c, "hushed")
    BY <1>23, Continued
  <2>2. Op(c) \in {"iPause", "cPause"}
    BY <1>1, <2>1, WhoIsThere, Thens DEF Stopping, Routes, Op
  <2>3. \A d \in Callers \ {c} : call[d] = Idle
    BY <2>1, Alone
  <2>4. QED
    BY <1>1, <1>23, <2>1, <2>2, <2>3, IdleIs DEF FlagsFollow, At, Op, Hush, Moves,
       bridgeVars, flagVars
<1>24. ASSUME NEW c \in Callers, Hushed(c)
     PROVE  FlagsFollow'
  <2>1. At(c) = "hushed" /\ Moves(c, "idle")
    BY <1>24, Continued
  <2>2. Op(c) \in {"iPause", "cPause"}
    BY <1>1, <2>1, WhoIsThere, Thens DEF Stopping, Routes, Op
  <2>3. \A d \in Callers \ {c} : call[d] = Idle
    BY <2>1, Alone
  <2>4. QED
    BY <1>1, <1>24, <2>1, <2>2, <2>3, IdleIs DEF FlagsFollow, At, Op, Hushed, Moves,
       bridgeVars, flagVars
<1>25. ASSUME NEW c \in Callers, Rearm(c)
     PROVE  FlagsFollow'
  <2>1. At(c) = "rearm" /\ (Moves(c, "respawn") \/ Moves(c, "unhush") \/ Moves(c, "idle"))
    BY <1>25, Continued
  <2>2. Op(c) \in {"iResume", "cResume"}
    BY <1>1, <2>1, WhoIsThere, Thens DEF Stopping, Routes, Op
  <2>3. \A d \in Callers \ {c} : call[d] = Idle
    BY <2>1, Alone
  <2>4. QED
    BY <1>1, <1>25, <2>1, <2>2, <2>3, IdleIs DEF FlagsFollow, At, Op, Rearm, Moves,
       bridgeVars, flagVars
<1>26. ASSUME NEW c \in Callers, Respawn(c)
     PROVE  FlagsFollow'
  <2>1. At(c) = "respawn" /\ Moves(c, "unhush")
    BY <1>26, Continued
  <2>2. Op(c) \in {"iResume", "cResume"}
    BY <1>1, <2>1, WhoIsThere, Thens DEF Stopping, Routes, Op
  <2>3. \A d \in Callers \ {c} : call[d] = Idle
    BY <2>1, Alone
  <2>4. QED
    BY <1>1, <1>26, <2>1, <2>2, <2>3, IdleIs DEF FlagsFollow, At, Op, Respawn, Moves,
       bridgeVars, flagVars
<1>27. ASSUME NEW c \in Callers, Unhush(c)
     PROVE  FlagsFollow'
  <2>1. At(c) = "unhush" /\ Moves(c, "idle")
    BY <1>27, Continued
  <2>2. Op(c) \in {"iResume", "cResume"}
    BY <1>1, <2>1, WhoIsThere, Thens DEF Stopping, Routes, Op
  <2>3. \A d \in Callers \ {c} : call[d] = Idle
    BY <2>1, Alone
  <2>4. QED
    BY <1>1, <1>27, <2>1, <2>2, <2>3, IdleIs DEF FlagsFollow, At, Op, Unhush, Moves,
       bridgeVars, flagVars
<1>28. ASSUME NEW w \in Workers, LoadFails(w)
     PROVE  FlagsFollow'
  BY <1>28, <1>1, CalmIs DEF FlagsFollow, At, Op, LoadFails
<1>29. ASSUME NEW w \in Workers, WorkerCrashes(w)
     PROVE  FlagsFollow'
  BY <1>29, <1>1, CalmIs DEF FlagsFollow, At, Op, WorkerCrashes
<1>30. ASSUME NEW w \in Workers, Finish(w)
     PROVE  FlagsFollow'
  BY <1>30, <1>1 DEF FlagsFollow, At, Op, Finish, bridgeVars, callVars
<1>31. ASSUME AudioDies
     PROVE  FlagsFollow'
  BY <1>31, <1>1 DEF FlagsFollow, At, Op, AudioDies, bridgeVars, callVars
<1>32. QED
  BY <1>2, <1>3, <1>4, <1>5, <1>6, <1>7, <1>8, <1>9, <1>10, <1>11, <1>12, <1>13, <1>14,
     <1>15, <1>16, <1>17, <1>18, <1>19, <1>20, <1>21, <1>22, <1>23, <1>24, <1>25, <1>26,
     <1>27, <1>28, <1>29, <1>30, <1>31, CallFrame, BridgeFrame, FlagFrame

\* The device is open only for a recording.
LEMMA OpenStep ==
    ASSUME CaptureShape, Routes, OneCall, FlagsFollow, OpenForRecording, hazards \subseteq {"device", "race", "timeout"}, CaptureNext
    PROVE  OpenForRecording'
<1>1. CallShape /\ FlagShape /\ Routes /\ FlagsFollow /\ OpenForRecording
  BY DEF CaptureShape
<1>2. "overlap" \notin hazards /\ "crash" \notin hazards /\ "load" \notin hazards /\ "stray" \notin hazards
  OBVIOUS
<1>3. CASE UNCHANGED callVars /\ UNCHANGED flagVars
  BY <1>3, <1>1, <1>2 DEF OpenForRecording, NoneAt, At, Op, callVars, flagVars
<1>4. ASSUME NEW c \in Callers, InterviewStart(c)
     PROVE  OpenForRecording'
  <2>1. At(c) = "idle" /\ Enters(c, "iStart", "signal", "open") /\ call'[c].kept = Idle.kept
    BY <1>4, EnterMoves DEF InterviewStart, Entered
  <2>2. Op(c) = "none"
    BY <1>1, <2>1, WhoIsThere
  <2>3. \A d \in Callers : call[d] = Idle
    BY <1>2, <1>4, EnterMoves, AllAlone DEF InterviewStart, Entered
  <2>4. QED
    BY <1>1, <1>4, <2>1, <2>2, <2>3, IdleIs DEF OpenForRecording, NoneAt, At, Op,
       InterviewStart, Enters, flagVars
<1>5. ASSUME NEW c \in Callers, InterviewStop(c)
     PROVE  OpenForRecording'
  <2>1. At(c) = "idle" /\ Enters(c, "iStop", "signal", "idle") /\ call'[c].kept = Idle.kept
    BY <1>5, EnterMoves DEF InterviewStop, Entered
  <2>2. Op(c) = "none"
    BY <1>1, <2>1, WhoIsThere
  <2>3. \A d \in Callers : call[d] = Idle
    BY <1>2, <1>5, EnterMoves, AllAlone DEF InterviewStop, Entered
  <2>4. QED
    BY <1>1, <1>5, <2>1, <2>2, <2>3, IdleIs DEF OpenForRecording, NoneAt, At, Op,
       InterviewStop, Enters, flagVars
<1>6. ASSUME NEW c \in Callers, InterviewPause(c)
     PROVE  OpenForRecording'
  <2>1. At(c) = "idle" /\ Enters(c, "iPause", "hush", "idle") /\ call'[c].kept = Idle.kept
    BY <1>6, EnterMoves DEF InterviewPause, Entered
  <2>2. Op(c) = "none"
    BY <1>1, <2>1, WhoIsThere
  <2>3. \A d \in Callers : call[d] = Idle
    BY <1>2, <1>6, EnterMoves, AllAlone DEF InterviewPause, Entered
  <2>4. QED
    BY <1>1, <1>6, <2>1, <2>2, <2>3, IdleIs DEF OpenForRecording, NoneAt, At, Op,
       InterviewPause, Enters, flagVars
<1>7. ASSUME NEW c \in Callers, InterviewResume(c)
     PROVE  OpenForRecording'
  <2>1. At(c) = "idle" /\ Enters(c, "iResume", "rearm", "idle") /\ call'[c].kept = Idle.kept
    BY <1>7, EnterMoves DEF InterviewResume, Entered
  <2>2. Op(c) = "none"
    BY <1>1, <2>1, WhoIsThere
  <2>3. \A d \in Callers : call[d] = Idle
    BY <1>2, <1>7, EnterMoves, AllAlone DEF InterviewResume, Entered
  <2>4. QED
    BY <1>1, <1>7, <2>1, <2>2, <2>3, IdleIs DEF OpenForRecording, NoneAt, At, Op,
       InterviewResume, Enters, flagVars
<1>8. ASSUME NEW c \in Callers, ConversationStart(c)
     PROVE  OpenForRecording'
  <2>1. At(c) = "idle" /\ Enters(c, "cStart", "borrow", "open") /\ call'[c].kept = Idle.kept
    BY <1>8, EnterMoves DEF ConversationStart, Entered
  <2>2. Op(c) = "none"
    BY <1>1, <2>1, WhoIsThere
  <2>3. \A d \in Callers : call[d] = Idle
    BY <1>2, <1>8, EnterMoves, AllAlone DEF ConversationStart, Entered
  <2>4. QED
    BY <1>1, <1>8, <2>1, <2>2, <2>3, IdleIs DEF OpenForRecording, NoneAt, At, Op,
       ConversationStart, Enters, flagVars
<1>9. ASSUME NEW c \in Callers, ConversationPause(c)
     PROVE  OpenForRecording'
  <2>1. /\ At(c) = "idle"
        /\ Enters(c, "cPause", "hush", "idle") \/ (rec /\ Enters(c, "cResume", "rearm", "idle"))
        /\ call'[c].kept = Idle.kept
    BY <1>2, <1>9, EnterMoves DEF ConversationPause, Entered
  <2>2. Op(c) = "none"
    BY <1>1, <2>1, WhoIsThere
  <2>3. \A d \in Callers : call[d] = Idle
    BY <1>2, <1>9, EnterMoves, AllAlone DEF ConversationPause, Entered
  <2>4. UNCHANGED flagVars
    BY <1>9 DEF ConversationPause
  <2>5. QED
    BY <1>1, <2>4, <2>1, <2>2, <2>3, IdleIs DEF OpenForRecording, NoneAt, At, Op, Enters,
       flagVars
<1>10. ASSUME NEW c \in Callers, ConversationStop(c)
     PROVE  OpenForRecording'
  <2>1. /\ At(c) = "idle" /\ Enters(c, "cStop", "signal", "restore")
        /\ call'[c].kept = [overlay |-> previous, flags |-> snapshot]
    BY <1>10, StopMoves
  <2>2. Op(c) = "none"
    BY <1>1, <2>1, WhoIsThere
  <2>3. \A d \in Callers : call[d] = Idle
    BY <1>2, <1>10, EnterMoves, AllAlone DEF ConversationStop, Entered, MayCall
  <2>4. QED
    BY <1>1, <1>10, <2>1, <2>2, <2>3, IdleIs DEF OpenForRecording, NoneAt, At, Op,
       ConversationStop, Enters, flagVars
<1>11. ASSUME NEW c \in Callers, Borrow(c)
     PROVE  OpenForRecording'
  <2>1. At(c) = "borrow" /\ Moves(c, "signal")
    BY <1>11, Continued
  <2>2. Op(c) = "cStart"
    BY <1>1, <2>1, WhoIsThere, Thens DEF Stopping, Routes, Op
  <2>3. \A d \in Callers \ {c} : call[d] = Idle
    BY <2>1, Alone
  <2>4. QED
    BY <1>1, <1>11, <2>1, <2>2, <2>3, IdleIs DEF OpenForRecording, NoneAt, At, Op, Borrow,
       Moves, flagVars
<1>12. ASSUME NEW c \in Callers, Signal(c)
     PROVE  OpenForRecording'
  <2>1. /\ At(c) = "signal" /\ call'[c].at = "join" /\ call'[c].joined = runtime
        /\ call'[c].op = call[c].op /\ call'[c].then = call[c].then /\ call'[c].kept = call[c].kept
        /\ \A d \in Callers \ {c} : call'[d] = call[d]
    BY <1>12, SignalMoves
  <2>2. Op(c) \in {"iStart", "cStart", "iStop", "cStop"}
    BY <1>1, <2>1, WhoIsThere, Thens DEF Stopping, Routes, Op
  <2>3. \A d \in Callers \ {c} : call[d] = Idle
    BY <2>1, Alone
  <2>4. ~audio' /\ rec' = rec
    BY <1>12 DEF Signal
  <2>5. QED
    BY <1>1, <2>4, <2>1, <2>2, <2>3, IdleIs DEF OpenForRecording, NoneAt, At, Op, flagVars
<1>13. ASSUME NEW c \in Callers, JoinWorker(c)
     PROVE  OpenForRecording'
  <2>1. At(c) = "join" /\ Moves(c, "drain")
    BY <1>13, Continued
  <2>2. Op(c) \in {"iStart", "cStart", "iStop", "cStop"}
    BY <1>1, <2>1, WhoIsThere, Thens DEF Stopping, Routes, Op
  <2>3. \A d \in Callers \ {c} : call[d] = Idle
    BY <2>1, Alone
  <2>4. QED
    BY <1>1, <1>13, <2>1, <2>2, <2>3, IdleIs DEF OpenForRecording, NoneAt, At, Op,
       JoinWorker, Moves, flagVars
<1>14. ASSUME NEW c \in Callers, AwaitDrain(c)
     PROVE  OpenForRecording'
  <2>1. At(c) = "drain" /\ Moves(c, "flush")
    BY <1>14, Continued
  <2>2. Op(c) \in {"iStart", "cStart", "iStop", "cStop"}
    BY <1>1, <2>1, WhoIsThere, Thens DEF Stopping, Routes, Op
  <2>3. \A d \in Callers \ {c} : call[d] = Idle
    BY <2>1, Alone
  <2>4. QED
    BY <1>1, <1>14, <2>1, <2>2, <2>3, IdleIs DEF OpenForRecording, NoneAt, At, Op,
       AwaitDrain, Moves, flagVars
<1>15. ASSUME NEW c \in Callers, FinalFlush(c)
     PROVE  OpenForRecording'
  <2>1. At(c) = "flush" /\ Moves(c, "flushing")
    BY <1>15, Continued
  <2>2. Op(c) \in {"iStart", "cStart", "iStop", "cStop"}
    BY <1>1, <2>1, WhoIsThere, Thens DEF Stopping, Routes, Op
  <2>3. \A d \in Callers \ {c} : call[d] = Idle
    BY <2>1, Alone
  <2>4. QED
    BY <1>1, <1>15, <2>1, <2>2, <2>3, IdleIs DEF OpenForRecording, NoneAt, At, Op,
       FinalFlush, Moves, flagVars
<1>16. ASSUME NEW c \in Callers, Settle(c)
     PROVE  OpenForRecording'
  <2>1. At(c) = "flushing" /\ Moves(c, call[c].then)
    BY <1>16, Continued
  <2>2. Op(c) \in {"iStart", "cStart", "iStop", "cStop"} /\ call[c].then = ThenOf(Op(c))
    BY <1>1, <2>1, WhoIsThere, Thens DEF Stopping, Routes, Op
  <2>3. \A d \in Callers \ {c} : call[d] = Idle
    BY <2>1, Alone
  <2>4. QED
    BY <1>1, <1>16, <2>1, <2>2, <2>3, IdleIs, Thens DEF OpenForRecording, NoneAt, At, Op,
       Settle, Moves, flagVars
<1>17. ASSUME NEW c \in Callers, Open(c)
     PROVE  OpenForRecording'
  <2>1. At(c) = "open" /\ Moves(c, "flag")
    BY <1>17, Continued
  <2>2. Op(c) \in {"iStart", "cStart"}
    BY <1>1, <2>1, WhoIsThere, Thens DEF Stopping, Routes, Op
  <2>3. \A d \in Callers \ {c} : call[d] = Idle
    BY <2>1, Alone
  <2>4. QED
    BY <1>1, <1>17, <2>1, <2>2, <2>3, IdleIs DEF OpenForRecording, NoneAt, At, Op, Open,
       Moves, flagVars
<1>18. ASSUME NEW c \in Callers, OpenFails(c)
     PROVE  OpenForRecording'
  <2>1. At(c) = "open" /\ Moves(c, "idle")
    BY <1>18, Continued
  <2>2. Op(c) \in {"iStart", "cStart"}
    BY <1>1, <2>1, WhoIsThere, Thens DEF Stopping, Routes, Op
  <2>3. \A d \in Callers \ {c} : call[d] = Idle
    BY <2>1, Alone
  <2>4. QED
    BY <1>1, <1>18, <2>1, <2>2, <2>3, IdleIs DEF OpenForRecording, NoneAt, At, Op, OpenFails,
       Moves, FlagsFollow, flagVars
<1>19. ASSUME NEW c \in Callers, Flag(c)
     PROVE  OpenForRecording'
  <2>1. At(c) = "flag" /\ Moves(c, "spawn")
    BY <1>19, Continued
  <2>2. Op(c) \in {"iStart", "cStart"}
    BY <1>1, <2>1, WhoIsThere, Thens DEF Stopping, Routes, Op
  <2>3. \A d \in Callers \ {c} : call[d] = Idle
    BY <2>1, Alone
  <2>4. QED
    BY <1>1, <1>19, <2>1, <2>2, <2>3, IdleIs DEF OpenForRecording, NoneAt, At, Op, Flag,
       Moves, flagVars
<1>20. ASSUME NEW c \in Callers, Spawn(c)
     PROVE  OpenForRecording'
  <2>1. At(c) = "spawn" /\ Moves(c, IF call[c].op = "cStart" THEN "commit" ELSE "idle")
    BY <1>20, Continued
  <2>2. Op(c) \in {"iStart", "cStart"}
    BY <1>1, <2>1, WhoIsThere, Thens DEF Stopping, Routes, Op
  <2>3. \A d \in Callers \ {c} : call[d] = Idle
    BY <2>1, Alone
  <2>4. QED
    BY <1>1, <1>20, <2>1, <2>2, <2>3, IdleIs DEF OpenForRecording, NoneAt, At, Op, Spawn,
       Moves, flagVars
<1>21. ASSUME NEW c \in Callers, Commit(c)
     PROVE  OpenForRecording'
  <2>1. At(c) = "commit" /\ Moves(c, "idle")
    BY <1>21, Continued
  <2>2. Op(c) = "cStart"
    BY <1>1, <2>1, WhoIsThere, Thens DEF Stopping, Routes, Op
  <2>3. \A d \in Callers \ {c} : call[d] = Idle
    BY <2>1, Alone
  <2>4. QED
    BY <1>1, <1>21, <2>1, <2>2, <2>3, IdleIs DEF OpenForRecording, NoneAt, At, Op, Commit,
       Moves, flagVars
<1>22. ASSUME NEW c \in Callers, Restore(c)
     PROVE  OpenForRecording'
  <2>1. At(c) = "restore" /\ Moves(c, "release")
    BY <1>22, Continued
  <2>2. Op(c) = "cStop"
    BY <1>1, <2>1, WhoIsThere, Thens DEF Stopping, Routes, Op
  <2>3. \A d \in Callers \ {c} : call[d] = Idle
    BY <2>1, Alone
  <2>4. QED
    BY <1>1, <1>22, <2>1, <2>2, <2>3, IdleIs DEF OpenForRecording, NoneAt, At, Op, Restore,
       Moves, FlagsFollow, flagVars
<1>23. ASSUME NEW c \in Callers, Release(c)
     PROVE  OpenForRecording'
  <2>1. At(c) = "release" /\ Moves(c, "idle")
    BY <1>23, Continued
  <2>2. Op(c) = "cStop"
    BY <1>1, <2>1, WhoIsThere, Thens DEF Stopping, Routes, Op
  <2>3. \A d \in Callers \ {c} : call[d] = Idle
    BY <2>1, Alone
  <2>4. QED
    BY <1>1, <1>23, <2>1, <2>2, <2>3, IdleIs DEF OpenForRecording, NoneAt, At, Op, Release,
       Moves, flagVars
<1>24. ASSUME NEW c \in Callers, Hush(c)
     PROVE  OpenForRecording'
  <2>1. At(c) = "hush" /\ Moves(c, "hushed")
    BY <1>24, Continued
  <2>2. Op(c) \in {"iPause", "cPause"}
    BY <1>1, <2>1, WhoIsThere, Thens DEF Stopping, Routes, Op
  <2>3. \A d \in Callers \ {c} : call[d] = Idle
    BY <2>1, Alone
  <2>4. QED
    BY <1>1, <1>24, <2>1, <2>2, <2>3, IdleIs DEF OpenForRecording, NoneAt, At, Op, Hush,
       Moves, flagVars
<1>25. ASSUME NEW c \in Callers, Hushed(c)
     PROVE  OpenForRecording'
  <2>1. At(c) = "hushed" /\ Moves(c, "idle")
    BY <1>25, Continued
  <2>2. Op(c) \in {"iPause", "cPause"}
    BY <1>1, <2>1, WhoIsThere, Thens DEF Stopping, Routes, Op
  <2>3. \A d \in Callers \ {c} : call[d] = Idle
    BY <2>1, Alone
  <2>4. QED
    BY <1>1, <1>25, <2>1, <2>2, <2>3, IdleIs DEF OpenForRecording, NoneAt, At, Op, Hushed,
       Moves, flagVars
<1>26. ASSUME NEW c \in Callers, Rearm(c)
     PROVE  OpenForRecording'
  <2>1. At(c) = "rearm" /\ (Moves(c, "respawn") \/ Moves(c, "unhush") \/ Moves(c, "idle"))
    BY <1>26, Continued
  <2>2. Op(c) \in {"iResume", "cResume"}
    BY <1>1, <2>1, WhoIsThere, Thens DEF Stopping, Routes, Op
  <2>3. \A d \in Callers \ {c} : call[d] = Idle
    BY <2>1, Alone
  <2>4. QED
    BY <1>1, <1>26, <2>1, <2>2, <2>3, IdleIs DEF OpenForRecording, NoneAt, At, Op, Rearm,
       Moves, FlagsFollow, flagVars
<1>27. ASSUME NEW c \in Callers, Respawn(c)
     PROVE  OpenForRecording'
  <2>1. At(c) = "respawn" /\ Moves(c, "unhush")
    BY <1>27, Continued
  <2>2. Op(c) \in {"iResume", "cResume"}
    BY <1>1, <2>1, WhoIsThere, Thens DEF Stopping, Routes, Op
  <2>3. \A d \in Callers \ {c} : call[d] = Idle
    BY <2>1, Alone
  <2>4. QED
    BY <1>1, <1>27, <2>1, <2>2, <2>3, IdleIs DEF OpenForRecording, NoneAt, At, Op, Respawn,
       Moves, flagVars
<1>28. ASSUME NEW c \in Callers, Unhush(c)
     PROVE  OpenForRecording'
  <2>1. At(c) = "unhush" /\ Moves(c, "idle")
    BY <1>28, Continued
  <2>2. Op(c) \in {"iResume", "cResume"}
    BY <1>1, <2>1, WhoIsThere, Thens DEF Stopping, Routes, Op
  <2>3. \A d \in Callers \ {c} : call[d] = Idle
    BY <2>1, Alone
  <2>4. QED
    BY <1>1, <1>28, <2>1, <2>2, <2>3, IdleIs DEF OpenForRecording, NoneAt, At, Op, Unhush,
       Moves, flagVars
<1>29. ASSUME NEW w \in Workers, LoadFails(w)
     PROVE  OpenForRecording'
  BY <1>29, <1>1, <1>2 DEF OpenForRecording, NoneAt, At, Op, LoadFails
<1>30. ASSUME NEW w \in Workers, WorkerCrashes(w)
     PROVE  OpenForRecording'
  BY <1>30, <1>1, <1>2 DEF OpenForRecording, NoneAt, At, Op, WorkerCrashes
<1>31. ASSUME NEW w \in Workers, Finish(w)
     PROVE  OpenForRecording'
  BY <1>31, <1>1, <1>2 DEF OpenForRecording, NoneAt, At, Op, Finish, callVars
<1>32. ASSUME AudioDies
     PROVE  OpenForRecording'
  BY <1>32, <1>1, <1>2 DEF OpenForRecording, NoneAt, At, Op, AudioDies, callVars
<1>33. QED
  BY <1>3, <1>4, <1>5, <1>6, <1>7, <1>8, <1>9, <1>10, <1>11, <1>12, <1>13, <1>14, <1>15,
     <1>16, <1>17, <1>18, <1>19, <1>20, <1>21, <1>22, <1>23, <1>24, <1>25, <1>26, <1>27,
     <1>28, <1>29, <1>30, <1>31, <1>32, CallFrame, FlagFrame

-----------------------------------------------------------------------------
(* One request at a time, and every thread joined to its end: one worker.  *)

PatientIInv ==
    /\ CaptureShape /\ Loaded /\ Publishing /\ Routes /\ Bridge /\ OneCall /\ FlagsFollow
    /\ OneWorker /\ Emptied

\* A patient behaviour is calm, and joins do not give up.
LEMMA PatientIs == Patient => Calm /\ ~GivesUp
BY DEF Patient, Calm, GivesUp

\* No worker becomes unborn again.
LEMMA Grown ==
    ASSUME ThreadShape, CaptureNext
    PROVE  \A v \in Workers : wst[v] \notin Fresh => wst'[v] \notin Fresh
<1>1. CASE UNCHANGED threadVars
  BY <1>1 DEF ThreadShape, threadVars
<1>2. ASSUME NEW c \in Callers, JoinWorker(c)
     PROVE  \A v \in Workers : wst[v] \notin Fresh => wst'[v] \notin Fresh
  BY <1>2 DEF ThreadShape, JoinWorker, Fresh, Move
<1>3. ASSUME NEW c \in Callers, AwaitDrain(c)
     PROVE  \A v \in Workers : wst[v] \notin Fresh => wst'[v] \notin Fresh
  BY <1>3 DEF ThreadShape, AwaitDrain, Fresh, Move
<1>4. ASSUME NEW c \in Callers, Settle(c)
     PROVE  \A v \in Workers : wst[v] \notin Fresh => wst'[v] \notin Fresh
  BY <1>4 DEF ThreadShape, Settle, Fresh, Move
<1>5. ASSUME NEW c \in Callers, Spawn(c)
     PROVE  \A v \in Workers : wst[v] \notin Fresh => wst'[v] \notin Fresh
  <2>1. CASE UNCHANGED <<worker, wst>>
    BY <2>1
  <2>2. ASSUME NEW x \in Workers, wst[x] = "unborn", wst' = [wst EXCEPT ![x] = "load"]
        PROVE  \A v \in Workers : wst[v] \notin Fresh => wst'[v] \notin Fresh
    BY <2>2 DEF ThreadShape, Fresh
  <2>3. QED
    BY <1>5, <2>1, <2>2 DEF Spawn, SpawnIfNeeded
<1>6. ASSUME NEW c \in Callers, Respawn(c)
     PROVE  \A v \in Workers : wst[v] \notin Fresh => wst'[v] \notin Fresh
  <2>1. CASE UNCHANGED <<worker, wst>>
    BY <2>1
  <2>2. ASSUME NEW x \in Workers, wst[x] = "unborn", wst' = [wst EXCEPT ![x] = "load"]
        PROVE  \A v \in Workers : wst[v] \notin Fresh => wst'[v] \notin Fresh
    BY <2>2 DEF ThreadShape, Fresh
  <2>3. QED
    BY <1>6, <2>1, <2>2 DEF Respawn, SpawnIfNeeded
<1>7. ASSUME NEW w \in Workers, Load(w)
     PROVE  \A v \in Workers : wst[v] \notin Fresh => wst'[v] \notin Fresh
  BY <1>7 DEF ThreadShape, Load, Fresh, Move
<1>8. ASSUME NEW w \in Workers, LoadFails(w)
     PROVE  \A v \in Workers : wst[v] \notin Fresh => wst'[v] \notin Fresh
  BY <1>8 DEF ThreadShape, LoadFails, Fresh, Move
<1>9. ASSUME NEW w \in Workers, Check(w)
     PROVE  \A v \in Workers : wst[v] \notin Fresh => wst'[v] \notin Fresh
  BY <1>9 DEF ThreadShape, Check, Fresh, Move
<1>10. ASSUME NEW w \in Workers, Look(w)
     PROVE  \A v \in Workers : wst[v] \notin Fresh => wst'[v] \notin Fresh
  BY <1>10 DEF ThreadShape, Look, Fresh, Move
<1>11. ASSUME NEW w \in Workers, WorkerCrashes(w)
     PROVE  \A v \in Workers : wst[v] \notin Fresh => wst'[v] \notin Fresh
  BY <1>11 DEF ThreadShape, WorkerCrashes, Fresh, Move
<1>12. ASSUME NEW w \in Workers, Finish(w)
     PROVE  \A v \in Workers : wst[v] \notin Fresh => wst'[v] \notin Fresh
  BY <1>12 DEF ThreadShape, Finish, Fresh, Move
<1>13. ASSUME NEW w \in Workers, WorkerEnds(w)
     PROVE  \A v \in Workers : wst[v] \notin Fresh => wst'[v] \notin Fresh
  BY <1>13 DEF ThreadShape, WorkerEnds, Fresh, Move
<1>14. ASSUME NEW w \in Workers, AsrTake(w)
     PROVE  \A v \in Workers : wst[v] \notin Fresh => wst'[v] \notin Fresh
  BY <1>14 DEF ThreadShape, AsrTake, Fresh, Move
<1>15. ASSUME NEW w \in Workers, AsrMerge(w)
     PROVE  \A v \in Workers : wst[v] \notin Fresh => wst'[v] \notin Fresh
  BY <1>15 DEF ThreadShape, AsrMerge, Fresh, Move
<1>16. ASSUME NEW w \in Workers, AsrDone(w)
     PROVE  \A v \in Workers : wst[v] \notin Fresh => wst'[v] \notin Fresh
  BY <1>16 DEF ThreadShape, AsrDone, Fresh, Move
<1>17. ASSUME NEW w \in Workers, AsrEnds(w)
     PROVE  \A v \in Workers : wst[v] \notin Fresh => wst'[v] \notin Fresh
  BY <1>17 DEF ThreadShape, AsrEnds, Fresh, Move
<1>18. QED
  BY <1>1, <1>2, <1>3, <1>4, <1>5, <1>6, <1>7, <1>8, <1>9, <1>10, <1>11, <1>12, <1>13,
     <1>14, <1>15, <1>16, <1>17, ThreadFrame

JoinedGrown == \A c \in Callers : call[c].joined # 0 => wst[call[c].joined] \notin Fresh
RuntimeGrown == runtime # 0 => wst[runtime] \notin Fresh

\* A runtime that is awaited has been loaded.
LEMMA JoinedStep ==
    ASSUME CaptureShape, JoinedGrown, RuntimeGrown, CaptureNext
    PROVE  JoinedGrown'
<1>1. CallShape /\ ThreadShape /\ JoinedGrown
  BY DEF CaptureShape
<1>2. \A c \in Callers : call[c].joined \in 0..MaxWorkers
  BY <1>1 DEF CallShape, CallTypes
<1>3. \A v \in Workers : wst[v] \notin Fresh => wst'[v] \notin Fresh
  BY <1>1, Grown
<1>4. \A c \in Callers : call'[c] = call[c] => (call'[c].joined # 0 => wst'[call'[c].joined] \notin Fresh)
  BY <1>1, <1>2, <1>3 DEF JoinedGrown, Workers
<1>5. CASE UNCHANGED callVars
  BY <1>5, <1>1, <1>2, <1>3, <1>4 DEF JoinedGrown, callVars
<1>6. ASSUME NEW c \in Callers, InterviewStart(c)
     PROVE  JoinedGrown'
  <2>1. At(c) = "idle" /\ Enters(c, "iStart", "signal", "open") /\ call'[c].kept = Idle.kept
    BY <1>6, EnterMoves DEF InterviewStart, Entered
  <2>2. QED
    BY <1>4, <2>1 DEF JoinedGrown, Enters
<1>7. ASSUME NEW c \in Callers, InterviewStop(c)
     PROVE  JoinedGrown'
  <2>1. At(c) = "idle" /\ Enters(c, "iStop", "signal", "idle") /\ call'[c].kept = Idle.kept
    BY <1>7, EnterMoves DEF InterviewStop, Entered
  <2>2. QED
    BY <1>4, <2>1 DEF JoinedGrown, Enters
<1>8. ASSUME NEW c \in Callers, InterviewPause(c)
     PROVE  JoinedGrown'
  <2>1. At(c) = "idle" /\ Enters(c, "iPause", "hush", "idle") /\ call'[c].kept = Idle.kept
    BY <1>8, EnterMoves DEF InterviewPause, Entered
  <2>2. QED
    BY <1>4, <2>1 DEF JoinedGrown, Enters
<1>9. ASSUME NEW c \in Callers, InterviewResume(c)
     PROVE  JoinedGrown'
  <2>1. At(c) = "idle" /\ Enters(c, "iResume", "rearm", "idle") /\ call'[c].kept = Idle.kept
    BY <1>9, EnterMoves DEF InterviewResume, Entered
  <2>2. QED
    BY <1>4, <2>1 DEF JoinedGrown, Enters
<1>10. ASSUME NEW c \in Callers, ConversationStart(c)
     PROVE  JoinedGrown'
  <2>1. At(c) = "idle" /\ Enters(c, "cStart", "borrow", "open") /\ call'[c].kept = Idle.kept
    BY <1>10, EnterMoves DEF ConversationStart, Entered
  <2>2. QED
    BY <1>4, <2>1 DEF JoinedGrown, Enters
<1>11. ASSUME NEW c \in Callers, ConversationPause(c)
     PROVE  JoinedGrown'
  <2>1. /\ At(c) = "idle"
        /\ Enters(c, "cPause", "hush", "idle") \/ Enters(c, "cResume", "rearm", "idle")
        /\ call'[c].kept = Idle.kept
    BY <1>11, EnterMoves DEF ConversationPause, Entered
  <2>2. QED
    BY <1>4, <2>1 DEF JoinedGrown, Enters
<1>12. ASSUME NEW c \in Callers, ConversationStop(c)
     PROVE  JoinedGrown'
  <2>1. /\ At(c) = "idle" /\ Enters(c, "cStop", "signal", "restore")
        /\ call'[c].kept = [overlay |-> previous, flags |-> snapshot]
    BY <1>12, StopMoves
  <2>2. QED
    BY <1>4, <2>1 DEF JoinedGrown, Enters
<1>13. ASSUME NEW c \in Callers, Borrow(c)
     PROVE  JoinedGrown'
  <2>1. At(c) = "borrow" /\ Moves(c, "signal")
    BY <1>13, Continued
  <2>2. call'[c].joined = 0 \/ call'[c].joined = call[c].joined
    BY <2>1, IdleIs DEF Moves
  <2>3. call'[c].joined # 0 => wst'[call'[c].joined] \notin Fresh
    BY <1>1, <1>2, <1>3, <2>2 DEF JoinedGrown, Workers
  <2>4. QED
    BY <1>4, <2>1, <2>3 DEF JoinedGrown, Moves
<1>14. ASSUME NEW c \in Callers, Signal(c)
     PROVE  JoinedGrown'
  <2>1. /\ At(c) = "signal" /\ call'[c].at = "join" /\ call'[c].joined = runtime
        /\ call'[c].op = call[c].op /\ call'[c].then = call[c].then /\ call'[c].kept = call[c].kept
        /\ \A d \in Callers \ {c} : call'[d] = call[d]
    BY <1>14, SignalMoves
  <2>2. runtime \in 0..MaxWorkers /\ (runtime # 0 => wst'[runtime] \notin Fresh)
    BY <1>1, <1>3 DEF ThreadShape, RuntimeGrown, Workers
  <2>3. QED
    BY <1>4, <2>1, <2>2 DEF JoinedGrown
<1>15. ASSUME NEW c \in Callers, JoinWorker(c)
     PROVE  JoinedGrown'
  <2>1. At(c) = "join" /\ Moves(c, "drain")
    BY <1>15, Continued
  <2>2. call'[c].joined = 0 \/ call'[c].joined = call[c].joined
    BY <2>1, IdleIs DEF Moves
  <2>3. call'[c].joined # 0 => wst'[call'[c].joined] \notin Fresh
    BY <1>1, <1>2, <1>3, <2>2 DEF JoinedGrown, Workers
  <2>4. QED
    BY <1>4, <2>1, <2>3 DEF JoinedGrown, Moves
<1>16. ASSUME NEW c \in Callers, AwaitDrain(c)
     PROVE  JoinedGrown'
  <2>1. At(c) = "drain" /\ Moves(c, "flush")
    BY <1>16, Continued
  <2>2. call'[c].joined = 0 \/ call'[c].joined = call[c].joined
    BY <2>1, IdleIs DEF Moves
  <2>3. call'[c].joined # 0 => wst'[call'[c].joined] \notin Fresh
    BY <1>1, <1>2, <1>3, <2>2 DEF JoinedGrown, Workers
  <2>4. QED
    BY <1>4, <2>1, <2>3 DEF JoinedGrown, Moves
<1>17. ASSUME NEW c \in Callers, FinalFlush(c)
     PROVE  JoinedGrown'
  <2>1. At(c) = "flush" /\ Moves(c, "flushing")
    BY <1>17, Continued
  <2>2. call'[c].joined = 0 \/ call'[c].joined = call[c].joined
    BY <2>1, IdleIs DEF Moves
  <2>3. call'[c].joined # 0 => wst'[call'[c].joined] \notin Fresh
    BY <1>1, <1>2, <1>3, <2>2 DEF JoinedGrown, Workers
  <2>4. QED
    BY <1>4, <2>1, <2>3 DEF JoinedGrown, Moves
<1>18. ASSUME NEW c \in Callers, Settle(c)
     PROVE  JoinedGrown'
  <2>1. At(c) = "flushing" /\ Moves(c, call[c].then)
    BY <1>18, Continued
  <2>2. call'[c].joined = 0 \/ call'[c].joined = call[c].joined
    BY <2>1, IdleIs DEF Moves
  <2>3. call'[c].joined # 0 => wst'[call'[c].joined] \notin Fresh
    BY <1>1, <1>2, <1>3, <2>2 DEF JoinedGrown, Workers
  <2>4. QED
    BY <1>4, <2>1, <2>3 DEF JoinedGrown, Moves
<1>19. ASSUME NEW c \in Callers, Open(c)
     PROVE  JoinedGrown'
  <2>1. At(c) = "open" /\ Moves(c, "flag")
    BY <1>19, Continued
  <2>2. call'[c].joined = 0 \/ call'[c].joined = call[c].joined
    BY <2>1, IdleIs DEF Moves
  <2>3. call'[c].joined # 0 => wst'[call'[c].joined] \notin Fresh
    BY <1>1, <1>2, <1>3, <2>2 DEF JoinedGrown, Workers
  <2>4. QED
    BY <1>4, <2>1, <2>3 DEF JoinedGrown, Moves
<1>20. ASSUME NEW c \in Callers, OpenFails(c)
     PROVE  JoinedGrown'
  <2>1. At(c) = "open" /\ Moves(c, "idle")
    BY <1>20, Continued
  <2>2. call'[c].joined = 0 \/ call'[c].joined = call[c].joined
    BY <2>1, IdleIs DEF Moves
  <2>3. call'[c].joined # 0 => wst'[call'[c].joined] \notin Fresh
    BY <1>1, <1>2, <1>3, <2>2 DEF JoinedGrown, Workers
  <2>4. QED
    BY <1>4, <2>1, <2>3 DEF JoinedGrown, Moves
<1>21. ASSUME NEW c \in Callers, Flag(c)
     PROVE  JoinedGrown'
  <2>1. At(c) = "flag" /\ Moves(c, "spawn")
    BY <1>21, Continued
  <2>2. call'[c].joined = 0 \/ call'[c].joined = call[c].joined
    BY <2>1, IdleIs DEF Moves
  <2>3. call'[c].joined # 0 => wst'[call'[c].joined] \notin Fresh
    BY <1>1, <1>2, <1>3, <2>2 DEF JoinedGrown, Workers
  <2>4. QED
    BY <1>4, <2>1, <2>3 DEF JoinedGrown, Moves
<1>22. ASSUME NEW c \in Callers, Spawn(c)
     PROVE  JoinedGrown'
  <2>1. At(c) = "spawn" /\ Moves(c, IF call[c].op = "cStart" THEN "commit" ELSE "idle")
    BY <1>22, Continued
  <2>2. call'[c].joined = 0 \/ call'[c].joined = call[c].joined
    BY <2>1, IdleIs DEF Moves
  <2>3. call'[c].joined # 0 => wst'[call'[c].joined] \notin Fresh
    BY <1>1, <1>2, <1>3, <2>2 DEF JoinedGrown, Workers
  <2>4. QED
    BY <1>4, <2>1, <2>3 DEF JoinedGrown, Moves
<1>23. ASSUME NEW c \in Callers, Commit(c)
     PROVE  JoinedGrown'
  <2>1. At(c) = "commit" /\ Moves(c, "idle")
    BY <1>23, Continued
  <2>2. call'[c].joined = 0 \/ call'[c].joined = call[c].joined
    BY <2>1, IdleIs DEF Moves
  <2>3. call'[c].joined # 0 => wst'[call'[c].joined] \notin Fresh
    BY <1>1, <1>2, <1>3, <2>2 DEF JoinedGrown, Workers
  <2>4. QED
    BY <1>4, <2>1, <2>3 DEF JoinedGrown, Moves
<1>24. ASSUME NEW c \in Callers, Restore(c)
     PROVE  JoinedGrown'
  <2>1. At(c) = "restore" /\ Moves(c, "release")
    BY <1>24, Continued
  <2>2. call'[c].joined = 0 \/ call'[c].joined = call[c].joined
    BY <2>1, IdleIs DEF Moves
  <2>3. call'[c].joined # 0 => wst'[call'[c].joined] \notin Fresh
    BY <1>1, <1>2, <1>3, <2>2 DEF JoinedGrown, Workers
  <2>4. QED
    BY <1>4, <2>1, <2>3 DEF JoinedGrown, Moves
<1>25. ASSUME NEW c \in Callers, Release(c)
     PROVE  JoinedGrown'
  <2>1. At(c) = "release" /\ Moves(c, "idle")
    BY <1>25, Continued
  <2>2. call'[c].joined = 0 \/ call'[c].joined = call[c].joined
    BY <2>1, IdleIs DEF Moves
  <2>3. call'[c].joined # 0 => wst'[call'[c].joined] \notin Fresh
    BY <1>1, <1>2, <1>3, <2>2 DEF JoinedGrown, Workers
  <2>4. QED
    BY <1>4, <2>1, <2>3 DEF JoinedGrown, Moves
<1>26. ASSUME NEW c \in Callers, Hush(c)
     PROVE  JoinedGrown'
  <2>1. At(c) = "hush" /\ Moves(c, "hushed")
    BY <1>26, Continued
  <2>2. call'[c].joined = 0 \/ call'[c].joined = call[c].joined
    BY <2>1, IdleIs DEF Moves
  <2>3. call'[c].joined # 0 => wst'[call'[c].joined] \notin Fresh
    BY <1>1, <1>2, <1>3, <2>2 DEF JoinedGrown, Workers
  <2>4. QED
    BY <1>4, <2>1, <2>3 DEF JoinedGrown, Moves
<1>27. ASSUME NEW c \in Callers, Hushed(c)
     PROVE  JoinedGrown'
  <2>1. At(c) = "hushed" /\ Moves(c, "idle")
    BY <1>27, Continued
  <2>2. call'[c].joined = 0 \/ call'[c].joined = call[c].joined
    BY <2>1, IdleIs DEF Moves
  <2>3. call'[c].joined # 0 => wst'[call'[c].joined] \notin Fresh
    BY <1>1, <1>2, <1>3, <2>2 DEF JoinedGrown, Workers
  <2>4. QED
    BY <1>4, <2>1, <2>3 DEF JoinedGrown, Moves
<1>28. ASSUME NEW c \in Callers, Rearm(c)
     PROVE  JoinedGrown'
  <2>1. At(c) = "rearm" /\ (Moves(c, "respawn") \/ Moves(c, "unhush") \/ Moves(c, "idle"))
    BY <1>28, Continued
  <2>2. call'[c].joined = 0 \/ call'[c].joined = call[c].joined
    BY <2>1, IdleIs DEF Moves
  <2>3. call'[c].joined # 0 => wst'[call'[c].joined] \notin Fresh
    BY <1>1, <1>2, <1>3, <2>2 DEF JoinedGrown, Workers
  <2>4. QED
    BY <1>4, <2>1, <2>3 DEF JoinedGrown, Moves
<1>29. ASSUME NEW c \in Callers, Respawn(c)
     PROVE  JoinedGrown'
  <2>1. At(c) = "respawn" /\ Moves(c, "unhush")
    BY <1>29, Continued
  <2>2. call'[c].joined = 0 \/ call'[c].joined = call[c].joined
    BY <2>1, IdleIs DEF Moves
  <2>3. call'[c].joined # 0 => wst'[call'[c].joined] \notin Fresh
    BY <1>1, <1>2, <1>3, <2>2 DEF JoinedGrown, Workers
  <2>4. QED
    BY <1>4, <2>1, <2>3 DEF JoinedGrown, Moves
<1>30. ASSUME NEW c \in Callers, Unhush(c)
     PROVE  JoinedGrown'
  <2>1. At(c) = "unhush" /\ Moves(c, "idle")
    BY <1>30, Continued
  <2>2. call'[c].joined = 0 \/ call'[c].joined = call[c].joined
    BY <2>1, IdleIs DEF Moves
  <2>3. call'[c].joined # 0 => wst'[call'[c].joined] \notin Fresh
    BY <1>1, <1>2, <1>3, <2>2 DEF JoinedGrown, Workers
  <2>4. QED
    BY <1>4, <2>1, <2>3 DEF JoinedGrown, Moves
<1>31. QED
  BY <1>5, <1>6, <1>7, <1>8, <1>9, <1>10, <1>11, <1>12, <1>13, <1>14, <1>15, <1>16, <1>17,
     <1>18, <1>19, <1>20, <1>21, <1>22, <1>23, <1>24, <1>25, <1>26, <1>27, <1>28, <1>29,
     <1>30, CallFrame

\* What OneWorker says of the threads.
Threads ==
    /\ \A w \in Workers :
          /\ WorkerAlive(w) => w = worker
          /\ AsrAlive(w) => wst[w] \in Capturing /\ asr = w
          /\ wst[w] \in Capturing => rt[w] = runtime
          /\ rt[w] # 0 => wst[rt[w]] \notin Fresh
          /\ wst[w] \in Fresh => queue[w] = <<>> /\ ~drain[w]
    /\ RuntimeGrown

\* The parts of OneWorker.
LEMMA OneWorkerIs == OneWorker <=> Threads /\ JoinedGrown
BY DEF OneWorker, Threads, JoinedGrown, RuntimeGrown

\* One worker, one recogniser.
LEMMA ThreadsStep ==
    ASSUME PatientIInv, Patient, CaptureNext
    PROVE  Threads'
<1>1. ThreadShape /\ CaptureShape /\ Loaded /\ Threads /\ JoinedGrown /\ ~GivesUp /\ "load" \notin hazards /\ "crash" \notin hazards
  BY OneWorkerIs, PatientIs DEF PatientIInv, CaptureShape, Patient
<1>2. \A v \in Workers : /\ (WorkerAlive(v) <=> wst[v] \notin {"unborn", "dead"})
                           /\ (AsrAlive(v) <=> ast[v] \notin {"none", "dead"})
  BY DEF WorkerAlive, AsrAlive
<1>3. \A v \in Workers : rt[v] \in 0..MaxWorkers
  BY <1>1 DEF ThreadShape
<1>4. CASE UNCHANGED threadVars
  BY <1>4, <1>1, <1>2, <1>3 DEF Threads, RuntimeGrown, WorkerAlive, AsrAlive, threadVars
<1>5. ASSUME NEW c \in Callers, JoinWorker(c)
     PROVE  Threads'
  <2>1. \A v \in Workers : ~WorkerAlive(v)
    BY <1>1, <1>5 DEF JoinWorker, Threads
  <2>2. /\ UNCHANGED <<asr, runtime, wst, rt, ast, queue>>
        /\ \A r \in Workers : drain'[r] => drain[r] \/ r = call[c].joined
    BY <1>5 DEF JoinWorker
  <2>3. QED
    BY <1>1, <1>2, <2>1, <2>2 DEF Threads, RuntimeGrown, JoinedGrown, WorkerAlive, AsrAlive, Workers
<1>6. ASSUME NEW c \in Callers, AwaitDrain(c)
     PROVE  Threads'
  <2>1. \A v \in Workers : ~WorkerAlive(v)
    BY <1>6, Continued DEF PatientIInv, Emptied, NoWorker
  <2>2. \A v \in Workers : ~AsrAlive(v) /\ wst[v] \notin Capturing
    BY <1>1, <1>2, <2>1 DEF Threads, Capturing
  <2>3. UNCHANGED <<worker, runtime, wst, rt, ast, queue, drain>>
    BY <1>6 DEF AwaitDrain
  <2>4. QED
    BY <1>1, <1>2, <2>1, <2>2, <2>3 DEF Threads, RuntimeGrown, WorkerAlive, AsrAlive
<1>7. ASSUME NEW c \in Callers, Settle(c)
     PROVE  Threads'
  <2>1. \A v \in Workers : ~WorkerAlive(v)
    BY <1>7, Continued DEF PatientIInv, Emptied, NoWorker
  <2>2. \A v \in Workers : ~AsrAlive(v) /\ wst[v] \notin Capturing
    BY <1>1, <1>2, <2>1 DEF Threads, Capturing
  <2>3. runtime' = 0 /\ UNCHANGED <<worker, asr, wst, rt, ast, queue, drain>>
    BY <1>7 DEF Settle
  <2>4. QED
    BY <1>1, <1>2, <2>1, <2>2, <2>3 DEF Threads, RuntimeGrown, WorkerAlive, AsrAlive
<1>8. ASSUME NEW c \in Callers, Spawn(c)
     PROVE  Threads'
  <2>1. CASE UNCHANGED <<worker, wst>>
    BY <1>1, <1>8, <2>1 DEF Threads, RuntimeGrown, WorkerAlive, AsrAlive, Spawn
  <2>2. ASSUME NEW x \in Workers, wst[x] = "unborn", worker' = x, wst' = [wst EXCEPT ![x] = "load"],
               ~WorkerAlive(worker)
        PROVE  Threads'
    <3>1. UNCHANGED <<asr, runtime, rt, ast, queue, drain>>
      BY <1>8 DEF Spawn
    <3>2. \A v \in Workers : wst'[v] = IF v = x THEN "load" ELSE wst[v]
      BY <1>1, <2>2 DEF ThreadShape
    <3>3. \A v \in Workers : ~WorkerAlive(v)
      BY <1>1, <2>2 DEF Threads
    <3>4. x # runtime /\ \A v \in Workers : x # rt[v]
      BY <1>1, <2>2, Sizes DEF Threads, RuntimeGrown, Fresh, Workers
    <3>5. ~AsrAlive(x)
      BY <1>1, <2>2 DEF Threads, Capturing
    <3>6. QED
      BY <1>1, <1>2, <1>3, <2>2, <3>1, <3>2, <3>3, <3>4, <3>5 DEF Threads, RuntimeGrown, WorkerAlive, AsrAlive, Fresh, Capturing, ThreadShape, Workers
  <2>3. QED
    BY <1>8, <2>1, <2>2 DEF Spawn, SpawnIfNeeded
<1>9. ASSUME NEW c \in Callers, Respawn(c)
     PROVE  Threads'
  <2>1. CASE UNCHANGED <<worker, wst>>
    BY <1>1, <1>9, <2>1 DEF Threads, RuntimeGrown, WorkerAlive, AsrAlive, Respawn
  <2>2. ASSUME NEW x \in Workers, wst[x] = "unborn", worker' = x, wst' = [wst EXCEPT ![x] = "load"],
               ~WorkerAlive(worker)
        PROVE  Threads'
    <3>1. UNCHANGED <<asr, runtime, rt, ast, queue, drain>>
      BY <1>9 DEF Respawn
    <3>2. \A v \in Workers : wst'[v] = IF v = x THEN "load" ELSE wst[v]
      BY <1>1, <2>2 DEF ThreadShape
    <3>3. \A v \in Workers : ~WorkerAlive(v)
      BY <1>1, <2>2 DEF Threads
    <3>4. x # runtime /\ \A v \in Workers : x # rt[v]
      BY <1>1, <2>2, Sizes DEF Threads, RuntimeGrown, Fresh, Workers
    <3>5. ~AsrAlive(x)
      BY <1>1, <2>2 DEF Threads, Capturing
    <3>6. QED
      BY <1>1, <1>2, <1>3, <2>2, <3>1, <3>2, <3>3, <3>4, <3>5 DEF Threads, RuntimeGrown, WorkerAlive, AsrAlive, Fresh, Capturing, ThreadShape, Workers
  <2>3. QED
    BY <1>9, <2>1, <2>2 DEF Respawn, SpawnIfNeeded
<1>10. ASSUME NEW w \in Workers, Load(w)
     PROVE  Threads'
  <2>1. /\ wst[w] = "load" /\ wst' = [wst EXCEPT ![w] = "check"] /\ asr' = w
        /\ ast' = [ast EXCEPT ![w] = "wait"] /\ rt' = [rt EXCEPT ![w] = runtime']
        /\ runtime' = (IF runtime # 0 THEN runtime ELSE w) /\ UNCHANGED <<worker, queue, drain>>
    BY <1>10 DEF Load, Move
  <2>2. worker = w /\ \A v \in Workers : v # w => ~WorkerAlive(v) /\ wst[v] \notin Capturing
    BY <1>1, <1>2, <2>1 DEF Threads, Capturing
  <2>3. \A v \in Workers : ~AsrAlive(v)
    BY <1>1, <2>1, <2>2 DEF Threads, Capturing
  <2>4. \A v \in Workers : /\ wst'[v] = IF v = w THEN "check" ELSE wst[v]
                           /\ ast'[v] = IF v = w THEN "wait" ELSE ast[v]
                           /\ rt'[v] = IF v = w THEN runtime' ELSE rt[v]
    BY <1>1, <2>1 DEF ThreadShape
  <2>5. \A v \in Workers : wst[v] \notin Fresh => wst'[v] \notin Fresh
    BY <2>4 DEF Fresh
  <2>6. runtime' \in Workers /\ wst'[runtime'] \notin Fresh
    BY <1>1, <2>1, <2>4, <2>5 DEF ThreadShape, Threads, RuntimeGrown, Fresh, Workers
  <2>7. \A v \in Workers : /\ (WorkerAlive(v))' => v = worker'
                           /\ (AsrAlive(v))' => wst'[v] \in Capturing /\ asr' = v
                           /\ wst'[v] \in Capturing => rt'[v] = runtime'
    BY <1>1, <1>2, <2>1, <2>2, <2>3, <2>4 DEF WorkerAlive, AsrAlive, Capturing
  <2>8. \A v \in Workers : rt'[v] # 0 => wst'[rt'[v]] \notin Fresh
    BY <1>1, <1>3, <2>4, <2>5, <2>6 DEF Threads, Workers
  <2>9. \A v \in Workers : wst'[v] \in Fresh => queue'[v] = <<>> /\ ~drain'[v]
    BY <1>1, <2>1, <2>5 DEF Threads
  <2>10. QED
    BY <2>6, <2>7, <2>8, <2>9 DEF Threads, RuntimeGrown
<1>11. ASSUME NEW w \in Workers, LoadFails(w)
     PROVE  Threads'
  BY <1>11, <1>1, <1>2, <1>3 DEF Threads, RuntimeGrown, WorkerAlive, AsrAlive, LoadFails
<1>12. ASSUME NEW w \in Workers, Check(w)
     PROVE  Threads'
  <2>1. rt[w] \in Workers /\ wst[w] \notin Fresh /\ wst[rt[w]] \notin Fresh
    BY <1>1, <1>12, HasRuntime DEF Check, Fresh, Move, Threads, Workers
  <2>2. \A v \in Workers : wst[v] \in Fresh => queue'[v] = queue[v]
    <3>1. CASE Emit(w)
      BY <1>1, <2>1, <3>1, EmitCuts DEF Cut
    <3>2. CASE UNCHANGED queue
      BY <3>2
    <3>3. QED
      BY <1>12, <3>1, <3>2 DEF Check, MaybeEmit
  <2>3. /\ UNCHANGED <<worker, asr, runtime, rt, ast, drain>>
        /\ wst[w] \in Capturing
        /\ UNCHANGED wst \/ \E to \in Capturing : wst' = [wst EXCEPT ![w] = to]
    BY <1>12 DEF Check, Move, Capturing
  <2>4. \A v \in Workers : /\ ((WorkerAlive(v))' <=> WorkerAlive(v)) /\ ((AsrAlive(v))' <=> AsrAlive(v))
                           /\ (wst'[v] \in Capturing <=> wst[v] \in Capturing)
                           /\ (wst'[v] \in Fresh <=> wst[v] \in Fresh)
    BY <1>1, <2>3 DEF WorkerAlive, AsrAlive, ThreadShape, Fresh, Capturing
  <2>5. QED
    BY <1>1, <1>3, <2>1, <2>2, <2>3, <2>4 DEF Threads, RuntimeGrown, ThreadShape, Workers
<1>13. ASSUME NEW w \in Workers, Look(w)
     PROVE  Threads'
  <2>1. rt[w] \in Workers /\ wst[w] \notin Fresh /\ wst[rt[w]] \notin Fresh
    BY <1>1, <1>13, HasRuntime DEF Look, Fresh, Move, Threads, Workers
  <2>2. \A v \in Workers : wst[v] \in Fresh => queue'[v] = queue[v]
    <3>1. CASE Emit(w)
      BY <1>1, <2>1, <3>1, EmitCuts DEF Cut
    <3>2. CASE UNCHANGED queue
      BY <3>2
    <3>3. QED
      BY <1>13, <3>1, <3>2 DEF Look, MaybeEmit
  <2>3. /\ UNCHANGED <<worker, asr, runtime, rt, ast, drain>>
        /\ wst[w] \in Capturing
        /\ UNCHANGED wst \/ \E to \in Capturing : wst' = [wst EXCEPT ![w] = to]
    BY <1>13 DEF Look, Move, Capturing
  <2>4. \A v \in Workers : /\ ((WorkerAlive(v))' <=> WorkerAlive(v)) /\ ((AsrAlive(v))' <=> AsrAlive(v))
                           /\ (wst'[v] \in Capturing <=> wst[v] \in Capturing)
                           /\ (wst'[v] \in Fresh <=> wst[v] \in Fresh)
    BY <1>1, <2>3 DEF WorkerAlive, AsrAlive, ThreadShape, Fresh, Capturing
  <2>5. QED
    BY <1>1, <1>3, <2>1, <2>2, <2>3, <2>4 DEF Threads, RuntimeGrown, ThreadShape, Workers
<1>14. ASSUME NEW w \in Workers, WorkerCrashes(w)
     PROVE  Threads'
  BY <1>14, <1>1, <1>2, <1>3 DEF Threads, RuntimeGrown, WorkerAlive, AsrAlive, WorkerCrashes
<1>15. ASSUME NEW w \in Workers, Finish(w)
     PROVE  Threads'
  <2>1. rt[w] \in Workers /\ wst[w] \notin Fresh /\ wst[rt[w]] \notin Fresh
    BY <1>1, <1>15, HasRuntime DEF Finish, Fresh, Move, Threads, Workers
  <2>2. \A v \in Workers : wst[v] \in Fresh => queue'[v] = queue[v]
    <3>1. CASE Emit(w)
      BY <1>1, <2>1, <3>1, EmitCuts DEF Cut
    <3>2. CASE UNCHANGED queue
      BY <3>2
    <3>3. QED
      BY <1>15, <3>1, <3>2 DEF Finish, MaybeEmit
  <2>3. /\ UNCHANGED <<worker, asr, runtime, rt, ast>>
        /\ wst[w] \in Capturing
        /\ UNCHANGED wst \/ \E to \in Capturing : wst' = [wst EXCEPT ![w] = to]
    BY <1>15 DEF Finish, Move, Capturing
  <2>4. \A v \in Workers : /\ ((WorkerAlive(v))' <=> WorkerAlive(v)) /\ ((AsrAlive(v))' <=> AsrAlive(v))
                           /\ (wst'[v] \in Capturing <=> wst[v] \in Capturing)
                           /\ (wst'[v] \in Fresh <=> wst[v] \in Fresh)
    BY <1>1, <2>3 DEF WorkerAlive, AsrAlive, ThreadShape, Fresh, Capturing
  <2>5. \A r \in Workers : drain'[r] => drain[r] \/ r = rt[w]
    BY <1>15 DEF Finish
  <2>6. QED
    BY <1>1, <1>3, <2>1, <2>2, <2>5, <2>3, <2>4 DEF Threads, RuntimeGrown, ThreadShape, Workers
<1>16. ASSUME NEW w \in Workers, WorkerEnds(w)
     PROVE  Threads'
  <2>1. /\ wst[w] = "last" /\ wst' = [wst EXCEPT ![w] = "dead"] /\ ~AsrAlive(asr)
        /\ UNCHANGED <<worker, asr, runtime, rt, ast, queue, drain>>
    BY <1>1, <1>16 DEF WorkerEnds, Move
  <2>2. \A v \in Workers : ~AsrAlive(v)
    BY <1>1, <2>1 DEF Threads
  <2>3. QED
    BY <1>1, <2>1, <2>2 DEF Threads, RuntimeGrown, WorkerAlive, AsrAlive, ThreadShape, Fresh, Capturing, Workers
<1>17. ASSUME NEW w \in Workers, AsrTake(w)
     PROVE  Threads'
  <2>1. wst[w] \in Capturing /\ rt[w] \in Workers
    BY <1>1, <1>2, <1>17, HasRuntime DEF Threads, AsrTake, Capturing, Fresh
  <2>2. \A v \in Workers : wst[v] \in Fresh => queue'[v] = queue[v]
    BY <1>1, <1>17, <2>1 DEF Threads, AsrTake, ThreadShape, Workers
  <2>3. ast' = [ast EXCEPT ![w] = "text"] /\ ast[w] = "wait" /\ UNCHANGED <<worker, asr, runtime, wst, rt, drain>>
    BY <1>17 DEF AsrTake
  <2>4. QED
    BY <1>1, <2>2, <2>3 DEF Threads, RuntimeGrown, WorkerAlive, AsrAlive, ThreadShape
<1>18. ASSUME NEW w \in Workers, AsrMerge(w)
     PROVE  Threads'
  <2>1. /\ ast[w] = "text" /\ UNCHANGED <<worker, asr, runtime, wst, rt, queue, drain>>
        /\ ast' = [ast EXCEPT ![w] = "publish"] \/ ast' = [ast EXCEPT ![w] = "wait"]
    BY <1>18 DEF AsrMerge
  <2>2. \A v \in Workers : (AsrAlive(v))' <=> AsrAlive(v)
    BY <1>1, <2>1 DEF AsrAlive, ThreadShape
  <2>3. QED
    BY <1>1, <2>1, <2>2 DEF Threads, RuntimeGrown, WorkerAlive
<1>19. ASSUME NEW w \in Workers, AsrDone(w)
     PROVE  Threads'
  <2>1. /\ ast' = [ast EXCEPT ![w] = "wait"] /\ ast[w] = "publish"
        /\ UNCHANGED <<worker, asr, runtime, wst, rt, queue, drain>>
    BY <1>19 DEF AsrDone
  <2>2. \A v \in Workers : (AsrAlive(v))' => AsrAlive(v)
    BY <1>1, <2>1 DEF AsrAlive, ThreadShape
  <2>3. QED
    BY <1>1, <2>1, <2>2 DEF Threads, RuntimeGrown, WorkerAlive
<1>20. ASSUME NEW w \in Workers, AsrEnds(w)
     PROVE  Threads'
  <2>1. /\ ast' = [ast EXCEPT ![w] = "dead"] /\ ast[w] = "wait"
        /\ UNCHANGED <<worker, asr, runtime, wst, rt, queue, drain>>
    BY <1>20 DEF AsrEnds
  <2>2. \A v \in Workers : (AsrAlive(v))' => AsrAlive(v)
    BY <1>1, <2>1 DEF AsrAlive, ThreadShape
  <2>3. QED
    BY <1>1, <2>1, <2>2 DEF Threads, RuntimeGrown, WorkerAlive
<1>21. QED
  BY <1>4, <1>5, <1>6, <1>7, <1>8, <1>9, <1>10, <1>11, <1>12, <1>13, <1>14, <1>15, <1>16,
     <1>17, <1>18, <1>19, <1>20, ThreadFrame

\* OneWorker is kept.
LEMMA OneWorkerStep ==
    ASSUME PatientIInv, Patient, CaptureNext
    PROVE  OneWorker'
<1>1. CaptureShape /\ JoinedGrown /\ RuntimeGrown
  BY OneWorkerIs DEF PatientIInv, Threads
<1>2. Threads' /\ JoinedGrown'
  BY <1>1, ThreadsStep, JoinedStep
<1>3. QED
  BY <1>2 DEF OneWorker, Threads, JoinedGrown, RuntimeGrown

\* No step makes a worker deaf whose runtime nobody had before.
LEMMA HearingStep ==
    ASSUME PatientIInv, Patient, Hearing, CaptureNext
    PROVE  Hearing'
<1>1. ThreadShape /\ CaptureShape /\ Loaded /\ Threads /\ ~GivesUp /\ "load" \notin hazards /\ "crash" \notin hazards
  BY OneWorkerIs, PatientIs DEF PatientIInv, CaptureShape, Patient
<1>2. \A v \in Workers : /\ (WorkerAlive(v) <=> wst[v] \notin {"unborn", "dead"})
                           /\ (AsrAlive(v) <=> ast[v] \notin {"none", "dead"})
  BY DEF WorkerAlive, AsrAlive
<1>3. CASE UNCHANGED threadVars
  BY <1>3 DEF Hearing, TakesOver, AsrAlive, threadVars
<1>4. ASSUME UNCHANGED <<runtime, rt>>, \A v \in Workers : wst'[v] \in Fresh => wst[v] \in Fresh,
             \A v \in Workers : wst'[v] \in {"check", "look", "finish"} =>
                /\ wst[v] \in {"check", "look", "finish"}
                /\ AsrAlive(v) /\ ~drain[rt[v]] => (AsrAlive(v))' /\ ~drain'[rt[v]]
      PROVE  Hearing'
  BY <1>4 DEF Hearing, TakesOver
<1>5. ASSUME NEW c \in Callers, JoinWorker(c)
      PROVE  Hearing'
  <2>1. \A v \in Workers : ~WorkerAlive(v)
    BY <1>1, <1>5 DEF JoinWorker, Threads
  <2>2. UNCHANGED <<runtime, wst, rt>>
    BY <1>5 DEF JoinWorker
  <2>3. QED
    BY <1>2, <1>4, <2>1, <2>2
<1>6. ASSUME NEW c \in Callers, AwaitDrain(c)
      PROVE  Hearing'
  BY <1>4, <1>6 DEF AwaitDrain, AsrAlive
<1>7. ASSUME NEW c \in Callers, Settle(c)
      PROVE  Hearing'
  BY <1>7 DEF Hearing, TakesOver, Settle, AsrAlive
<1>8. ASSUME NEW c \in Callers, Spawn(c) \/ Respawn(c)
      PROVE  Hearing'
  <2>1. UNCHANGED <<runtime, rt, ast, drain>>
    BY <1>8 DEF Spawn, Respawn
  <2>2. wst' = wst \/ \E x \in Workers : wst[x] = "unborn" /\ wst' = [wst EXCEPT ![x] = "load"]
    BY <1>8 DEF Spawn, Respawn, SpawnIfNeeded
  <2>3. \A v \in Workers : /\ wst'[v] \in Fresh => wst[v] \in Fresh
                           /\ wst'[v] \in {"check", "look", "finish"} => wst[v] \in {"check", "look", "finish"}
    BY <1>1, <2>2 DEF ThreadShape, Fresh
  <2>4. QED
    BY <1>4, <2>1, <2>3 DEF AsrAlive
<1>9. ASSUME NEW w \in Workers, Load(w)
      PROVE  Hearing'
  <2>1. /\ wst[w] = "load" /\ wst' = [wst EXCEPT ![w] = "check"]
        /\ ast' = [ast EXCEPT ![w] = "wait"] /\ rt' = [rt EXCEPT ![w] = runtime']
        /\ runtime' = (IF runtime # 0 THEN runtime ELSE w) /\ UNCHANGED drain
    BY <1>9 DEF Load, Move
  <2>2. \A v \in Workers : /\ wst'[v] = IF v = w THEN "check" ELSE wst[v]
                           /\ ast'[v] = IF v = w THEN "wait" ELSE ast[v]
                           /\ rt'[v] = IF v = w THEN runtime' ELSE rt[v]
    BY <1>1, <2>1 DEF ThreadShape
  <2>3. \A v \in Workers : v # w => wst[v] \in {"unborn", "dead"}
    BY <1>1, <1>2, <2>1 DEF Threads
  <2>4. rt[w] = 0 /\ ~drain[w]
    BY <1>1, <2>1 DEF Hearing, Threads, Fresh
  <2>5. runtime' # 0 => \E v \in Workers : rt'[v] = runtime'
    BY <2>2
  <2>6. \A v \in Workers : wst'[v] \in Fresh => rt'[v] = 0
    BY <2>2 DEF Hearing, Fresh
  <2>7. ((AsrAlive(w))' /\ ~drain'[rt'[w]]) \/ TakesOver(w)'
    <3>1. CASE runtime = 0
      BY <2>1, <2>2, <2>4, <3>1 DEF AsrAlive
    <3>2. CASE runtime # 0
      <4>1. PICK v \in Workers : rt[v] = runtime
        BY <3>2 DEF Hearing
      <4>2. v # w /\ rt'[v] = rt'[w]
        BY <2>1, <2>2, <2>4, <3>2, <4>1
      <4>3. QED
        BY <4>2 DEF TakesOver
    <3>3. QED
      BY <3>1, <3>2
  <2>8. QED
    BY <2>2, <2>3, <2>5, <2>6, <2>7 DEF Hearing
<1>10. ASSUME NEW w \in Workers, Check(w) \/ Look(w)
       PROVE  Hearing'
  <2>1. /\ UNCHANGED <<runtime, rt, ast, drain>> /\ wst[w] \in {"check", "look"}
        /\ wst' = wst \/ \E to \in {"check", "look", "finish"} : wst' = [wst EXCEPT ![w] = to]
    BY <1>10 DEF Check, Look, Move
  <2>2. \A v \in Workers : /\ wst'[v] \in Fresh => wst[v] \in Fresh
                           /\ wst'[v] \in {"check", "look", "finish"} => wst[v] \in {"check", "look", "finish"}
    BY <1>1, <2>1 DEF ThreadShape, Fresh
  <2>3. QED
    BY <1>4, <2>1, <2>2 DEF AsrAlive
<1>11. ASSUME NEW w \in Workers, LoadFails(w) \/ WorkerCrashes(w)
       PROVE  Hearing'
  BY <1>1, <1>11 DEF LoadFails, WorkerCrashes
<1>12. ASSUME NEW w \in Workers, Finish(w) \/ WorkerEnds(w)
       PROVE  Hearing'
  <2>1. /\ UNCHANGED <<runtime, rt>> /\ wst[w] \in {"finish", "last"}
        /\ \E to \in {"last", "dead"} : wst' = [wst EXCEPT ![w] = to]
    BY <1>12 DEF Finish, WorkerEnds, Move
  <2>2. \A v \in Workers : wst'[v] = wst[v] \/ wst'[v] \in {"last", "dead"}
    BY <1>1, <2>1 DEF ThreadShape
  <2>3. wst'[w] \in {"last", "dead"} /\ \A v \in Workers : v # w => wst[v] \in {"unborn", "dead"}
    BY <1>1, <1>2, <2>1 DEF ThreadShape, Threads
  <2>4. QED
    BY <1>4, <2>1, <2>2, <2>3 DEF Fresh
<1>13. ASSUME NEW w \in Workers, AsrTake(w) \/ AsrMerge(w) \/ AsrDone(w)
       PROVE  Hearing'
  <2>1. /\ UNCHANGED <<runtime, wst, rt, drain>>
        /\ \E to \in {"text", "publish", "wait"} : ast' = [ast EXCEPT ![w] = to]
    BY <1>13 DEF AsrTake, AsrMerge, AsrDone
  <2>2. \A v \in Workers : AsrAlive(v) => (AsrAlive(v))'
    BY <1>1, <2>1 DEF AsrAlive, ThreadShape
  <2>3. QED
    BY <1>4, <2>1, <2>2
<1>14. ASSUME NEW w \in Workers, AsrEnds(w)
       PROVE  Hearing'
  <2>1. /\ UNCHANGED <<runtime, wst, rt, drain>> /\ drain[rt[w]]
        /\ ast' = [ast EXCEPT ![w] = "dead"]
    BY <1>14 DEF AsrEnds
  <2>2. \A v \in Workers : v # w => (AsrAlive(v) => (AsrAlive(v))')
    BY <1>1, <2>1 DEF AsrAlive, ThreadShape
  <2>3. QED
    BY <1>4, <2>1, <2>2
<1>15. QED
  BY <1>3, <1>5, <1>6, <1>7, <1>8, <1>9, <1>10, <1>11, <1>12, <1>13, <1>14, ThreadFrame

-----------------------------------------------------------------------------
(* Where nothing of a recording is left.                                   *)

\* Without a worker there is no recogniser.
LEMMA NobodyWorks ==
    ASSUME PatientIInv, NoWorker
    PROVE  /\ \A w \in Workers : wst[w] \in {"unborn", "dead"} /\ ~AsrAlive(w) /\ ast[w] \in {"none", "dead"}
           /\ \A w \in Workers : pub[AsrOf(w)].step = "none" /\ cur[w] = 0
<1>1. ThreadShape /\ Loaded /\ Threads /\ Publishing
  BY OneWorkerIs DEF PatientIInv, CaptureShape
<1>2. \A w \in Workers : wst[w] \in {"unborn", "dead"}
  BY DEF NoWorker, WorkerAlive
<1>3. \A w \in Workers : ~AsrAlive(w)
  BY <1>1, <1>2 DEF Threads, Capturing
<1>4. \A w \in Workers : ast[w] \in {"none", "dead"}
  BY <1>3 DEF AsrAlive
<1>5. QED
  BY <1>1, <1>2, <1>3, <1>4 DEF Loaded, Publishing

\* While the ASR lock is free nothing is published.
LEMMA WhenFree ==
    ASSUME PatientIInv, asrLock = Nobody
    PROVE  \A t \in Publishers : pub[t].step = "none" /\ pub[t].text = {}
BY Distinct DEF PatientIInv, Publishing

\* Only a start or a resume makes a worker.
LEMMA StaysWithoutWorker ==
    ASSUME PatientIInv, CaptureNext, NoWorker,
           \A c \in Callers : ~Spawn(c) /\ ~Respawn(c)
    PROVE  NoWorker'
<1>1. \A v \in Workers : wst[v] \in {"unborn", "dead"} /\ ast[v] \in {"none", "dead"}
  BY NobodyWorks
<1>2. CASE UNCHANGED threadVars
  BY <1>2, <1>1 DEF NoWorker, WorkerAlive, threadVars
<1>3. ASSUME NEW c \in Callers, JoinWorker(c)
     PROVE  NoWorker'
  BY <1>3, <1>1 DEF NoWorker, WorkerAlive, JoinWorker
<1>4. ASSUME NEW c \in Callers, AwaitDrain(c)
     PROVE  NoWorker'
  BY <1>4, <1>1 DEF NoWorker, WorkerAlive, AwaitDrain
<1>5. ASSUME NEW c \in Callers, Settle(c)
     PROVE  NoWorker'
  BY <1>5, <1>1 DEF NoWorker, WorkerAlive, Settle
<1>6. ASSUME NEW c \in Callers, Spawn(c)
     PROVE  NoWorker'
  BY <1>6
<1>7. ASSUME NEW c \in Callers, Respawn(c)
     PROVE  NoWorker'
  BY <1>7
<1>8. ASSUME NEW w \in Workers, Load(w)
     PROVE  NoWorker'
  BY <1>8, <1>1 DEF NoWorker, WorkerAlive, Load, Move
<1>9. ASSUME NEW w \in Workers, LoadFails(w)
     PROVE  NoWorker'
  BY <1>9, <1>1 DEF NoWorker, WorkerAlive, LoadFails, Move
<1>10. ASSUME NEW w \in Workers, Check(w)
     PROVE  NoWorker'
  BY <1>10, <1>1 DEF NoWorker, WorkerAlive, Check, Move
<1>11. ASSUME NEW w \in Workers, Look(w)
     PROVE  NoWorker'
  BY <1>11, <1>1 DEF NoWorker, WorkerAlive, Look, Move
<1>12. ASSUME NEW w \in Workers, WorkerCrashes(w)
     PROVE  NoWorker'
  BY <1>12, <1>1 DEF NoWorker, WorkerAlive, WorkerCrashes, Move
<1>13. ASSUME NEW w \in Workers, Finish(w)
     PROVE  NoWorker'
  BY <1>13, <1>1 DEF NoWorker, WorkerAlive, Finish, Move
<1>14. ASSUME NEW w \in Workers, WorkerEnds(w)
     PROVE  NoWorker'
  BY <1>14, <1>1 DEF NoWorker, WorkerAlive, WorkerEnds, Move
<1>15. ASSUME NEW w \in Workers, AsrTake(w)
     PROVE  NoWorker'
  BY <1>15, <1>1 DEF NoWorker, WorkerAlive, AsrTake, Move
<1>16. ASSUME NEW w \in Workers, AsrMerge(w)
     PROVE  NoWorker'
  BY <1>16, <1>1 DEF NoWorker, WorkerAlive, AsrMerge, Move
<1>17. ASSUME NEW w \in Workers, AsrDone(w)
     PROVE  NoWorker'
  BY <1>17, <1>1 DEF NoWorker, WorkerAlive, AsrDone, Move
<1>18. ASSUME NEW w \in Workers, AsrEnds(w)
     PROVE  NoWorker'
  BY <1>18, <1>1 DEF NoWorker, WorkerAlive, AsrEnds, Move
<1>19. QED
  BY <1>2, <1>3, <1>4, <1>5, <1>6, <1>7, <1>8, <1>9, <1>10, <1>11, <1>12, <1>13, <1>14,
     <1>15, <1>16, <1>17, <1>18, ThreadFrame

\* What is empty stays empty until a start or a resume.
LEMMA StaysEmpty ==
    ASSUME PatientIInv, CaptureNext, EmptyPipe,
           \A c \in Callers : ~Spawn(c) /\ ~Respawn(c)
    PROVE  EmptyPipe'
<1>1. \A v \in Workers : wst[v] \in {"unborn", "dead"} /\ ast[v] \in {"none", "dead"}
  BY NobodyWorks DEF EmptyPipe
<1>2. NoWorker /\ FlushIdle /\ merge = {} /\ runtime = 0 /\ NoWorker'
  BY StaysWithoutWorker DEF EmptyPipe
<1>3. MergeShape /\ \A v \in Workers : FlushOf(v) \in Publishers
  BY WhoPublishes DEF PatientIInv, CaptureShape
<1>4. CASE UNCHANGED threadVars /\ UNCHANGED mergeVars
  BY <1>4, <1>1, <1>2, <1>3 DEF EmptyPipe, FlushIdle, threadVars, mergeVars
<1>5. ASSUME NEW c \in Callers, JoinWorker(c)
     PROVE  EmptyPipe'
  BY <1>5, <1>1, <1>2, <1>3 DEF EmptyPipe, FlushIdle, JoinWorker, textVars, mergeVars
<1>6. ASSUME NEW c \in Callers, AwaitDrain(c)
     PROVE  EmptyPipe'
  BY <1>6, <1>1, <1>2, <1>3 DEF EmptyPipe, FlushIdle, AwaitDrain, textVars, mergeVars
<1>7. ASSUME NEW c \in Callers, Settle(c)
     PROVE  EmptyPipe'
  BY <1>7, <1>1, <1>2, <1>3 DEF EmptyPipe, FlushIdle, Settle, textVars, mergeVars
<1>8. ASSUME NEW c \in Callers, Spawn(c)
     PROVE  EmptyPipe'
  BY <1>8
<1>9. ASSUME NEW c \in Callers, Respawn(c)
     PROVE  EmptyPipe'
  BY <1>9
<1>10. ASSUME NEW w \in Workers, Load(w)
     PROVE  EmptyPipe'
  BY <1>10, <1>1, <1>2, <1>3 DEF EmptyPipe, FlushIdle, Load, Move
<1>11. ASSUME NEW w \in Workers, LoadFails(w)
     PROVE  EmptyPipe'
  BY <1>11, <1>1, <1>2, <1>3 DEF EmptyPipe, FlushIdle, LoadFails, Move
<1>12. ASSUME NEW w \in Workers, Check(w)
     PROVE  EmptyPipe'
  BY <1>12, <1>1, <1>2, <1>3 DEF EmptyPipe, FlushIdle, Check, Move
<1>13. ASSUME NEW w \in Workers, Look(w)
     PROVE  EmptyPipe'
  BY <1>13, <1>1, <1>2, <1>3 DEF EmptyPipe, FlushIdle, Look, Move
<1>14. ASSUME NEW w \in Workers, WorkerCrashes(w)
     PROVE  EmptyPipe'
  BY <1>14, <1>1, <1>2, <1>3 DEF EmptyPipe, FlushIdle, WorkerCrashes, Move
<1>15. ASSUME NEW w \in Workers, Finish(w)
     PROVE  EmptyPipe'
  BY <1>15, <1>1, <1>2, <1>3 DEF EmptyPipe, FlushIdle, Finish, Move
<1>16. ASSUME NEW w \in Workers, WorkerEnds(w)
     PROVE  EmptyPipe'
  BY <1>16, <1>1, <1>2, <1>3 DEF EmptyPipe, FlushIdle, WorkerEnds, Move
<1>17. ASSUME NEW w \in Workers, AsrTake(w)
     PROVE  EmptyPipe'
  BY <1>17, <1>1, <1>2, <1>3 DEF EmptyPipe, FlushIdle, AsrTake, Move
<1>18. ASSUME NEW w \in Workers, AsrMerge(w)
     PROVE  EmptyPipe'
  BY <1>18, <1>1, <1>2, <1>3 DEF EmptyPipe, FlushIdle, AsrMerge, Move
<1>19. ASSUME NEW w \in Workers, AsrDone(w)
     PROVE  EmptyPipe'
  BY <1>19, <1>1, <1>2, <1>3 DEF EmptyPipe, FlushIdle, AsrDone, Move
<1>20. ASSUME NEW w \in Workers, AsrEnds(w)
     PROVE  EmptyPipe'
  BY <1>20, <1>1, <1>2, <1>3 DEF EmptyPipe, FlushIdle, AsrEnds, Move
<1>21. ASSUME NEW c \in Callers, FinalFlush(c)
     PROVE  EmptyPipe'
  BY <1>21, <1>1, <1>2, <1>3 DEF EmptyPipe, FlushIdle, FinalFlush, threadVars
<1>22. ASSUME NEW w \in Workers, FlushTick(w)
     PROVE  EmptyPipe'
  BY <1>22, <1>1, <1>2, <1>3 DEF EmptyPipe, FlushIdle, FlushTick
<1>23. ASSUME NEW t \in Publishers, Decide(t)
     PROVE  EmptyPipe'
  BY <1>23, <1>1, <1>2, <1>3 DEF EmptyPipe, FlushIdle, Decide, threadVars, MergeShape, Texts
<1>24. ASSUME NEW t \in Publishers, Record(t)
     PROVE  EmptyPipe'
  BY <1>24, <1>1, <1>2, <1>3 DEF EmptyPipe, FlushIdle, Record, threadVars, Silent
<1>25. QED
  BY <1>4, <1>5, <1>6, <1>7, <1>8, <1>9, <1>10, <1>11, <1>12, <1>13, <1>14, <1>15, <1>16,
     <1>17, <1>18, <1>19, <1>20, <1>21, <1>22, <1>23, <1>24, ThreadFrame, MergeFrame

\* What is left while c publishes what it flushed.
Flushing(c) == NoWorker /\ FlushIdle /\ (pub[c].step # "locked" => merge = {})

\* Nothing joins what a stopping request flushes.
LEMMA StaysFlushing ==
    ASSUME PatientIInv, NEW b \in Callers, At(b) = "flushing", CaptureNext, ~FinalFlush(b),
           \A c \in Callers : ~Spawn(c) /\ ~Respawn(c)
    PROVE  Flushing(b)'
<1>1. \A v \in Workers : wst[v] \in {"unborn", "dead"} /\ ast[v] \in {"none", "dead"}
  BY NobodyWorks DEF PatientIInv, Emptied
<1>2. Flushing(b) /\ NoWorker'
  BY StaysWithoutWorker DEF PatientIInv, Emptied, Flushing
<1>3. MergeShape /\ b \in Publishers /\ \A v \in Workers : FlushOf(v) \in Publishers /\ FlushOf(v) # b
  BY WhoPublishes, Distinct DEF PatientIInv, CaptureShape
<1>4. pub[b].step = "none" \/ asrLock = b
  BY <1>3 DEF PatientIInv, Publishing
<1>5. CASE UNCHANGED mergeVars
  BY <1>5, <1>1, <1>2, <1>3, <1>4 DEF Flushing, FlushIdle, MergeShape, mergeVars
<1>6. ASSUME NEW c \in Callers, FinalFlush(c)
     PROVE  Flushing(b)'
  BY <1>6, Continued, Alone, IdleIs DEF PatientIInv, At
<1>7. ASSUME NEW w \in Workers, Load(w)
     PROVE  Flushing(b)'
  BY <1>7, <1>1, <1>2, <1>3, <1>4 DEF Flushing, FlushIdle, MergeShape, Load, Move
<1>8. ASSUME NEW w \in Workers, AsrMerge(w)
     PROVE  Flushing(b)'
  BY <1>8, <1>1, <1>2, <1>3, <1>4 DEF Flushing, FlushIdle, MergeShape, AsrMerge
<1>9. ASSUME NEW w \in Workers, FlushTick(w)
     PROVE  Flushing(b)'
  BY <1>9, <1>1, <1>2, <1>3, <1>4 DEF Flushing, FlushIdle, MergeShape, FlushTick
<1>10. ASSUME NEW t \in Publishers, Decide(t)
     PROVE  Flushing(b)'
  BY <1>10, <1>1, <1>2, <1>3, <1>4 DEF Flushing, FlushIdle, MergeShape, Decide, Texts
<1>11. ASSUME NEW t \in Publishers, Record(t)
     PROVE  Flushing(b)'
  BY <1>11, <1>1, <1>2, <1>3, <1>4 DEF Flushing, FlushIdle, MergeShape, Record, Silent,
     Texts
<1>12. QED
  BY <1>5, <1>6, <1>7, <1>8, <1>9, <1>10, <1>11, MergeFrame

\* The threads leave the calls and, if none of them fails, the flags alone.
Threading ==
    \/ \E w \in Workers : Work(w) \/ Recognise(w) \/ FlushTick(w)
    \/ \E t \in Publishers : Publish(t)
    \/ AudioDies

\* The threads do not touch the callers, the bridge or the recording flag.
LEMMA ThreadingIs ==
    ASSUME Threading, Calm
    PROVE  UNCHANGED <<callVars, bridgeVars, rec>>
<1>1. ASSUME NEW w \in Workers, Work(w)
      PROVE  UNCHANGED <<callVars, bridgeVars, rec>>
  BY <1>1, CalmIs DEF Work, Load, LoadFails, Check, Look, WorkerCrashes, Finish, WorkerEnds, flagVars
<1>2. ASSUME NEW w \in Workers, Recognise(w) \/ FlushTick(w)
      PROVE  UNCHANGED <<callVars, bridgeVars, rec>>
  BY <1>2 DEF Recognise, AsrTake, AsrMerge, AsrDone, AsrEnds, FlushTick, flagVars
<1>3. ASSUME NEW t \in Publishers, Publish(t)
      PROVE  UNCHANGED <<callVars, bridgeVars, rec>>
  BY <1>3 DEF Publish, Decide, Record, flagVars
<1>4. CASE AudioDies
  BY <1>4 DEF AudioDies
<1>5. QED
  BY <1>1, <1>2, <1>3, <1>4 DEF Threading

\* A step of a thread is not a step of a caller.
LEMMA ThreadingNot ==
    ASSUME Threading, Calm, NEW c \in Callers, CaptureShape
    PROVE  ~FinalFlush(c) /\ ~Spawn(c) /\ ~Respawn(c)
<1>1. UNCHANGED call
  BY ThreadingIs DEF callVars
<1>2. FinalFlush(c) => At(c) = "flush" /\ Moves(c, "flushing")
  BY Continued
<1>3. Spawn(c) => At(c) = "spawn" /\ (Moves(c, "commit") \/ Moves(c, "idle"))
  BY Continued
<1>4. Respawn(c) => At(c) = "respawn" /\ Moves(c, "unhush")
  BY Continued
<1>5. QED
  BY <1>1, <1>2, <1>3, <1>4, IdleIs DEF Moves, At

\* A step is a thread's or a caller's.
LEMMA NextIs == CaptureNext <=> Threading \/ \E c \in Callers : Call(c) \/ Continue(c)
BY DEF CaptureNext, Threading

\* A call alone.
LEMMA CallIs ==
    ASSUME PatientIInv, Patient, NEW c \in Callers, Call(c)
    PROVE  /\ \A d \in Callers : call[d] = Idle /\ At(d) = "idle"
           /\ \A d \in Callers \ {c} : call'[d] = Idle
           /\ call'[c].at \in {"signal", "hush", "rearm", "borrow"}
           /\ call'[c].op = "cStart" <=> ConversationStart(c)
           /\ UNCHANGED <<active, overlay, snapshot, previous, flagVars, threadVars, textVars>>
<1>1. CaptureShape /\ Routes /\ "overlap" \notin hazards
  BY PatientIs, CalmIs DEF PatientIInv
<1>2. CASE InterviewStart(c)
  <2>1. At(c) = "idle" /\ Enters(c, "iStart", "signal", "open") /\ call'[c].kept = Idle.kept
    BY <1>1, <1>2, EnterMoves DEF InterviewStart, Entered
  <2>2. AllIdle
    BY <1>1, <1>2, EnterMoves DEF InterviewStart, Entered
  <2>3. \A d \in Callers : call[d] = Idle /\ At(d) = "idle"
    BY <1>1, <2>2, AllAlone DEF AllIdle
  <2>4. ~ConversationStart(c)
    BY <1>1, <2>1, EnterMoves DEF ConversationStart, Entered, Enters
  <2>5. QED
    BY <1>2, <2>1, <2>3, <2>4 DEF InterviewStart, Enters, bridgeVars
<1>3. CASE InterviewStop(c)
  <2>1. At(c) = "idle" /\ Enters(c, "iStop", "signal", "idle") /\ call'[c].kept = Idle.kept
    BY <1>1, <1>3, EnterMoves DEF InterviewStop, Entered
  <2>2. AllIdle
    BY <1>1, <1>3, EnterMoves DEF InterviewStop, Entered
  <2>3. \A d \in Callers : call[d] = Idle /\ At(d) = "idle"
    BY <1>1, <2>2, AllAlone DEF AllIdle
  <2>4. ~ConversationStart(c)
    BY <1>1, <2>1, EnterMoves DEF ConversationStart, Entered, Enters
  <2>5. QED
    BY <1>3, <2>1, <2>3, <2>4 DEF InterviewStop, Enters, bridgeVars
<1>4. CASE InterviewPause(c)
  <2>1. At(c) = "idle" /\ Enters(c, "iPause", "hush", "idle") /\ call'[c].kept = Idle.kept
    BY <1>1, <1>4, EnterMoves DEF InterviewPause, Entered
  <2>2. AllIdle
    BY <1>1, <1>4, EnterMoves DEF InterviewPause, Entered
  <2>3. \A d \in Callers : call[d] = Idle /\ At(d) = "idle"
    BY <1>1, <2>2, AllAlone DEF AllIdle
  <2>4. ~ConversationStart(c)
    BY <1>1, <2>1, EnterMoves DEF ConversationStart, Entered, Enters
  <2>5. QED
    BY <1>4, <2>1, <2>3, <2>4 DEF InterviewPause, Enters, bridgeVars
<1>5. CASE InterviewResume(c)
  <2>1. At(c) = "idle" /\ Enters(c, "iResume", "rearm", "idle") /\ call'[c].kept = Idle.kept
    BY <1>1, <1>5, EnterMoves DEF InterviewResume, Entered
  <2>2. AllIdle
    BY <1>1, <1>5, EnterMoves DEF InterviewResume, Entered
  <2>3. \A d \in Callers : call[d] = Idle /\ At(d) = "idle"
    BY <1>1, <2>2, AllAlone DEF AllIdle
  <2>4. ~ConversationStart(c)
    BY <1>1, <2>1, EnterMoves DEF ConversationStart, Entered, Enters
  <2>5. QED
    BY <1>5, <2>1, <2>3, <2>4 DEF InterviewResume, Enters, bridgeVars
<1>6. CASE ConversationStart(c)
  <2>1. At(c) = "idle" /\ Enters(c, "cStart", "borrow", "open") /\ call'[c].kept = Idle.kept
    BY <1>1, <1>6, EnterMoves DEF ConversationStart, Entered
  <2>2. AllIdle
    BY <1>1, <1>6, EnterMoves DEF ConversationStart, Entered
  <2>3. \A d \in Callers : call[d] = Idle /\ At(d) = "idle"
    BY <1>1, <2>2, AllAlone DEF AllIdle
  <2>4. QED
    BY <1>6, <2>1, <2>3 DEF ConversationStart, Enters, bridgeVars
<1>7. CASE ConversationPause(c)
  <2>1. /\ At(c) = "idle"
        /\ Enters(c, "cPause", "hush", "idle") \/ Enters(c, "cResume", "rearm", "idle")
        /\ call'[c].kept = Idle.kept
    BY <1>1, <1>7, EnterMoves DEF ConversationPause, Entered
  <2>2. AllIdle
    BY <1>1, <1>7, EnterMoves DEF ConversationPause, Entered
  <2>3. \A d \in Callers : call[d] = Idle /\ At(d) = "idle"
    BY <1>1, <2>2, AllAlone DEF AllIdle
  <2>4. ~ConversationStart(c)
    BY <1>1, <2>1, EnterMoves DEF ConversationStart, Entered, Enters
  <2>5. QED
    BY <1>7, <2>1, <2>3, <2>4 DEF ConversationPause, Enters, bridgeVars
<1>8. CASE ConversationStop(c)
  <2>1. /\ At(c) = "idle" /\ Enters(c, "cStop", "signal", "restore")
        /\ call'[c].kept = [overlay |-> previous, flags |-> snapshot]
    BY <1>1, <1>8, StopMoves
  <2>2. AllIdle
    BY <1>1, <1>8, EnterMoves DEF ConversationStop, Entered, MayCall
  <2>3. \A d \in Callers : call[d] = Idle /\ At(d) = "idle"
    BY <1>1, <2>2, AllAlone DEF AllIdle
  <2>4. ~ConversationStart(c)
    BY <1>1, <2>1, EnterMoves DEF ConversationStart, Entered, Enters
  <2>5. QED
    BY <1>8, <2>1, <2>3, <2>4 DEF ConversationStop, Enters, bridgeVars
<1>9. QED
  BY <1>2, <1>3, <1>4, <1>5, <1>6, <1>7, <1>8 DEF Call

\* While a caller is elsewhere, no other starts a worker.
LEMMA OnlyOneGoes ==
    ASSUME PatientIInv, NEW c \in Callers, At(c) \notin {"idle", "spawn", "respawn"}
    PROVE  \A d \in Callers : ~Spawn(d) /\ ~Respawn(d)
<1>1. \A d \in Callers : At(d) \notin {"spawn", "respawn"}
  BY Alone, IdleIs DEF PatientIInv, At
<1>2. QED
  BY <1>1, Continued DEF PatientIInv

\* What Emptied asks of a caller.
CallerEmptied(c) ==
    /\ At(c) \in {"drain", "flush", "flushing"} => NoWorker
    /\ At(c) = "flushing" => Flushing(c)
    /\ At(c) \in {"open", "flag", "spawn", "restore", "release"} => EmptyPipe
    /\ Op(c) = "cStart" /\ At(c) # "commit" => EmptyPipe

\* The parts of Emptied.
LEMMA EmptiedIs == Emptied <=> /\ \A c \in Callers : CallerEmptied(c)
                               /\ AllIdle /\ ~rec /\ ~active => EmptyPipe
BY DEF Emptied, CallerEmptied, Flushing

\* The threads keep Emptied.
LEMMA EmptiedThreading ==
    ASSUME PatientIInv, Patient, Threading
    PROVE  Emptied'
<1>1. /\ UNCHANGED <<callVars, bridgeVars, rec>>
      /\ \A c \in Callers : ~FinalFlush(c) /\ ~Spawn(c) /\ ~Respawn(c)
  BY PatientIs, ThreadingIs, ThreadingNot DEF PatientIInv
<1>2. CaptureNext /\ Emptied
  BY NextIs DEF PatientIInv
<1>3. (NoWorker => NoWorker') /\ (EmptyPipe => EmptyPipe')
  BY <1>1, <1>2, StaysWithoutWorker, StaysEmpty
<1>4. \A c \in Callers : At(c) = "flushing" => Flushing(c)'
  BY <1>1, <1>2, StaysFlushing
<1>5. \A c \in Callers : CallerEmptied(c)'
  <2>1. SUFFICES ASSUME NEW c \in Callers
                 PROVE  CallerEmptied(c)'
    OBVIOUS
  <2>2. CallerEmptied(c)
    BY <1>2, EmptiedIs
  <2>3. QED
    BY <1>1, <1>3, <1>4, <2>2 DEF CallerEmptied, At, Op, callVars
<1>6. (AllIdle /\ ~rec /\ ~active => EmptyPipe)'
  BY <1>1, <1>2, <1>3 DEF Emptied, AllIdle, At, callVars, bridgeVars
<1>7. QED
  BY <1>5, <1>6 DEF Emptied, CallerEmptied, Flushing

\* So does a call.
LEMMA EmptiedCall ==
    ASSUME PatientIInv, Patient, NEW b \in Callers, Call(b)
    PROVE  Emptied'
<1>1. /\ \A d \in Callers : call[d] = Idle /\ At(d) = "idle"
      /\ \A d \in Callers \ {b} : call'[d] = Idle
      /\ call'[b].at \in {"signal", "hush", "rearm", "borrow"}
      /\ call'[b].op = "cStart" <=> ConversationStart(b)
      /\ UNCHANGED <<flagVars, threadVars, textVars>>
  BY CallIs
<1>2. EmptyPipe' <=> EmptyPipe
  BY <1>1 DEF EmptyPipe, NoWorker, WorkerAlive, FlushIdle, threadVars, textVars, mergeVars
<1>3. AllIdle /\ Emptied
  BY <1>1 DEF AllIdle, PatientIInv
<1>4. ConversationStart(b) => EmptyPipe
  BY <1>3 DEF ConversationStart, Emptied
<1>5. \A c \in Callers : CallerEmptied(c)'
  BY <1>1, <1>2, <1>4, IdleIs DEF CallerEmptied, At, Op
<1>6. ~AllIdle'
  BY <1>1 DEF AllIdle, At
<1>7. QED
  BY <1>5, <1>6 DEF Emptied, CallerEmptied, Flushing

\* So does a call that goes on.
LEMMA EmptiedContinue ==
    ASSUME PatientIInv, Patient, NEW c \in Callers, Continue(c)
    PROVE  Emptied'
<1>1. CaptureShape /\ CallShape /\ MergeShape /\ Routes /\ Bridge /\ FlagsFollow /\ Emptied /\ OneCall /\ CaptureNext
  BY NextIs DEF PatientIInv, CaptureShape
<1>2. At(c) # "idle" /\ CallerEmptied(c)
  BY <1>1, Continued, EmptiedIs DEF Continue, Signal
<1>3. \A d \in Callers \ {c} : call[d] = Idle
  BY <1>1, <1>2, Alone
<1>4. At(c) \notin {"spawn", "respawn"} => (NoWorker => NoWorker') /\ (EmptyPipe => EmptyPipe')
  BY <1>1, <1>2, OnlyOneGoes, StaysWithoutWorker, StaysEmpty
<1>5. SUFFICES /\ \A d \in Callers \ {c} : call'[d] = Idle
               /\ CallerEmptied(c)'
               /\ call'[c] = Idle => rec' \/ active' \/ EmptyPipe'
  <2>1. SUFFICES ASSUME \A d \in Callers \ {c} : call'[d] = Idle, CallerEmptied(c)',
                        call'[c] = Idle => rec' \/ active' \/ EmptyPipe'
                 PROVE  Emptied'
    OBVIOUS
  <2>2. \A d \in Callers : CallerEmptied(d)'
    BY <2>1, IdleIs DEF CallerEmptied, At, Op
  <2>3. Routes'
    BY <1>1, RoutesStep
  <2>4. (AllIdle /\ ~rec /\ ~active => EmptyPipe)'
    BY <2>1, <2>3 DEF AllIdle, Routes
  <2>5. QED
    BY <2>2, <2>4 DEF Emptied, CallerEmptied, Flushing
<1>6. CASE Borrow(c)
  <2>1. At(c) = "borrow" /\ Moves(c, "signal")
    BY <1>1, <1>6, Continued
  <2>2. Op(c) = "cStart"
    BY <1>1, <2>1, WhoIsThere, Thens DEF Stopping, Routes, Op
  <2>3. QED
    BY <1>2, <1>3, <1>4, <2>1, <2>2, IdleIs DEF CallerEmptied, At, Op, Moves
<1>7. CASE Signal(c)
  <2>1. /\ At(c) = "signal" /\ call'[c].at = "join" /\ call'[c].joined = runtime
        /\ call'[c].op = call[c].op /\ call'[c].then = call[c].then /\ call'[c].kept = call[c].kept
        /\ \A d \in Callers \ {c} : call'[d] = call[d]
    BY <1>1, <1>7, SignalMoves
  <2>2. Op(c) \in {"iStart", "cStart", "iStop", "cStop"}
    BY <1>1, <2>1, WhoIsThere, Thens DEF Stopping, Routes, Op
  <2>3. QED
    BY <1>2, <1>3, <1>4, <2>1, <2>2, IdleIs DEF CallerEmptied, At, Op
<1>8. CASE JoinWorker(c)
  <2>1. At(c) = "join" /\ Moves(c, "drain")
    BY <1>1, <1>8, Continued
  <2>2. Op(c) \in {"iStart", "cStart", "iStop", "cStop"}
    BY <1>1, <2>1, WhoIsThere, Thens DEF Stopping, Routes, Op
  <2>3. NoWorker'
    <3>1. ~WorkerAlive(worker) /\ UNCHANGED wst
      BY <1>8, PatientIs DEF JoinWorker
    <3>2. \A v \in Workers : ~WorkerAlive(v)
      BY <3>1, OneWorkerIs DEF PatientIInv, Threads
    <3>3. QED
      BY <3>1, <3>2 DEF NoWorker, WorkerAlive
  <2>4. QED
    BY <1>2, <1>3, <1>4, <2>1, <2>2, IdleIs, <2>3 DEF CallerEmptied, At, Op, Moves
<1>9. CASE AwaitDrain(c)
  <2>1. At(c) = "drain" /\ Moves(c, "flush")
    BY <1>1, <1>9, Continued
  <2>2. Op(c) \in {"iStart", "cStart", "iStop", "cStop"}
    BY <1>1, <2>1, WhoIsThere, Thens DEF Stopping, Routes, Op
  <2>3. QED
    BY <1>2, <1>3, <1>4, <2>1, <2>2, IdleIs DEF CallerEmptied, At, Op, Moves
<1>10. CASE FinalFlush(c)
  <2>1. At(c) = "flush" /\ Moves(c, "flushing")
    BY <1>1, <1>10, Continued
  <2>2. Op(c) \in {"iStart", "cStart", "iStop", "cStop"}
    BY <1>1, <2>1, WhoIsThere, Thens DEF Stopping, Routes, Op
  <2>3. Flushing(c)'
    <3>1. NoWorker /\ NoWorker' /\ asrLock = Nobody /\ UNCHANGED merge
      BY <1>2, <1>4, <1>10, <2>1 DEF CallerEmptied, FinalFlush
    <3>2. FlushIdle /\ pub[c].step = "none"
      BY <3>1, WhenFree, WhoPublishes DEF FlushIdle
    <3>3. CASE UNCHANGED pub /\ merge = {}
      BY <3>1, <3>2, <3>3 DEF Flushing, FlushIdle
    <3>4. CASE Hold(c, overlay = "base")
      <4>1. c \in Publishers /\ (overlay = "base") \in BOOLEAN
        BY WhoPublishes
      <4>2. /\ pub'[c] = [text |-> {}, auto |-> overlay = "base", step |-> "locked"]
            /\ \A u \in Publishers \ {c} : pub'[u] = pub[u]
        BY <1>1, <3>4, <4>1, HoldTyped
      <4>3. pub'[c].step = "locked"
        BY <4>2
      <4>4. QED
        BY <3>1, <3>2, <4>2, <4>3, WhoPublishes, Distinct DEF Flushing, FlushIdle
    <3>5. QED
      BY <1>10, <3>3, <3>4 DEF FinalFlush
  <2>4. QED
    BY <1>2, <1>3, <1>4, <2>1, <2>2, IdleIs, <2>3 DEF CallerEmptied, At, Op, Moves
<1>11. CASE Settle(c)
  <2>1. At(c) = "flushing" /\ Moves(c, call[c].then)
    BY <1>1, <1>11, Continued
  <2>2. Op(c) \in {"iStart", "cStart", "iStop", "cStop"} /\ call[c].then = ThenOf(Op(c))
    BY <1>1, <2>1, WhoIsThere, Thens DEF Stopping, Routes, Op
  <2>3. EmptyPipe'
    <3>1. NoWorker' /\ FlushIdle /\ pub[c].step = "none" /\ merge = {}
      BY <1>2, <1>4, <1>11, <2>1 DEF CallerEmptied, Flushing, Settle
    <3>2. runtime' = 0 /\ UNCHANGED <<merge, pub>>
      BY <1>11 DEF Settle, textVars, mergeVars
    <3>3. QED
      BY <3>1, <3>2 DEF EmptyPipe, FlushIdle
  <2>4. QED
    BY <1>2, <1>3, <1>4, <2>1, <2>2, IdleIs, <2>3, Thens DEF CallerEmptied, At, Op, Moves
<1>12. CASE Open(c)
  <2>1. At(c) = "open" /\ Moves(c, "flag")
    BY <1>1, <1>12, Continued
  <2>2. Op(c) \in {"iStart", "cStart"}
    BY <1>1, <2>1, WhoIsThere, Thens DEF Stopping, Routes, Op
  <2>3. QED
    BY <1>2, <1>3, <1>4, <2>1, <2>2, IdleIs DEF CallerEmptied, At, Op, Moves
<1>13. CASE OpenFails(c)
  <2>1. At(c) = "open" /\ Moves(c, "idle")
    BY <1>1, <1>13, Continued
  <2>2. Op(c) \in {"iStart", "cStart"}
    BY <1>1, <2>1, WhoIsThere, Thens DEF Stopping, Routes, Op
  <2>3. QED
    BY <1>2, <1>3, <1>4, <2>1, <2>2, IdleIs DEF CallerEmptied, At, Op, Moves
<1>14. CASE Flag(c)
  <2>1. At(c) = "flag" /\ Moves(c, "spawn")
    BY <1>1, <1>14, Continued
  <2>2. Op(c) \in {"iStart", "cStart"}
    BY <1>1, <2>1, WhoIsThere, Thens DEF Stopping, Routes, Op
  <2>3. QED
    BY <1>2, <1>3, <1>4, <2>1, <2>2, IdleIs DEF CallerEmptied, At, Op, Moves
<1>15. CASE Spawn(c)
  <2>1. At(c) = "spawn" /\ Moves(c, IF call[c].op = "cStart" THEN "commit" ELSE "idle")
    BY <1>1, <1>15, Continued
  <2>2. Op(c) \in {"iStart", "cStart"}
    BY <1>1, <2>1, WhoIsThere, Thens DEF Stopping, Routes, Op
  <2>3. rec' \/ active'
    BY <1>1, <1>15, <2>1, <2>2 DEF FlagsFollow, Bridge, Spawn, At, Op, bridgeVars, flagVars
  <2>4. QED
    BY <1>2, <1>3, <1>4, <2>1, <2>2, IdleIs, <2>3 DEF CallerEmptied, At, Op, Moves
<1>16. CASE Commit(c)
  <2>1. At(c) = "commit" /\ Moves(c, "idle")
    BY <1>1, <1>16, Continued
  <2>2. Op(c) = "cStart"
    BY <1>1, <2>1, WhoIsThere, Thens DEF Stopping, Routes, Op
  <2>3. rec' \/ active'
    BY <1>1, <1>16, <2>1, <2>2 DEF FlagsFollow, Bridge, Commit, At, Op, bridgeVars, flagVars
  <2>4. QED
    BY <1>2, <1>3, <1>4, <2>1, <2>2, IdleIs, <2>3 DEF CallerEmptied, At, Op, Moves
<1>17. CASE Restore(c)
  <2>1. At(c) = "restore" /\ Moves(c, "release")
    BY <1>1, <1>17, Continued
  <2>2. Op(c) = "cStop"
    BY <1>1, <2>1, WhoIsThere, Thens DEF Stopping, Routes, Op
  <2>3. QED
    BY <1>2, <1>3, <1>4, <2>1, <2>2, IdleIs DEF CallerEmptied, At, Op, Moves
<1>18. CASE Release(c)
  <2>1. At(c) = "release" /\ Moves(c, "idle")
    BY <1>1, <1>18, Continued
  <2>2. Op(c) = "cStop"
    BY <1>1, <2>1, WhoIsThere, Thens DEF Stopping, Routes, Op
  <2>3. QED
    BY <1>2, <1>3, <1>4, <2>1, <2>2, IdleIs DEF CallerEmptied, At, Op, Moves
<1>19. CASE Hush(c)
  <2>1. At(c) = "hush" /\ Moves(c, "hushed")
    BY <1>1, <1>19, Continued
  <2>2. Op(c) \in {"iPause", "cPause"}
    BY <1>1, <2>1, WhoIsThere, Thens DEF Stopping, Routes, Op
  <2>3. QED
    BY <1>2, <1>3, <1>4, <2>1, <2>2, IdleIs DEF CallerEmptied, At, Op, Moves
<1>20. CASE Hushed(c)
  <2>1. At(c) = "hushed" /\ Moves(c, "idle")
    BY <1>1, <1>20, Continued
  <2>2. Op(c) \in {"iPause", "cPause"}
    BY <1>1, <2>1, WhoIsThere, Thens DEF Stopping, Routes, Op
  <2>3. rec' \/ active'
    BY <1>1, <1>20, <2>1, <2>2 DEF FlagsFollow, Bridge, Hushed, At, Op, bridgeVars, flagVars
  <2>4. QED
    BY <1>2, <1>3, <1>4, <2>1, <2>2, IdleIs, <2>3 DEF CallerEmptied, At, Op, Moves
<1>21. CASE Rearm(c)
  <2>1. At(c) = "rearm" /\ (Moves(c, "respawn") \/ Moves(c, "unhush") \/ Moves(c, "idle"))
    BY <1>1, <1>21, Continued
  <2>2. Op(c) \in {"iResume", "cResume"}
    BY <1>1, <2>1, WhoIsThere, Thens DEF Stopping, Routes, Op
  <2>3. rec' \/ active'
    BY <1>1, <1>21, <2>1, <2>2 DEF FlagsFollow, Bridge, Rearm, At, Op, bridgeVars, flagVars
  <2>4. QED
    BY <1>2, <1>3, <1>4, <2>1, <2>2, IdleIs, <2>3 DEF CallerEmptied, At, Op, Moves
<1>22. CASE Respawn(c)
  <2>1. At(c) = "respawn" /\ Moves(c, "unhush")
    BY <1>1, <1>22, Continued
  <2>2. Op(c) \in {"iResume", "cResume"}
    BY <1>1, <2>1, WhoIsThere, Thens DEF Stopping, Routes, Op
  <2>3. QED
    BY <1>2, <1>3, <1>4, <2>1, <2>2, IdleIs DEF CallerEmptied, At, Op, Moves
<1>23. CASE Unhush(c)
  <2>1. At(c) = "unhush" /\ Moves(c, "idle")
    BY <1>1, <1>23, Continued
  <2>2. Op(c) \in {"iResume", "cResume"}
    BY <1>1, <2>1, WhoIsThere, Thens DEF Stopping, Routes, Op
  <2>3. rec' \/ active'
    BY <1>1, <1>23, <2>1, <2>2 DEF FlagsFollow, Bridge, Unhush, At, Op, bridgeVars, flagVars
  <2>4. QED
    BY <1>2, <1>3, <1>4, <2>1, <2>2, IdleIs, <2>3 DEF CallerEmptied, At, Op, Moves
<1>24. QED
  BY <1>6, <1>7, <1>8, <1>9, <1>10, <1>11, <1>12, <1>13, <1>14, <1>15, <1>16, <1>17, <1>18,
     <1>19, <1>20, <1>21, <1>22, <1>23 DEF Continue

\* Emptied is kept.
LEMMA EmptiedStep ==
    ASSUME PatientIInv, Patient, CaptureNext
    PROVE  Emptied'
BY NextIs, EmptiedThreading, EmptiedCall, EmptiedContinue

-----------------------------------------------------------------------------
(* Whose speech it is.                                                     *)

\* When the pipe is empty, nothing is in hand or in publication.
LEMMA PipeEmpty ==
    ASSUME PatientIInv, EmptyPipe, NoneAt({"flushing"})
    PROVE  /\ \A t \in Publishers : pub[t].step = "none" /\ pub[t].text = {}
           /\ \A w \in Workers : ast[w] # "text"
           /\ merge = {} /\ runtime = 0
<1>1. Publishing /\ NoWorker /\ FlushIdle /\ merge = {} /\ runtime = 0
  BY DEF PatientIInv, EmptyPipe
<1>2. \A c \in Callers : pub[c].step = "none"
  BY <1>1 DEF NoneAt, Publishing
<1>3. \A w \in Workers : pub[AsrOf(w)].step = "none" /\ pub[FlushOf(w)].step = "none" /\ ast[w] # "text"
  BY <1>1, NobodyWorks DEF FlushIdle
<1>4. \A t \in Publishers : pub[t].step = "none"
  BY <1>2, <1>3 DEF Publishers
<1>5. QED
  BY <1>1, <1>3, <1>4 DEF Publishing

\* The transport changes hands only where nothing of a recording is left.
LEMMA HandsOver ==
    ASSUME PatientIInv, CaptureNext, active' # active
    PROVE  /\ EmptyPipe /\ NoneAt({"flushing"}) /\ ~rec'
           /\ UNCHANGED <<threadVars, textVars>>
<1>1. CaptureShape /\ Routes /\ Bridge /\ OneCall /\ FlagsFollow /\ Emptied
  BY DEF PatientIInv
<1>2. PICK c \in Callers : Borrow(c) \/ OpenFails(c) \/ Release(c)
  BY BridgeFrame DEF bridgeVars, ConversationStart, ConversationStop, Commit, Restore
<1>3. At(c) \in {"borrow", "open", "release"}
  BY <1>1, <1>2, Continued
<1>4. At(c) = "borrow" => Op(c) = "cStart"
  BY <1>1, WhoIsThere DEF CaptureShape
<1>5. EmptyPipe
  BY <1>1, <1>3, <1>4 DEF Emptied
<1>6. NoneAt({"flushing"})
  BY <1>1, <1>3, Alone, IdleIs DEF NoneAt, At
<1>7. ~rec /\ ~snapshot.rec
  BY <1>1, <1>3 DEF FlagsFollow
<1>8. UNCHANGED <<threadVars, textVars>> /\ (rec' = rec \/ rec' = snapshot.rec)
  BY <1>2 DEF Borrow, OpenFails, Release, flagVars
<1>9. QED
  BY <1>5, <1>6, <1>7, <1>8

\* While a Conversation is being recorded, or flushed, its overlay is in force.
LEMMA OverlayOn ==
    ASSUME PatientIInv, active
    PROVE  /\ ~NoWorker => overlay = "conversation"
           /\ \A c \in Callers : At(c) = "flush" => overlay = "conversation"
<1>1. Routes /\ Bridge /\ OneCall /\ Emptied
  BY DEF PatientIInv
<1>2. CASE ~stopping
  BY <1>1, <1>2 DEF Bridge, OverlayFollowsOwner
<1>3. CASE stopping
  <2>1. PICK b \in Callers : Op(b) = "cStop"
    BY <1>1, <1>3 DEF Bridge
  <2>2. overlay = IF At(b) = "release" THEN "base" ELSE "conversation"
    BY <1>1, <2>1 DEF Bridge
  <2>3. At(b) = "release" => NoWorker
    BY <1>1 DEF Emptied, EmptyPipe
  <2>4. At(b) = "release" => \A c \in Callers : At(c) # "flush"
    BY <1>1, Alone, IdleIs DEF At
  <2>5. QED
    BY <2>2, <2>3, <2>4
<1>4. QED
  BY <1>2, <1>3

\* The parts of the pipe.
QueueOwned == runtime # 0 => Owned(Held(queue[runtime]))
HandOwned == \A w \in Workers : ast[w] = "text" => own[cur[w]] = Owner
TextOwned == Owned(merge) /\ \A t \in Publishers : Owned(pub[t].text)
MicRight ==
    /\ NoWorker \/ micFor = Owner
    /\ \A c \in Callers : At(c) \in {"flag", "spawn"} => micFor = Owner
    /\ active \/ rec =>
          micFor = Owner \/ \E c \in Callers : Op(c) = "cStart" /\ At(c) \notin {"flag", "spawn", "commit"}
Unanswered ==
    active => /\ \A w \in Workers : ast[w] = "text" => ~auto[w]
              /\ \A t \in Publishers : pub[t].step # "none" => ~pub[t].auto
NotedFirst == ~active => \A t \in Publishers : pub[t].text \subseteq noted
Home ==
    /\ \A s \in heard : own[s] = "conversation"
    /\ \A s \in noted \union answered : own[s] = "interview"

\* What is under way is in the queue, in hand, or merged and in publication.
LEMMA PipeOwned == Owned(Pipe) <=> QueueOwned /\ HandOwned /\ TextOwned
<1>1. Owned(InQueue) <=> QueueOwned
  BY DEF Owned, InQueue, QueueOwned, Held
<1>2. Owned(InHand) <=> HandOwned
  BY DEF Owned, InHand, HandOwned
<1>3. Owned(merge \union InPublication) <=> TextOwned
  BY DEF Owned, InPublication, TextOwned
<1>4. Owned(Pipe) <=> Owned(InQueue) /\ Owned(InHand) /\ Owned(merge \union InPublication)
  BY DEF Owned, Pipe
<1>5. QED
  BY <1>1, <1>2, <1>3, <1>4

SpeechIInv == PatientIInv /\ QueueOwned /\ HandOwned /\ TextOwned /\ MicRight /\ Unanswered /\ NotedFirst /\ Home

\* The parts of SpeechOwned and SpeechStaysHome.
LEMMA SpeechIs == Patient => (SpeechOwned /\ SpeechStaysHome
    <=> QueueOwned /\ HandOwned /\ TextOwned /\ MicRight /\ Unanswered /\ NotedFirst /\ Home)
<1>1. SpeechOwned <=> Owned(Pipe) /\ MicRight /\ Unanswered /\ NotedFirst
  BY DEF SpeechOwned, MicRight, Unanswered, NotedFirst
<1>2. Patient => (SpeechStaysHome <=> Home)
  BY DEF Patient, SpeechStaysHome, Home
<1>3. QED
  BY <1>1, <1>2, PipeOwned

\* What a worker cuts is of the owner of the transport.
LEMMA CutOwned ==
    ASSUME SpeechIInv, NEW w \in Workers, Check(w) \/ Look(w) \/ Finish(w)
    PROVE  /\ Cut(w) \/ UNCHANGED <<own, lost, queue>>
           /\ UNCHANGED <<active, runtime, rt, micFor>>
           /\ rt[w] = runtime /\ runtime \in Workers /\ micFor = Owner
<1>1. CaptureShape /\ Loaded /\ Threads /\ MicRight /\ ThreadShape
  BY OneWorkerIs DEF SpeechIInv, PatientIInv, CaptureShape
<1>2. wst[w] \in Capturing
  BY DEF Check, Look, Finish, Move, Capturing
<1>3. rt[w] \in Workers /\ rt[w] = runtime
  BY <1>1, <1>2, HasRuntime DEF Threads, Capturing, Fresh
<1>4. WorkerAlive(w)
  BY <1>2 DEF WorkerAlive, Capturing
<1>5. micFor = Owner
  BY <1>1, <1>4 DEF MicRight, NoWorker
<1>6. Cut(w) \/ UNCHANGED <<own, lost, queue>>
  BY <1>1, <1>3, EmitCuts DEF Check, Look, Finish, MaybeEmit, speechVars
<1>7. UNCHANGED <<active, runtime, rt, micFor>>
  BY DEF Check, Look, Finish, bridgeVars
<1>8. QED
  BY <1>3, <1>5, <1>6, <1>7

\* A segment keeps its owner.
LEMMA KeepsOwner ==
    ASSUME SpeechIInv, CaptureNext
    PROVE  \A s \in Segs : own[s] # "none" => own'[s] = own[s]
<1>1. own \in [Segs -> Owners]
  BY DEF SpeechIInv, PatientIInv, CaptureShape, SpeechShape
<1>2. CASE \E w \in Workers : Check(w) \/ Look(w) \/ Finish(w)
  BY <1>1, <1>2, CutOwned DEF Cut
<1>3. CASE UNCHANGED own
  BY <1>3
<1>4. QED
  BY <1>2, <1>3, SpeechFrame DEF speechVars, Open

\* What belongs to the owner goes on belonging to it.
LEMMA OwnedStays ==
    ASSUME SpeechIInv, CaptureNext, active' = active
    PROVE  \A s \in Segs : own[s] = Owner => own'[s] = Owner'
BY KeepsOwner DEF Owner

\* Where the transport changes hands, nothing is under way.
LEMMA HandedOver ==
    ASSUME SpeechIInv, CaptureNext, active' # active
    PROVE  QueueOwned' /\ HandOwned' /\ TextOwned' /\ Unanswered' /\ NotedFirst'
<1>1. EmptyPipe /\ NoneAt({"flushing"}) /\ UNCHANGED <<threadVars, textVars>> /\ PatientIInv
  BY HandsOver DEF SpeechIInv
<1>2. /\ \A t \in Publishers : pub[t].step = "none" /\ pub[t].text = {}
      /\ \A w \in Workers : ast[w] # "text"
      /\ merge = {} /\ runtime = 0
  BY <1>1, PipeEmpty
<1>3. UNCHANGED <<pub, ast, merge, runtime>>
  BY <1>1 DEF threadVars, textVars, mergeVars
<1>4. QED
  BY <1>2, <1>3 DEF QueueOwned, HandOwned, TextOwned, Unanswered, NotedFirst, Owned

\* The queue is the owner's.
LEMMA QueueOwnedStep ==
    ASSUME SpeechIInv, Patient, CaptureNext, active' = active
    PROVE  QueueOwned'
<1>1. QueueOwned /\ ThreadShape /\ CaptureShape /\ Threads /\ Loaded /\ Patient /\ Calm
  BY OneWorkerIs, PatientIs DEF SpeechIInv, PatientIInv, CaptureShape
<1>2. \A s \in Segs : own[s] = Owner => own'[s] = Owner'
  BY OwnedStays
<1>3. runtime \in Workers => Held(queue[runtime]) \subseteq Segs
  BY <1>1, HeldSegs DEF ThreadShape
<1>4. runtime # 0 => runtime \in Workers
  BY <1>1 DEF ThreadShape, Workers
<1>5. CASE UNCHANGED threadVars
  BY <1>5, <1>1, <1>2, <1>3, <1>4 DEF QueueOwned, Owned, threadVars
<1>6. ASSUME NEW c \in Callers, JoinWorker(c)
     PROVE  QueueOwned'
  BY <1>6, <1>1, <1>2, <1>3, <1>4 DEF QueueOwned, Owned, JoinWorker
<1>7. ASSUME NEW c \in Callers, AwaitDrain(c)
     PROVE  QueueOwned'
  BY <1>7, <1>1, <1>2, <1>3, <1>4 DEF QueueOwned, Owned, AwaitDrain
<1>8. ASSUME NEW c \in Callers, Settle(c)
     PROVE  QueueOwned'
  BY <1>8, <1>1, <1>2, <1>3, <1>4 DEF QueueOwned, Owned, Settle
<1>9. ASSUME NEW c \in Callers, Spawn(c)
     PROVE  QueueOwned'
  BY <1>9, <1>1, <1>2, <1>3, <1>4 DEF QueueOwned, Owned, Spawn
<1>10. ASSUME NEW c \in Callers, Respawn(c)
     PROVE  QueueOwned'
  BY <1>10, <1>1, <1>2, <1>3, <1>4 DEF QueueOwned, Owned, Respawn
<1>11. ASSUME NEW w \in Workers, Load(w)
     PROVE  QueueOwned'
  <2>1. runtime = 0 => runtime' = w /\ queue'[w] = <<>>
    BY <1>1, <1>11 DEF Load, Move, Threads, Fresh
  <2>2. runtime # 0 => runtime' = runtime /\ queue' = queue
    BY <1>11 DEF Load
  <2>3. QED
    BY <1>1, <1>2, <1>3, <1>4, <2>1, <2>2, EmptyHeld DEF QueueOwned, Owned
<1>12. ASSUME NEW w \in Workers, LoadFails(w)
     PROVE  QueueOwned'
  BY <1>12, <1>1, <1>2, <1>3, <1>4, CalmIs DEF QueueOwned, Owned, LoadFails
<1>13. ASSUME NEW w \in Workers, Check(w)
     PROVE  QueueOwned'
  <2>1. CASE UNCHANGED queue
    BY <1>1, <1>2, <1>3, <1>4, <1>13, <2>1, CutOwned DEF QueueOwned, Owned
  <2>2. CASE Cut(w)
    <3>1. rt[w] = runtime /\ runtime' = runtime /\ runtime \in Workers /\ Owner' = Owner /\ micFor = Owner
      BY <1>13, CutOwned DEF Owner
    <3>2. PICK s \in Segs : /\ own' = [own EXCEPT ![s] = micFor]
                            /\ Held(queue'[rt[w]]) \subseteq Held(queue[rt[w]]) \union {s}
      BY <2>2 DEF Cut
    <3>3. own'[s] = Owner'
      BY <1>1, <3>1, <3>2 DEF CaptureShape, SpeechShape
    <3>4. QED
      BY <1>1, <1>2, <1>3, <3>1, <3>2, <3>3 DEF QueueOwned, Owned
  <2>3. QED
    BY <1>13, <2>1, <2>2, CutOwned
<1>14. ASSUME NEW w \in Workers, Look(w)
     PROVE  QueueOwned'
  <2>1. CASE UNCHANGED queue
    BY <1>1, <1>2, <1>3, <1>4, <1>14, <2>1, CutOwned DEF QueueOwned, Owned
  <2>2. CASE Cut(w)
    <3>1. rt[w] = runtime /\ runtime' = runtime /\ runtime \in Workers /\ Owner' = Owner /\ micFor = Owner
      BY <1>14, CutOwned DEF Owner
    <3>2. PICK s \in Segs : /\ own' = [own EXCEPT ![s] = micFor]
                            /\ Held(queue'[rt[w]]) \subseteq Held(queue[rt[w]]) \union {s}
      BY <2>2 DEF Cut
    <3>3. own'[s] = Owner'
      BY <1>1, <3>1, <3>2 DEF CaptureShape, SpeechShape
    <3>4. QED
      BY <1>1, <1>2, <1>3, <3>1, <3>2, <3>3 DEF QueueOwned, Owned
  <2>3. QED
    BY <1>14, <2>1, <2>2, CutOwned
<1>15. ASSUME NEW w \in Workers, WorkerCrashes(w)
     PROVE  QueueOwned'
  BY <1>15, <1>1, <1>2, <1>3, <1>4, CalmIs DEF QueueOwned, Owned, WorkerCrashes
<1>16. ASSUME NEW w \in Workers, Finish(w)
     PROVE  QueueOwned'
  <2>1. CASE UNCHANGED queue
    BY <1>1, <1>2, <1>3, <1>4, <1>16, <2>1, CutOwned DEF QueueOwned, Owned
  <2>2. CASE Cut(w)
    <3>1. rt[w] = runtime /\ runtime' = runtime /\ runtime \in Workers /\ Owner' = Owner /\ micFor = Owner
      BY <1>16, CutOwned DEF Owner
    <3>2. PICK s \in Segs : /\ own' = [own EXCEPT ![s] = micFor]
                            /\ Held(queue'[rt[w]]) \subseteq Held(queue[rt[w]]) \union {s}
      BY <2>2 DEF Cut
    <3>3. own'[s] = Owner'
      BY <1>1, <3>1, <3>2 DEF CaptureShape, SpeechShape
    <3>4. QED
      BY <1>1, <1>2, <1>3, <3>1, <3>2, <3>3 DEF QueueOwned, Owned
  <2>3. QED
    BY <1>16, <2>1, <2>2, CutOwned
<1>17. ASSUME NEW w \in Workers, WorkerEnds(w)
     PROVE  QueueOwned'
  BY <1>17, <1>1, <1>2, <1>3, <1>4 DEF QueueOwned, Owned, WorkerEnds
<1>18. ASSUME NEW w \in Workers, AsrTake(w)
     PROVE  QueueOwned'
  <2>1. rt[w] \in Workers /\ queue[rt[w]] \in Seq(Segs) /\ queue[rt[w]] # <<>>
    BY <1>1, <1>18, HasRuntime DEF AsrTake, Threads, AsrAlive, ThreadShape, Capturing, Fresh
  <2>2. queue'[rt[w]] = Tail(queue[rt[w]]) /\ \A r \in Workers : r # rt[w] => queue'[r] = queue[r]
    BY <1>1, <1>18, <2>1 DEF AsrTake, ThreadShape
  <2>3. Held(Tail(queue[rt[w]])) \subseteq Held(queue[rt[w]])
    BY <2>1, TakeFirst
  <2>4. runtime' = runtime
    BY <1>18 DEF AsrTake
  <2>5. QED
    BY <1>1, <1>2, <1>3, <1>4, <2>2, <2>3, <2>4 DEF QueueOwned, Owned
<1>19. ASSUME NEW w \in Workers, AsrMerge(w)
     PROVE  QueueOwned'
  BY <1>19, <1>1, <1>2, <1>3, <1>4 DEF QueueOwned, Owned, AsrMerge
<1>20. ASSUME NEW w \in Workers, AsrDone(w)
     PROVE  QueueOwned'
  BY <1>20, <1>1, <1>2, <1>3, <1>4 DEF QueueOwned, Owned, AsrDone
<1>21. ASSUME NEW w \in Workers, AsrEnds(w)
     PROVE  QueueOwned'
  BY <1>21, <1>1, <1>2, <1>3, <1>4 DEF QueueOwned, Owned, AsrEnds
<1>22. QED
  BY <1>5, <1>6, <1>7, <1>8, <1>9, <1>10, <1>11, <1>12, <1>13, <1>14, <1>15, <1>16, <1>17,
     <1>18, <1>19, <1>20, <1>21, ThreadFrame

\* The segment in hand is the owner's.
LEMMA HandOwnedStep ==
    ASSUME SpeechIInv, Patient, CaptureNext, active' = active
    PROVE  HandOwned'
<1>1. HandOwned /\ QueueOwned /\ ThreadShape /\ CaptureShape /\ Threads /\ Loaded /\ Calm
  BY OneWorkerIs, PatientIs DEF SpeechIInv, PatientIInv, CaptureShape
<1>2. \A s \in Segs : own[s] = Owner => own'[s] = Owner'
  BY OwnedStays
<1>3. \A v \in Workers : ast[v] = "text" => cur[v] \in Segs
  BY <1>1, HasSegment
<1>4. CASE UNCHANGED threadVars
  BY <1>4, <1>1, <1>2, <1>3 DEF HandOwned, threadVars
<1>5. ASSUME NEW c \in Callers, JoinWorker(c)
     PROVE  HandOwned'
  BY <1>5, <1>1, <1>2, <1>3 DEF HandOwned, JoinWorker, ThreadShape
<1>6. ASSUME NEW c \in Callers, AwaitDrain(c)
     PROVE  HandOwned'
  BY <1>6, <1>1, <1>2, <1>3 DEF HandOwned, AwaitDrain, ThreadShape
<1>7. ASSUME NEW c \in Callers, Settle(c)
     PROVE  HandOwned'
  BY <1>7, <1>1, <1>2, <1>3 DEF HandOwned, Settle, ThreadShape
<1>8. ASSUME NEW c \in Callers, Spawn(c)
     PROVE  HandOwned'
  BY <1>8, <1>1, <1>2, <1>3 DEF HandOwned, Spawn, ThreadShape
<1>9. ASSUME NEW c \in Callers, Respawn(c)
     PROVE  HandOwned'
  BY <1>9, <1>1, <1>2, <1>3 DEF HandOwned, Respawn, ThreadShape
<1>10. ASSUME NEW w \in Workers, Load(w)
     PROVE  HandOwned'
  BY <1>10, <1>1, <1>2, <1>3 DEF HandOwned, Load, ThreadShape
<1>11. ASSUME NEW w \in Workers, LoadFails(w)
     PROVE  HandOwned'
  BY <1>11, <1>1, <1>2, <1>3, CalmIs DEF HandOwned, LoadFails
<1>12. ASSUME NEW w \in Workers, Check(w)
     PROVE  HandOwned'
  BY <1>12, <1>1, <1>2, <1>3 DEF HandOwned, Check, ThreadShape
<1>13. ASSUME NEW w \in Workers, Look(w)
     PROVE  HandOwned'
  BY <1>13, <1>1, <1>2, <1>3 DEF HandOwned, Look, ThreadShape
<1>14. ASSUME NEW w \in Workers, WorkerCrashes(w)
     PROVE  HandOwned'
  BY <1>14, <1>1, <1>2, <1>3, CalmIs DEF HandOwned, WorkerCrashes
<1>15. ASSUME NEW w \in Workers, Finish(w)
     PROVE  HandOwned'
  BY <1>15, <1>1, <1>2, <1>3 DEF HandOwned, Finish, ThreadShape
<1>16. ASSUME NEW w \in Workers, WorkerEnds(w)
     PROVE  HandOwned'
  BY <1>16, <1>1, <1>2, <1>3 DEF HandOwned, WorkerEnds, ThreadShape
<1>17. ASSUME NEW w \in Workers, AsrTake(w)
     PROVE  HandOwned'
  <2>1. wst[w] \in Capturing
    BY <1>1, <1>17 DEF AsrTake, Threads, AsrAlive
  <2>2. rt[w] = runtime /\ runtime \in Workers /\ queue[runtime] \in Seq(Segs) /\ queue[runtime] # <<>>
    BY <1>1, <1>17, <2>1, HasRuntime DEF AsrTake, Threads, ThreadShape, Capturing, Fresh
  <2>3. Head(queue[runtime]) \in Held(queue[runtime]) /\ Head(queue[runtime]) \in Segs
    BY <2>2, TakeFirst
  <2>4. own[Head(queue[runtime])] = Owner
    BY <1>1, <2>2, <2>3, Sizes DEF QueueOwned, Owned, Workers
  <2>5. cur' = [cur EXCEPT ![w] = Head(queue[runtime])] /\ ast' = [ast EXCEPT ![w] = "text"]
    BY <1>17, <2>2 DEF AsrTake
  <2>6. QED
    BY <1>1, <1>2, <1>3, <2>3, <2>4, <2>5 DEF HandOwned, ThreadShape
<1>18. ASSUME NEW w \in Workers, AsrMerge(w)
     PROVE  HandOwned'
  <2>1. \A v \in Workers : ast'[v] = "text" => v # w /\ ast[v] = "text" /\ cur'[v] = cur[v]
    BY <1>1, <1>18 DEF AsrMerge, ThreadShape
  <2>2. QED
    BY <1>1, <1>2, <1>3, <2>1 DEF HandOwned
<1>19. ASSUME NEW w \in Workers, AsrDone(w)
     PROVE  HandOwned'
  BY <1>19, <1>1, <1>2, <1>3 DEF HandOwned, AsrDone, ThreadShape
<1>20. ASSUME NEW w \in Workers, AsrEnds(w)
     PROVE  HandOwned'
  BY <1>20, <1>1, <1>2, <1>3 DEF HandOwned, AsrEnds, ThreadShape
<1>21. QED
  BY <1>4, <1>5, <1>6, <1>7, <1>8, <1>9, <1>10, <1>11, <1>12, <1>13, <1>14, <1>15, <1>16,
     <1>17, <1>18, <1>19, <1>20, ThreadFrame

\* What is merged or in publication is the owner's.
LEMMA TextOwnedStep ==
    ASSUME SpeechIInv, Patient, CaptureNext, active' = active
    PROVE  TextOwned'
<1>1. TextOwned /\ HandOwned /\ MergeShape /\ CaptureShape /\ Loaded
  BY DEF SpeechIInv, PatientIInv, CaptureShape
<1>2. \A s \in Segs : own[s] = Owner => own'[s] = Owner'
  BY OwnedStays
<1>3. merge \subseteq Segs /\ \A t \in Publishers : pub[t].text \subseteq Segs
  BY <1>1 DEF MergeShape, Texts
<1>4. \A v \in Workers : ast[v] = "text" => cur[v] \in Segs
  BY <1>1, HasSegment
<1>5. \A t \in Publishers, a \in BOOLEAN : Hold(t, a) => \A u \in Publishers : pub'[u].text \subseteq pub[u].text
  <2>1. SUFFICES ASSUME NEW t \in Publishers, NEW a \in BOOLEAN, Hold(t, a), NEW u \in Publishers
                 PROVE  pub'[u].text \subseteq pub[u].text
    OBVIOUS
  <2>2. /\ pub'[t] = [text |-> {}, auto |-> a, step |-> "locked"]
        /\ \A x \in Publishers \ {t} : pub'[x] = pub[x]
    BY <1>1, <2>1, HoldTyped
  <2>3. pub'[t].text = {}
    BY <2>2
  <2>4. QED
    BY <2>2, <2>3
<1>6. CASE UNCHANGED mergeVars
  BY <1>6, <1>1, <1>2, <1>3, <1>4, <1>5 DEF TextOwned, Owned, mergeVars
<1>7. ASSUME NEW c \in Callers, FinalFlush(c)
     PROVE  TextOwned'
  <2>1. c \in Publishers /\ (overlay = "base") \in BOOLEAN
    BY <1>1, WhoPublishes DEF CaptureShape, ThreadShape
  <2>2. \A u \in Publishers : pub'[u].text \subseteq pub[u].text
    BY <1>7, <1>5, <2>1 DEF FinalFlush
  <2>3. merge' = merge
    BY <1>7 DEF FinalFlush
  <2>4. QED
    BY <1>1, <1>2, <1>3, <1>4, <2>2, <2>3 DEF TextOwned, Owned, HandOwned
<1>8. ASSUME NEW w \in Workers, Load(w)
     PROVE  TextOwned'
  BY <1>8, <1>1, <1>2, <1>3, <1>4, <1>5 DEF TextOwned, Owned, Load
<1>9. ASSUME NEW w \in Workers, AsrMerge(w)
     PROVE  TextOwned'
  <2>1. AsrOf(w) \in Publishers /\ (auto[w]) \in BOOLEAN
    BY <1>1, WhoPublishes DEF CaptureShape, ThreadShape
  <2>2. \A u \in Publishers : pub'[u].text \subseteq pub[u].text
    BY <1>9, <1>5, <2>1 DEF AsrMerge
  <2>3. merge' = merge \union {cur[w]} /\ ast[w] = "text"
    BY <1>9 DEF AsrMerge
  <2>4. QED
    BY <1>1, <1>2, <1>3, <1>4, <2>2, <2>3 DEF TextOwned, Owned, HandOwned
<1>10. ASSUME NEW w \in Workers, FlushTick(w)
     PROVE  TextOwned'
  <2>1. FlushOf(w) \in Publishers /\ (overlay = "base") \in BOOLEAN
    BY <1>1, WhoPublishes DEF CaptureShape, ThreadShape
  <2>2. \A u \in Publishers : pub'[u].text \subseteq pub[u].text
    BY <1>10, <1>5, <2>1 DEF FlushTick
  <2>3. merge' = merge
    BY <1>10 DEF FlushTick
  <2>4. QED
    BY <1>1, <1>2, <1>3, <1>4, <2>2, <2>3 DEF TextOwned, Owned, HandOwned
<1>11. ASSUME NEW t \in Publishers, Decide(t)
     PROVE  TextOwned'
  <2>1. merge' = {} /\ \A u \in Publishers : pub'[u].text = IF u = t THEN merge ELSE pub[u].text
    BY <1>1, <1>11 DEF Decide, MergeShape, Texts
  <2>2. QED
    BY <1>1, <1>2, <1>3, <2>1 DEF TextOwned, Owned
<1>12. ASSUME NEW t \in Publishers, Record(t)
     PROVE  TextOwned'
  <2>1. merge' = merge /\ \A u \in Publishers : pub'[u].text = IF u = t THEN {} ELSE pub[u].text
    BY <1>1, <1>12 DEF Record, MergeShape, Texts, Silent
  <2>2. QED
    BY <1>1, <1>2, <1>3, <2>1 DEF TextOwned, Owned
<1>13. QED
  BY <1>6, <1>7, <1>8, <1>9, <1>10, <1>11, <1>12, MergeFrame

\* What a Conversation says is not answered.
LEMMA UnansweredStep ==
    ASSUME SpeechIInv, Patient, CaptureNext, active' = active
    PROVE  Unanswered'
<1>1. Unanswered /\ MergeShape /\ ThreadShape /\ CaptureShape /\ PatientIInv /\ Calm /\ Threads
  BY OneWorkerIs, PatientIs DEF SpeechIInv, PatientIInv, CaptureShape
<1>2. \A v \in Workers : ast[v] \in {"wait", "text"} \/ wst[v] \in {"check", "look"} => ~NoWorker
  BY <1>1 DEF NoWorker, WorkerAlive, Threads, AsrAlive, Capturing
<1>3. active => (~NoWorker => overlay = "conversation") /\ \A c \in Callers : At(c) = "flush" => overlay = "conversation"
  BY <1>1, OverlayOn
<1>4. \A t \in Publishers, a \in BOOLEAN : Hold(t, a) => \A u \in Publishers : (pub'[u].step # "none" /\ pub'[u].auto) => (pub[u].step # "none" /\ pub[u].auto) \/ a
  <2>1. SUFFICES ASSUME NEW t \in Publishers, NEW a \in BOOLEAN, Hold(t, a), NEW u \in Publishers,
                        pub'[u].step # "none", pub'[u].auto
                 PROVE  (pub[u].step # "none" /\ pub[u].auto) \/ a
    OBVIOUS
  <2>2. /\ pub'[t] = [text |-> {}, auto |-> a, step |-> "locked"]
        /\ \A x \in Publishers \ {t} : pub'[x] = pub[x]
    BY <1>1, <2>1, HoldTyped
  <2>3. pub'[t].auto = a
    BY <2>2
  <2>4. QED
    BY <2>1, <2>2, <2>3
<1>5. CASE UNCHANGED threadVars /\ UNCHANGED mergeVars
  BY <1>5, <1>1, <1>2, <1>3, <1>4 DEF Unanswered, threadVars, mergeVars
<1>6. ASSUME NEW c \in Callers, JoinWorker(c)
     PROVE  Unanswered'
  BY <1>6, <1>1, <1>2, <1>3, <1>4 DEF Unanswered, JoinWorker, ThreadShape, textVars,
     mergeVars
<1>7. ASSUME NEW c \in Callers, AwaitDrain(c)
     PROVE  Unanswered'
  BY <1>7, <1>1, <1>2, <1>3, <1>4 DEF Unanswered, AwaitDrain, ThreadShape, textVars,
     mergeVars
<1>8. ASSUME NEW c \in Callers, Settle(c)
     PROVE  Unanswered'
  BY <1>8, <1>1, <1>2, <1>3, <1>4 DEF Unanswered, Settle, ThreadShape, textVars, mergeVars
<1>9. ASSUME NEW c \in Callers, Spawn(c)
     PROVE  Unanswered'
  BY <1>9, <1>1, <1>2, <1>3, <1>4 DEF Unanswered, Spawn, ThreadShape, textVars, mergeVars
<1>10. ASSUME NEW c \in Callers, Respawn(c)
     PROVE  Unanswered'
  BY <1>10, <1>1, <1>2, <1>3, <1>4 DEF Unanswered, Respawn, ThreadShape, textVars, mergeVars
<1>11. ASSUME NEW w \in Workers, Load(w)
     PROVE  Unanswered'
  BY <1>11, <1>1, <1>2, <1>3, <1>4 DEF Unanswered, Load, ThreadShape, textVars, mergeVars
<1>12. ASSUME NEW w \in Workers, LoadFails(w)
     PROVE  Unanswered'
  BY <1>12, <1>1, <1>2, <1>3, <1>4, CalmIs DEF Unanswered, LoadFails
<1>13. ASSUME NEW w \in Workers, Check(w)
     PROVE  Unanswered'
  BY <1>13, <1>1, <1>2, <1>3, <1>4 DEF Unanswered, Check, ThreadShape, textVars, mergeVars
<1>14. ASSUME NEW w \in Workers, Look(w)
     PROVE  Unanswered'
  BY <1>14, <1>1, <1>2, <1>3, <1>4 DEF Unanswered, Look, ThreadShape, textVars, mergeVars
<1>15. ASSUME NEW w \in Workers, WorkerCrashes(w)
     PROVE  Unanswered'
  BY <1>15, <1>1, <1>2, <1>3, <1>4, CalmIs DEF Unanswered, WorkerCrashes
<1>16. ASSUME NEW w \in Workers, Finish(w)
     PROVE  Unanswered'
  BY <1>16, <1>1, <1>2, <1>3, <1>4 DEF Unanswered, Finish, ThreadShape, textVars, mergeVars
<1>17. ASSUME NEW w \in Workers, WorkerEnds(w)
     PROVE  Unanswered'
  BY <1>17, <1>1, <1>2, <1>3, <1>4 DEF Unanswered, WorkerEnds, ThreadShape, textVars,
     mergeVars
<1>18. ASSUME NEW w \in Workers, AsrTake(w)
     PROVE  Unanswered'
  <2>1. auto' = [auto EXCEPT ![w] = (overlay = "base")] /\ ast' = [ast EXCEPT ![w] = "text"] /\ ast[w] = "wait"
    BY <1>18 DEF AsrTake
  <2>2. active => overlay # "base"
    BY <1>2, <1>3, <2>1
  <2>3. \A v \in Workers : ast'[v] = "text" => (ast[v] = "text" /\ auto'[v] = auto[v]) \/ v = w
    BY <1>1, <2>1 DEF ThreadShape
  <2>4. auto'[w] = (overlay = "base")
    BY <1>1, <2>1 DEF ThreadShape
  <2>5. UNCHANGED pub
    BY <1>18 DEF AsrTake, textVars, mergeVars
  <2>6. QED
    BY <1>1, <2>2, <2>3, <2>4, <2>5 DEF Unanswered
<1>19. ASSUME NEW w \in Workers, AsrMerge(w)
     PROVE  Unanswered'
  <2>1. AsrOf(w) \in Publishers /\ (auto[w]) \in BOOLEAN
    BY <1>1, WhoPublishes DEF ThreadShape
  <2>2. active => ~(auto[w])
    BY <1>1, <1>19 DEF Unanswered, AsrMerge
  <2>3. \A u \in Publishers : (pub'[u].step # "none" /\ pub'[u].auto) => (pub[u].step # "none" /\ pub[u].auto) \/ auto[w]
    BY <1>19, <1>4, <2>1 DEF AsrMerge
  <2>4. \A v \in Workers : ast'[v] = "text" => ast[v] = "text" /\ auto'[v] = auto[v]
    BY <1>1, <1>19 DEF AsrMerge, ThreadShape, threadVars
  <2>5. QED
    BY <1>1, <2>2, <2>3, <2>4 DEF Unanswered
<1>20. ASSUME NEW w \in Workers, AsrDone(w)
     PROVE  Unanswered'
  BY <1>20, <1>1, <1>2, <1>3, <1>4 DEF Unanswered, AsrDone, ThreadShape, textVars, mergeVars
<1>21. ASSUME NEW w \in Workers, AsrEnds(w)
     PROVE  Unanswered'
  BY <1>21, <1>1, <1>2, <1>3, <1>4 DEF Unanswered, AsrEnds, ThreadShape, textVars, mergeVars
<1>22. ASSUME NEW c \in Callers, FinalFlush(c)
     PROVE  Unanswered'
  <2>1. c \in Publishers /\ (overlay = "base") \in BOOLEAN
    BY <1>1, WhoPublishes DEF ThreadShape
  <2>2. active => ~(overlay = "base")
    BY <1>1, <1>3, <1>22, Continued
  <2>3. \A u \in Publishers : (pub'[u].step # "none" /\ pub'[u].auto) => (pub[u].step # "none" /\ pub[u].auto) \/ overlay = "base"
    BY <1>22, <1>4, <2>1 DEF FinalFlush
  <2>4. \A v \in Workers : ast'[v] = "text" => ast[v] = "text" /\ auto'[v] = auto[v]
    BY <1>1, <1>22 DEF FinalFlush, ThreadShape, threadVars
  <2>5. QED
    BY <1>1, <2>2, <2>3, <2>4 DEF Unanswered
<1>23. ASSUME NEW w \in Workers, FlushTick(w)
     PROVE  Unanswered'
  <2>1. FlushOf(w) \in Publishers /\ (overlay = "base") \in BOOLEAN
    BY <1>1, WhoPublishes DEF ThreadShape
  <2>2. active => ~(overlay = "base")
    BY <1>2, <1>3, <1>23 DEF FlushTick
  <2>3. \A u \in Publishers : (pub'[u].step # "none" /\ pub'[u].auto) => (pub[u].step # "none" /\ pub[u].auto) \/ overlay = "base"
    BY <1>23, <1>4, <2>1 DEF FlushTick
  <2>4. \A v \in Workers : ast'[v] = "text" => ast[v] = "text" /\ auto'[v] = auto[v]
    BY <1>1, <1>23 DEF FlushTick, ThreadShape, threadVars
  <2>5. QED
    BY <1>1, <2>2, <2>3, <2>4 DEF Unanswered
<1>24. ASSUME NEW t \in Publishers, Decide(t)
     PROVE  Unanswered'
  <2>1. \A u \in Publishers : pub'[u].auto = pub[u].auto /\ (pub'[u].step # "none" => pub[u].step # "none")
    BY <1>1, <1>24 DEF Decide, MergeShape, Texts
  <2>2. UNCHANGED <<ast, auto>>
    BY <1>24 DEF Decide, threadVars
  <2>3. QED
    BY <1>1, <2>1, <2>2 DEF Unanswered
<1>25. ASSUME NEW t \in Publishers, Record(t)
     PROVE  Unanswered'
  <2>1. \A u \in Publishers : pub'[u].step # "none" => pub'[u] = pub[u]
    BY <1>1, <1>25 DEF Record, MergeShape, Texts, Silent
  <2>2. UNCHANGED <<ast, auto>>
    BY <1>25 DEF Record, threadVars
  <2>3. QED
    BY <1>1, <2>1, <2>2 DEF Unanswered
<1>26. QED
  BY <1>5, <1>6, <1>7, <1>8, <1>9, <1>10, <1>11, <1>12, <1>13, <1>14, <1>15, <1>16, <1>17,
     <1>18, <1>19, <1>20, <1>21, <1>22, <1>23, <1>24, <1>25, ThreadFrame, MergeFrame

\* What the Interview publishes is in its history already.
LEMMA NotedFirstStep ==
    ASSUME SpeechIInv, Patient, CaptureNext, active' = active
    PROVE  NotedFirst'
<1>1. NotedFirst /\ MergeShape /\ CaptureShape
  BY DEF SpeechIInv, PatientIInv, CaptureShape
<1>2. \A t \in Publishers, a \in BOOLEAN : Hold(t, a) => \A u \in Publishers : pub'[u].text \subseteq pub[u].text
  <2>1. SUFFICES ASSUME NEW t \in Publishers, NEW a \in BOOLEAN, Hold(t, a), NEW u \in Publishers
                 PROVE  pub'[u].text \subseteq pub[u].text
    OBVIOUS
  <2>2. /\ pub'[t] = [text |-> {}, auto |-> a, step |-> "locked"]
        /\ \A x \in Publishers \ {t} : pub'[x] = pub[x]
    BY <1>1, <2>1, HoldTyped
  <2>3. pub'[t].text = {}
    BY <2>2
  <2>4. QED
    BY <2>2, <2>3
<1>3. CASE UNCHANGED mergeVars /\ UNCHANGED fateVars
  BY <1>3, <1>1, <1>2 DEF NotedFirst, mergeVars, fateVars
<1>4. ASSUME NEW c \in Callers, FinalFlush(c)
     PROVE  NotedFirst'
  <2>1. c \in Publishers /\ (overlay = "base") \in BOOLEAN
    BY <1>1, WhoPublishes DEF CaptureShape, ThreadShape
  <2>2. \A u \in Publishers : pub'[u].text \subseteq pub[u].text
    BY <1>4, <1>2, <2>1 DEF FinalFlush
  <2>3. noted' = noted
    BY <1>4 DEF FinalFlush, fateVars
  <2>4. QED
    BY <1>1, <2>2, <2>3 DEF NotedFirst
<1>5. ASSUME NEW w \in Workers, Load(w)
     PROVE  NotedFirst'
  BY <1>5, <1>1, <1>2 DEF NotedFirst, Load, fateVars
<1>6. ASSUME NEW w \in Workers, AsrMerge(w)
     PROVE  NotedFirst'
  <2>1. AsrOf(w) \in Publishers /\ (auto[w]) \in BOOLEAN
    BY <1>1, WhoPublishes DEF CaptureShape, ThreadShape
  <2>2. \A u \in Publishers : pub'[u].text \subseteq pub[u].text
    BY <1>6, <1>2, <2>1 DEF AsrMerge
  <2>3. noted' = noted
    BY <1>6 DEF AsrMerge, fateVars
  <2>4. QED
    BY <1>1, <2>2, <2>3 DEF NotedFirst
<1>7. ASSUME NEW w \in Workers, FlushTick(w)
     PROVE  NotedFirst'
  <2>1. FlushOf(w) \in Publishers /\ (overlay = "base") \in BOOLEAN
    BY <1>1, WhoPublishes DEF CaptureShape, ThreadShape
  <2>2. \A u \in Publishers : pub'[u].text \subseteq pub[u].text
    BY <1>7, <1>2, <2>1 DEF FlushTick
  <2>3. noted' = noted
    BY <1>7 DEF FlushTick, fateVars
  <2>4. QED
    BY <1>1, <2>2, <2>3 DEF NotedFirst
<1>8. ASSUME NEW t \in Publishers, Decide(t)
     PROVE  NotedFirst'
  <2>1. \A u \in Publishers : pub'[u].text = IF u = t THEN merge ELSE pub[u].text
    BY <1>1, <1>8 DEF Decide, MergeShape, Texts
  <2>2. noted' = IF active THEN noted ELSE noted \union merge
    BY <1>8 DEF Decide
  <2>3. QED
    BY <1>1, <2>1, <2>2 DEF NotedFirst
<1>9. ASSUME NEW t \in Publishers, Record(t)
     PROVE  NotedFirst'
  <2>1. noted' = noted /\ \A u \in Publishers : pub'[u].text = IF u = t THEN {} ELSE pub[u].text
    BY <1>1, <1>9 DEF Record, MergeShape, Texts, Silent
  <2>2. QED
    BY <1>1, <2>1 DEF NotedFirst
<1>10. QED
  BY <1>3, <1>4, <1>5, <1>6, <1>7, <1>8, <1>9, MergeFrame, FateFrame

\* What is heard, noted and answered stays with its owner.
LEMMA HomeStep ==
    ASSUME SpeechIInv, CaptureNext
    PROVE  Home'
<1>1. Home /\ TextOwned /\ Unanswered /\ MergeShape /\ FateShape
  BY DEF SpeechIInv, PatientIInv, CaptureShape
<1>2. \A s \in Segs : own[s] # "none" => own'[s] = own[s]
  BY KeepsOwner
<1>3. CASE UNCHANGED fateVars
  BY <1>3, <1>1, <1>2 DEF Home, FateShape, fateVars
<1>4. ASSUME NEW t \in Publishers, Decide(t)
     PROVE  Home'
  BY <1>4, <1>1, <1>2 DEF Home, FateShape, Decide, speechVars, TextOwned, Owned, Owner,
     MergeShape
<1>5. ASSUME NEW t \in Publishers, Record(t)
     PROVE  Home'
  BY <1>5, <1>1, <1>2 DEF Home, FateShape, Record, speechVars, TextOwned, Unanswered, Owned,
     Owner, MergeShape, Texts
<1>6. QED
  BY <1>3, <1>4, <1>5, FateFrame

\* The threads keep the microphone with its owner.
LEMMA MicThreading ==
    ASSUME SpeechIInv, Patient, Threading
    PROVE  MicRight'
<1>1. PatientIInv /\ MicRight /\ CaptureNext /\ Calm
  BY NextIs, PatientIs DEF SpeechIInv
<1>2. UNCHANGED <<callVars, bridgeVars, rec>> /\ \A c \in Callers : ~FinalFlush(c) /\ ~Spawn(c) /\ ~Respawn(c)
  BY <1>1, ThreadingIs, ThreadingNot DEF PatientIInv
<1>3. NoWorker => NoWorker'
  BY <1>1, <1>2, StaysWithoutWorker
<1>4. micFor' = micFor
  BY <1>1, <1>2, SpeechFrame, Continued DEF PatientIInv, Check, Look, Finish, Moves, At, callVars
<1>5. QED
  BY <1>1, <1>2, <1>3, <1>4 DEF MicRight, Owner, At, Op, callVars, bridgeVars

\* So does a call.
LEMMA MicCall ==
    ASSUME SpeechIInv, Patient, NEW b \in Callers, Call(b)
    PROVE  MicRight'
<1>1. PatientIInv /\ MicRight
  BY DEF SpeechIInv
<1>2. /\ \A d \in Callers : call[d] = Idle /\ At(d) = "idle"
      /\ \A d \in Callers \ {b} : call'[d] = Idle
      /\ call'[b].at \in {"signal", "hush", "rearm", "borrow"}
      /\ UNCHANGED <<active, rec, wst, micFor>>
  BY <1>1, CallIs DEF flagVars, threadVars, textVars
<1>3. \A d \in Callers : Op(d) # "cStart"
  BY <1>2, IdleIs DEF Op
<1>4. NoWorker' <=> NoWorker
  BY <1>2 DEF NoWorker, WorkerAlive
<1>5. \A d \in Callers : call'[d].at \notin {"flag", "spawn"}
  BY <1>2, IdleIs
<1>6. QED
  BY <1>1, <1>2, <1>3, <1>4, <1>5 DEF MicRight, Owner, At

\* So does a call that goes on.
LEMMA MicContinue ==
    ASSUME SpeechIInv, Patient, NEW c \in Callers, Continue(c)
    PROVE  MicRight'
<1>1. /\ PatientIInv /\ CaptureShape /\ CallShape /\ Routes /\ Bridge /\ FlagsFollow /\ OneCall /\ CaptureNext
      /\ MicRight /\ Calm
  BY NextIs, PatientIs DEF SpeechIInv, PatientIInv, CaptureShape
<1>2. At(c) # "idle" /\ CallerEmptied(c)
  BY <1>1, Continued, EmptiedIs DEF Continue, Signal, PatientIInv
<1>3. \A d \in Callers \ {c} : call[d] = Idle
  BY <1>1, <1>2, Alone
<1>4. \A d \in Callers \ {c} : Op(d) # "cStart" /\ At(d) \notin {"flag", "spawn"}
  BY <1>3, IdleIs DEF Op, At
<1>5. At(c) \notin {"spawn", "respawn"} => (NoWorker => NoWorker') /\ (EmptyPipe => EmptyPipe')
  BY <1>1, <1>2, OnlyOneGoes, StaysWithoutWorker, StaysEmpty
<1>6. CASE Borrow(c)
  <2>1. At(c) = "borrow" /\ Moves(c, "signal")
    BY <1>1, <1>6, Continued
  <2>2. Op(c) = "cStart"
    BY <1>1, <2>1, WhoIsThere, Thens DEF Stopping, Routes, Op
  <2>3. NoWorker' /\ UNCHANGED micFor
    BY <1>2, <1>5, <1>6, <2>1, <2>2 DEF CallerEmptied, EmptyPipe, Borrow, textVars
  <2>4. Op(c) = "cStart" /\ active'
    BY <1>1, <1>6, <2>1, <2>2 DEF FlagsFollow, Bridge, Borrow, At, Op, flagVars
  <2>5. QED
    BY <1>3, <1>4, <2>1, <2>2, <2>3, <2>4, IdleIs DEF MicRight, Owner, At, Op, Moves
<1>7. CASE Signal(c)
  <2>1. /\ At(c) = "signal" /\ call'[c].at = "join" /\ call'[c].joined = runtime
        /\ call'[c].op = call[c].op /\ call'[c].then = call[c].then /\ call'[c].kept = call[c].kept
        /\ \A d \in Callers \ {c} : call'[d] = call[d]
    BY <1>1, <1>7, SignalMoves
  <2>2. Op(c) \in {"iStart", "cStart", "iStop", "cStop"}
    BY <1>1, <2>1, WhoIsThere, Thens DEF Stopping, Routes, Op
  <2>3. UNCHANGED <<active, micFor>> /\ rec' = rec
    BY <1>1, <1>7, <2>1 DEF Signal, FlagsFollow, At, bridgeVars, flagVars, textVars
  <2>4. QED
    BY <1>1, <1>2, <1>3, <1>4, <1>5, <2>1, <2>2, IdleIs, <2>3 DEF MicRight, Owner, At, Op
<1>8. CASE JoinWorker(c)
  <2>1. At(c) = "join" /\ Moves(c, "drain")
    BY <1>1, <1>8, Continued
  <2>2. Op(c) \in {"iStart", "cStart", "iStop", "cStop"}
    BY <1>1, <2>1, WhoIsThere, Thens DEF Stopping, Routes, Op
  <2>3. UNCHANGED <<active, micFor>> /\ rec' = rec
    BY <1>1, <1>8, <2>1 DEF JoinWorker, FlagsFollow, At, bridgeVars, flagVars, textVars
  <2>4. QED
    BY <1>1, <1>2, <1>3, <1>4, <1>5, <2>1, <2>2, IdleIs, <2>3 DEF MicRight, Owner, At, Op,
       Moves
<1>9. CASE AwaitDrain(c)
  <2>1. At(c) = "drain" /\ Moves(c, "flush")
    BY <1>1, <1>9, Continued
  <2>2. Op(c) \in {"iStart", "cStart", "iStop", "cStop"}
    BY <1>1, <2>1, WhoIsThere, Thens DEF Stopping, Routes, Op
  <2>3. UNCHANGED <<active, micFor>> /\ rec' = rec
    BY <1>1, <1>9, <2>1 DEF AwaitDrain, FlagsFollow, At, bridgeVars, flagVars, textVars
  <2>4. QED
    BY <1>1, <1>2, <1>3, <1>4, <1>5, <2>1, <2>2, IdleIs, <2>3 DEF MicRight, Owner, At, Op,
       Moves
<1>10. CASE FinalFlush(c)
  <2>1. At(c) = "flush" /\ Moves(c, "flushing")
    BY <1>1, <1>10, Continued
  <2>2. Op(c) \in {"iStart", "cStart", "iStop", "cStop"}
    BY <1>1, <2>1, WhoIsThere, Thens DEF Stopping, Routes, Op
  <2>3. UNCHANGED <<active, micFor>> /\ rec' = rec
    BY <1>1, <1>10, <2>1 DEF FinalFlush, FlagsFollow, At, bridgeVars, flagVars, textVars
  <2>4. QED
    BY <1>1, <1>2, <1>3, <1>4, <1>5, <2>1, <2>2, IdleIs, <2>3 DEF MicRight, Owner, At, Op,
       Moves
<1>11. CASE Settle(c)
  <2>1. At(c) = "flushing" /\ Moves(c, call[c].then)
    BY <1>1, <1>11, Continued
  <2>2. Op(c) \in {"iStart", "cStart", "iStop", "cStop"} /\ call[c].then = ThenOf(Op(c))
    BY <1>1, <2>1, WhoIsThere, Thens DEF Stopping, Routes, Op
  <2>3. UNCHANGED <<active, micFor>> /\ ~rec'
    BY <1>1, <1>11, <2>1 DEF Settle, FlagsFollow, At, bridgeVars, flagVars, textVars
  <2>4. QED
    BY <1>1, <1>2, <1>3, <1>4, <1>5, <2>1, <2>2, IdleIs, <2>3, Thens DEF MicRight, Owner,
       At, Op, Moves
<1>12. CASE Open(c)
  <2>1. At(c) = "open" /\ Moves(c, "flag")
    BY <1>1, <1>12, Continued
  <2>2. Op(c) \in {"iStart", "cStart"}
    BY <1>1, <2>1, WhoIsThere, Thens DEF Stopping, Routes, Op
  <2>3. NoWorker' /\ UNCHANGED <<active, rec>>
    BY <1>2, <1>5, <1>12, <2>1 DEF CallerEmptied, EmptyPipe, Open, bridgeVars
  <2>4. active <=> Op(c) = "cStart"
    BY <1>1, <2>1, <2>2 DEF FlagsFollow, Bridge, At
  <2>5. micFor' = Owner'
    BY <1>12, <2>3, <2>4 DEF Open, Owner, Op
  <2>6. QED
    BY <1>3, <2>1, <2>3, <2>5, IdleIs DEF MicRight, Owner, At, Op, Moves
<1>13. CASE OpenFails(c)
  <2>1. At(c) = "open" /\ Moves(c, "idle")
    BY <1>1, <1>13, Continued
  <2>2. Op(c) \in {"iStart", "cStart"}
    BY <1>1, <2>1, WhoIsThere, Thens DEF Stopping, Routes, Op
  <2>3. NoWorker' /\ UNCHANGED micFor
    BY <1>2, <1>5, <1>13, <2>1, <2>2 DEF CallerEmptied, EmptyPipe, OpenFails, textVars
  <2>4. ~active' /\ ~rec'
    BY <1>1, <1>13, <2>1, <2>2 DEF FlagsFollow, Bridge, OpenFails, At, Op, flagVars
  <2>5. QED
    BY <1>3, <1>4, <2>1, <2>2, <2>3, <2>4, IdleIs DEF MicRight, Owner, At, Op, Moves
<1>14. CASE Flag(c)
  <2>1. At(c) = "flag" /\ Moves(c, "spawn")
    BY <1>1, <1>14, Continued
  <2>2. Op(c) \in {"iStart", "cStart"}
    BY <1>1, <2>1, WhoIsThere, Thens DEF Stopping, Routes, Op
  <2>3. UNCHANGED <<active, micFor>> /\ active' = active
    BY <1>1, <1>14, <2>1 DEF Flag, FlagsFollow, At, bridgeVars, flagVars, textVars
  <2>4. QED
    BY <1>1, <1>2, <1>3, <1>4, <1>5, <2>1, <2>2, IdleIs, <2>3 DEF MicRight, Owner, At, Op,
       Moves
<1>15. CASE Spawn(c)
  <2>1. At(c) = "spawn" /\ Moves(c, IF call[c].op = "cStart" THEN "commit" ELSE "idle")
    BY <1>1, <1>15, Continued
  <2>2. Op(c) \in {"iStart", "cStart"}
    BY <1>1, <2>1, WhoIsThere, Thens DEF Stopping, Routes, Op
  <2>3. UNCHANGED <<active, micFor>> /\ rec' = rec
    BY <1>1, <1>15, <2>1 DEF Spawn, FlagsFollow, At, bridgeVars, flagVars, textVars
  <2>4. micFor = Owner
    BY <1>1, <1>4, <2>1, <2>2 DEF MicRight, FlagsFollow, At, Op
  <2>5. QED
    BY <1>1, <1>2, <1>3, <1>4, <1>5, <2>1, <2>2, IdleIs, <2>3, <2>4 DEF MicRight, Owner, At,
       Op, Moves
<1>16. CASE Commit(c)
  <2>1. At(c) = "commit" /\ Moves(c, "idle")
    BY <1>1, <1>16, Continued
  <2>2. Op(c) = "cStart"
    BY <1>1, <2>1, WhoIsThere, Thens DEF Stopping, Routes, Op
  <2>3. UNCHANGED <<active, micFor>> /\ rec' = rec
    BY <1>1, <1>16, <2>1 DEF Commit, FlagsFollow, At, bridgeVars, flagVars, textVars
  <2>4. QED
    BY <1>1, <1>2, <1>3, <1>4, <1>5, <2>1, <2>2, IdleIs, <2>3 DEF MicRight, Owner, At, Op,
       Moves
<1>17. CASE Restore(c)
  <2>1. At(c) = "restore" /\ Moves(c, "release")
    BY <1>1, <1>17, Continued
  <2>2. Op(c) = "cStop"
    BY <1>1, <2>1, WhoIsThere, Thens DEF Stopping, Routes, Op
  <2>3. UNCHANGED <<active, micFor>> /\ ~rec'
    BY <1>1, <1>17, <2>1 DEF Restore, FlagsFollow, At, bridgeVars, flagVars, textVars
  <2>4. QED
    BY <1>1, <1>2, <1>3, <1>4, <1>5, <2>1, <2>2, IdleIs, <2>3 DEF MicRight, Owner, At, Op,
       Moves
<1>18. CASE Release(c)
  <2>1. At(c) = "release" /\ Moves(c, "idle")
    BY <1>1, <1>18, Continued
  <2>2. Op(c) = "cStop"
    BY <1>1, <2>1, WhoIsThere, Thens DEF Stopping, Routes, Op
  <2>3. NoWorker' /\ UNCHANGED micFor
    BY <1>2, <1>5, <1>18, <2>1, <2>2 DEF CallerEmptied, EmptyPipe, Release, textVars
  <2>4. ~active' /\ ~rec'
    BY <1>1, <1>18, <2>1, <2>2 DEF FlagsFollow, Bridge, Release, At, Op, flagVars
  <2>5. QED
    BY <1>3, <1>4, <2>1, <2>2, <2>3, <2>4, IdleIs DEF MicRight, Owner, At, Op, Moves
<1>19. CASE Hush(c)
  <2>1. At(c) = "hush" /\ Moves(c, "hushed")
    BY <1>1, <1>19, Continued
  <2>2. Op(c) \in {"iPause", "cPause"}
    BY <1>1, <2>1, WhoIsThere, Thens DEF Stopping, Routes, Op
  <2>3. UNCHANGED <<active, micFor>> /\ rec' = rec
    BY <1>1, <1>19, <2>1 DEF Hush, FlagsFollow, At, bridgeVars, flagVars, textVars
  <2>4. QED
    BY <1>1, <1>2, <1>3, <1>4, <1>5, <2>1, <2>2, IdleIs, <2>3 DEF MicRight, Owner, At, Op,
       Moves
<1>20. CASE Hushed(c)
  <2>1. At(c) = "hushed" /\ Moves(c, "idle")
    BY <1>1, <1>20, Continued
  <2>2. Op(c) \in {"iPause", "cPause"}
    BY <1>1, <2>1, WhoIsThere, Thens DEF Stopping, Routes, Op
  <2>3. UNCHANGED <<active, micFor>> /\ rec' = rec
    BY <1>1, <1>20, <2>1 DEF Hushed, FlagsFollow, At, bridgeVars, flagVars, textVars
  <2>4. QED
    BY <1>1, <1>2, <1>3, <1>4, <1>5, <2>1, <2>2, IdleIs, <2>3 DEF MicRight, Owner, At, Op,
       Moves
<1>21. CASE Rearm(c)
  <2>1. At(c) = "rearm" /\ (Moves(c, "respawn") \/ Moves(c, "unhush") \/ Moves(c, "idle"))
    BY <1>1, <1>21, Continued
  <2>2. Op(c) \in {"iResume", "cResume"}
    BY <1>1, <2>1, WhoIsThere, Thens DEF Stopping, Routes, Op
  <2>3. UNCHANGED <<active, micFor>> /\ rec' = rec
    BY <1>1, <1>21, <2>1 DEF Rearm, FlagsFollow, At, bridgeVars, flagVars, textVars
  <2>4. QED
    BY <1>1, <1>2, <1>3, <1>4, <1>5, <2>1, <2>2, IdleIs, <2>3 DEF MicRight, Owner, At, Op,
       Moves
<1>22. CASE Respawn(c)
  <2>1. At(c) = "respawn" /\ Moves(c, "unhush")
    BY <1>1, <1>22, Continued
  <2>2. Op(c) \in {"iResume", "cResume"}
    BY <1>1, <2>1, WhoIsThere, Thens DEF Stopping, Routes, Op
  <2>3. UNCHANGED <<active, micFor>> /\ rec' = rec
    BY <1>1, <1>22, <2>1 DEF Respawn, FlagsFollow, At, bridgeVars, flagVars, textVars
  <2>4. micFor = Owner
    BY <1>1, <1>4, <2>1, <2>2 DEF MicRight, FlagsFollow, At, Op
  <2>5. QED
    BY <1>1, <1>2, <1>3, <1>4, <1>5, <2>1, <2>2, IdleIs, <2>3, <2>4 DEF MicRight, Owner, At,
       Op, Moves
<1>23. CASE Unhush(c)
  <2>1. At(c) = "unhush" /\ Moves(c, "idle")
    BY <1>1, <1>23, Continued
  <2>2. Op(c) \in {"iResume", "cResume"}
    BY <1>1, <2>1, WhoIsThere, Thens DEF Stopping, Routes, Op
  <2>3. UNCHANGED <<active, micFor>> /\ rec' = rec
    BY <1>1, <1>23, <2>1 DEF Unhush, FlagsFollow, At, bridgeVars, flagVars, textVars
  <2>4. QED
    BY <1>1, <1>2, <1>3, <1>4, <1>5, <2>1, <2>2, IdleIs, <2>3 DEF MicRight, Owner, At, Op,
       Moves
<1>24. QED
  BY <1>6, <1>7, <1>8, <1>9, <1>10, <1>11, <1>12, <1>13, <1>14, <1>15, <1>16, <1>17, <1>18,
     <1>19, <1>20, <1>21, <1>22, <1>23 DEF Continue

\* What is under way stays with its owner.
LEMMA SpeechStep ==
    ASSUME SpeechIInv, Patient, CaptureNext
    PROVE  /\ QueueOwned' /\ HandOwned' /\ TextOwned' /\ MicRight' /\ Unanswered' /\ NotedFirst' /\ Home'
<1>1. MicRight'
  BY NextIs, MicThreading, MicCall, MicContinue
<1>2. Home'
  BY HomeStep
<1>3. CASE active' = active
  BY <1>1, <1>2, <1>3, QueueOwnedStep, HandOwnedStep, TextOwnedStep, UnansweredStep, NotedFirstStep
<1>4. CASE active' # active
  BY <1>1, <1>2, <1>4, HandedOver
<1>5. QED
  BY <1>3, <1>4

-----------------------------------------------------------------------------
(* A recording that runs.                                                  *)

WorkersRecord ==
    \A w \in Workers :
        /\ wst[w] = "load" => runtime = 0 /\ merge = {}
        /\ wst[w] \in {"finish", "last"} => stopEv
        /\ wst[w] \in {"load", "check", "look"} /\ ~stopEv => audio \/ pauseEv
        /\ wst[w] \in {"check", "look", "finish"} => AsrAlive(w) /\ ~drain[rt[w]]
CallersRecord ==
    \A c \in Callers :
        /\ At(c) \in {"flag", "spawn"} => ~stopEv /\ audio
        /\ At(c) \in {"respawn", "unhush"} => audio
GoesOn == rec /\ NoneAt(Stopping \union {"spawn"}) => ~stopEv /\ WorkerAlive(worker)

\* The parts of Recording.
LEMMA RecordingIs == Recording <=> WorkersRecord /\ CallersRecord /\ GoesOn
BY DEF Recording, WorkersRecord, CallersRecord, GoesOn

QuietIInv == SpeechIInv /\ OpenForRecording /\ Recording /\ NothingForgotten

\* What a quiet behaviour is spared.
LEMMA QuietIs == Quiet => Patient /\ Calm /\ "device" \notin hazards /\ "race" \notin hazards
BY DEF Quiet, Patient, Calm

\* What the threads leave to the requests.
LEMMA ThreadsLeave ==
    ASSUME Threading, Quiet
    PROVE  /\ UNCHANGED <<callVars, bridgeVars, rec, stopEv, pauseEv, worker>>
           /\ audio' = audio \/ \E w \in Workers : Finish(w)
<1>1. UNCHANGED <<callVars, bridgeVars, rec>>
  BY QuietIs, ThreadingIs
<1>2. ASSUME NEW w \in Workers, Work(w)
      PROVE  UNCHANGED <<stopEv, pauseEv, worker>> /\ (audio' = audio \/ Finish(w))
  BY <1>2, QuietIs, CalmIs DEF Work, Load, LoadFails, Check, Look, WorkerCrashes, Finish, WorkerEnds, flagVars
<1>3. ASSUME NEW w \in Workers, Recognise(w) \/ FlushTick(w)
      PROVE  UNCHANGED <<stopEv, pauseEv, worker, audio>>
  BY <1>3 DEF Recognise, AsrTake, AsrMerge, AsrDone, AsrEnds, FlushTick, flagVars, threadVars
<1>4. ASSUME NEW t \in Publishers, Publish(t)
      PROVE  UNCHANGED <<stopEv, pauseEv, worker, audio>>
  BY <1>4 DEF Publish, Decide, Record, flagVars, threadVars
<1>5. ~AudioDies
  BY QuietIs DEF AudioDies
<1>6. QED
  BY <1>1, <1>2, <1>3, <1>4, <1>5 DEF Threading

\* The threads keep what each worker needs.
LEMMA WorkersRecordThreading ==
    ASSUME QuietIInv, Quiet, Threading
    PROVE  WorkersRecord'
<1>1. /\ CaptureShape /\ ThreadShape /\ MergeShape /\ Loaded /\ Threads /\ WorkersRecord
      /\ Calm /\ "race" \notin hazards
  BY QuietIs, RecordingIs, OneWorkerIs DEF QuietIInv, SpeechIInv, PatientIInv, CaptureShape
<1>2. \A v \in Workers : /\ (WorkerAlive(v) <=> wst[v] \notin {"unborn", "dead"})
                           /\ (AsrAlive(v) <=> ast[v] \notin {"none", "dead"})
  BY DEF WorkerAlive, AsrAlive
<1>3. \A v, w \in Workers : WorkerAlive(v) /\ WorkerAlive(w) => v = w
  BY <1>1 DEF Threads
<1>4. \A v \in Workers : wst[v] \in Capturing => rt[v] = runtime /\ rt[v] \in Workers
  BY <1>1, HasRuntime DEF Threads, Capturing, Fresh
<1>5. UNCHANGED <<stopEv, pauseEv, worker>>
  BY ThreadsLeave
<1>6. ASSUME NEW w \in Workers, Load(w)
      PROVE  WorkersRecord'
  <2>1. /\ wst[w] = "load" /\ wst' = [wst EXCEPT ![w] = "check"] /\ ast' = [ast EXCEPT ![w] = "wait"]
        /\ rt' = [rt EXCEPT ![w] = runtime'] /\ runtime' = (IF runtime # 0 THEN runtime ELSE w)
        /\ UNCHANGED <<audio, drain>>
    BY <1>6 DEF Load, Move, flagVars
  <2>2. runtime' = w /\ ~drain[w] /\ \A v \in Workers : v # w => ~WorkerAlive(v)
    BY <1>1, <1>2, <1>3, <2>1 DEF WorkersRecord, Threads, Fresh
  <2>3. /\ wst'[w] = "check" /\ ast'[w] = "wait" /\ rt'[w] = w
        /\ \A v \in Workers : v # w => wst'[v] = wst[v]
    BY <1>1, <2>1, <2>2 DEF ThreadShape
  <2>4. QED
    BY <1>1, <1>2, <1>5, <2>1, <2>2, <2>3 DEF WorkersRecord, AsrAlive
<1>7. ASSUME NEW w \in Workers, Check(w)
      PROVE  WorkersRecord'
  <2>1. /\ UNCHANGED <<audio, drain, rt, ast, runtime, merge>> /\ wst[w] = "check"
        /\ \/ UNCHANGED wst
           \/ wst' = [wst EXCEPT ![w] = "look"]
           \/ stopEv /\ wst' = [wst EXCEPT ![w] = "finish"]
    BY <1>7 DEF Check, Move, flagVars, mergeVars
  <2>2. QED
    BY <1>1, <1>2, <1>5, <2>1 DEF WorkersRecord, AsrAlive, ThreadShape
<1>8. ASSUME NEW w \in Workers, Look(w)
      PROVE  WorkersRecord'
  <2>1. /\ UNCHANGED <<audio, drain, rt, ast, runtime, merge>> /\ wst[w] = "look"
        /\ \/ wst' = [wst EXCEPT ![w] = "check"]
           \/ ~audio /\ ~pauseEv /\ wst' = [wst EXCEPT ![w] = "finish"]
    BY <1>1, <1>8 DEF Look, Move, flagVars, mergeVars
  <2>2. ~audio /\ ~pauseEv => stopEv
    BY <1>1, <2>1 DEF WorkersRecord
  <2>3. QED
    BY <1>1, <1>2, <1>5, <2>1, <2>2 DEF WorkersRecord, AsrAlive, ThreadShape
<1>9. ASSUME NEW w \in Workers, Finish(w)
      PROVE  WorkersRecord'
  <2>1. /\ UNCHANGED <<rt, ast, runtime, merge>> /\ wst[w] = "finish" /\ wst' = [wst EXCEPT ![w] = "last"]
    BY <1>9 DEF Finish, Move, mergeVars
  <2>2. stopEv /\ \A v \in Workers : v # w => ~WorkerAlive(v)
    BY <1>1, <1>2, <1>3, <2>1 DEF WorkersRecord
  <2>3. wst'[w] = "last" /\ \A v \in Workers : v # w => wst'[v] = wst[v]
    BY <1>1, <2>1 DEF ThreadShape
  <2>4. QED
    BY <1>1, <1>2, <1>5, <2>1, <2>2, <2>3 DEF WorkersRecord
<1>10. ASSUME NEW w \in Workers, WorkerEnds(w)
      PROVE  WorkersRecord'
  <2>1. /\ UNCHANGED <<audio, drain, rt, ast, runtime, merge>> /\ wst' = [wst EXCEPT ![w] = "dead"]
    BY <1>10 DEF WorkerEnds, Move, flagVars, textVars, mergeVars
  <2>2. QED
    BY <1>1, <1>5, <2>1 DEF WorkersRecord, AsrAlive, ThreadShape
<1>11. ASSUME NEW w \in Workers, AsrTake(w) \/ AsrMerge(w) \/ AsrDone(w)
      PROVE  WorkersRecord'
  <2>1. AsrAlive(w) /\ WorkerAlive(w) /\ wst[w] \in Capturing
    BY <1>1, <1>2, <1>11 DEF AsrTake, AsrMerge, AsrDone, Threads, Capturing
  <2>2. \A v \in Workers : wst[v] # "load"
    BY <1>2, <1>3, <2>1 DEF Capturing
  <2>3. /\ UNCHANGED <<audio, drain, rt, wst, runtime>>
        /\ \E to \in {"text", "publish", "wait"} : ast' = [ast EXCEPT ![w] = to]
    BY <1>11 DEF AsrTake, AsrMerge, AsrDone, flagVars
  <2>4. \A v \in Workers : AsrAlive(v) => AsrAlive(v)'
    BY <1>1, <2>3 DEF AsrAlive, ThreadShape
  <2>5. QED
    BY <1>1, <1>5, <2>2, <2>3, <2>4 DEF WorkersRecord
<1>12. ASSUME NEW w \in Workers, AsrEnds(w)
      PROVE  WorkersRecord'
  <2>1. /\ drain[rt[w]] /\ UNCHANGED <<audio, drain, rt, wst, runtime, merge>>
        /\ ast' = [ast EXCEPT ![w] = "dead"]
    BY <1>12 DEF AsrEnds, flagVars, textVars, mergeVars
  <2>2. wst[w] \notin {"check", "look", "finish"} /\ \A v \in Workers : v # w => (AsrAlive(v) => AsrAlive(v)')
    BY <1>1, <2>1 DEF WorkersRecord, AsrAlive, ThreadShape
  <2>3. QED
    BY <1>1, <1>5, <2>1, <2>2 DEF WorkersRecord
<1>13. ASSUME NEW w \in Workers, FlushTick(w)
      PROVE  WorkersRecord'
  BY <1>1, <1>5, <1>13 DEF FlushTick, WorkersRecord, AsrAlive, flagVars, threadVars
<1>14. ASSUME NEW t \in Publishers, Publish(t)
      PROVE  WorkersRecord'
  BY <1>1, <1>5, <1>14 DEF Publish, Decide, Record, WorkersRecord, AsrAlive, flagVars, threadVars
<1>15. QED
  BY <1>1, <1>6, <1>7, <1>8, <1>9, <1>10, <1>11, <1>12, <1>13, <1>14, CalmIs, QuietIs
     DEF Threading, Work, Recognise, LoadFails, WorkerCrashes, AudioDies

\* The threads keep the recording going.
LEMMA RecordingThreading ==
    ASSUME QuietIInv, Quiet, Threading
    PROVE  Recording'
<1>1. /\ CallersRecord /\ GoesOn /\ WorkersRecord /\ ThreadShape /\ Threads /\ CaptureShape /\ CallShape
      /\ Routes /\ Emptied /\ FlagsFollow /\ OpenForRecording
  BY RecordingIs, OneWorkerIs DEF QuietIInv, SpeechIInv, PatientIInv, CaptureShape
<1>2. UNCHANGED <<callVars, bridgeVars, rec, stopEv, pauseEv, worker>>
  BY ThreadsLeave
<1>3. \A w \in Workers : Finish(w) => stopEv /\ WorkerAlive(w)
  BY <1>1 DEF Finish, Move, WorkersRecord, WorkerAlive
<1>4. CallersRecord'
  <2>1. SUFFICES ASSUME NEW c \in Callers, NEW w \in Workers, Finish(w),
                        At(c) \in {"flag", "spawn", "respawn", "unhush"}
                 PROVE  FALSE
    BY <1>1, <1>2, ThreadsLeave DEF CallersRecord, At, callVars
  <2>2. stopEv /\ ~NoWorker
    BY <1>3, <2>1 DEF NoWorker
  <2>3. At(c) \notin {"flag", "spawn"}
    BY <1>1, <2>2 DEF Emptied, EmptyPipe
  <2>4. rec
    BY <1>1, <2>1, <2>3, WhoIsThere DEF FlagsFollow, OpenForRecording
  <2>5. NoneAt(Stopping \union {"spawn"})
    BY <1>1, <2>1, <2>3, Alone, IdleIs DEF QuietIInv, SpeechIInv, PatientIInv, NoneAt, At, Stopping
  <2>6. QED
    BY <1>1, <2>2, <2>4, <2>5 DEF GoesOn
<1>5. GoesOn'
  <2>1. SUFFICES ASSUME rec, NoneAt(Stopping \union {"spawn"})
                 PROVE  WorkerAlive(worker)'
    BY <1>1, <1>2 DEF GoesOn, NoneAt, At, callVars
  <2>2. ~stopEv /\ WorkerAlive(worker)
    BY <1>1, <2>1 DEF GoesOn
  <2>3. \A w \in Workers : ~WorkerEnds(w) /\ ~Finish(w)
    BY <1>1, <2>2 DEF WorkerEnds, Finish, Move, WorkersRecord
  <2>4. CASE UNCHANGED wst
    BY <1>2, <2>2, <2>4 DEF WorkerAlive
  <2>5. CASE \E w \in Workers : \E to \in {"check", "look", "finish"} : wst' = [wst EXCEPT ![w] = to]
    BY <1>1, <1>2, <2>2, <2>5 DEF WorkerAlive, ThreadShape
  <2>6. UNCHANGED wst \/ \E w \in Workers : \E to \in {"check", "look", "finish"} : wst' = [wst EXCEPT ![w] = to]
    <3>1. ASSUME NEW w \in Workers, Work(w)
          PROVE  UNCHANGED wst \/ \E to \in {"check", "look", "finish"} : wst' = [wst EXCEPT ![w] = to]
      BY <2>3, <3>1, QuietIs, CalmIs DEF Work, Load, LoadFails, Check, Look, WorkerCrashes, Move
    <3>2. ASSUME NEW w \in Workers, Recognise(w) \/ FlushTick(w)
          PROVE  UNCHANGED wst
      BY <3>2 DEF Recognise, AsrTake, AsrMerge, AsrDone, AsrEnds, FlushTick, threadVars
    <3>3. ASSUME NEW t \in Publishers, Publish(t)
          PROVE  UNCHANGED wst
      BY <3>3 DEF Publish, Decide, Record, threadVars
    <3>4. QED
      BY <3>1, <3>2, <3>3 DEF Threading, AudioDies, threadVars
  <2>7. QED
    BY <2>4, <2>5, <2>6
<1>6. QED
  BY <1>4, <1>5, WorkersRecordThreading, RecordingIs DEF Recording, WorkersRecord, CallersRecord, GoesOn

\* So does a call.
LEMMA RecordingCall ==
    ASSUME QuietIInv, Quiet, NEW b \in Callers, Call(b)
    PROVE  Recording'
<1>1. PatientIInv /\ Patient /\ WorkersRecord /\ GoesOn
  BY QuietIs, RecordingIs DEF QuietIInv, SpeechIInv
<1>2. /\ \A d \in Callers : call[d] = Idle /\ At(d) = "idle"
      /\ \A d \in Callers \ {b} : call'[d] = Idle
      /\ call'[b].at \in {"signal", "hush", "rearm", "borrow"}
      /\ UNCHANGED <<flagVars, threadVars, textVars>>
  BY <1>1, CallIs
<1>3. WorkersRecord'
  BY <1>1, <1>2 DEF WorkersRecord, AsrAlive, flagVars, threadVars, textVars, mergeVars
<1>4. CallersRecord'
  BY <1>2, IdleIs DEF CallersRecord, At
<1>5. GoesOn'
  BY <1>1, <1>2 DEF GoesOn, NoneAt, Stopping, WorkerAlive, flagVars, threadVars
<1>6. QED
  BY <1>3, <1>4, <1>5 DEF Recording, WorkersRecord, CallersRecord, GoesOn

\* So does a call that goes on.
LEMMA RecordingContinue ==
    ASSUME QuietIInv, Quiet, NEW c \in Callers, Continue(c)
    PROVE  Recording'
<1>1. /\ CaptureShape /\ CallShape /\ ThreadShape /\ Routes /\ Bridge /\ FlagsFollow /\ OneCall /\ Emptied
      /\ CaptureNext /\ PatientIInv /\ Threads /\ Patient /\ Calm /\ ~GivesUp /\ "device" \notin hazards
      /\ WorkersRecord /\ CallersRecord /\ GoesOn /\ OpenForRecording
  BY NextIs, QuietIs, PatientIs, RecordingIs, OneWorkerIs DEF QuietIInv, SpeechIInv, PatientIInv, CaptureShape
<1>2. At(c) # "idle" /\ CallerEmptied(c)
  BY <1>1, Continued, EmptiedIs DEF Continue, Signal
<1>3. \A d \in Callers \ {c} : call[d] = Idle
  BY <1>1, <1>2, Alone
<1>4. NoneAt(Stopping \union {"spawn"}) <=> At(c) \notin Stopping \union {"spawn"}
  BY <1>3, IdleIs DEF NoneAt, At, Stopping
<1>5. NoWorker => \A w \in Workers : wst[w] \notin {"load", "check", "look", "finish", "last"}
  BY DEF NoWorker, WorkerAlive
<1>6. SUFFICES /\ \A d \in Callers \ {c} : call'[d] = Idle
               /\ WorkersRecord'
               /\ call'[c].at \in {"flag", "spawn"} => ~stopEv' /\ audio'
               /\ call'[c].at \in {"respawn", "unhush"} => audio'
               /\ rec' /\ call'[c].at \notin Stopping \union {"spawn"} => ~stopEv' /\ (WorkerAlive(worker))'
  BY IdleIs DEF Recording, WorkersRecord, CallersRecord, GoesOn, NoneAt, At
<1>7. CASE Borrow(c)
  <2>1. At(c) = "borrow" /\ Moves(c, "signal")
    BY <1>1, <1>7, Continued
  <2>2. Op(c) = "cStart"
    BY <1>1, <2>1, WhoIsThere, Thens DEF Stopping, Routes, Op
  <2>3. NoWorker /\ UNCHANGED wst
    BY <1>2, <1>7, <2>1, <2>2 DEF CallerEmptied, EmptyPipe, Borrow, threadVars
  <2>4. WorkersRecord'
    BY <1>5, <2>3 DEF WorkersRecord
  <2>5. ~rec'
    BY <1>1, <1>7, <2>1 DEF FlagsFollow, Borrow, flagVars, At
  <2>6. QED
    BY <1>3, <2>1, <2>2, IdleIs, <2>4, <2>5 DEF Stopping, Moves
<1>8. CASE Signal(c)
  <2>1. /\ At(c) = "signal" /\ call'[c].at = "join" /\ call'[c].joined = runtime
        /\ call'[c].op = call[c].op /\ call'[c].then = call[c].then /\ call'[c].kept = call[c].kept
        /\ \A d \in Callers \ {c} : call'[d] = call[d]
    BY <1>1, <1>8, SignalMoves
  <2>2. Op(c) \in {"iStart", "cStart", "iStop", "cStop"}
    BY <1>1, <2>1, WhoIsThere, Thens DEF Stopping, Routes, Op
  <2>3. stopEv' /\ UNCHANGED <<wst, rt, ast, drain, runtime, merge>>
    BY <1>8 DEF Signal, threadVars, textVars, mergeVars
  <2>4. WorkersRecord'
    BY <1>1, <2>3 DEF WorkersRecord, AsrAlive
  <2>5. QED
    BY <1>3, <2>1, <2>2, IdleIs, <2>4 DEF Stopping
<1>9. CASE JoinWorker(c)
  <2>1. At(c) = "join" /\ Moves(c, "drain")
    BY <1>1, <1>9, Continued
  <2>2. Op(c) \in {"iStart", "cStart", "iStop", "cStop"}
    BY <1>1, <2>1, WhoIsThere, Thens DEF Stopping, Routes, Op
  <2>3. NoWorker /\ UNCHANGED wst
    BY <1>1, <1>9 DEF JoinWorker, NoWorker, Threads
  <2>4. WorkersRecord'
    BY <1>5, <2>3 DEF WorkersRecord
  <2>5. QED
    BY <1>3, <2>1, <2>2, IdleIs, <2>4 DEF Stopping, Moves
<1>10. CASE AwaitDrain(c)
  <2>1. At(c) = "drain" /\ Moves(c, "flush")
    BY <1>1, <1>10, Continued
  <2>2. Op(c) \in {"iStart", "cStart", "iStop", "cStop"}
    BY <1>1, <2>1, WhoIsThere, Thens DEF Stopping, Routes, Op
  <2>3. NoWorker /\ UNCHANGED wst
    BY <1>2, <1>10, <2>1, <2>2 DEF CallerEmptied, EmptyPipe, AwaitDrain, threadVars
  <2>4. WorkersRecord'
    BY <1>5, <2>3 DEF WorkersRecord
  <2>5. QED
    BY <1>3, <2>1, <2>2, IdleIs, <2>4 DEF Stopping, Moves
<1>11. CASE FinalFlush(c)
  <2>1. At(c) = "flush" /\ Moves(c, "flushing")
    BY <1>1, <1>11, Continued
  <2>2. Op(c) \in {"iStart", "cStart", "iStop", "cStop"}
    BY <1>1, <2>1, WhoIsThere, Thens DEF Stopping, Routes, Op
  <2>3. NoWorker /\ UNCHANGED wst
    BY <1>2, <1>11, <2>1, <2>2 DEF CallerEmptied, EmptyPipe, FinalFlush, threadVars
  <2>4. WorkersRecord'
    BY <1>5, <2>3 DEF WorkersRecord
  <2>5. QED
    BY <1>3, <2>1, <2>2, IdleIs, <2>4 DEF Stopping, Moves
<1>12. CASE Settle(c)
  <2>1. At(c) = "flushing" /\ Moves(c, call[c].then)
    BY <1>1, <1>12, Continued
  <2>2. Op(c) \in {"iStart", "cStart", "iStop", "cStop"} /\ call[c].then = ThenOf(Op(c))
    BY <1>1, <2>1, WhoIsThere, Thens DEF Stopping, Routes, Op
  <2>3. NoWorker /\ UNCHANGED wst
    BY <1>2, <1>12, <2>1, <2>2 DEF CallerEmptied, EmptyPipe, Settle, threadVars
  <2>4. WorkersRecord'
    BY <1>5, <2>3 DEF WorkersRecord
  <2>5. ~rec'
    BY <1>1, <1>12, <2>1 DEF FlagsFollow, Settle, flagVars, At
  <2>6. QED
    BY <1>3, <2>1, <2>2, IdleIs, <2>4, <2>5, Thens DEF Stopping, Moves
<1>13. CASE Open(c)
  <2>1. At(c) = "open" /\ Moves(c, "flag")
    BY <1>1, <1>13, Continued
  <2>2. Op(c) \in {"iStart", "cStart"}
    BY <1>1, <2>1, WhoIsThere, Thens DEF Stopping, Routes, Op
  <2>3. NoWorker /\ UNCHANGED wst
    BY <1>2, <1>13, <2>1, <2>2 DEF CallerEmptied, EmptyPipe, Open, threadVars
  <2>4. WorkersRecord'
    BY <1>5, <2>3 DEF WorkersRecord
  <2>5. ~rec'
    BY <1>1, <1>13, <2>1 DEF FlagsFollow, Open, flagVars, At
  <2>6. ~stopEv' /\ audio'
    BY <1>13 DEF Open
  <2>7. QED
    BY <1>3, <2>1, <2>2, IdleIs, <2>4, <2>5, <2>6 DEF Stopping, Moves
<1>14. CASE OpenFails(c)
  BY <1>1, <1>14 DEF OpenFails
<1>15. CASE Flag(c)
  <2>1. At(c) = "flag" /\ Moves(c, "spawn")
    BY <1>1, <1>15, Continued
  <2>2. Op(c) \in {"iStart", "cStart"}
    BY <1>1, <2>1, WhoIsThere, Thens DEF Stopping, Routes, Op
  <2>3. NoWorker /\ UNCHANGED wst
    BY <1>2, <1>15, <2>1, <2>2 DEF CallerEmptied, EmptyPipe, Flag, threadVars
  <2>4. WorkersRecord'
    BY <1>5, <2>3 DEF WorkersRecord
  <2>5. ~stopEv' /\ audio'
    BY <1>1, <1>15, <2>1 DEF CallersRecord, Flag
  <2>6. QED
    BY <1>3, <2>1, <2>2, IdleIs, <2>4, <2>5 DEF Stopping, Moves
<1>16. CASE Spawn(c)
  <2>1. At(c) = "spawn" /\ Moves(c, IF call[c].op = "cStart" THEN "commit" ELSE "idle")
    BY <1>1, <1>16, Continued
  <2>2. Op(c) \in {"iStart", "cStart"}
    BY <1>1, <2>1, WhoIsThere, Thens DEF Stopping, Routes, Op
  <2>3. NoWorker /\ runtime = 0 /\ merge = {}
    BY <1>2, <2>1 DEF CallerEmptied, EmptyPipe
  <2>4. UNCHANGED <<stopEv, audio, runtime, merge>> /\ ~stopEv /\ audio
    BY <1>1, <1>16, <2>1 DEF Spawn, flagVars, textVars, mergeVars, CallersRecord
  <2>5. ~WorkerAlive(worker)
    BY <2>3 DEF NoWorker, WorkerAlive
  <2>6. PICK x \in Workers : worker' = x /\ wst' = [wst EXCEPT ![x] = "load"]
    BY <1>16, <2>5 DEF Spawn, SpawnIfNeeded
  <2>7. wst'[x] = "load" /\ \A v \in Workers : v # x => wst'[v] = wst[v]
    BY <1>1, <2>6 DEF ThreadShape
  <2>8. WorkersRecord'
    BY <1>5, <2>3, <2>4, <2>7 DEF WorkersRecord
  <2>9. (WorkerAlive(worker))'
    BY <2>6, <2>7 DEF WorkerAlive
  <2>10. QED
    BY <1>3, <2>1, <2>2, IdleIs, <2>4, <2>8, <2>9 DEF Stopping, Moves
<1>17. CASE Commit(c)
  <2>1. At(c) = "commit" /\ Moves(c, "idle")
    BY <1>1, <1>17, Continued
  <2>2. Op(c) = "cStart"
    BY <1>1, <2>1, WhoIsThere, Thens DEF Stopping, Routes, Op
  <2>3. rec => ~stopEv /\ WorkerAlive(worker)
    BY <1>1, <1>4, <2>1 DEF GoesOn, Stopping
  <2>4. UNCHANGED <<stopEv, pauseEv, audio, rec>> /\ UNCHANGED <<worker, wst, rt, ast, drain, runtime, merge>>
    BY <1>1, <1>17, <2>1, <2>3 DEF Commit, flagVars, threadVars, textVars, mergeVars
  <2>5. WorkersRecord'
    BY <1>1, <2>4 DEF WorkersRecord, AsrAlive
  <2>6. QED
    BY <1>3, <2>1, <2>2, IdleIs, <1>1, <2>3, <2>4, <2>5 DEF Stopping, Moves, WorkerAlive,
       CallersRecord, At
<1>18. CASE Restore(c)
  <2>1. At(c) = "restore" /\ Moves(c, "release")
    BY <1>1, <1>18, Continued
  <2>2. Op(c) = "cStop"
    BY <1>1, <2>1, WhoIsThere, Thens DEF Stopping, Routes, Op
  <2>3. NoWorker /\ UNCHANGED wst
    BY <1>2, <1>18, <2>1, <2>2 DEF CallerEmptied, EmptyPipe, Restore, threadVars
  <2>4. WorkersRecord'
    BY <1>5, <2>3 DEF WorkersRecord
  <2>5. ~rec'
    BY <1>1, <1>18, <2>1 DEF FlagsFollow, Restore, flagVars, At
  <2>6. QED
    BY <1>3, <2>1, <2>2, IdleIs, <2>4, <2>5 DEF Stopping, Moves
<1>19. CASE Release(c)
  <2>1. At(c) = "release" /\ Moves(c, "idle")
    BY <1>1, <1>19, Continued
  <2>2. Op(c) = "cStop"
    BY <1>1, <2>1, WhoIsThere, Thens DEF Stopping, Routes, Op
  <2>3. NoWorker /\ UNCHANGED wst
    BY <1>2, <1>19, <2>1, <2>2 DEF CallerEmptied, EmptyPipe, Release, threadVars
  <2>4. WorkersRecord'
    BY <1>5, <2>3 DEF WorkersRecord
  <2>5. ~rec'
    BY <1>1, <1>19, <2>1 DEF FlagsFollow, Release, flagVars, At
  <2>6. QED
    BY <1>3, <2>1, <2>2, IdleIs, <2>4, <2>5 DEF Stopping, Moves
<1>20. CASE Hush(c)
  <2>1. At(c) = "hush" /\ Moves(c, "hushed")
    BY <1>1, <1>20, Continued
  <2>2. Op(c) \in {"iPause", "cPause"}
    BY <1>1, <2>1, WhoIsThere, Thens DEF Stopping, Routes, Op
  <2>3. rec => ~stopEv /\ WorkerAlive(worker)
    BY <1>1, <1>4, <2>1 DEF GoesOn, Stopping
  <2>4. UNCHANGED <<stopEv, rec>> /\ pauseEv' = TRUE /\ UNCHANGED <<worker, wst, rt, ast, drain, runtime, merge>>
    BY <1>1, <1>20, <2>1, <2>3 DEF Hush, flagVars, threadVars, textVars, mergeVars
  <2>5. WorkersRecord'
    BY <1>1, <2>4 DEF WorkersRecord, AsrAlive
  <2>6. QED
    BY <1>3, <2>1, <2>2, IdleIs, <1>1, <2>3, <2>4, <2>5 DEF Stopping, Moves, WorkerAlive,
       CallersRecord, At
<1>21. CASE Hushed(c)
  <2>1. At(c) = "hushed" /\ Moves(c, "idle")
    BY <1>1, <1>21, Continued
  <2>2. Op(c) \in {"iPause", "cPause"}
    BY <1>1, <2>1, WhoIsThere, Thens DEF Stopping, Routes, Op
  <2>3. rec => ~stopEv /\ WorkerAlive(worker)
    BY <1>1, <1>4, <2>1 DEF GoesOn, Stopping
  <2>4. UNCHANGED <<stopEv, pauseEv, audio, rec>> /\ UNCHANGED <<worker, wst, rt, ast, drain, runtime, merge>>
    BY <1>1, <1>21, <2>1, <2>3 DEF Hushed, flagVars, threadVars, textVars, mergeVars
  <2>5. WorkersRecord'
    BY <1>1, <2>4 DEF WorkersRecord, AsrAlive
  <2>6. QED
    BY <1>3, <2>1, <2>2, IdleIs, <1>1, <2>3, <2>4, <2>5 DEF Stopping, Moves, WorkerAlive,
       CallersRecord, At
<1>22. CASE Rearm(c)
  <2>1. At(c) = "rearm" /\ (Moves(c, "respawn") \/ Moves(c, "unhush") \/ Moves(c, "idle"))
    BY <1>1, <1>22, Continued
  <2>2. Op(c) \in {"iResume", "cResume"}
    BY <1>1, <2>1, WhoIsThere, Thens DEF Stopping, Routes, Op
  <2>3. rec => ~stopEv /\ WorkerAlive(worker)
    BY <1>1, <1>4, <2>1 DEF GoesOn, Stopping
  <2>4. rec
    BY <1>1, <2>2 DEF FlagsFollow, OpenForRecording
  <2>5. Step(c, "rearm", "respawn") /\ audio' = TRUE
    BY <1>1, <1>22, <2>3, <2>4 DEF Rearm
  <2>6. UNCHANGED <<stopEv, pauseEv, rec>> /\ audio' = TRUE /\ Moves(c, "respawn") /\ UNCHANGED <<worker, wst, rt, ast, drain, runtime, merge>>
    BY <1>1, <1>22, <2>5, StepMoves DEF Rearm, threadVars, textVars, mergeVars, Labels
  <2>7. WorkersRecord'
    BY <1>1, <2>6 DEF WorkersRecord, AsrAlive
  <2>8. QED
    BY <1>3, <2>1, <2>2, IdleIs, <1>1, <2>3, <2>6, <2>7 DEF Stopping, Moves, WorkerAlive,
       CallersRecord, At
<1>23. CASE Respawn(c)
  <2>1. At(c) = "respawn" /\ Moves(c, "unhush")
    BY <1>1, <1>23, Continued
  <2>2. Op(c) \in {"iResume", "cResume"}
    BY <1>1, <2>1, WhoIsThere, Thens DEF Stopping, Routes, Op
  <2>3. rec => ~stopEv /\ WorkerAlive(worker)
    BY <1>1, <1>4, <2>1 DEF GoesOn, Stopping
  <2>4. rec
    BY <1>1, <2>2 DEF FlagsFollow, OpenForRecording
  <2>5. UNCHANGED <<stopEv, pauseEv, audio, rec>> /\ UNCHANGED <<worker, wst, rt, ast, drain, runtime, merge>>
    BY <1>1, <1>23, <2>1, <2>3, <2>4 DEF Respawn, flagVars, threadVars, textVars, mergeVars,
       SpawnIfNeeded
  <2>6. WorkersRecord'
    BY <1>1, <2>5 DEF WorkersRecord, AsrAlive
  <2>7. QED
    BY <1>3, <2>1, <2>2, IdleIs, <1>1, <2>3, <2>5, <2>6 DEF Stopping, Moves, WorkerAlive,
       CallersRecord, At
<1>24. CASE Unhush(c)
  <2>1. At(c) = "unhush" /\ Moves(c, "idle")
    BY <1>1, <1>24, Continued
  <2>2. Op(c) \in {"iResume", "cResume"}
    BY <1>1, <2>1, WhoIsThere, Thens DEF Stopping, Routes, Op
  <2>3. rec => ~stopEv /\ WorkerAlive(worker)
    BY <1>1, <1>4, <2>1 DEF GoesOn, Stopping
  <2>4. UNCHANGED <<stopEv, audio, rec>> /\ audio /\ UNCHANGED <<worker, wst, rt, ast, drain, runtime, merge>>
    BY <1>1, <1>24, <2>1, <2>3 DEF Unhush, flagVars, threadVars, textVars, mergeVars,
       CallersRecord
  <2>5. WorkersRecord'
    BY <1>1, <2>4 DEF WorkersRecord, AsrAlive
  <2>6. QED
    BY <1>3, <2>1, <2>2, IdleIs, <1>1, <2>3, <2>4, <2>5 DEF Stopping, Moves, WorkerAlive,
       CallersRecord, At
<1>25. QED
  BY <1>7, <1>8, <1>9, <1>10, <1>11, <1>12, <1>13, <1>14, <1>15, <1>16, <1>17, <1>18, <1>19,
     <1>20, <1>21, <1>22, <1>23, <1>24 DEF Continue

\* Recording is kept.
LEMMA RecordingStep ==
    ASSUME QuietIInv, Quiet, CaptureNext
    PROVE  Recording'
BY NextIs, RecordingThreading, RecordingCall, RecordingContinue

-----------------------------------------------------------------------------
(* What was said is kept.                                                  *)

Queued(s) == runtime # 0 /\ s \in Held(queue[runtime])
AtHand(s) == \E w \in Workers : ast[w] = "text" /\ cur[w] = s
InText(s) == s \in merge \/ \E t \in Publishers : s \in pub[t].text
Kept(s) == s \in heard \union noted \union lost
Somewhere(s) == Queued(s) \/ AtHand(s) \/ InText(s) \/ Kept(s)
Remembered == \A s \in Segs : own[s] # "none" => Somewhere(s)
Drained == runtime # 0 /\ (\A w \in Workers : ~AsrAlive(w)) => queue[runtime] = <<>>

\* Where a segment may be.
LEMMA SomewhereIs == \A s \in Segs : s \in heard \union noted \union lost \union Pipe <=> Somewhere(s)
<1>1. \A s : s \in InQueue <=> Queued(s)
  BY DEF InQueue, Queued, Held
<1>2. \A s : s \in InHand <=> AtHand(s)
  BY DEF InHand, AtHand
<1>3. \A s : s \in InPublication <=> \E t \in Publishers : s \in pub[t].text
  BY DEF InPublication
<1>4. QED
  BY <1>1, <1>2, <1>3 DEF Pipe, Somewhere, InText, Kept

\* The parts of NothingForgotten.
LEMMA ForgottenIs == NothingForgotten <=> Remembered /\ Drained
BY SomewhereIs DEF NothingForgotten, Remembered, Drained

\* No one transcribes without a worker.
LEMMA QuietShape ==
    ASSUME QuietIInv
    PROVE  /\ CaptureShape /\ ThreadShape /\ MergeShape /\ SpeechShape /\ FateShape
           /\ Loaded /\ Publishing /\ Threads /\ Emptied /\ WorkersRecord /\ Drained /\ Remembered
           /\ PatientIInv /\ SpeechIInv /\ NotedFirst
           /\ runtime # 0 => runtime \in Workers
BY RecordingIs, ForgottenIs, OneWorkerIs DEF QuietIInv, SpeechIInv, PatientIInv, CaptureShape, ThreadShape, Workers

\* A recogniser ends only when its queue is empty.
LEMMA DrainedStep ==
    ASSUME QuietIInv, Quiet, CaptureNext
    PROVE  Drained'
<1>1. /\ CaptureShape /\ ThreadShape /\ MergeShape /\ SpeechShape /\ FateShape /\ Loaded /\ Publishing
      /\ Threads /\ Emptied /\ WorkersRecord /\ Drained /\ PatientIInv /\ SpeechIInv /\ NotedFirst
      /\ runtime # 0 => runtime \in Workers
      /\ Calm
  BY QuietShape, QuietIs
<1>2. CASE UNCHANGED threadVars
  BY <1>2, <1>1 DEF Drained, AsrAlive, threadVars
<1>3. ASSUME NEW c \in Callers, JoinWorker(c)
     PROVE  Drained'
  BY <1>3, <1>1 DEF Drained, AsrAlive, JoinWorker
<1>4. ASSUME NEW c \in Callers, AwaitDrain(c)
     PROVE  Drained'
  BY <1>4, <1>1 DEF Drained, AsrAlive, AwaitDrain
<1>5. ASSUME NEW c \in Callers, Settle(c)
     PROVE  Drained'
  BY <1>5, <1>1 DEF Drained, AsrAlive, Settle
<1>6. ASSUME NEW c \in Callers, Spawn(c)
     PROVE  Drained'
  BY <1>6, <1>1 DEF Drained, AsrAlive, Spawn
<1>7. ASSUME NEW c \in Callers, Respawn(c)
     PROVE  Drained'
  BY <1>7, <1>1 DEF Drained, AsrAlive, Respawn
<1>8. ASSUME NEW w \in Workers, Load(w)
     PROVE  Drained'
  <2>1. ast'[w] = "wait"
    BY <1>1, <1>8 DEF Load, ThreadShape
  <2>2. QED
    BY <2>1 DEF Drained, AsrAlive
<1>9. ASSUME NEW w \in Workers, LoadFails(w)
     PROVE  Drained'
  BY <1>9, <1>1, CalmIs DEF Drained, AsrAlive, LoadFails
<1>10. ASSUME NEW w \in Workers, Check(w)
     PROVE  Drained'
  <2>1. AsrAlive(w) /\ UNCHANGED ast
    BY <1>1, <1>10 DEF Check, Move, WorkersRecord
  <2>2. QED
    BY <2>1 DEF Drained, AsrAlive
<1>11. ASSUME NEW w \in Workers, Look(w)
     PROVE  Drained'
  <2>1. AsrAlive(w) /\ UNCHANGED ast
    BY <1>1, <1>11 DEF Look, Move, WorkersRecord
  <2>2. QED
    BY <2>1 DEF Drained, AsrAlive
<1>12. ASSUME NEW w \in Workers, WorkerCrashes(w)
     PROVE  Drained'
  BY <1>12, <1>1, CalmIs DEF Drained, AsrAlive, WorkerCrashes
<1>13. ASSUME NEW w \in Workers, Finish(w)
     PROVE  Drained'
  <2>1. AsrAlive(w) /\ UNCHANGED ast
    BY <1>1, <1>13 DEF Finish, Move, WorkersRecord
  <2>2. QED
    BY <2>1 DEF Drained, AsrAlive
<1>14. ASSUME NEW w \in Workers, WorkerEnds(w)
     PROVE  Drained'
  BY <1>14, <1>1 DEF Drained, AsrAlive, WorkerEnds
<1>15. ASSUME NEW w \in Workers, AsrTake(w)
     PROVE  Drained'
  <2>1. ast'[w] \in {"wait", "text", "publish"}
    BY <1>1, <1>15 DEF AsrTake, ThreadShape
  <2>2. QED
    BY <2>1 DEF Drained, AsrAlive
<1>16. ASSUME NEW w \in Workers, AsrMerge(w)
     PROVE  Drained'
  <2>1. ast'[w] \in {"wait", "text", "publish"}
    BY <1>1, <1>16 DEF AsrMerge, ThreadShape
  <2>2. QED
    BY <2>1 DEF Drained, AsrAlive
<1>17. ASSUME NEW w \in Workers, AsrDone(w)
     PROVE  Drained'
  <2>1. ast'[w] \in {"wait", "text", "publish"}
    BY <1>1, <1>17 DEF AsrDone, ThreadShape
  <2>2. QED
    BY <2>1 DEF Drained, AsrAlive
<1>18. ASSUME NEW w \in Workers, AsrEnds(w)
     PROVE  Drained'
  <2>1. wst[w] \in Capturing /\ rt[w] = runtime
    BY <1>1, <1>18 DEF AsrEnds, Threads, AsrAlive
  <2>2. runtime \in Workers
    BY <1>1, <2>1, HasRuntime DEF Capturing, Fresh
  <2>3. Len(queue[runtime]) \in Nat
    BY <1>1, <2>2 DEF ThreadShape
  <2>4. Cardinality({v \in Workers : rt[v] = runtime /\ cur[v] # 0}) \in Nat
    <3>1. IsFiniteSet(Workers)
      BY Sizes, FS_Interval DEF Workers
    <3>2. {v \in Workers : rt[v] = runtime /\ cur[v] # 0} \subseteq Workers
      OBVIOUS
    <3>3. QED
      BY <3>1, <3>2, FS_Subset, FS_CardinalityType
  <2>5. Len(queue[runtime]) = 0
    BY <1>18, <2>1, <2>3, <2>4 DEF AsrEnds, Backlog
  <2>6. queue[runtime] = <<>>
    BY <1>1, <2>2, <2>5 DEF ThreadShape
  <2>7. UNCHANGED <<runtime, queue>>
    BY <1>18 DEF AsrEnds
  <2>8. QED
    BY <2>6, <2>7 DEF Drained
<1>19. QED
  BY <1>2, <1>3, <1>4, <1>5, <1>6, <1>7, <1>8, <1>9, <1>10, <1>11, <1>12, <1>13, <1>14,
     <1>15, <1>16, <1>17, <1>18, ThreadFrame

\* A queued segment is taken in hand, or dropped.
LEMMA QueuedStep ==
    ASSUME QuietIInv, Quiet, CaptureNext, NEW s \in Segs, Queued(s)
    PROVE  Queued(s)' \/ AtHand(s)' \/ Kept(s)'
<1>1. /\ CaptureShape /\ ThreadShape /\ MergeShape /\ SpeechShape /\ FateShape /\ Loaded /\ Publishing
      /\ Threads /\ Emptied /\ WorkersRecord /\ Drained /\ PatientIInv /\ SpeechIInv /\ NotedFirst
      /\ runtime # 0 => runtime \in Workers
      /\ Calm
  BY QuietShape, QuietIs
<1>2. CASE UNCHANGED threadVars
  BY <1>2, <1>1 DEF Queued, threadVars
<1>3. ASSUME NEW c \in Callers, JoinWorker(c)
     PROVE  Queued(s)' \/ AtHand(s)' \/ Kept(s)'
  BY <1>3, <1>1 DEF Queued, JoinWorker
<1>4. ASSUME NEW c \in Callers, AwaitDrain(c)
     PROVE  Queued(s)' \/ AtHand(s)' \/ Kept(s)'
  BY <1>4, <1>1 DEF Queued, AwaitDrain
<1>5. ASSUME NEW c \in Callers, Settle(c)
     PROVE  Queued(s)' \/ AtHand(s)' \/ Kept(s)'
  <2>1. NoWorker
    BY <1>1, <1>5, Continued DEF Emptied
  <2>2. \A v \in Workers : ~AsrAlive(v)
    BY <1>1, <2>1, NobodyWorks
  <2>3. QED
    BY <1>1, <2>2, EmptyHeld DEF Drained, Queued
<1>6. ASSUME NEW c \in Callers, Spawn(c)
     PROVE  Queued(s)' \/ AtHand(s)' \/ Kept(s)'
  BY <1>6, <1>1 DEF Queued, Spawn
<1>7. ASSUME NEW c \in Callers, Respawn(c)
     PROVE  Queued(s)' \/ AtHand(s)' \/ Kept(s)'
  BY <1>7, <1>1 DEF Queued, Respawn
<1>8. ASSUME NEW w \in Workers, Load(w)
     PROVE  Queued(s)' \/ AtHand(s)' \/ Kept(s)'
  <2>1. runtime = 0
    BY <1>1, <1>8 DEF Load, Move, WorkersRecord
  <2>2. QED
    BY <2>1 DEF Queued
<1>9. ASSUME NEW w \in Workers, LoadFails(w)
     PROVE  Queued(s)' \/ AtHand(s)' \/ Kept(s)'
  BY <1>9, <1>1, CalmIs DEF Queued, LoadFails
<1>10. ASSUME NEW w \in Workers, Check(w)
     PROVE  Queued(s)' \/ AtHand(s)' \/ Kept(s)'
  <2>1. CASE UNCHANGED queue
    BY <2>1, <1>10, CutOwned, QuietShape DEF Queued
  <2>2. CASE Cut(w)
    <3>1. rt[w] = runtime /\ runtime' = runtime
      BY <1>10, CutOwned, QuietShape
    <3>2. Held(queue[rt[w]]) \subseteq Held(queue'[rt[w]]) \union lost'
      BY <2>2 DEF Cut
    <3>3. QED
      BY <3>1, <3>2 DEF Queued, Kept
  <2>3. QED
    BY <1>10, <2>1, <2>2, CutOwned, QuietShape
<1>11. ASSUME NEW w \in Workers, Look(w)
     PROVE  Queued(s)' \/ AtHand(s)' \/ Kept(s)'
  <2>1. CASE UNCHANGED queue
    BY <2>1, <1>11, CutOwned, QuietShape DEF Queued
  <2>2. CASE Cut(w)
    <3>1. rt[w] = runtime /\ runtime' = runtime
      BY <1>11, CutOwned, QuietShape
    <3>2. Held(queue[rt[w]]) \subseteq Held(queue'[rt[w]]) \union lost'
      BY <2>2 DEF Cut
    <3>3. QED
      BY <3>1, <3>2 DEF Queued, Kept
  <2>3. QED
    BY <1>11, <2>1, <2>2, CutOwned, QuietShape
<1>12. ASSUME NEW w \in Workers, WorkerCrashes(w)
     PROVE  Queued(s)' \/ AtHand(s)' \/ Kept(s)'
  BY <1>12, <1>1, CalmIs DEF Queued, WorkerCrashes
<1>13. ASSUME NEW w \in Workers, Finish(w)
     PROVE  Queued(s)' \/ AtHand(s)' \/ Kept(s)'
  <2>1. CASE UNCHANGED queue
    BY <2>1, <1>13, CutOwned, QuietShape DEF Queued
  <2>2. CASE Cut(w)
    <3>1. rt[w] = runtime /\ runtime' = runtime
      BY <1>13, CutOwned, QuietShape
    <3>2. Held(queue[rt[w]]) \subseteq Held(queue'[rt[w]]) \union lost'
      BY <2>2 DEF Cut
    <3>3. QED
      BY <3>1, <3>2 DEF Queued, Kept
  <2>3. QED
    BY <1>13, <2>1, <2>2, CutOwned, QuietShape
<1>14. ASSUME NEW w \in Workers, WorkerEnds(w)
     PROVE  Queued(s)' \/ AtHand(s)' \/ Kept(s)'
  BY <1>14, <1>1 DEF Queued, WorkerEnds
<1>15. ASSUME NEW w \in Workers, AsrTake(w)
     PROVE  Queued(s)' \/ AtHand(s)' \/ Kept(s)'
  <2>1. rt[w] \in Workers /\ queue[rt[w]] \in Seq(Segs) /\ queue[rt[w]] # <<>> /\ rt[w] = runtime
    BY <1>1, <1>15, HasRuntime DEF AsrTake, Threads, AsrAlive, ThreadShape, Capturing, Fresh
  <2>2. /\ queue'[rt[w]] = Tail(queue[rt[w]]) /\ runtime' = runtime
        /\ cur'[w] = Head(queue[rt[w]]) /\ ast'[w] = "text"
    BY <1>1, <1>15, <2>1 DEF AsrTake, ThreadShape
  <2>3. Held(queue[rt[w]]) = {Head(queue[rt[w]])} \union Held(Tail(queue[rt[w]]))
    BY <2>1, TakeFirst
  <2>4. QED
    BY <2>1, <2>2, <2>3 DEF Queued, AtHand
<1>16. ASSUME NEW w \in Workers, AsrMerge(w)
     PROVE  Queued(s)' \/ AtHand(s)' \/ Kept(s)'
  BY <1>16, <1>1 DEF Queued, AsrMerge
<1>17. ASSUME NEW w \in Workers, AsrDone(w)
     PROVE  Queued(s)' \/ AtHand(s)' \/ Kept(s)'
  BY <1>17, <1>1 DEF Queued, AsrDone
<1>18. ASSUME NEW w \in Workers, AsrEnds(w)
     PROVE  Queued(s)' \/ AtHand(s)' \/ Kept(s)'
  BY <1>18, <1>1 DEF Queued, AsrEnds
<1>19. QED
  BY <1>2, <1>3, <1>4, <1>5, <1>6, <1>7, <1>8, <1>9, <1>10, <1>11, <1>12, <1>13, <1>14,
     <1>15, <1>16, <1>17, <1>18, ThreadFrame

\* A segment in hand is merged.
LEMMA AtHandStep ==
    ASSUME QuietIInv, Quiet, CaptureNext, NEW s \in Segs, AtHand(s)
    PROVE  AtHand(s)' \/ InText(s)'
<1>1. /\ CaptureShape /\ ThreadShape /\ MergeShape /\ SpeechShape /\ FateShape /\ Loaded /\ Publishing
      /\ Threads /\ Emptied /\ WorkersRecord /\ Drained /\ PatientIInv /\ SpeechIInv /\ NotedFirst
      /\ runtime # 0 => runtime \in Workers
      /\ Calm
  BY QuietShape, QuietIs
<1>2. CASE UNCHANGED threadVars
  BY <1>2, <1>1 DEF AtHand, threadVars
<1>3. ASSUME NEW c \in Callers, JoinWorker(c)
     PROVE  AtHand(s)' \/ InText(s)'
  BY <1>3, <1>1 DEF AtHand, JoinWorker
<1>4. ASSUME NEW c \in Callers, AwaitDrain(c)
     PROVE  AtHand(s)' \/ InText(s)'
  BY <1>4, <1>1 DEF AtHand, AwaitDrain
<1>5. ASSUME NEW c \in Callers, Settle(c)
     PROVE  AtHand(s)' \/ InText(s)'
  BY <1>5, <1>1 DEF AtHand, Settle
<1>6. ASSUME NEW c \in Callers, Spawn(c)
     PROVE  AtHand(s)' \/ InText(s)'
  BY <1>6, <1>1 DEF AtHand, Spawn
<1>7. ASSUME NEW c \in Callers, Respawn(c)
     PROVE  AtHand(s)' \/ InText(s)'
  BY <1>7, <1>1 DEF AtHand, Respawn
<1>8. ASSUME NEW w \in Workers, Load(w)
     PROVE  AtHand(s)' \/ InText(s)'
  <2>1. ast[w] # "text" /\ ast' = [ast EXCEPT ![w] = "wait"] /\ UNCHANGED cur
    BY <1>1, <1>8 DEF Load, Move, Loaded, Fresh
  <2>2. QED
    BY <1>1, <2>1 DEF AtHand, ThreadShape
<1>9. ASSUME NEW w \in Workers, LoadFails(w)
     PROVE  AtHand(s)' \/ InText(s)'
  BY <1>9, <1>1, CalmIs DEF AtHand, LoadFails
<1>10. ASSUME NEW w \in Workers, Check(w)
     PROVE  AtHand(s)' \/ InText(s)'
  BY <1>10, <1>1 DEF AtHand, Check
<1>11. ASSUME NEW w \in Workers, Look(w)
     PROVE  AtHand(s)' \/ InText(s)'
  BY <1>11, <1>1 DEF AtHand, Look
<1>12. ASSUME NEW w \in Workers, WorkerCrashes(w)
     PROVE  AtHand(s)' \/ InText(s)'
  BY <1>12, <1>1, CalmIs DEF AtHand, WorkerCrashes
<1>13. ASSUME NEW w \in Workers, Finish(w)
     PROVE  AtHand(s)' \/ InText(s)'
  BY <1>13, <1>1 DEF AtHand, Finish
<1>14. ASSUME NEW w \in Workers, WorkerEnds(w)
     PROVE  AtHand(s)' \/ InText(s)'
  BY <1>14, <1>1 DEF AtHand, WorkerEnds
<1>15. ASSUME NEW w \in Workers, AsrTake(w)
     PROVE  AtHand(s)' \/ InText(s)'
  <2>1. ast[w] = "wait" /\ \A v \in Workers : v # w => ast'[v] = ast[v] /\ cur'[v] = cur[v]
    BY <1>1, <1>15 DEF AsrTake, ThreadShape
  <2>2. QED
    BY <2>1 DEF AtHand
<1>16. ASSUME NEW w \in Workers, AsrMerge(w)
     PROVE  AtHand(s)' \/ InText(s)'
  <2>1. merge' = merge \union {cur[w]} /\ \A v \in Workers : v # w => ast'[v] = ast[v] /\ cur'[v] = cur[v]
    BY <1>1, <1>16 DEF AsrMerge, ThreadShape
  <2>2. QED
    BY <2>1 DEF AtHand, InText
<1>17. ASSUME NEW w \in Workers, AsrDone(w)
     PROVE  AtHand(s)' \/ InText(s)'
  <2>1. ast[w] # "text" /\ \A v \in Workers : v # w => ast'[v] = ast[v] /\ cur'[v] = cur[v]
    BY <1>1, <1>17 DEF AsrDone, ThreadShape
  <2>2. QED
    BY <2>1 DEF AtHand
<1>18. ASSUME NEW w \in Workers, AsrEnds(w)
     PROVE  AtHand(s)' \/ InText(s)'
  <2>1. ast[w] # "text" /\ \A v \in Workers : v # w => ast'[v] = ast[v] /\ cur'[v] = cur[v]
    BY <1>1, <1>18 DEF AsrEnds, ThreadShape
  <2>2. QED
    BY <2>1 DEF AtHand
<1>19. QED
  BY <1>2, <1>3, <1>4, <1>5, <1>6, <1>7, <1>8, <1>9, <1>10, <1>11, <1>12, <1>13, <1>14,
     <1>15, <1>16, <1>17, <1>18, ThreadFrame

\* A merged segment is published, and then heard or noted.
LEMMA InTextStep ==
    ASSUME QuietIInv, Quiet, CaptureNext, NEW s \in Segs, InText(s)
    PROVE  InText(s)' \/ Kept(s)'
<1>1. /\ CaptureShape /\ ThreadShape /\ MergeShape /\ SpeechShape /\ FateShape /\ Loaded /\ Publishing
      /\ Threads /\ Emptied /\ WorkersRecord /\ Drained /\ PatientIInv /\ SpeechIInv /\ NotedFirst
      /\ runtime # 0 => runtime \in Workers
      /\ Calm
  BY QuietShape, QuietIs
<1>2. \A t \in Publishers, a \in BOOLEAN : Hold(t, a) => \A u \in Publishers : pub'[u].text = pub[u].text
  <2>1. SUFFICES ASSUME NEW t \in Publishers, NEW a \in BOOLEAN, Hold(t, a), NEW u \in Publishers
                 PROVE  pub'[u].text = pub[u].text
    OBVIOUS
  <2>2. /\ pub'[t] = [text |-> {}, auto |-> a, step |-> "locked"] /\ asrLock = Nobody
        /\ \A x \in Publishers \ {t} : pub'[x] = pub[x]
    BY <1>1, <2>1, HoldTyped
  <2>3. pub'[t].text = {} /\ pub[t].text = {}
    BY <1>1, <2>2, WhenFree
  <2>4. QED
    BY <2>2, <2>3
<1>3. CASE UNCHANGED mergeVars
  BY <1>3, <1>1, <1>2 DEF InText, mergeVars
<1>4. ASSUME NEW c \in Callers, FinalFlush(c)
     PROVE  InText(s)' \/ Kept(s)'
  <2>1. c \in Publishers /\ (overlay = "base") \in BOOLEAN
    BY <1>1, WhoPublishes DEF ThreadShape
  <2>2. (\A u \in Publishers : pub'[u].text = pub[u].text) /\ merge \subseteq merge'
    BY <1>4, <1>2, <2>1 DEF FinalFlush
  <2>3. QED
    BY <2>2 DEF InText
<1>5. ASSUME NEW w \in Workers, Load(w)
     PROVE  InText(s)' \/ Kept(s)'
  <2>1. merge = {} /\ UNCHANGED pub
    BY <1>1, <1>5 DEF Load, Move, WorkersRecord
  <2>2. QED
    BY <2>1 DEF InText
<1>6. ASSUME NEW w \in Workers, AsrMerge(w)
     PROVE  InText(s)' \/ Kept(s)'
  <2>1. AsrOf(w) \in Publishers /\ (auto[w]) \in BOOLEAN
    BY <1>1, WhoPublishes DEF ThreadShape
  <2>2. (\A u \in Publishers : pub'[u].text = pub[u].text) /\ merge \subseteq merge'
    BY <1>6, <1>2, <2>1 DEF AsrMerge
  <2>3. QED
    BY <2>2 DEF InText
<1>7. ASSUME NEW w \in Workers, FlushTick(w)
     PROVE  InText(s)' \/ Kept(s)'
  <2>1. FlushOf(w) \in Publishers /\ (overlay = "base") \in BOOLEAN
    BY <1>1, WhoPublishes DEF ThreadShape
  <2>2. (\A u \in Publishers : pub'[u].text = pub[u].text) /\ merge \subseteq merge'
    BY <1>7, <1>2, <2>1 DEF FlushTick
  <2>3. QED
    BY <2>2 DEF InText
<1>8. ASSUME NEW t \in Publishers, Decide(t)
     PROVE  InText(s)' \/ Kept(s)'
  <2>1. /\ pub'[t].text = merge /\ pub[t].text = {}
        /\ \A u \in Publishers \ {t} : pub'[u].text = pub[u].text
    BY <1>1, <1>8 DEF Decide, MergeShape, Texts, Publishing
  <2>2. QED
    BY <2>1 DEF InText
<1>9. ASSUME NEW t \in Publishers, Record(t)
     PROVE  InText(s)' \/ Kept(s)'
  <2>1. merge' = merge /\ \A u \in Publishers \ {t} : pub'[u].text = pub[u].text
    BY <1>1, <1>9 DEF Record, MergeShape, Texts, Silent
  <2>2. s \in pub[t].text => Kept(s)'
    BY <1>1, <1>9 DEF Record, Kept, NotedFirst
  <2>3. QED
    BY <2>1, <2>2 DEF InText
<1>10. QED
  BY <1>3, <1>4, <1>5, <1>6, <1>7, <1>8, <1>9, MergeFrame

\* What is kept stays.
LEMMA KeptStep ==
    ASSUME QuietIInv, Quiet, CaptureNext, NEW s \in Segs, Kept(s)
    PROVE  Kept(s)'
<1>1. /\ CaptureShape /\ ThreadShape /\ MergeShape /\ SpeechShape /\ FateShape /\ Loaded /\ Publishing
      /\ Threads /\ Emptied /\ WorkersRecord /\ Drained /\ PatientIInv /\ SpeechIInv /\ NotedFirst
      /\ runtime # 0 => runtime \in Workers
      /\ Calm
  BY QuietShape, QuietIs
<1>2. CASE UNCHANGED <<micFor, speechVars>> /\ UNCHANGED fateVars
  BY <1>2, <1>1 DEF Kept, speechVars, speechVars, fateVars
<1>3. ASSUME NEW c \in Callers, Open(c)
     PROVE  Kept(s)'
  BY <1>3, <1>1 DEF Kept, speechVars, Open, fateVars
<1>4. ASSUME NEW w \in Workers, Check(w)
     PROVE  Kept(s)'
  <2>1. lost \subseteq lost' /\ UNCHANGED fateVars
    BY <1>1, <1>4, CutOwned DEF Check, Cut
  <2>2. QED
    BY <2>1 DEF Kept, fateVars
<1>5. ASSUME NEW w \in Workers, Look(w)
     PROVE  Kept(s)'
  <2>1. lost \subseteq lost' /\ UNCHANGED fateVars
    BY <1>1, <1>5, CutOwned DEF Look, Cut
  <2>2. QED
    BY <2>1 DEF Kept, fateVars
<1>6. ASSUME NEW w \in Workers, Finish(w)
     PROVE  Kept(s)'
  <2>1. lost \subseteq lost' /\ UNCHANGED fateVars
    BY <1>1, <1>6, CutOwned DEF Finish, Cut
  <2>2. QED
    BY <2>1 DEF Kept, fateVars
<1>7. ASSUME NEW t \in Publishers, Decide(t)
     PROVE  Kept(s)'
  <2>1. heard \subseteq heard' /\ noted \subseteq noted' /\ UNCHANGED lost
    BY <1>7 DEF Decide, speechVars
  <2>2. QED
    BY <2>1 DEF Kept
<1>8. ASSUME NEW t \in Publishers, Record(t)
     PROVE  Kept(s)'
  <2>1. heard \subseteq heard' /\ noted \subseteq noted' /\ UNCHANGED lost
    BY <1>8 DEF Record, speechVars
  <2>2. QED
    BY <2>1 DEF Kept
<1>9. QED
  BY <1>2, <1>3, <1>4, <1>5, <1>6, <1>7, <1>8, SpeechFrame, FateFrame

\* What is cut is queued, or dropped.
LEMMA SaidStep ==
    ASSUME QuietIInv, Quiet, CaptureNext, NEW s \in Segs, own[s] = "none", own'[s] # "none"
    PROVE  Queued(s)' \/ Kept(s)'
<1>1. PICK w \in Workers : Check(w) \/ Look(w) \/ Finish(w)
  BY SpeechFrame DEF speechVars, Open
<1>2. Cut(w) /\ rt[w] = runtime /\ runtime' = runtime /\ runtime \in Workers
  BY <1>1, CutOwned, QuietShape
<1>3. PICK x \in Segs : /\ own' = [own EXCEPT ![x] = micFor]
                        /\ Held(queue[rt[w]]) \union {x} \subseteq Held(queue'[rt[w]]) \union lost'
  BY <1>2 DEF Cut
<1>4. s = x
  BY <1>3, QuietShape DEF SpeechShape
<1>5. QED
  BY <1>2, <1>3, <1>4, Sizes DEF Queued, Kept, Workers

\* NothingForgotten is kept.
LEMMA NothingForgottenStep ==
    ASSUME QuietIInv, Quiet, CaptureNext
    PROVE  NothingForgotten'
<1>1. Remembered'
  <2>1. SUFFICES ASSUME NEW s \in Segs, own'[s] # "none"
                 PROVE  Somewhere(s)'
    BY DEF Remembered
  <2>2. CASE own[s] = "none"
    BY <2>1, <2>2, SaidStep DEF Somewhere
  <2>3. CASE own[s] # "none"
    BY <2>3, QuietShape, QueuedStep, AtHandStep, InTextStep, KeptStep DEF Remembered, Somewhere
  <2>4. QED
    BY <2>2, <2>3
<1>2. \A s \in Segs : (s \in heard \union noted \union lost \union Pipe <=> Somewhere(s))'
  <2>1. \A s : (s \in InQueue <=> Queued(s))'
    BY DEF InQueue, Queued, Held
  <2>2. \A s : (s \in InHand <=> AtHand(s))'
    BY DEF InHand, AtHand
  <2>3. \A s : (s \in InPublication <=> \E t \in Publishers : s \in pub[t].text)'
    BY DEF InPublication
  <2>4. QED
    BY <2>1, <2>2, <2>3 DEF Pipe, Somewhere, InText, Kept
<1>3. QED
  BY <1>1, <1>2, DrainedStep DEF NothingForgotten, Remembered, Drained

-----------------------------------------------------------------------------
(* The invariant.                                                          *)

\* The invariant holds at first.
LEMMA CaptureIInit == CaptureInit => CaptureIInv
<1> SUFFICES ASSUME CaptureInit
             PROVE  CaptureIInv
  OBVIOUS
<1>1. CaptureShape
  <2>1. CallShape
    BY IdleTyped, Sizes DEF CaptureInit, CallShape
  <2>2. BridgeShape /\ FlagShape
    BY DEF CaptureInit, BridgeShape, FlagShape, Flags, NoSnapshot
  <2>3. ThreadShape
    <3>1. <<>> \in Seq(Segs) /\ Len(<<>>) = 0 /\ 0 <= SegQueue
      BY Sizes
    <3>2. 0 \in 0..MaxWorkers /\ 0 \in 0..MaxSegs
      BY Sizes
    <3>3. QED
      BY <3>1, <3>2 DEF CaptureInit, ThreadShape, WorkerPlaces, AsrPlaces
  <2>4. MergeShape
    BY DEF CaptureInit, MergeShape, Texts, Silent
  <2>5. SpeechShape /\ FateShape
    BY DEF CaptureInit, SpeechShape, FateShape, Owners
  <2>6. QED
    BY <2>1, <2>2, <2>3, <2>4, <2>5 DEF CaptureShape
<1>2. Loaded
  BY DEF CaptureInit, Loaded, Fresh
<1>3. Publishing
  BY Distinct, WhoPublishes DEF CaptureInit, Publishing, Silent
<1>4. /\ \A c \in Callers : call[c] = Idle /\ At(c) = "idle" /\ Op(c) = "none"
      /\ Idle.then = "idle" /\ Idle.joined = 0 /\ Idle.kept.flags.rec = FALSE
  BY DEF CaptureInit, Idle, At, Op, NoSnapshot
<1>5. Routes
  BY <1>4, Places, Thens DEF Routes, Op
<1>6. Bridge
  BY <1>4, Distinct, WhoPublishes DEF CaptureInit, Bridge, OverlayFollowsOwner
<1>7. OneCall /\ FlagsFollow /\ OpenForRecording
  BY <1>4 DEF CaptureInit, OneCall, FlagsFollow, OpenForRecording, NoneAt, NoSnapshot
<1>8. OneWorker
  BY <1>4 DEF CaptureInit, OneWorker, WorkerAlive, AsrAlive, Fresh, Capturing
<1>8a. Hearing
  BY DEF CaptureInit, Hearing
<1>9. Emptied
  BY <1>4, WhoPublishes DEF CaptureInit, Emptied, EmptyPipe, NoWorker, WorkerAlive, FlushIdle, Silent
<1>10. SpeechOwned /\ SpeechStaysHome
  <2>1. Pipe = {}
    BY DEF CaptureInit, Pipe, InQueue, InHand, InPublication, Silent
  <2>2. QED
    BY <1>4, <2>1 DEF CaptureInit, SpeechOwned, SpeechStaysHome, Owned, NoWorker, WorkerAlive, Silent
<1>11. Recording
  BY <1>4 DEF CaptureInit, Recording, NoneAt
<1>12. NothingForgotten
  BY DEF CaptureInit, NothingForgotten
<1>13. QED
  BY <1>1, <1>2, <1>3, <1>5, <1>6, <1>7, <1>8, <1>8a, <1>9, <1>10, <1>11, <1>12 DEF CaptureIInv

\* SpeechIs, after a step.
LEMMA SpeechIsNext == Patient' => (SpeechOwned' /\ SpeechStaysHome'
    <=> QueueOwned' /\ HandOwned' /\ TextOwned' /\ MicRight' /\ Unanswered' /\ NotedFirst' /\ Home')
<1>1. SpeechOwned' <=> Owned(Pipe)' /\ MicRight' /\ Unanswered' /\ NotedFirst'
  BY DEF SpeechOwned, MicRight, Unanswered, NotedFirst
<1>2. Patient' => (SpeechStaysHome' <=> Home')
  BY DEF Patient, SpeechStaysHome, Home
<1>3. Owned(InQueue)' <=> QueueOwned'
  BY DEF Owned, InQueue, QueueOwned, Held
<1>4. Owned(InHand)' <=> HandOwned'
  BY DEF Owned, InHand, HandOwned
<1>5. Owned(merge \union InPublication)' <=> TextOwned'
  BY DEF Owned, InPublication, TextOwned
<1>6. Owned(Pipe)' <=> Owned(InQueue)' /\ Owned(InHand)' /\ Owned(merge \union InPublication)'
  BY DEF Owned, Pipe
<1>7. QED
  BY <1>1, <1>2, <1>3, <1>4, <1>5, <1>6

\* Every step keeps the invariant.
LEMMA CaptureINext ==
    ASSUME CaptureIInv, CaptureNext
    PROVE  CaptureIInv'
<1>1. hazards' = hazards
  BY HazardsFixed
<1>2. CaptureShape /\ Loaded /\ Publishing /\ Routes /\ Bridge
  BY DEF CaptureIInv
<1>3. CaptureShape' /\ Loaded' /\ Publishing' /\ Routes' /\ Bridge'
  BY <1>2, ShapeStep, LoadedStep, PublishingStep, RoutesStep, BridgeStep
<1>4. "overlap" \notin hazards => OneCall /\ OneCall'
  BY <1>2, OneCallStep DEF CaptureIInv
<1>5. Calm => FlagsFollow /\ FlagsFollow'
  BY <1>2, <1>4, CalmIs, FlagsStep DEF CaptureIInv
<1>6. hazards \subseteq {"device", "race", "timeout"} => OpenForRecording /\ OpenForRecording'
  <2>1. SUFFICES ASSUME hazards \subseteq {"device", "race", "timeout"}
                 PROVE  OpenForRecording /\ OpenForRecording'
    OBVIOUS
  <2>2. Calm
    BY <2>1 DEF Calm
  <2>3. QED
    BY <1>2, <1>4, <1>5, <2>1, <2>2, CalmIs, OpenStep DEF CaptureIInv
<1>7. Patient => SpeechIInv
  BY <1>2, <1>4, <1>5, PatientIs, CalmIs, SpeechIs DEF CaptureIInv, SpeechIInv, PatientIInv
<1>8. Patient => OneWorker' /\ Hearing' /\ Emptied' /\ SpeechOwned' /\ SpeechStaysHome'
  <2>1. SUFFICES ASSUME Patient
                 PROVE  OneWorker' /\ Hearing' /\ Emptied' /\ SpeechOwned' /\ SpeechStaysHome'
    OBVIOUS
  <2>2. OneWorker' /\ Hearing' /\ Emptied'
    BY <1>7, <2>1, OneWorkerStep, HearingStep, EmptiedStep DEF SpeechIInv, CaptureIInv
  <2>3. Patient'
    BY <1>1, <2>1 DEF Patient
  <2>4. QED
    BY <1>7, <2>1, <2>2, <2>3, SpeechStep, SpeechIsNext
<1>9. Quiet => Recording' /\ NothingForgotten'
  <2>1. SUFFICES ASSUME Quiet
                 PROVE  Recording' /\ NothingForgotten'
    OBVIOUS
  <2>2. hazards \subseteq {"device", "race", "timeout"}
    BY <2>1 DEF Quiet
  <2>3. QuietIInv
    BY <1>6, <1>7, <2>1, <2>2, QuietIs DEF CaptureIInv, QuietIInv
  <2>4. QED
    BY <2>1, <2>3, RecordingStep, NothingForgottenStep
<1>10. ("overlap" \notin hazards)' => "overlap" \notin hazards
  BY <1>1
<1>11. (Calm' => Calm) /\ (Patient' => Patient) /\ (Quiet' => Quiet)
  BY <1>1 DEF Calm, Patient, Quiet
<1>12. (hazards \subseteq {"device", "race", "timeout"})' => hazards \subseteq {"device", "race", "timeout"}
  BY <1>1
<1>13. QED
  BY <1>3, <1>4, <1>5, <1>6, <1>8, <1>9, <1>10, <1>11, <1>12 DEF CaptureIInv

\* So does a step that changes nothing.
LEMMA CaptureIStays ==
    ASSUME CaptureIInv, UNCHANGED captureVars
    PROVE  CaptureIInv'
<1>1. /\ UNCHANGED <<hazards, call, calls, captureLock, active, stopping, overlay, previous, snapshot,
                     rec, paused, stopEv, pauseEv, audio>>
      /\ UNCHANGED <<worker, asr, runtime, wst, rt, ast, cur, auto, queue, drain>>
      /\ UNCHANGED <<asrLock, merge, pub, micFor, own, lost, heard, noted, answered>>
  BY DEF captureVars, callVars, bridgeVars, flagVars, threadVars, textVars, mergeVars, speechVars,
     fateVars
<1>2. /\ CaptureShape /\ Loaded /\ Publishing /\ Routes /\ Bridge
      /\ CaptureShape => CaptureShape' /\ (Loaded => Loaded') /\ (Publishing => Publishing')
      /\ (Routes => Routes') /\ (Bridge => Bridge')
  BY <1>1 DEF CaptureIInv, CaptureShape, CallShape, BridgeShape, FlagShape, ThreadShape, MergeShape,
     SpeechShape, FateShape, Loaded, Publishing, Routes, Bridge, OverlayFollowsOwner, At, Op
<1>3. (OneCall => OneCall') /\ (FlagsFollow => FlagsFollow') /\ (OpenForRecording => OpenForRecording')
  BY <1>1 DEF OneCall, FlagsFollow, OpenForRecording, NoneAt, At, Op
<1>4. /\ NoWorker' = NoWorker /\ FlushIdle' = FlushIdle
      /\ \A w \in Workers : AsrAlive(w)' = AsrAlive(w)
  BY <1>1 DEF NoWorker, FlushIdle, WorkerAlive, AsrAlive
<1>5. (OneWorker => OneWorker') /\ (Recording => Recording') /\ (Hearing => Hearing')
  BY <1>1 DEF OneWorker, Recording, Hearing, TakesOver, NoneAt, WorkerAlive, AsrAlive, At, Op
<1>6. Emptied => Emptied'
  BY <1>1, <1>4 DEF Emptied, EmptyPipe, AllIdle, At, Op
<1>7. Pipe' = Pipe /\ Owner' = Owner
  BY <1>1 DEF Pipe, InQueue, InHand, InPublication, Owner
<1>8. SpeechOwned => SpeechOwned'
  BY <1>1, <1>4, <1>7 DEF SpeechOwned, Owned, At, Op
<1>9. (SpeechStaysHome => SpeechStaysHome') /\ (NothingForgotten => NothingForgotten')
  BY <1>1, <1>7 DEF Patient, SpeechStaysHome, NothingForgotten, AsrAlive
<1>10. (Calm' => Calm) /\ (Patient' => Patient) /\ (Quiet' => Quiet)
  BY <1>1 DEF Calm, Patient, Quiet
<1>11. QED
  BY <1>1, <1>2, <1>3, <1>5, <1>6, <1>8, <1>9, <1>10 DEF CaptureIInv
-----------------------------------------------------------------------------
(* What it says of the properties.                                         *)

\* The invariant says all the properties say.
LEMMA CaptureIBounds == CaptureIInv => CaptureInv /\ SpeechKept /\ CapturedIsTranscribed
<1> SUFFICES ASSUME CaptureIInv
             PROVE  CaptureInv /\ SpeechKept /\ CapturedIsTranscribed
  OBVIOUS
<1>1. CaptureShape /\ Loaded /\ Publishing /\ Routes /\ Bridge
  BY DEF CaptureIInv
<1>2. CaptureTypeOK
  BY <1>1 DEF CaptureTypeOK, CaptureShape, CallShape, BridgeShape, FlagShape, ThreadShape, MergeShape,
     FateShape, WorkerPlaces, AsrPlaces
<1>3. OverlayFollowsOwner
  BY <1>1 DEF Bridge
<1>4. DeviceReleased
  <2>1. SUFFICES ASSUME hazards \subseteq {"device", "race", "timeout"}, AllIdle, audio
                 PROVE  rec
    BY DEF DeviceReleased, AtRest
  <2>2. OpenForRecording /\ NoneAt({"flag"})
    BY <2>1 DEF CaptureIInv, AllIdle, NoneAt
  <2>3. QED
    BY <2>1, <2>2 DEF OpenForRecording
<1>5. Patient => PatientIInv
  BY <1>1, PatientIs, CalmIs DEF CaptureIInv, PatientIInv
<1>6. QuietLocks
  <2>1. SUFFICES ASSUME Patient, NEW c \in Callers, NEW t \in Publishers,
                        captureLock = c, At(c) \in {"join", "drain", "flush"}, pub[t].step # "none"
                 PROVE  FALSE
    BY DEF QuietLocks, NoLockCycle, LockCycle, Patient
  <2>2. Op(c) = "cStart"
    BY <1>1, <2>1 DEF Bridge
  <2>3. EmptyPipe
    BY <1>5, <2>1, <2>2 DEF PatientIInv, Emptied
  <2>4. NoneAt({"flushing"})
    BY <1>5, <2>1, Alone, IdleIs DEF PatientIInv, NoneAt, At
  <2>5. QED
    BY <1>5, <2>1, <2>3, <2>4, PipeEmpty
<1>7. SpeechStaysHome
  BY DEF CaptureIInv, Patient, SpeechStaysHome
<1>8. LastWordsKept
  <2>1. SUFFICES ASSUME Quiet, AllIdle, ~rec, ~active, NEW s \in Segs, own[s] # "none",
                        s \notin heard \union noted
                 PROVE  s \in lost
    BY DEF LastWordsKept, AtRest, Dropped
  <2>2. PatientIInv /\ EmptyPipe /\ NoneAt({"flushing"}) /\ NothingForgotten
    BY <1>5, <2>1, QuietIs DEF CaptureIInv, PatientIInv, Emptied, AllIdle, NoneAt
  <2>3. Somewhere(s)
    BY <2>1, <2>2, ForgottenIs DEF Remembered
  <2>4. QED
    BY <2>1, <2>2, <2>3, PipeEmpty DEF Somewhere, Queued, AtHand, InText, Kept
<1>9. CapturedIsTranscribed
  BY DEF CaptureIInv, CapturedIsTranscribed, Recording, Hearing, TakesOver, Heard
<1>10. QED
  BY <1>2, <1>3, <1>4, <1>6, <1>7, <1>8, <1>9 DEF CaptureInv, SpeechKept

\* The invariant holds throughout.
LEMMA CaptureInductive == CaptureSpec => []CaptureIInv
<1>1. CaptureIInv /\ [CaptureNext]_captureVars => CaptureIInv'
  BY CaptureINext, CaptureIStays
<1>2. QED
  BY <1>1, CaptureIInit, PTL DEF CaptureSpec

\* Between any two steps of any behaviour the overlay, the device and the owner of the
\* transport agree, and when requests come one at a time the bridge's lock and the ASR
\* lock never end in a circle: conversation_capture.py with routes.py and pipeline.py.
THEOREM CaptureInvariance == CaptureSpec => []CaptureInv
BY CaptureInductive, CaptureIBounds, PTL

\* One request at a time, speech captured for the Interview never becomes a Conversation
\* transcript nor the other way round, and a stopped recording that is at rest has
\* transcribed its last words, except what the bounded queue dropped.
THEOREM SpeechIsKept == CaptureSpec => []SpeechKept
BY CaptureInductive, CaptureIBounds, PTL

\* When requests come one at a time, nothing fails and no pause falls between the two
\* tests of the capture loop, a worker that captures has a live recogniser.  Under such a
\* pause, or a device that dies, it has one unless it took over the runtime of a worker
\* that ended before it; then nobody transcribes what it captures.
THEOREM TranscriberLives == CaptureSpec => []CapturedIsTranscribed
BY CaptureInductive, CaptureIBounds, PTL

-----------------------------------------------------------------------------
(* AsrQuestions.                                                           *)

Records ==
    [parts : SUBSET Fragments, group : SUBSET Fragments, gone : SUBSET Fragments,
     cue : 0 .. MaxCues, cues : 0 .. MaxCues, ended : Seq(Nat), turns : Seq(SUBSET Fragments)]

SaidIn(s) == UNION {s.turns[i] : i \in 1 .. Len(s.turns)}

\* The fragments are divided among the record's places and the rest.
Divided(s, rest) ==
    /\ rest \union s.parts \union s.group \union s.gone \union SaidIn(s) = Fragments
    /\ rest \intersect s.parts = {} /\ rest \intersect s.group = {}
    /\ rest \intersect s.gone = {} /\ rest \intersect SaidIn(s) = {}
    /\ s.parts \intersect s.group = {} /\ s.parts \intersect s.gone = {}
    /\ s.parts \intersect SaidIn(s) = {} /\ s.group \intersect s.gone = {}
    /\ s.group \intersect SaidIn(s) = {} /\ s.gone \intersect SaidIn(s) = {}
    /\ \A i, j \in 1 .. Len(s.turns) : i # j => s.turns[i] \intersect s.turns[j] = {}

\* Cues end in order, and the one that waits is the last one shown.
InOrder(s) ==
    /\ s.cue \in {0, s.cues}
    /\ Len(s.ended) = IF s.cue = 0 THEN s.cues ELSE s.cues - 1
    /\ \A i \in 1 .. Len(s.ended) : s.ended[i] = i

Good(s, rest) == s \in Records /\ Divided(s, rest) /\ InOrder(s)
-----------------------------------------------------------------------------
\* A turn that is appended adds what it says.
LEMMA Appended ==
    ASSUME NEW ts \in Seq(SUBSET Fragments), NEW g \in SUBSET Fragments
    PROVE  /\ Append(ts, g) \in Seq(SUBSET Fragments)
           /\ UNION {Append(ts, g)[i] : i \in 1 .. Len(Append(ts, g))}
                 = g \union UNION {ts[i] : i \in 1 .. Len(ts)}
           /\ Len(Append(ts, g)) = Len(ts) + 1
           /\ Append(ts, g)[Len(ts) + 1] = g
           /\ \A i \in 1 .. Len(ts) : Append(ts, g)[i] = ts[i]
<1> DEFINE more == Append(ts, g)
<1>1. /\ more \in Seq(SUBSET Fragments) /\ Len(more) = Len(ts) + 1
      /\ more[Len(ts) + 1] = g /\ \A i \in 1 .. Len(ts) : more[i] = ts[i]
  OBVIOUS
<1> HIDE DEF more
<1>2. Len(ts) \in Nat
  OBVIOUS
<1>3. ASSUME NEW f, \E i \in 1 .. Len(more) : f \in more[i]
      PROVE  f \in g \/ \E i \in 1 .. Len(ts) : f \in ts[i]
  BY <1>1, <1>2, <1>3
<1>4. ASSUME NEW f, f \in g \/ \E i \in 1 .. Len(ts) : f \in ts[i]
      PROVE  \E i \in 1 .. Len(more) : f \in more[i]
  BY <1>1, <1>2, <1>4
<1>5. UNION {more[i] : i \in 1 .. Len(more)} = g \union UNION {ts[i] : i \in 1 .. Len(ts)}
  BY <1>3, <1>4
<1>6. QED
  BY <1>1, <1>5 DEF more

\* submit_provisional keeps the record good.
LEMMA ProvisionalGood ==
    ASSUME NEW s, NEW rest, Good(s, rest)
    PROVE  /\ Good(SubmitProvisional(s), rest)
           /\ SubmitProvisional(s).parts = s.parts
<1>1. CASE s.cue # 0 \/ s.cues = MaxCues
  BY <1>1 DEF SubmitProvisional
<1>2. CASE s.cue = 0 /\ s.cues # MaxCues
  <2> DEFINE t == [s EXCEPT !.cue = s.cues + 1, !.cues = @ + 1]
  <2>1. SubmitProvisional(s) = t
    BY <1>2 DEF SubmitProvisional
  <2>2. /\ s \in Records /\ t.parts = s.parts /\ t.group = s.group /\ t.gone = s.gone
        /\ t.turns = s.turns /\ t.ended = s.ended /\ t.cue = s.cues + 1 /\ t.cues = s.cues + 1
    BY DEF Good, Records
  <2>3. t \in Records
    <3>1. s.cues + 1 \in 0 .. MaxCues
      BY <1>2, <2>2, QuestionAssumption DEF Records
    <3>2. [s EXCEPT !.cue = s.cues + 1] \in Records
      BY <2>2, <3>1 DEF Records
    <3>3. \A u \in Records, n \in 0 .. MaxCues : [u EXCEPT !.cues = n] \in Records
      BY DEF Records
    <3>4. [[s EXCEPT !.cue = s.cues + 1] EXCEPT !.cues = s.cues + 1] \in Records
      BY <3>1, <3>2, <3>3
    <3>5. QED
      BY <3>4
  <2>4. Divided(t, rest)
    BY <2>2 DEF Good, Divided, SaidIn
  <2>5. InOrder(t)
    BY <1>2, <2>2, QuestionAssumption DEF Good, InOrder, Records
  <2>6. QED
    BY <2>1, <2>2, <2>3, <2>4, <2>5 DEF Good
<1>3. QED
  BY <1>1, <1>2

\* Ending the cue that waits keeps the record good.
LEMMA EndCueGood ==
    ASSUME NEW s, NEW rest, Good(s, rest)
    PROVE  /\ Good(EndCue(s), rest)
           /\ EndCue(s).parts = s.parts /\ EndCue(s).group = s.group
           /\ EndCue(s).gone = s.gone /\ EndCue(s).turns = s.turns
<1>1. CASE s.cue = 0
  BY <1>1 DEF EndCue
<1>2. CASE s.cue # 0
  <2> DEFINE t == [s EXCEPT !.cue = 0, !.ended = Append(@, s.cue)]
  <2>1. EndCue(s) = t
    BY <1>2 DEF EndCue
  <2>2. /\ s \in Records /\ t.parts = s.parts /\ t.group = s.group /\ t.gone = s.gone
        /\ t.turns = s.turns /\ t.ended = Append(s.ended, s.cue) /\ t.cue = 0
        /\ t.cues = s.cues
    BY DEF Good, Records
  <2>3. s.cue \in Nat /\ s.cues \in Nat /\ s.ended \in Seq(Nat)
    BY <2>2, QuestionAssumption DEF Records
  <2>4. t \in Records
    <3>1. Append(s.ended, s.cue) \in Seq(Nat) /\ 0 \in 0 .. MaxCues
      BY <2>3, QuestionAssumption
    <3>2. [s EXCEPT !.cue = 0] \in Records
      BY <2>2, <3>1 DEF Records
    <3>3. \A u \in Records, e \in Seq(Nat) : [u EXCEPT !.ended = e] \in Records
      BY DEF Records
    <3>4. [[s EXCEPT !.cue = 0] EXCEPT !.ended = Append(s.ended, s.cue)] \in Records
      BY <3>1, <3>2, <3>3
    <3>5. QED
      BY <3>4
  <2>5. Divided(t, rest)
    BY <2>2 DEF Good, Divided, SaidIn
  <2>6. InOrder(t)
    <3>1. s.cue = s.cues /\ Len(s.ended) = s.cues - 1 /\ \A i \in 1 .. Len(s.ended) : s.ended[i] = i
      BY <1>2 DEF Good, InOrder
    <3>2. /\ Len(t.ended) = Len(s.ended) + 1 /\ t.ended[Len(s.ended) + 1] = s.cue
          /\ \A i \in 1 .. Len(s.ended) : t.ended[i] = s.ended[i]
      BY <2>2, <2>3
    <3>3. QED
      BY <2>2, <2>3, <3>1, <3>2 DEF InOrder
  <2>7. QED
    BY <2>1, <2>2, <2>4, <2>5, <2>6 DEF Good
<1>3. QED
  BY <1>1, <1>2

\* Fragments taken out of the group or the merge buffer are among the rest.
LEMMA TakenGood ==
    ASSUME NEW s, NEW rest, Good(s, rest)
    PROVE  /\ Good([s EXCEPT !.group = {}], rest \union s.group) /\ rest \intersect s.group = {}
           /\ Good([s EXCEPT !.parts = {}], rest \union s.parts) /\ rest \intersect s.parts = {}
<1>1. s \in Records /\ Divided(s, rest) /\ InOrder(s)
  BY DEF Good
<1>2. rest \intersect s.group = {} /\ rest \intersect s.parts = {}
  BY <1>1 DEF Divided
<1>3. Good([s EXCEPT !.group = {}], rest \union s.group)
  <2> DEFINE t == [s EXCEPT !.group = {}]
  <2>1. /\ t \in Records /\ t.parts = s.parts /\ t.group = {} /\ t.gone = s.gone
        /\ t.turns = s.turns /\ t.ended = s.ended /\ t.cue = s.cue /\ t.cues = s.cues
    BY <1>1 DEF Records
  <2>2. SaidIn(t) = SaidIn(s)
    BY <2>1 DEF SaidIn
  <2> HIDE DEF t
  <2>3. Divided(t, rest \union s.group)
    BY <1>1, <2>1, <2>2 DEF Divided
  <2>4. InOrder(t)
    BY <1>1, <2>1 DEF InOrder
  <2>5. Good(t, rest \union s.group)
    BY <2>1, <2>3, <2>4 DEF Good
  <2>6. QED
    BY <2>5 DEF t
<1>4. Good([s EXCEPT !.parts = {}], rest \union s.parts)
  <2> DEFINE t == [s EXCEPT !.parts = {}]
  <2>1. /\ t \in Records /\ t.parts = {} /\ t.group = s.group /\ t.gone = s.gone
        /\ t.turns = s.turns /\ t.ended = s.ended /\ t.cue = s.cue /\ t.cues = s.cues
    BY <1>1 DEF Records
  <2>2. SaidIn(t) = SaidIn(s)
    BY <2>1 DEF SaidIn
  <2> HIDE DEF t
  <2>3. Divided(t, rest \union s.parts)
    BY <1>1, <2>1, <2>2 DEF Divided
  <2>4. InOrder(t)
    BY <1>1, <2>1 DEF InOrder
  <2>5. Good(t, rest \union s.parts)
    BY <2>1, <2>3, <2>4 DEF Good
  <2>6. QED
    BY <2>5 DEF t
<1>5. QED
  BY <1>2, <1>3, <1>4

\* Fragments placed in the merge buffer, the group or among the gone leave the rest.
LEMMA PlacedGood ==
    ASSUME NEW s, NEW rest, NEW g, Good(s, rest \union g), rest \intersect g = {}
    PROVE  /\ Good([s EXCEPT !.parts = @ \union g], rest)
           /\ Good([s EXCEPT !.group = @ \union g], rest)
           /\ Good([s EXCEPT !.gone = @ \union g], rest)
<1>1. s \in Records /\ Divided(s, rest \union g) /\ InOrder(s)
  BY DEF Good
<1>2. g \in SUBSET Fragments
  BY <1>1 DEF Divided
<1>3. Good([s EXCEPT !.parts = @ \union g], rest)
  <2> DEFINE t == [s EXCEPT !.parts = @ \union g]
  <2>1. /\ t \in Records /\ t.parts = s.parts \union g /\ t.group = s.group /\ t.gone = s.gone
        /\ t.turns = s.turns /\ t.ended = s.ended /\ t.cue = s.cue /\ t.cues = s.cues
    BY <1>1, <1>2 DEF Records
  <2>2. SaidIn(t) = SaidIn(s)
    BY <2>1 DEF SaidIn
  <2> HIDE DEF t
  <2>3. Divided(t, rest)
    BY <1>1, <2>1, <2>2 DEF Divided
  <2>4. InOrder(t)
    BY <1>1, <2>1 DEF InOrder
  <2>5. Good(t, rest)
    BY <2>1, <2>3, <2>4 DEF Good
  <2>6. QED
    BY <2>5 DEF t
<1>4. Good([s EXCEPT !.group = @ \union g], rest)
  <2> DEFINE t == [s EXCEPT !.group = @ \union g]
  <2>1. /\ t \in Records /\ t.parts = s.parts /\ t.group = s.group \union g /\ t.gone = s.gone
        /\ t.turns = s.turns /\ t.ended = s.ended /\ t.cue = s.cue /\ t.cues = s.cues
    BY <1>1, <1>2 DEF Records
  <2>2. SaidIn(t) = SaidIn(s)
    BY <2>1 DEF SaidIn
  <2> HIDE DEF t
  <2>3. Divided(t, rest)
    BY <1>1, <2>1, <2>2 DEF Divided
  <2>4. InOrder(t)
    BY <1>1, <2>1 DEF InOrder
  <2>5. Good(t, rest)
    BY <2>1, <2>3, <2>4 DEF Good
  <2>6. QED
    BY <2>5 DEF t
<1>5. Good([s EXCEPT !.gone = @ \union g], rest)
  <2> DEFINE t == [s EXCEPT !.gone = @ \union g]
  <2>1. /\ t \in Records /\ t.parts = s.parts /\ t.group = s.group /\ t.gone = s.gone \union g
        /\ t.turns = s.turns /\ t.ended = s.ended /\ t.cue = s.cue /\ t.cues = s.cues
    BY <1>1, <1>2 DEF Records
  <2>2. SaidIn(t) = SaidIn(s)
    BY <2>1 DEF SaidIn
  <2> HIDE DEF t
  <2>3. Divided(t, rest)
    BY <1>1, <2>1, <2>2 DEF Divided
  <2>4. InOrder(t)
    BY <1>1, <2>1 DEF InOrder
  <2>5. Good(t, rest)
    BY <2>1, <2>3, <2>4 DEF Good
  <2>6. QED
    BY <2>5 DEF t
<1>6. QED
  BY <1>3, <1>4, <1>5

\* A turn submitted takes its fragments out of the rest.
LEMMA SubmittedGood ==
    ASSUME NEW s, NEW rest, NEW g, Good(s, rest \union g), rest \intersect g = {}
    PROVE  Good([s EXCEPT !.turns = Append(@, g)], rest)
<1> DEFINE t == [s EXCEPT !.turns = Append(@, g)]
<1>1. s \in Records /\ Divided(s, rest \union g) /\ InOrder(s)
  BY DEF Good
<1>2. g \in SUBSET Fragments
  BY <1>1 DEF Divided
<1>3. s.turns \in Seq(SUBSET Fragments)
  BY <1>1 DEF Records
<1>4. /\ t.parts = s.parts /\ t.group = s.group /\ t.gone = s.gone
      /\ t.turns = Append(s.turns, g) /\ t.ended = s.ended /\ t.cue = s.cue /\ t.cues = s.cues
  BY <1>1 DEF Records
<1>5. t \in Records
  BY <1>1, <1>2, <1>3, Appended DEF Records
<1> HIDE DEF t
<1>6. SaidIn(t) = g \union SaidIn(s)
  BY <1>2, <1>3, <1>4, Appended DEF SaidIn
<1>7. \A i, j \in 1 .. Len(t.turns) : i # j => t.turns[i] \intersect t.turns[j] = {}
  <2>1. SUFFICES ASSUME NEW i \in 1 .. Len(t.turns), NEW j \in 1 .. Len(t.turns), i # j
                 PROVE  t.turns[i] \intersect t.turns[j] = {}
    OBVIOUS
  <2>2. /\ Len(t.turns) = Len(s.turns) + 1 /\ t.turns[Len(s.turns) + 1] = g
        /\ \A k \in 1 .. Len(s.turns) : t.turns[k] = s.turns[k]
    BY <1>2, <1>3, <1>4, Appended
  <2>3. Len(s.turns) \in Nat
    BY <1>3
  <2>4. \A k \in 1 .. Len(s.turns) : s.turns[k] \intersect g = {}
    BY <1>1 DEF Divided, SaidIn
  <2>5. \A k, l \in 1 .. Len(s.turns) : k # l => s.turns[k] \intersect s.turns[l] = {}
    BY <1>1 DEF Divided
  <2>6. CASE i \in 1 .. Len(s.turns) /\ j \in 1 .. Len(s.turns)
    BY <2>1, <2>2, <2>5, <2>6
  <2>7. CASE i = Len(s.turns) + 1
    <3>1. j \in 1 .. Len(s.turns)
      BY <2>1, <2>2, <2>3, <2>7
    <3>2. QED
      BY <2>2, <2>4, <2>7, <3>1
  <2>8. CASE j = Len(s.turns) + 1
    <3>1. i \in 1 .. Len(s.turns)
      BY <2>1, <2>2, <2>3, <2>8
    <3>2. QED
      BY <2>2, <2>4, <2>8, <3>1
  <2>9. QED
    BY <2>2, <2>3, <2>6, <2>7, <2>8
<1>8. Divided(t, rest)
  BY <1>1, <1>4, <1>6, <1>7 DEF Divided
<1>9. InOrder(t)
  BY <1>1, <1>4 DEF InOrder
<1>10. Good(t, rest)
  BY <1>5, <1>8, <1>9 DEF Good
<1>11. QED
  BY <1>10 DEF t-----------------------------------------------------------------------------
\* flush_question_group_now keeps the record good, whatever the group is.
LEMMA FlushGroupGood ==
    ASSUME NEW s, NEW rest, NEW v, Good(s, rest)
    PROVE  Good(FlushGroup(s, v), rest)
<1>1. CASE s.group = {}
  BY <1>1 DEF FlushGroup
<1>2. CASE s.group # {}
  <2> DEFINE t == EndCue([s EXCEPT !.group = {}])
  <2>1. Good(t, rest \union s.group) /\ rest \intersect s.group = {}
    BY TakenGood, EndCueGood
  <2> HIDE DEF t
  <2>2. Good([t EXCEPT !.turns = Append(@, s.group)], rest)
    BY <2>1, SubmittedGood
  <2>3. Good([t EXCEPT !.gone = @ \union s.group], rest)
    BY <2>1, PlacedGood
  <2>4. FlushGroup(s, v) = IF v.viable THEN [t EXCEPT !.turns = Append(@, s.group)]
                           ELSE [t EXCEPT !.gone = @ \union s.group]
    BY <1>2 DEF FlushGroup, t
  <2>5. QED
    BY <2>2, <2>3, <2>4
<1>3. QED
  BY <1>1, <1>2

\* try_flush_question_group, and expire_provisional in it, keep the record good.
LEMMA TryFlushGood ==
    ASSUME NEW s, NEW rest, NEW v, Good(s, rest)
    PROVE  Good(TryFlushGroup(s, v), rest)
<1>1. Good(FlushGroup(s, v), rest) /\ Good(EndCue(s), rest)
  BY FlushGroupGood, EndCueGood
<1>2. QED
  BY <1>1 DEF TryFlushGroup

\* An utterance handled puts its fragments in the group or among the gone.
LEMMA HandleTextGood ==
    ASSUME NEW s, NEW rest, NEW said, NEW v,
           Good(s, rest \union said), rest \intersect said = {}
    PROVE  Good(HandleText(s, said, v), rest)
<1> DEFINE t == TryFlushGroup(s, v)
<1>1. Good(t, rest \union said)
  BY TryFlushGood
<1> HIDE DEF t
<1>2. /\ Good([s EXCEPT !.gone = @ \union said], rest)
      /\ Good([s EXCEPT !.group = @ \union said], rest)
      /\ Good([t EXCEPT !.gone = @ \union said], rest)
      /\ Good([t EXCEPT !.group = @ \union said], rest)
  BY <1>1, PlacedGood
<1>3. \/ HandleText(s, said, v) = [s EXCEPT !.gone = @ \union said]
      \/ HandleText(s, said, v) = [s EXCEPT !.group = @ \union said]
      \/ HandleText(s, said, v) = [t EXCEPT !.gone = @ \union said]
      \/ HandleText(s, said, v) = [t EXCEPT !.group = @ \union said]
  BY DEF HandleText, t
<1>4. QED
  BY <1>2, <1>3

\* flush_merge_buffer_now keeps the record good.
LEMMA FlushMergeGood ==
    ASSUME NEW s, NEW rest, NEW v, Good(s, rest)
    PROVE  Good(FlushMerge(s, v), rest)
<1>1. Good([s EXCEPT !.parts = {}], rest \union s.parts) /\ rest \intersect s.parts = {}
  BY TakenGood
<1>2. Good(HandleText([s EXCEPT !.parts = {}], s.parts, v), rest)
  BY <1>1, HandleTextGood
<1>3. QED
  BY <1>2 DEF FlushMerge

\* A method's record becomes the state.
LEMMA BecomeGood ==
    ASSUME NEW s, NEW rest, Good(s, rest), Become(s), unheard' = rest
    PROVE  Good(Now, unheard)'
<1>1. s = [parts |-> s.parts, group |-> s.group, cue |-> s.cue, cues |-> s.cues,
           ended |-> s.ended, turns |-> s.turns, gone |-> s.gone]
  BY DEF Good, Records
<1>2. Now' = s
  BY <1>1 DEF Become, Now
<1>3. Good(Now', unheard')
  BY <1>2
<1>4. QED
  BY <1>3
-----------------------------------------------------------------------------
\* What every step keeps: the record of the state is good and the rest is unheard.
Core == on \in BOOLEAN /\ starts \in 0 .. MaxStarts /\ Good(Now, unheard)

\* The core says all the invariant says.
LEMMA CoreIsEnough == Core => QuestionInv
<1>1. SUFFICES ASSUME Core PROVE QuestionInv
  OBVIOUS
<1>2. Now \in Records /\ Divided(Now, unheard) /\ InOrder(Now)
  BY <1>1 DEF Core, Good
<1>3. /\ Now.parts = parts /\ Now.group = group /\ Now.cue = cue /\ Now.cues = cues
      /\ Now.ended = ended /\ Now.turns = turns /\ Now.gone = gone
  BY DEF Now
<1>4. /\ parts \in SUBSET Fragments /\ group \in SUBSET Fragments /\ gone \in SUBSET Fragments
      /\ cue \in 0 .. MaxCues /\ cues \in 0 .. MaxCues /\ ended \in Seq(Nat)
      /\ turns \in Seq(SUBSET Fragments)
  BY <1>2, <1>3 DEF Records
<1>5. /\ cue \in {0, cues} /\ Len(ended) = IF cue = 0 THEN cues ELSE cues - 1
      /\ \A i \in 1 .. Len(ended) : ended[i] = i
  BY <1>2, <1>3 DEF InOrder
<1>6. Len(ended) \in Nat /\ Len(ended) =< MaxCues /\ cue \in Nat /\ cues \in Nat
  BY <1>4, <1>5, QuestionAssumption
<1>7. CueSettledOnce
  <2>1. ended = [i \in 1 .. Len(ended) |-> ended[i]]
    BY <1>4
  <2>2. ended = [i \in 1 .. Len(ended) |-> i]
    BY <1>5, <2>1
  <2>3. Len(ended) = IF cue = 0 THEN cues ELSE cues - 1
    BY <1>5
  <2>4. QED
    BY <2>2, <2>3 DEF CueSettledOnce
<1>8. ended \in Seq(1 .. MaxCues)
  <2>1. \A i \in 1 .. Len(ended) : ended[i] \in 1 .. MaxCues
    BY <1>5, <1>6, QuestionAssumption
  <2>2. ended \in [1 .. Len(ended) -> 1 .. MaxCues]
    BY <1>4, <2>1
  <2>3. QED
    BY <1>6, <2>2, SeqDef
<1>9. SaidIn(Now) = Said
  BY <1>3 DEF SaidIn, Said
<1>10. AnsweredOnce
  <2>1. \A i, j \in 1 .. Len(turns) : i # j => turns[i] \intersect turns[j] = {}
    BY <1>2, <1>3 DEF Divided
  <2>2. unheard \union parts \union group \union gone \union Said = Fragments
    BY <1>2, <1>3, <1>9 DEF Divided
  <2>3. /\ unheard \intersect parts = {} /\ unheard \intersect group = {}
        /\ unheard \intersect gone = {} /\ unheard \intersect Said = {}
        /\ parts \intersect group = {} /\ parts \intersect gone = {}
        /\ parts \intersect Said = {} /\ group \intersect gone = {}
        /\ group \intersect Said = {} /\ gone \intersect Said = {}
    BY <1>2, <1>3, <1>9 DEF Divided
  <2>4. /\ Len(Whereabouts) = 5 /\ Whereabouts[1] = unheard /\ Whereabouts[2] = parts
        /\ Whereabouts[3] = group /\ Whereabouts[4] = gone /\ Whereabouts[5] = Said
    BY DEF Whereabouts
  <2>5. \A i, j \in 1 .. 5 : i # j => Whereabouts[i] \intersect Whereabouts[j] = {}
    <3>1. SUFFICES ASSUME NEW i \in {1, 2, 3, 4, 5}, NEW j \in {1, 2, 3, 4, 5}, i # j
                   PROVE  Whereabouts[i] \intersect Whereabouts[j] = {}
      BY SMT
    <3> HIDE DEF Whereabouts
    <3>2. CASE i = 1
      BY <2>3, <2>4, <3>1, <3>2
    <3>3. CASE i = 2
      BY <2>3, <2>4, <3>1, <3>3
    <3>4. CASE i = 3
      BY <2>3, <2>4, <3>1, <3>4
    <3>5. CASE i = 4
      BY <2>3, <2>4, <3>1, <3>5
    <3>6. CASE i = 5
      BY <2>3, <2>4, <3>1, <3>6
    <3>7. QED
      BY <3>1, <3>2, <3>3, <3>4, <3>5, <3>6
  <2>6. QED
    BY <2>1, <2>2, <2>4, <2>5 DEF AnsweredOnce
<1>11. QuestionTypeOK
  <2>1. unheard \in SUBSET Fragments
    BY <1>2 DEF Divided
  <2>2. QED
    BY <1>1, <1>4, <1>8, <2>1 DEF QuestionTypeOK, Core
<1>12. QED
  BY <1>7, <1>10, <1>11 DEF QuestionInv

\* Nothing is said yet.
LEMMA InitCore == QuestionInit => Core
<1>1. SUFFICES ASSUME QuestionInit PROVE Core
  OBVIOUS
<1>2. /\ Now.parts = {} /\ Now.group = {} /\ Now.gone = {} /\ Now.cue = 0 /\ Now.cues = 0
      /\ Now.ended = <<>> /\ Now.turns = <<>> /\ unheard = Fragments
  BY <1>1 DEF QuestionInit, Now
<1>3. Now \in Records
  <2>1. <<>> \in Seq(Nat) /\ <<>> \in Seq(SUBSET Fragments) /\ 0 \in 0 .. MaxCues
    BY QuestionAssumption
  <2>2. QED
    BY <1>1, <2>1 DEF QuestionInit, Now, Records
<1>4. Len(<<>>) = 0 /\ 1 .. 0 = {}
  OBVIOUS
<1>5. SaidIn(Now) = {}
  BY <1>2, <1>4 DEF SaidIn
<1>6. Divided(Now, unheard)
  BY <1>2, <1>4, <1>5 DEF Divided
<1>7. InOrder(Now)
  BY <1>2, <1>4 DEF InOrder
<1>8. on \in BOOLEAN /\ starts \in 0 .. MaxStarts
  <2>1. on = FALSE /\ starts = 0
    BY <1>1 DEF QuestionInit
  <2>2. on \in BOOLEAN
    BY <2>1
  <2>3. starts \in 0 .. MaxStarts
    BY <2>1, QuestionAssumption
  <2>4. QED
    BY <2>2, <2>3
<1>9. QED
  BY <1>3, <1>6, <1>7, <1>8 DEF Core, Good

\* A step of the recogniser, the capture worker, the flush thread or the API.
LEMMA StepCore == Core /\ [QuestionNext]_questionVars => Core'
<1>1. SUFFICES ASSUME Core, [QuestionNext]_questionVars PROVE Core'
  OBVIOUS
<1>2. on \in BOOLEAN /\ starts \in 0 .. MaxStarts /\ Good(Now, unheard)
  BY <1>1 DEF Core
<1>3. /\ Now.parts = parts /\ Now.group = group /\ Now.gone = gone
  BY DEF Now
<1>4. CASE StartRecording
  <2> DEFINE t == [Now EXCEPT !.parts = {}]
             u == [t EXCEPT !.group = {}]
             w == [u EXCEPT !.gone = @ \union (parts \union group)]
  <2>1. Good(t, unheard \union parts) /\ unheard \intersect parts = {}
    BY <1>2, <1>3, TakenGood
  <2>2. t.group = group
    BY DEF Now
  <2>3. /\ Good(u, unheard \union parts \union group)
        /\ (unheard \union parts) \intersect group = {}
    BY <2>1, <2>2, TakenGood
  <2>4. unheard \intersect (parts \union group) = {}
    BY <2>1, <2>3
  <2>5. Good(u, unheard \union (parts \union group))
    <3>1. unheard \union parts \union group = unheard \union (parts \union group)
      OBVIOUS
    <3>2. QED
      BY <2>3, <3>1
  <2> HIDE DEF u
  <2>6. Good(w, unheard)
    BY <2>4, <2>5, PlacedGood
  <2>7. w = [Now EXCEPT !.parts = {}, !.group = {}, !.gone = @ \union parts \union group]
    BY DEF u, Now
  <2> HIDE DEF w
  <2>8. Become(w) /\ unheard' = unheard /\ on' = TRUE /\ starts' = starts + 1 /\ starts < MaxStarts
    BY <1>4, <2>7 DEF StartRecording
  <2>9. Good(Now, unheard)'
    BY <2>6, <2>8, BecomeGood
  <2>10. QED
    BY <1>2, <2>8, <2>9, QuestionAssumption DEF Core
<1>5. CASE Partial
  <2>1. Good(SubmitProvisional(Now), unheard)
    BY <1>2, ProvisionalGood
  <2>2. Become(SubmitProvisional(Now)) /\ UNCHANGED <<on, starts, unheard>>
    BY <1>5 DEF Partial
  <2>3. Good(Now, unheard)'
    BY <2>1, <2>2, BecomeGood
  <2>4. QED
    BY <1>2, <2>2, <2>3 DEF Core
<1>6. CASE DiscardPending
  <2> DEFINE t == [Now EXCEPT !.group = {}]
             w == [t EXCEPT !.gone = @ \union group]
  <2>1. Good(t, unheard \union group) /\ unheard \intersect group = {}
    BY <1>2, <1>3, TakenGood
  <2> HIDE DEF t
  <2>2. Good(w, unheard)
    BY <2>1, PlacedGood
  <2>3. w = [Now EXCEPT !.group = {}, !.gone = @ \union group]
    BY DEF t, Now
  <2> HIDE DEF w
  <2>4. Become(w) /\ UNCHANGED <<on, starts, unheard>>
    BY <1>6, <2>3 DEF DiscardPending
  <2>5. Good(Now, unheard)'
    BY <2>2, <2>4, BecomeGood
  <2>6. QED
    BY <1>2, <2>4, <2>5 DEF Core
<1>7. ASSUME NEW v \in Verdicts, FlushPending(v) PROVE Core'
  <2>1. Good(FlushGroup(Now, v), unheard)
    BY <1>2, FlushGroupGood
  <2>2. Become(FlushGroup(Now, v)) /\ UNCHANGED <<on, starts, unheard>>
    BY <1>7 DEF FlushPending
  <2>3. Good(Now, unheard)'
    BY <2>1, <2>2, BecomeGood
  <2>4. QED
    BY <1>2, <2>2, <2>3 DEF Core
<1>8. ASSUME NEW v \in Verdicts, StopRecording(v) PROVE Core'
  <2> DEFINE s == FlushMerge(Now, v)
             t == IF s.group # {} THEN FlushGroup(s, v) ELSE TryFlushGroup(s, v)
  <2>1. Good(s, unheard)
    BY <1>2, FlushMergeGood
  <2>2. Become(t) /\ on' = FALSE /\ UNCHANGED <<starts, unheard>>
    BY <1>8 DEF StopRecording
  <2> HIDE DEF s
  <2>3. Good(t, unheard)
    BY <2>1, FlushGroupGood, TryFlushGood
  <2> HIDE DEF t
  <2>4. Good(Now, unheard)'
    BY <2>2, <2>3, BecomeGood
  <2>5. QED
    BY <1>2, <2>2, <2>4 DEF Core
<1>9. ASSUME NEW v \in Verdicts, NEW w \in BOOLEAN, FlushRound(v, w) PROVE Core'
  <2> DEFINE s == IF w THEN FlushMerge(Now, v) ELSE Now
             t == TryFlushGroup(s, v)
  <2>1. Good(s, unheard)
    BY <1>2, FlushMergeGood
  <2>2. Become(t) /\ UNCHANGED <<on, starts, unheard>>
    BY <1>9 DEF FlushRound
  <2> HIDE DEF s
  <2>3. Good(t, unheard)
    BY <2>1, TryFlushGood
  <2> HIDE DEF t
  <2>4. Good(Now, unheard)'
    BY <2>2, <2>3, BecomeGood
  <2>5. QED
    BY <1>2, <2>2, <2>4 DEF Core
<1>10. ASSUME NEW v \in Verdicts, NEW w \in BOOLEAN, NEW f \in Fragments, Fragment(f, v, w)
       PROVE  Core'
  <2> DEFINE s == IF v.early THEN SubmitProvisional(Now) ELSE Now
             t == [s EXCEPT !.parts = @ \union {f}]
             u == IF w THEN FlushMerge(t, v) ELSE t
  <2>1. Good(s, unheard)
    BY <1>2, ProvisionalGood
  <2>2. /\ Become(u) /\ f \in unheard /\ unheard' = unheard \ {f}
        /\ on' = on /\ starts' = starts
    BY <1>10 DEF Fragment
  <2> HIDE DEF s
  <2>3. Good(s, (unheard \ {f}) \union {f})
    <3>1. unheard = (unheard \ {f}) \union {f}
      BY <2>2
    <3>2. QED
      BY <2>1, <3>1
  <2>4. Good(t, unheard \ {f})
    <3>1. (unheard \ {f}) \intersect {f} = {}
      OBVIOUS
    <3>2. QED
      BY <2>3, <3>1, PlacedGood
  <2> HIDE DEF t
  <2>5. Good(u, unheard \ {f})
    BY <2>4, FlushMergeGood
  <2> HIDE DEF u
  <2>6. Good(Now, unheard)'
    BY <2>2, <2>5, BecomeGood
  <2>7. QED
    BY <1>2, <2>2, <2>6 DEF Core
<1>11. CASE UNCHANGED questionVars
  BY <1>2, <1>11 DEF questionVars, Core, Now
<1>12. QED
  BY <1>1, <1>4, <1>5, <1>6, <1>7, <1>8, <1>9, <1>10, <1>11 DEF QuestionNext

\* Nothing said is lost or answered twice, and every provisional card is settled
\* once, for every number of fragments, cues and recordings.
THEOREM QuestionInvariance == QuestionSpec => []QuestionInv
<1>1. QuestionInit => Core
  BY InitCore
<1>2. Core /\ [QuestionNext]_questionVars => Core'
  BY StepCore
<1>3. Core => QuestionInv
  BY CoreIsEnough
<1>4. QED
  BY <1>1, <1>2, <1>3, PTL DEF QuestionSpec
=============================================================================

------------------------------- MODULE LiveView -------------------------------
(***************************************************************************)
(* What a web client shows of the answers: api/realtime/ws.py broadcasts   *)
(* the events of answer_worker.py through one bounded queue, and           *)
(* useInterviewWS.ts and interviewSlice.ts fold them into cards.  A client *)
(* that reconnects starts from a snapshot of the session, taken while      *)
(* older events may still wait in the queue.                               *)
(*                                                                         *)
(* Of a card's text only this is kept: "marred" is a finished card that    *)
(* was changed.  Events are posted and queued in one step: the loop runs   *)
(* call_soon_threadsafe callbacks in the order they were posted.           *)
(***************************************************************************)
EXTENDS Naturals, Sequences, FiniteSets

CONSTANTS
    Answers,     \* questions asked in the session
    Clients,     \* web clients
    BusSize,     \* the broadcast queue's maxsize
    WireSize,    \* bound: events under way to one client
    MaxChunks,   \* bound: chunks broadcast of one answer
    MaxEnds      \* bound: connections broken and answers cancelled or cleared

ASSUME ViewAssumption ==
    /\ IsFiniteSet(Answers) /\ BusSize \in Nat /\ WireSize \in Nat \ {0}
    /\ MaxChunks \in Nat /\ MaxEnds \in Nat

VARIABLES
    answer,      \* how far each answer is
    chunks,      \* chunks broadcast of each
    stale,       \* answers begun before the last cancel or clear
    saved,       \* the session's qa_pairs
    ending,      \* how far a cancel or clear is
    bus,         \* _msg_queue
    excused,     \* history: answers of which the full queue dropped an event, or that
                 \* were being stored while a clear emptied the session
    linked,      \* clients in ws_clients
    wire,        \* events under way to each client
    card,        \* each client's card of each answer
    buffer,      \* answers with chunks in a client's _chunkBuffer
    ends

viewVars == <<answer, chunks, stale, saved, ending, bus, excused, linked, wire, card, buffer, ends>>
serverVars == <<answer, chunks, stale, saved, ending>>
clientVars == <<linked, wire, card, buffer>>

NoCards == [q \in Answers |-> "none"]

ViewInit ==
    /\ answer = [q \in Answers |-> "none"]
    /\ chunks = [q \in Answers |-> 0]
    /\ stale = {} /\ saved = {} /\ ending = "no"
    /\ bus = <<>> /\ excused = {} /\ linked = {} /\ ends = 0
    /\ wire = [c \in Clients |-> <<>>]
    /\ card = [c \in Clients |-> NoCards]
    /\ buffer = [c \in Clients |-> {}]

Event(kind, qs) == [kind |-> kind, of |-> qs]
-----------------------------------------------------------------------------
(* The server.                                                             *)

\* _enqueue_broadcast: a full queue drops the new event.
Broadcast(e) ==
    IF Len(bus) < BusSize THEN bus' = Append(bus, e) /\ UNCHANGED excused
    ELSE excused' = excused \union e.of /\ UNCHANGED bus

\* Answer q goes from one stage to the next, and says so.
Moves(q, from, to) ==
    /\ answer[q] = from
    /\ answer' = [answer EXCEPT ![q] = to]
    /\ UNCHANGED <<stale, ending, clientVars, ends>>

Says(q, from, to, kind) ==
    /\ Moves(q, from, to) /\ Broadcast(Event(kind, {q}))
    /\ UNCHANGED chunks

Silently(q, from, to) == Moves(q, from, to) /\ UNCHANGED <<chunks, bus, excused, saved>>

\* The provisional cue; it is retracted, or its question confirmed.
Cue(q) == Says(q, "none", "cued", "cue") /\ UNCHANGED saved
Retract(q) == Says(q, "cued", "retracted", "retract") /\ UNCHANGED saved
Ask(q) == \E from \in {"none", "cued"} : Silently(q, from, "pending")

\* start_abort_check; a stale question ends here without a word.
Admit(q) == Silently(q, "pending", IF q \in stale THEN "orphan" ELSE "starting")
Start(q) == Says(q, "starting", "live", "start") /\ UNCHANGED saved

Chunk(q) ==
    /\ chunks[q] < MaxChunks /\ chunks' = [chunks EXCEPT ![q] = @ + 1]
    /\ Moves(q, "live", "live") /\ Broadcast(Event("chunk", {q}))
    /\ UNCHANGED saved

\* abort_check holds for a stale answer, and for one overtaken by a later ASR turn.
Abort(q) == Says(q, "live", "cancelled", "cancelled") /\ UNCHANGED saved
GenerationFails(q) == Says(q, "live", "failed", "error") /\ UNCHANGED saved
Generated(q) == q \notin stale /\ Silently(q, "live", "ready")

\* _commit runs under _commit_lock: the answer is saved, announced, and handed to
\* traces, suggestions and the knowledge base.
InCommit == {q \in Answers : answer[q] \in {"saving", "told"}}
Committing == InCommit # {}

Save(q) ==
    /\ ~Committing /\ q \notin stale
    /\ saved' = saved \union {q}
    /\ excused' = IF ending = "tell" THEN excused \union {q} ELSE excused
    /\ Moves(q, "ready", "saving") /\ UNCHANGED <<chunks, bus>>

Announce(q) == Says(q, "saving", "told", "done") /\ UNCHANGED saved
Stored(q) == Silently(q, "told", "stored")

\* Mutant: what was saved is not taken back.
SaveFailsKept(q) ==
    \E from \in {"saving", "told"} : Says(q, from, "failed", "error") /\ UNCHANGED saved

\* Any of these may fail, before the announcement or after it.
SaveFails(q) ==
    \E from \in {"saving", "told"} : Says(q, from, "failed", "error") /\ saved' = saved \ {q}

End == ends < MaxEnds /\ ends' = ends + 1

Underway == {q \in Answers : answer[q] \in {"pending", "starting", "live", "ready"}} \union InCommit

\* cancel_answer_work takes a new version, and then waits for the commit lock.
CancelWork(kind) ==
    /\ End /\ ending = "no"
    /\ ending' = kind /\ stale' = stale \union Underway
    /\ UNCHANGED <<answer, chunks, saved, bus, excused, clientVars>>

\* The queue of commits is emptied: the answers that wait in it, stale or not, and
\* the stale ones that would come to it are forgotten.
ForgetCommits ==
    /\ ending \in {"ask", "clear"} /\ ~Committing
    /\ ending' = IF ending = "clear" THEN "empty" ELSE "no"
    /\ \E lost \in SUBSET {q \in Answers : answer[q] = "ready"} :
          /\ {q \in stale : answer[q] = "ready"} \subseteq lost
          /\ answer' = [q \in Answers |-> IF q \in lost THEN "orphan" ELSE answer[q]]
    /\ UNCHANGED <<chunks, stale, saved, bus, excused, clientVars, ends>>

\* /clear empties the session, under another lock than commits take, ...
EmptySession ==
    /\ ending = "empty" /\ ending' = "tell"
    /\ saved' = {} /\ excused' = excused \union InCommit
    /\ UNCHANGED <<answer, chunks, stale, bus, clientVars, ends>>

\* ... and says session_cleared.
TellCleared ==
    /\ ending = "tell" /\ ending' = "no"
    /\ Broadcast(Event("cleared", Answers))
    /\ UNCHANGED <<answer, chunks, stale, saved, clientVars, ends>>
-----------------------------------------------------------------------------
(* The connection.                                                         *)

\* Mutant: the snapshot is sent before the client joins the dispatcher's set.
ConnectEmpty(c) ==
    /\ c \notin linked
    /\ linked' = linked \union {c}
    /\ wire' = [wire EXCEPT ![c] = <<Event("init", {})>>]
    /\ UNCHANGED <<serverVars, bus, excused, card, buffer, ends>>

\* websocket_endpoint: the client joins and the snapshot is sent in one turn of the
\* loop.
Connect(c) ==
    /\ c \notin linked
    /\ linked' = linked \union {c}
    /\ wire' = [wire EXCEPT ![c] = <<Event("init", saved)>>]
    /\ UNCHANGED <<serverVars, bus, excused, card, buffer, ends>>

\* A send fails or times out, the heartbeat gives up, or the client goes away.
Break(c) ==
    /\ End /\ c \in linked
    /\ linked' = linked \ {c}
    /\ wire' = [wire EXCEPT ![c] = <<>>]
    /\ UNCHANGED <<serverVars, bus, excused, card, buffer>>

\* ws_dispatcher waits for its sends.
Dispatch ==
    /\ bus # <<>> /\ \A c \in linked : Len(wire[c]) < WireSize
    /\ bus' = Tail(bus)
    /\ wire' = [c \in Clients |-> IF c \in linked THEN Append(wire[c], Head(bus)) ELSE wire[c]]
    /\ UNCHANGED <<serverVars, excused, linked, card, buffer, ends>>
-----------------------------------------------------------------------------
(* The client's store.                                                     *)

Settled == {"done", "cancelled", "error", "marred"}

\* What an event of an answer makes of its card, which was ...
Told(kind, was) ==
    CASE kind = "cue" -> IF was = "none" THEN "cue" ELSE was
      [] kind = "retract" -> IF was \in {"live", "done", "marred"} THEN was ELSE "none"
      [] kind = "start" -> IF was \in Settled THEN was ELSE "live"
      [] kind = "chunk" -> was
      [] kind = "done" -> "done"
      [] kind \in {"cancelled", "error"} -> IF was = "none" THEN was ELSE kind

\* ... and handleMessage of the card of q.
Shown(e, q, was) ==
    CASE e.kind = "init" -> IF q \in e.of THEN "done" ELSE "none"
      [] e.kind = "cleared" -> "none"
      [] OTHER -> IF q \in e.of THEN Told(e.kind, was) ELSE was

Buffered(e, waiting) ==
    CASE e.kind \in {"init", "cleared"} -> {}
      [] e.kind = "chunk" -> waiting \union e.of
      [] e.kind \in {"done", "cancelled", "error"} -> waiting \ e.of
      [] OTHER -> waiting

HandleMessage(c) ==
    /\ wire[c] # <<>>
    /\ LET e == Head(wire[c]) IN
          /\ card' = [card EXCEPT ![c] = [q \in Answers |-> Shown(e, q, card[c][q])]]
          /\ buffer' = [buffer EXCEPT ![c] = Buffered(e, @)]
    /\ wire' = [wire EXCEPT ![c] = Tail(@)]
    /\ UNCHANGED <<serverVars, bus, excused, linked, ends>>

\* Mutant: late chunks are added whatever the card's status.
FlushChunksLate(c) ==
    /\ buffer[c] # {}
    /\ buffer' = [buffer EXCEPT ![c] = {}]
    /\ card' = [card EXCEPT ![c] = [q \in Answers |->
          IF q \in buffer[c] /\ card[c][q] = "done" THEN "marred" ELSE card[c][q]]]
    /\ UNCHANGED <<serverVars, bus, excused, linked, wire, ends>>

\* The throttled flush adds text to the cards that stream, and to no other.
FlushChunks(c) ==
    /\ buffer[c] # {}
    /\ buffer' = [buffer EXCEPT ![c] = {}]
    /\ UNCHANGED <<serverVars, bus, excused, linked, wire, card, ends>>
-----------------------------------------------------------------------------
Advance(q) ==
    \/ Cue(q) \/ Retract(q) \/ Ask(q) \/ Admit(q) \/ Start(q) \/ Chunk(q)
    \/ Abort(q) \/ GenerationFails(q) \/ Generated(q) \/ Save(q) \/ Announce(q) \/ Stored(q)
    \/ SaveFails(q)

ViewNext ==
    \/ \E q \in Answers : Advance(q)
    \/ CancelWork("ask") \/ CancelWork("clear") \/ ForgetCommits \/ EmptySession \/ TellCleared
    \/ Dispatch
    \/ \E c \in Clients : Connect(c) \/ Break(c) \/ HandleMessage(c) \/ FlushChunks(c)

\* The dispatcher runs, a clear that has begun to empty the session ends, and the
\* clients reconnect and handle what they receive; answers, cancels and failures are
\* nobody's duty.
ViewFairness ==
    /\ WF_viewVars(Dispatch) /\ WF_viewVars(TellCleared)
    /\ \A c \in Clients : WF_viewVars(Connect(c)) /\ WF_viewVars(HandleMessage(c))

ViewSpec == ViewInit /\ [][ViewNext]_viewVars /\ ViewFairness
-----------------------------------------------------------------------------
EventKinds == {"init", "cleared", "cue", "retract", "start", "chunk", "done", "cancelled", "error"}
EventTypes == [kind : EventKinds, of : SUBSET Answers]

\* The variables keep their types.
ViewTypeOK ==
    /\ answer \in [Answers -> {"none", "cued", "retracted", "pending", "starting", "live",
                               "ready", "saving", "told", "stored", "cancelled", "failed", "orphan"}]
    /\ chunks \in [Answers -> 0..MaxChunks]
    /\ {stale, saved, excused} \subseteq SUBSET Answers
    /\ ending \in {"no", "ask", "clear", "empty", "tell"}
    /\ bus \in Seq(EventTypes) /\ Len(bus) <= BusSize
    /\ linked \subseteq Clients /\ wire \in [Clients -> Seq(EventTypes)]
    /\ \A c \in Clients : Len(wire[c]) <= WireSize
    /\ card \in [Clients -> [Answers -> Settled \union {"none", "cue", "live"}]]
    /\ buffer \in [Clients -> SUBSET Answers]
    /\ ends \in 0..MaxEnds

\* An answer that may still end with an event; "orphan" is one that a cancel took
\* while it waited, of whose end no event tells.
Unfinished(q) == answer[q] \in {"cued", "orphan"} \/ q \in Underway

Agrees(c, q) ==
    /\ card[c][q] = "done" <=> q \in saved
    /\ card[c][q] \in {"cue", "live"} => Unfinished(q)

\* A client that has received everything shows the session: as done what is saved
\* and nothing else, as streaming only what may still end.  So it is however often
\* the connection broke and the snapshot raced the events queued before it, while no
\* answer is being stored and no clear is about to be told, but for the answers
\* excused.
QuietViewsAgree ==
    \A c \in linked : bus = <<>> /\ wire[c] = <<>> /\ ~Committing /\ ending # "tell" =>
        \A q \in Answers \ excused : Agrees(c, q)

\* Well-typed, and what a client shows at rest is what the session holds.
ViewInv == ViewTypeOK /\ QuietViewsAgree

\* "Ignores late chunks after an answer reaches a terminal state": a card that has
\* ended is not reopened or changed by an event that comes late, except when the
\* whole session is shown anew, or when what was shown as done, by a snapshot or by
\* its own announcement, could not be stored after all.
FinalStays ==
    [][\A c \in Clients, q \in Answers :
          card[c][q] \in Settled /\ card'[c][q] # card[c][q] =>
              \/ wire[c] # <<>> /\ Head(wire[c]).kind \in {"init", "cleared"}
              \/ card'[c][q] = "error" /\ answer[q] = "failed"]_viewVars

\* Views converge: once answers stop changing and connections breaking, every client
\* shows what the session holds, for ever, but for the answers excused.
ViewsConverge ==
    <>[](\A c \in Clients, q \in Answers \ excused : ~Committing => Agrees(c, q))
=============================================================================

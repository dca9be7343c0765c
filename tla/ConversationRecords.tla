------------------------- MODULE ConversationRecords -------------------------
(***************************************************************************)
(* The records of one Conversation session in product.db                   *)
(* (services/product/conversations.py): the pack frozen at its start, the  *)
(* items extracted at its end or typed in, their review, the open threads  *)
(* projected from them, and the deletion of the session.                   *)
(*                                                                         *)
(* Every store call commits by itself; a request is a sequence of them,    *)
(* runs in a thread of the server's pool and keeps what it has read.  An   *)
(* item's content is its kind and where it came from; sources, owners and  *)
(* dates are present and resolved, or the request is refused at its start. *)
(* A caller of add_item names the state, the review and the item replaced. *)
(***************************************************************************)
EXTENDS Integers, FiniteSets

CONSTANTS
    Requests,    \* threads that serve requests
    OpenQuestions,   \* sentences said that read as an open question
    Decisions,   \* sentences said that read as a decision
    Given,       \* the rows that callers ask add_item for
    MaxItems,    \* bound: items ever created
    MaxOps,      \* bound: requests made and crashes
    MaxPolicy,   \* bound: changes of the session's policy
    Exposures    \* the sets of things a behaviour may be exposed to

Sentences == OpenQuestions \union Decisions
Items == 1..MaxItems
Typed == "typed"   \* the source of an item that was typed in
NotYet == -1
Kinds == {"question", "decision", "task"}
ItemStates == {"PROPOSED", "AGREED", "COMMITTED", "DONE", "SUPERSEDED", "UNKNOWN"}
Confirmed == {"USER_CONFIRMED", "USER_EDITED", "SOURCE_CONFIRMED"}
Reviews == Confirmed \union {"AI_EXTRACTED", "USER_REJECTED"}

\* What add_item accepts: only what is agreed or committed must have been confirmed.
Addable ==
    {row \in [kind : Kinds, from : {Typed}, state : ItemStates, review : Reviews, old : {0} \union Items] :
        row.state \in {"AGREED", "COMMITTED"} => row.review \in Confirmed}

\* "overlap": requests run concurrently; "die": the process may die between two
\* store calls.
ASSUME RecordsAssumption ==
    /\ Exposures \subseteq SUBSET {"overlap", "die"}
    /\ {MaxItems, MaxOps, MaxPolicy} \subseteq Nat
    /\ IsFiniteSet(OpenQuestions) /\ IsFiniteSet(Decisions)
    /\ Given \subseteq Addable

VARIABLES
    exposed,
    session,     \* conversation_session: status, policy, fingerprint of the preflight, pack_id
    pack,        \* conversation_session_pack: the policy frozen, or NotYet
    item,        \* conversation_item
    threads,     \* conversation_open_thread
    tombs,       \* conversation_provenance_tombstone: ids of items
    request,     \* of each thread: where it is and what it has read
    ops,
    died,        \* history: the process died once
    edited,      \* history: items whose title was edited
    declared,    \* history: items that a caller added as done or as superseded
    heirs,       \* history: items that superseded another
    erased       \* history: the items confirmed when the session was deleted

historyVars == <<exposed, died, edited, declared, heirs, erased>>
recordsVars == <<session, pack, item, threads, tombs, request, ops, historyVars>>

NoItem == [kind |-> "none", from |-> Typed, state |-> "UNKNOWN", review |-> "AI_EXTRACTED", old |-> 0]

\* The columns that a review updates; the state only if the action sets it.
Keep == "keep"
Update(now, review, old) == [state |-> now, review |-> review, old |-> old]

\* What a request holds: the item it is about, what it will write to it, the row it
\* has read, the sentences left to extract, the items or threads it saw, the threads
\* it will delete, the policy.
Waiting == [at |-> "idle", i |-> 0, put |-> Update(Keep, "AI_EXTRACTED", 0), row |-> NoItem,
            todo |-> {}, seen |-> {}, gone |-> {}, policy |-> 0]

RecordsInit ==
    /\ exposed \in Exposures
    /\ session = [status |-> "UPCOMING", policy |-> 0, checked |-> NotYet, packed |-> FALSE]
    /\ pack = NotYet /\ threads = {} /\ tombs = {} /\ ops = 0
    /\ item = [i \in Items |-> NoItem]
    /\ request = [r \in Requests |-> Waiting]
    /\ died = FALSE /\ edited = {} /\ declared = {} /\ heirs = {} /\ erased = {}

Known == {i \in Items : item[i].kind # "none"}
ConfirmedItems == {i \in Known : item[i].review \in Confirmed}
IdleThread(r) == request[r].at = "idle"

\* A request arrives at r, and finds the session.
Serve(r) ==
    /\ IdleThread(r) /\ ops < MaxOps /\ ops' = ops + 1
    /\ "overlap" \in exposed \/ \A other \in Requests : IdleThread(other)
    /\ session.status # "deleted"

Goes(r, what) == request' = [request EXCEPT ![r] = what]
Ends(r) == Goes(r, Waiting)
Within(r, where) == request[r].at = where /\ UNCHANGED <<ops, historyVars>>
-----------------------------------------------------------------------------
(* Preparing and starting the session.                                     *)

\* update_session: the policy may change before the start.
UpdateSession(r) ==
    /\ Serve(r) /\ session.status = "UPCOMING" /\ session.policy < MaxPolicy
    /\ Goes(r, [Waiting EXCEPT !.at = "patch", !.policy = session.policy + 1])
    /\ UNCHANGED <<session, pack, item, threads, tombs, historyVars>>

PatchSession(r) ==
    /\ Within(r, "patch")
    /\ session' = IF session.status = "deleted" THEN session
                  ELSE [session EXCEPT !.policy = request[r].policy]
    /\ Ends(r)
    /\ UNCHANGED <<pack, item, threads, tombs>>

\* preflight records the fingerprint of what will be frozen.
Preflight(r) ==
    /\ Serve(r) /\ session.status = "UPCOMING"
    /\ session' = [session EXCEPT !.checked = session.policy]
    /\ UNCHANGED <<pack, item, threads, tombs, request, historyVars>>

StartSession(r) ==
    /\ Serve(r) /\ session.status # "ENDED"
    /\ session.checked \in {NotYet, session.policy}
    /\ Goes(r, [Waiting EXCEPT !.at = "freeze"])
    /\ UNCHANGED <<session, pack, item, threads, tombs, historyVars>>

\* freeze_pack keeps the pack it finds, and notes in the session only one it made.
FreezePack(r) ==
    /\ Within(r, "freeze")
    /\ IF session.status = "deleted" THEN Ends(r) /\ UNCHANGED pack
       ELSE /\ pack' = IF pack = NotYet THEN session.policy ELSE pack
            /\ Goes(r, [request[r] EXCEPT !.at = IF pack = NotYet THEN "note" ELSE "activate"])
    /\ UNCHANGED <<session, item, threads, tombs>>

NotePack(r) ==
    /\ Within(r, "note")
    /\ session' = IF session.status = "deleted" THEN session ELSE [session EXCEPT !.packed = TRUE]
    /\ Goes(r, [request[r] EXCEPT !.at = "activate"])
    /\ UNCHANGED <<pack, item, threads, tombs>>

Activate(r) ==
    /\ Within(r, "activate")
    /\ session' = IF session.status = "deleted" THEN session ELSE [session EXCEPT !.status = "ACTIVE"]
    /\ Ends(r)
    /\ UNCHANGED <<pack, item, threads, tombs>>
-----------------------------------------------------------------------------
(* Items and their review.                                                 *)

NextItem(i) == i \in Items \ Known /\ \A j \in Items : j < i => j \in Known

AddItem(r) ==
    /\ Serve(r)
    /\ \E i \in Items, row \in Given :
          /\ NextItem(i)
          /\ item' = [item EXCEPT ![i] = row]
          /\ declared' = IF row.state \in {"DONE", "SUPERSEDED"} THEN declared \union {i} ELSE declared
          /\ Goes(r, [Waiting EXCEPT !.at = "look", !.i = i])
    /\ UNCHANGED <<session, pack, threads, tombs, exposed, died, edited, heirs, erased>>

\* What an action of review_item will write to row; {} if it is refused.
ConfirmPut(row) ==
    LET now == CASE row.state = "PROPOSED" /\ row.kind = "decision" -> "AGREED"
                 [] row.state = "PROPOSED" /\ row.kind = "task" -> "COMMITTED"
                 [] OTHER -> Keep IN
    {Update(now, "USER_CONFIRMED", 0)}

RejectPut(row) == {Update("UNKNOWN", "USER_REJECTED", 0)}
EditPut(row) == {Update(Keep, "USER_EDITED", 0)}
DonePut(row) == {put \in {Update("DONE", "USER_CONFIRMED", 0)} : row.state = "COMMITTED"}

ResolvePut(row) ==
    {put \in {Update("DONE", "USER_CONFIRMED", 0)} : row.kind = "question" /\ row.review \in Confirmed}

Supersedes(row, old) ==
    /\ row.kind = "decision" /\ row.state = "PROPOSED"
    /\ item[old].kind = "decision" /\ item[old].state = "AGREED"

ReviewItem(r) ==
    /\ Serve(r)
    /\ \E i \in Known, act \in {"CONFIRM", "EDIT", "REJECT", "DONE"} :
          /\ \E put \in CASE act = "CONFIRM" -> ConfirmPut(item[i]) [] act = "EDIT" -> EditPut(item[i])
                          [] act = "REJECT" -> RejectPut(item[i]) [] OTHER -> DonePut(item[i]) :
                Goes(r, [Waiting EXCEPT !.at = "write", !.i = i, !.put = put])
          /\ edited' = IF act = "EDIT" THEN edited \union {i} ELSE edited
    /\ UNCHANGED <<session, pack, item, threads, tombs, exposed, died, declared, heirs, erased>>

\* RESOLVE, also by way of resolve_open_thread.
ResolveItem(r) ==
    /\ Serve(r)
    /\ \E i \in Known : \E put \in ResolvePut(item[i]) :
          Goes(r, [Waiting EXCEPT !.at = "write", !.i = i, !.put = put])
    /\ UNCHANGED <<session, pack, item, threads, tombs, historyVars>>

\* The old decision is written first.
Supersede(r) ==
    /\ Serve(r)
    /\ \E i, old \in Known :
          /\ i # old /\ Supersedes(item[i], old)
          /\ Goes(r, [Waiting EXCEPT !.at = "retire", !.i = i,
                                     !.put = Update("AGREED", "USER_CONFIRMED", old)])
    /\ UNCHANGED <<session, pack, item, threads, tombs, historyVars>>

RetireOld(r) ==
    /\ Within(r, "retire")
    /\ item' = IF request[r].put.old \in Known
               THEN [item EXCEPT ![request[r].put.old].state = "SUPERSEDED"] ELSE item
    /\ Goes(r, [request[r] EXCEPT !.at = "write"])
    /\ UNCHANGED <<session, pack, threads, tombs>>

\* store.update writes the columns that the action sets: the others keep what a
\* concurrent request wrote.
Written(was, put) ==
    [was EXCEPT !.state = IF put.state = Keep THEN @ ELSE put.state, !.review = put.review,
                !.old = IF put.old = 0 THEN @ ELSE put.old]

WriteItem(r) ==
    LET q == request[r] IN
    /\ q.at = "write"
    /\ IF q.i \in Known
       THEN /\ item' = [item EXCEPT ![q.i] = Written(@, q.put)]
            /\ heirs' = IF q.put.old = 0 THEN heirs ELSE heirs \union {q.i}
            /\ Goes(r, [q EXCEPT !.at = "look"])
       ELSE Ends(r) /\ UNCHANGED <<item, heirs>>
    /\ UNCHANGED <<session, pack, threads, tombs, ops, exposed, died, edited, declared, erased>>

\* _sync_open_thread reads the item and the threads of its session ...
LookForThread(r) ==
    LET q == request[r] IN
    /\ Within(r, "look")
    /\ IF q.i \in Known /\ item[q.i].kind = "question"
       THEN Goes(r, [q EXCEPT !.at = "sync", !.row = item[q.i],
                              !.seen = {t.n : t \in {u \in threads : u.i = q.i}}])
       ELSE Ends(r)
    /\ UNCHANGED <<session, pack, item, threads, tombs>>

Unsettled(row) == row.review \in Confirmed /\ row.state \notin {"DONE", "SUPERSEDED", "UNKNOWN"}

LatestThread(ns) == CHOOSE n \in ns : \A m \in ns : m <= n
FreshThread == 1 + Cardinality({t.n : t \in threads})

\* ... and then opens, reopens or resolves the thread it found.
SyncThread(r) ==
    LET q == request[r]
        status == IF Unsettled(q.row) THEN "OPEN" ELSE "RESOLVED" IN
    /\ Within(r, "sync")
    /\ threads' =
          IF q.seen # {}
          THEN {IF t.n = LatestThread(q.seen) THEN [t EXCEPT !.status = status] ELSE t : t \in threads}
          ELSE IF Unsettled(q.row) THEN threads \union {[n |-> FreshThread, i |-> q.i, status |-> "OPEN"]}
          ELSE threads
    /\ Ends(r)
    /\ UNCHANGED <<session, pack, item, tombs>>
-----------------------------------------------------------------------------
(* Ending and deleting the session.                                        *)

Extracted == {item[i].from : i \in Known \ edited}

\* end_session; extract_transcript_candidates reads the items that are there: one
\* whose title was edited is not recognised.  The policy may forbid extraction.
EndSession(r) ==
    /\ Serve(r)
    /\ \/ session.status = "ENDED" /\ UNCHANGED request
       \/ /\ session.status # "ENDED"
          /\ \E todo \in {{}, IF pack = NotYet THEN {} ELSE Sentences \ Extracted} :
                Goes(r, [Waiting EXCEPT !.at = "extract", !.todo = todo])
    /\ UNCHANGED <<session, pack, item, threads, tombs, historyVars>>

Candidate(s) ==
    [kind |-> IF s \in OpenQuestions THEN "question" ELSE "decision", from |-> s,
     state |-> "PROPOSED", review |-> "AI_EXTRACTED", old |-> 0]

ExtractItem(r) ==
    LET q == request[r] IN
    /\ Within(r, "extract") /\ session.status # "deleted"
    /\ \E s \in q.todo, i \in Items :
          /\ NextItem(i)
          /\ item' = [item EXCEPT ![i] = Candidate(s)]
          /\ Goes(r, [q EXCEPT !.todo = @ \ {s}])
    /\ UNCHANGED <<session, pack, threads, tombs>>

SetEnded(r) ==
    /\ Within(r, "extract") /\ (request[r].todo = {} \/ session.status = "deleted")
    /\ session' = IF session.status = "deleted" THEN session ELSE [session EXCEPT !.status = "ENDED"]
    /\ Ends(r)
    /\ UNCHANGED <<pack, item, threads, tombs>>

\* The numbers of the threads that are projected from items is.
ThreadsOf(is) == {t.n : t \in {u \in threads : u.i \in is}}

\* Mutant: items that were edited do not count as confirmed.
DeleteForgetsEdited(r) ==
    LET seen == {i \in ConfirmedItems : item[i].review # "USER_EDITED"} IN
    /\ Serve(r) /\ session.status # "ACTIVE"
    /\ Goes(r, [Waiting EXCEPT !.at = "erase", !.seen = seen, !.gone = ThreadsOf(seen)])
    /\ UNCHANGED <<session, pack, item, threads, tombs, historyVars>>

\* delete_session reads the confirmed items and their threads; with such items the
\* caller must accept tombstones.
DeleteSession(r) ==
    /\ Serve(r) /\ session.status # "ACTIVE"
    /\ Goes(r, [Waiting EXCEPT !.at = "erase", !.seen = ConfirmedItems, !.gone = ThreadsOf(ConfirmedItems)])
    /\ UNCHANGED <<session, pack, item, threads, tombs, historyVars>>

\* One transaction: tombstones, projected threads, session; its items and its pack
\* go with it.
EraseSession(r) ==
    LET q == request[r] IN
    /\ q.at = "erase" /\ Ends(r)
    /\ tombs' = tombs \union q.seen
    /\ threads' = {t \in threads : t.n \notin q.gone}
    /\ erased' = IF session.status = "deleted" THEN erased ELSE ConfirmedItems
    /\ session' = [session EXCEPT !.status = "deleted"]
    /\ item' = [i \in Items |-> NoItem] /\ pack' = NotYet /\ declared' = {} /\ heirs' = {}
    /\ UNCHANGED <<ops, exposed, died, edited>>

\* The process dies; what was committed stays.
Die ==
    /\ "die" \in exposed /\ ops < MaxOps /\ ops' = ops + 1
    /\ \E r \in Requests : ~IdleThread(r)
    /\ request' = [r \in Requests |-> Waiting] /\ died' = TRUE
    /\ UNCHANGED <<session, pack, item, threads, tombs, exposed, edited, declared, heirs, erased>>
-----------------------------------------------------------------------------
RecordsNext ==
    \/ \E r \in Requests :
          \/ UpdateSession(r) \/ PatchSession(r) \/ Preflight(r)
          \/ StartSession(r) \/ FreezePack(r) \/ NotePack(r) \/ Activate(r)
          \/ AddItem(r) \/ ReviewItem(r) \/ ResolveItem(r) \/ Supersede(r) \/ RetireOld(r)
          \/ WriteItem(r) \/ LookForThread(r) \/ SyncThread(r)
          \/ EndSession(r) \/ ExtractItem(r) \/ SetEnded(r)
          \/ DeleteSession(r) \/ EraseSession(r)
    \/ Die

RecordsSpec == RecordsInit /\ [][RecordsNext]_recordsVars
-----------------------------------------------------------------------------
Rows ==
    [kind : Kinds \union {"none"}, from : Sentences \union {Typed}, state : ItemStates,
     review : Reviews, old : Items \union {0}]

Updates == [state : ItemStates \union {Keep}, review : Reviews, old : Items \union {0}]

\* The variables keep their types.
RecordsTypeOK ==
    /\ exposed \in Exposures /\ ops \in 0..MaxOps
    /\ session.status \in {"UPCOMING", "ACTIVE", "ENDED", "deleted"}
    /\ session.policy \in 0..MaxPolicy /\ session.checked \in {NotYet} \union 0..MaxPolicy
    /\ session.packed \in BOOLEAN /\ pack \in {NotYet} \union 0..MaxPolicy
    /\ item \in [Items -> Rows]
    /\ threads \subseteq [n : Nat, i : Items, status : {"OPEN", "RESOLVED"}]
    /\ {tombs, edited, declared, heirs, erased} \subseteq SUBSET Items
    /\ \A r \in Requests : /\ request[r].row \in Rows /\ request[r].put \in Updates
                             /\ request[r].todo \subseteq Sentences

OneAtATime == "overlap" \notin exposed
NoneServed == \A r \in Requests : IdleThread(r)

\* "The Conversation Item remains the truth object; the thread is only a
\* projection": at rest, exactly the confirmed questions that are not settled have
\* an open thread, and no question has two, even if the process died, when a later
\* review mends the projection.
ThreadsFollowItems ==
    OneAtATime =>
        /\ \A t, u \in threads : t.i = u.i => t = u
        /\ NoneServed /\ ~died => \A i \in Items :
              (\E t \in threads : t.i = i /\ t.status = "OPEN")
                  <=> item[i].kind = "question" /\ Unsettled(item[i])

\* "Never upgrades truth state": what was neither confirmed nor edited is never agreed
\* or committed, nor done unless a caller added it so, in whatever order reviews
\* overlap.
AgreedIsConfirmed ==
    \A i \in Known :
        \/ item[i].review \in Confirmed
        \/ item[i].state \notin {"AGREED", "COMMITTED", "DONE"}
        \/ item[i].state = "DONE" /\ i \in declared

\* A decision was superseded by one other at most, and by one if it says so, unless a
\* caller added it so or the process died between the two writes.
OneSuccessor ==
    OneAtATime => \A old \in Known :
        LET successors == {i \in Known \intersect heirs : item[i].old = old} IN
        /\ Cardinality(successors) <= 1
        /\ NoneServed /\ ~died /\ item[old].state = "SUPERSEDED" /\ old \notin declared => successors # {}

\* "It is idempotent": no sentence becomes two candidates, however often a session
\* is ended, unless the process died while it was ended and a title was edited.
ExtractedOnce ==
    OneAtATime /\ ~(died /\ edited # {}) =>
        \A i, j \in Known : item[i].from = item[j].from /\ i # j => item[i].from = Typed

\* The deletion of a session leaves a tombstone of every item that was confirmed.
ConfirmedLeaveTombstones == OneAtATime => tombs = erased

\* An active session is under the policy that its pack froze, and knows its pack,
\* unless the process died between the pack and the start.
PackIsPolicy == OneAtATime /\ ~died /\ session.status = "ACTIVE" => pack = session.policy /\ session.packed

\* The items tell the truth about what the user confirmed.
TruthInv == AgreedIsConfirmed /\ OneSuccessor /\ ExtractedOnce

\* The items are true, and what is derived from them and the session follows them.
RecordsInv == RecordsTypeOK /\ TruthInv /\ ThreadsFollowItems /\ ConfirmedLeaveTombstones /\ PackIsPolicy
=============================================================================

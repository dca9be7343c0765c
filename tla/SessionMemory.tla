--------------------------- MODULE SessionMemory ---------------------------
(***************************************************************************)
(* What a committed answer does to the sessions                            *)
(* (src/backend/core/session.py, services/memory.py, _commit in            *)
(* api/assist/answer_worker.py).                                           *)
(*                                                                         *)
(* A commit appends a user and an assistant message to the history of the  *)
(* active session and a pair to its qa_pairs, all under conversation_lock; *)
(* the lengths it needs to undo that were read before, the undo comes      *)
(* later, each in a critical section of its own.  A history above the      *)
(* trigger starts a compactor thread: it summarises a snapshot of the      *)
(* oldest messages with an LLM, no lock held, then cuts as many messages   *)
(* off the history and replaces the summary.  Meanwhile answers are        *)
(* committed, the session is cleared and another one becomes active.       *)
(* Commits come one at a time in submission order (module CommitQueue).    *)
(***************************************************************************)
EXTENDS Integers, Sequences, FiniteSets

CONSTANTS
    MaxAsks,       \* bound: questions asked
    MaxSessions,   \* bound: sessions created, the default one included
    MaxHistory,    \* Session.MAX_HISTORY
    Trigger,       \* Session.SUMMARY_TRIGGER
    Keep,          \* Session.SUMMARY_KEEP_RECENT
    QaCap          \* Session.MAX_QA_PAIRS

ASSUME SizeAssumption ==
    /\ MaxAsks \in Nat
    /\ MaxSessions \in Nat \ {0}
    /\ Keep \in Nat \ {0, 1}
    /\ Trigger \in Nat /\ Keep <= Trigger
    /\ MaxHistory \in Nat /\ Trigger < MaxHistory
    /\ QaCap \in Nat \ {0}

VARIABLES
    activeSession, \* _active_session_id
    created,       \* sessions 0 .. created - 1 exist
    asked,         \* questions 0 .. asked - 1 were asked
    askedIn,       \* askedIn[q]: the session active when q was asked
    outstanding,   \* questions whose answer may still be committed
    history,       \* history[x]: message ids of conversation_history
    qa,            \* qa[x]: questions behind qa_pairs
    summary,       \* summary[x]: ids of the messages system_summary covers
    compacting,    \* compacting[x]: _compaction_running
    compactors,    \* compactor threads in flight: session, snapshot, prior summary
    commit,        \* the _commit closure being run
    cancel,        \* progress of cancel_answer_work(reset_session_data=True)
    disturbed      \* history: sessions cleared while a compactor of theirs ran

dataVars == <<history, qa, summary, compacting, compactors>>
mvars == <<activeSession, created, asked, askedIn, outstanding, dataVars, commit, cancel,
           disturbed>>

Sessions == 0 .. MaxSessions - 1
Questions == 0 .. MaxAsks - 1

\* The messages of one turn; ids grow with the order of commits.
UserMsg(q) == 2 * q
AssistantMsg(q) == 2 * q + 1

Elems(s) == {s[i] : i \in 1 .. Len(s)}

NoCommit == [pc |-> "idle", q |-> 0, sess |-> 0, preHist |-> 0, preQa |-> 0]

MemoryInit ==
    /\ activeSession = 0
    /\ created = 1
    /\ asked = 0
    /\ askedIn = [q \in Questions |-> 0]
    /\ outstanding = {}
    /\ history = [x \in Sessions |-> <<>>]
    /\ qa = [x \in Sessions |-> <<>>]
    /\ summary = [x \in Sessions |-> {}]
    /\ compacting = [x \in Sessions |-> FALSE]
    /\ compactors = {}
    /\ commit = NoCommit
    /\ cancel = "idle"
    /\ disturbed = {}

-----------------------------------------------------------------------------
(* Sessions and questions.                                                 *)

\* A question is accepted; its answer will be worked on elsewhere.
AskQuestion ==
    /\ asked < MaxAsks
    /\ asked' = asked + 1
    /\ askedIn' = [askedIn EXCEPT ![asked] = activeSession]
    /\ outstanding' = outstanding \union {asked}
    /\ UNCHANGED <<activeSession, created, dataVars, commit, cancel, disturbed>>

\* create_session: a new, empty session becomes the active one.
CreateSession ==
    /\ created < MaxSessions
    /\ created' = created + 1
    /\ activeSession' = created
    /\ UNCHANGED <<asked, askedIn, outstanding, dataVars, commit, cancel, disturbed>>

ActivateSession(x) ==
    /\ x < created
    /\ x # activeSession
    /\ activeSession' = x
    /\ UNCHANGED <<created, asked, askedIn, outstanding, dataVars, commit, cancel,
                   disturbed>>

-----------------------------------------------------------------------------
(* _commit.                                                                *)

\* Mutant: answers are committed as they arrive.
CommitBeginAny(q) ==
    /\ commit.pc = "idle"
    /\ q \in outstanding
    /\ outstanding' = outstanding \ {q}
    /\ commit' = [pc |-> "write", q |-> q, sess |-> activeSession,
                  preHist |-> Len(history[activeSession]), preQa |-> Len(qa[activeSession])]
    /\ UNCHANGED <<activeSession, created, asked, askedIn, dataVars, cancel, disturbed>>

\* The closure gets the active session and reads its lengths, with no
\* conversation_lock.  Questions the queue passed over were skipped.
CommitBegin(q) ==
    /\ commit.pc = "idle"
    /\ q \in outstanding
    /\ outstanding' = {p \in outstanding : p > q}
    /\ commit' = [pc |-> "write", q |-> q, sess |-> activeSession,
                  preHist |-> Len(history[activeSession]), preQa |-> Len(qa[activeSession])]
    /\ UNCHANGED <<activeSession, created, asked, askedIn, dataVars, cancel, disturbed>>

KeepLast(s, n) == IF Len(s) > n THEN SubSeq(s, Len(s) - n + 1, Len(s)) ELSE s

\* add_*_message: append, then _trim_history.
AddMessage(h, m) == KeepLast(Append(h, m), MaxHistory)

\* schedule_compaction: the thread that would be started on history h.
Compactor(x, h) ==
    [sess |-> x, snap |-> SubSeq(h, 1, Len(h) - Keep), prior |-> summary[x]]

\* Mutant: _compaction_running is not looked at.
ScheduledAlways(x, h1, h2) ==
    IF Len(h1) > Trigger THEN {Compactor(x, h1)}
    ELSE IF Len(h2) > Trigger THEN {Compactor(x, h2)}
    ELSE {}

\* _maybe_compact after the first and after the second message: a thread for
\* the first history above the trigger, none while another one is marked running.
Scheduled(x, h1, h2) ==
    IF compacting[x] THEN {}
    ELSE IF Len(h1) > Trigger THEN {Compactor(x, h1)}
    ELSE IF Len(h2) > Trigger THEN {Compactor(x, h2)}
    ELSE {}

CommitWrite ==
    /\ commit.pc = "write"
    /\ LET x == commit.sess
           h1 == AddMessage(history[x], UserMsg(commit.q))
           h2 == AddMessage(h1, AssistantMsg(commit.q))
           new == Scheduled(x, h1, h2)
       IN  /\ history' = [history EXCEPT ![x] = h2]
           /\ qa' = [qa EXCEPT ![x] = KeepLast(Append(@, commit.q), QaCap)]
           /\ compactors' = compactors \union new
           /\ compacting' = [compacting EXCEPT ![x] = @ \/ new # {}]
    /\ commit' = [commit EXCEPT !.pc = "wrote"]
    /\ UNCHANGED <<activeSession, created, asked, askedIn, outstanding, summary, cancel,
                   disturbed>>

CommitDone ==
    /\ commit.pc = "wrote"
    /\ commit' = NoCommit
    /\ UNCHANGED <<activeSession, created, asked, askedIn, outstanding, dataVars, cancel,
                   disturbed>>

\* Mutant: one message too many is deleted.
CommitFailsWide ==
    /\ commit.pc = "wrote"
    /\ LET x == commit.sess
       IN  /\ qa' = [qa EXCEPT ![x] =
                        IF Len(@) > commit.preQa THEN SubSeq(@, 1, Len(@) - 1) ELSE @]
           /\ history' = [history EXCEPT ![x] =
                        IF Len(@) > commit.preHist THEN SubSeq(@, 1, commit.preHist - 1)
                        ELSE @]
    /\ commit' = NoCommit
    /\ UNCHANGED <<activeSession, created, asked, askedIn, outstanding, summary, compacting,
                   compactors, cancel, disturbed>>

\* Something after the write raises: what grew beyond the lengths read before is
\* taken back, and the user is told that saving the answer failed.
CommitFails ==
    /\ commit.pc = "wrote"
    /\ LET x == commit.sess
       IN  /\ qa' = [qa EXCEPT ![x] =
                        IF Len(@) > commit.preQa THEN SubSeq(@, 1, Len(@) - 1) ELSE @]
           /\ history' = [history EXCEPT ![x] =
                        IF Len(@) > commit.preHist THEN SubSeq(@, 1, commit.preHist)
                        ELSE @]
    /\ commit' = NoCommit
    /\ UNCHANGED <<activeSession, created, asked, askedIn, outstanding, summary, compacting,
                   compactors, cancel, disturbed>>

-----------------------------------------------------------------------------
(* The compactor thread, and cancel_answer_work.                           *)

\* Back under conversation_lock: cut as many messages as were summarised if the
\* history has that many, replace the summary, clear the flag.
WriteBack(c, memo) ==
    /\ c \in compactors
    /\ compactors' = compactors \ {c}
    /\ history' = [history EXCEPT ![c.sess] =
                     IF Len(@) >= Len(c.snap) THEN SubSeq(@, Len(c.snap) + 1, Len(@))
                     ELSE @]
    /\ summary' = [summary EXCEPT ![c.sess] = memo]
    /\ compacting' = [compacting EXCEPT ![c.sess] = FALSE]
    /\ UNCHANGED <<activeSession, created, asked, askedIn, outstanding, qa, commit, cancel,
                   disturbed>>

CompactionDone(c) == WriteBack(c, c.prior \union Elems(c.snap))

\* Mutant: a failed summary is written back empty.
CompactionFailsEmpty(c) == WriteBack(c, {})

\* The LLM call raises or returns nothing: the prior summary is written back.
CompactionFails(c) == WriteBack(c, c.prior)

\* The version bump makes every answer still outstanding stale.
CancelBegin ==
    /\ cancel = "idle"
    /\ outstanding' = {}
    /\ cancel' = "commit"
    /\ UNCHANGED <<activeSession, created, asked, askedIn, dataVars, commit, disturbed>>

\* _commit_lock: a closure past its version check is waited for.
CancelCommit ==
    /\ cancel = "commit"
    /\ commit.pc = "idle"
    /\ cancel' = "data"
    /\ UNCHANGED <<activeSession, created, asked, askedIn, outstanding, dataVars, commit,
                   disturbed>>

\* reset_session: Session.clear on whatever session is active by now.
ClearSession ==
    /\ cancel = "data"
    /\ cancel' = "idle"
    /\ history' = [history EXCEPT ![activeSession] = <<>>]
    /\ qa' = [qa EXCEPT ![activeSession] = <<>>]
    /\ summary' = [summary EXCEPT ![activeSession] = {}]
    /\ compacting' = [compacting EXCEPT ![activeSession] = FALSE]
    /\ disturbed' = IF \E c \in compactors : c.sess = activeSession
                    THEN disturbed \union {activeSession}
                    ELSE disturbed
    /\ UNCHANGED <<activeSession, created, asked, askedIn, outstanding, compactors, commit>>

-----------------------------------------------------------------------------
MemoryNext ==
    \/ AskQuestion
    \/ CreateSession
    \/ \E x \in Sessions : ActivateSession(x)
    \/ \E q \in Questions : CommitBegin(q)
    \/ CommitWrite
    \/ CommitDone
    \/ CommitFails
    \/ \E c \in compactors : CompactionDone(c) \/ CompactionFails(c)
    \/ CancelBegin
    \/ CancelCommit
    \/ ClearSession

MemorySpec == MemoryInit /\ [][MemoryNext]_mvars

-----------------------------------------------------------------------------
CompactorsOf(x) == {c \in compactors : c.sess = x}

\* Every variable keeps its type, and no list outgrows its cap.
MemoryTypeOK ==
    /\ activeSession \in 0 .. created - 1
    /\ created \in 1 .. MaxSessions
    /\ asked \in 0 .. MaxAsks
    /\ askedIn \in [Questions -> Sessions]
    /\ outstanding \subseteq Questions
    /\ \A x \in Sessions :
          /\ history[x] \in Seq(Nat) /\ Len(history[x]) <= MaxHistory
          /\ qa[x] \in Seq(Questions) /\ Len(qa[x]) <= QaCap
          /\ summary[x] \subseteq Nat
    /\ compacting \in [Sessions -> BOOLEAN]
    /\ \A c \in compactors : c.sess \in Sessions /\ c.snap \in Seq(Nat) /\ c.snap # <<>>
    /\ commit \in [pc : {"idle", "write", "wrote"}, q : Nat, sess : Sessions,
                   preHist : Nat, preQa : Nat]
    /\ cancel \in {"idle", "commit", "data"}
    /\ disturbed \subseteq Sessions

\* The history a model is prompted with is in conversation order and has no
\* message twice, whatever cuts, trims, rollbacks and clears did to it.
HistoryInOrder ==
    \A x \in Sessions : \A i, j \in 1 .. Len(history[x]) :
        i < j => history[x][i] < history[x][j]

\* _compaction_running tells the truth: at most one compactor works for a
\* session, and the flag is up exactly while it does.  Only a clear that comes
\* while a compactor runs breaks the link.
OneCompactor ==
    \A x \in Sessions \ disturbed :
        /\ Cardinality(CompactorsOf(x)) <= 1
        /\ compacting[x] <=> CompactorsOf(x) # {}

\* No message is both summarised and still in the history: the model is not told
\* the same turn twice.
NotTwice ==
    \A x \in Sessions \ disturbed : summary[x] \intersect Elems(history[x]) = {}

\* What one prompt of a session shows is consistent: the history in order, the memo
\* disjoint from it, and one compactor at most to change both.
MemoryInv == MemoryTypeOK /\ HistoryInOrder /\ OneCompactor /\ NotTwice

\* The rolling memo forgets nothing it covered until the session is cleared: no
\* write-back is overwritten by one that started from an older summary.
MemoGrows ==
    [][\A x \in Sessions \ disturbed :
         summary[x] \subseteq summary'[x] \/ (ClearSession /\ x = activeSession)]_mvars

\* Undoing a failed commit takes nothing that belongs to another question, even
\* though the lengths it relies on are read before the lock and the history may
\* have been cut or cleared since.
RollbackOnlyOwn ==
    [][CommitFails =>
         /\ Elems(qa[commit.sess]) \ Elems(qa'[commit.sess]) \subseteq {commit.q}
         /\ Elems(history[commit.sess]) \ Elems(history'[commit.sess])
               \subseteq {UserMsg(commit.q), AssistantMsg(commit.q)}]_mvars

\* The questions that may still enter session x.
EligibleIn(x) ==
    outstanding \union
        {q \in {commit.q} : commit.pc = "write" /\ commit.sess = x}

OrderedIn(x) == INSTANCE OrderedAnswers WITH
    Limit <- MaxAsks, Cap <- QaCap,
    submitted <- asked, eligible <- EligibleIn(x), answers <- qa[x]

\* Each session by itself is a legal history of OrderedAnswers, however sessions
\* are switched while answers are on their way.
EverySessionOrdered ==
    /\ \A x \in Sessions : OrderedIn(x)!Init
    /\ [][\A x \in Sessions : [OrderedIn(x)!Next]_(OrderedIn(x)!vars)]_mvars

\* "Each session's questions and answers are its own" (session.py:402): an answer is
\* stored in the session that was active when its question was asked.  The code
\* does not keep this.
AnswersWhereAsked ==
    \A x \in Sessions : \A i \in 1 .. Len(qa[x]) : askedIn[qa[x][i]] = x
=============================================================================

------------------------- MODULE ConnectorExecution -------------------------
(***************************************************************************)
(* External executions of one approved draft                               *)
(* (src/backend/services/product/conversation_integrations.py).            *)
(*                                                                         *)
(* An execution row is the audit of one write to an external provider.     *)
(* execute_request holds _EXECUTION_LOCK from reading the row to storing   *)
(* the outcome, and so do recovery, reconciliation, disconnect and revoke; *)
(* requests, verification and synchronisation of a connection, reviews and *)
(* deletions of the draft do not.  The process may stop between any two    *)
(* writes, and any write to the database may fail.                         *)
(***************************************************************************)
EXTENDS Naturals, FiniteSets

CONSTANTS
    Threads,       \* threads that run request, verify or sync
    Connections,
    MaxReviews,    \* bound: reviews of the draft
    MaxCrashes     \* bound: stops of the process

ASSUME ConnectorBounds ==
    /\ MaxReviews \in Nat
    /\ MaxCrashes \in Nat

VARIABLES
    draft,         \* the DraftAction: its status, and its updated_at as a counter
    conn,          \* conn[c]: status of the connection
    cred,          \* cred[c]: whether a credential_ref is stored
    exec,          \* exec[k]: the row with idempotency key k
    active,        \* _ACTIVE_EXECUTIONS
    call,          \* the holder of _EXECUTION_LOCK inside execute_request
    task,          \* task[t]: request, verify or sync in progress
    applied,       \* the provider: how often it carried out k
    crashes,
    withdrawn,     \* history: c was disconnected or revoked, not verified since
    overtaken      \* history: at that moment c was being verified or synced

rowVars == <<exec, active, call, applied>>
connVars == <<conn, cred, withdrawn, overtaken>>
vars == <<draft, connVars, rowVars, task, crashes>>

\* The idempotency key: draft version and connection (capability, operation and
\* target follow from the draft here).
Keys == [ver : 0 .. MaxReviews, conn : Connections]

NoRow == [status |-> "none", safe |-> FALSE]
Row(status) == [status |-> status, safe |-> FALSE]
NoKey == [ver |-> 0, conn |-> ""]

\* The envelope an adapter returns: ok is none for an exception and for a
\* result without an explicit boolean.
Answers == [ok : {"true", "false", "none"}, safe : BOOLEAN]
Silence == [ok |-> "none", safe |-> FALSE]

\* Nobody is inside execute_request.
NoCall == [pc |-> "free", key |-> NoKey, answer |-> Silence]

NoTask == [pc |-> "idle", conn |-> "", ver |-> 0, usable |-> FALSE]

Init ==
    /\ draft = [status |-> "DRAFT", ver |-> 0]
    /\ conn = [c \in Connections |-> "DISCONNECTED"]
    /\ cred = [c \in Connections |-> TRUE]
    /\ exec = [k \in Keys |-> NoRow]
    /\ active = {}
    /\ call = NoCall
    /\ task = [t \in Threads |-> NoTask]
    /\ applied = [k \in Keys |-> 0]
    /\ crashes = 0
    /\ withdrawn = [c \in Connections |-> FALSE]
    /\ overtaken = [c \in Connections |-> FALSE]

LockFree == call.pc = "free"
Exists(k) == exec[k].status # "none"
Idle(t) == task[t].pc = "idle"

\* _connection_usable, the health check included: it needs the credential.
MayUse(c) == conn[c] = "CONNECTED" /\ cred[c]

\* store.update of a row that is gone changes nothing.
Update(k, row) ==
    exec' = IF Exists(k) THEN [exec EXCEPT ![k] = row] ELSE exec

-----------------------------------------------------------------------------
(* The draft.                                                              *)

\* review_draft_action: approve, dismiss or reset, from any status.
ReviewDraftAction ==
    /\ draft.status # "DELETED"
    /\ draft.ver < MaxReviews
    /\ \E status \in {"APPROVED", "DISMISSED", "DRAFT"} :
          draft' = [status |-> status, ver |-> draft.ver + 1]
    /\ UNCHANGED <<connVars, rowVars, task, crashes>>

\* delete_session: the draft and its execution rows go by ON DELETE CASCADE.
DeleteDraft ==
    /\ draft.status # "DELETED"
    /\ draft' = [draft EXCEPT !.status = "DELETED"]
    /\ exec' = [k \in Keys |-> NoRow]
    /\ UNCHANGED <<connVars, active, call, applied, task, crashes>>

-----------------------------------------------------------------------------
(* request_execution: no lock.                                             *)

\* Read the draft and the connection; the health check may fail.
RequestBegin(t, c) ==
    /\ Idle(t)
    /\ draft.status = "APPROVED"
    /\ \E usable \in BOOLEAN :
          /\ usable => MayUse(c)
          /\ task' = [task EXCEPT ![t] = [pc |-> "request", conn |-> c,
                                          ver |-> draft.ver, usable |-> usable]]
    /\ UNCHANGED <<draft, connVars, rowVars, crashes>>

\* Insert unless the key is known; the foreign key refuses a deleted draft.
RequestEnd(t) ==
    /\ task[t].pc = "request"
    /\ LET k == [ver |-> task[t].ver, conn |-> task[t].conn]
       IN  exec' = IF draft.status = "DELETED" \/ Exists(k) THEN exec
                   ELSE [exec EXCEPT ![k] = Row(IF task[t].usable THEN "PENDING"
                                                ELSE "BLOCKED")]
    /\ task' = [task EXCEPT ![t] = NoTask]
    /\ UNCHANGED <<draft, connVars, active, call, applied, crashes>>

-----------------------------------------------------------------------------
(* execute_request.                                                        *)

Orphan(k) == exec[k].status = "EXECUTING" /\ k \notin active

\* Never tried, or failed in a way that may be tried again.
Runnable(k) ==
    \/ exec[k].status = "PENDING"
    \/ exec[k].status = "FAILED" /\ exec[k].safe

\* An interrupted execution is only marked.
ExecuteOrphan(k) ==
    /\ LockFree
    /\ Orphan(k)
    /\ exec' = [exec EXCEPT ![k].status = "UNKNOWN_OUTCOME"]
    /\ UNCHANGED <<draft, connVars, active, call, applied, task, crashes>>

\* The draft is not approved, or the connection or its health check says no
\* (a health check may fail at any time).
ExecuteBlocked(k) ==
    /\ LockFree
    /\ Runnable(k)
    /\ exec' = [exec EXCEPT ![k].status = "BLOCKED"]
    /\ UNCHANGED <<draft, connVars, active, call, applied, task, crashes>>

\* Mutant: a failure is tried again whatever the provider said.
ExecuteCheckedAny(k) ==
    /\ LockFree
    /\ exec[k].status \in {"PENDING", "FAILED"}
    /\ draft.status = "APPROVED"
    /\ MayUse(k.conn)
    /\ call' = [pc |-> "checked", key |-> k, answer |-> Silence]
    /\ UNCHANGED <<draft, connVars, exec, active, applied, task, crashes>>

\* Row, draft, connection and health all agree; the lock is kept.
ExecuteChecked(k) ==
    /\ LockFree
    /\ Runnable(k)
    /\ draft.status = "APPROVED"
    /\ MayUse(k.conn)
    /\ call' = [pc |-> "checked", key |-> k, answer |-> Silence]
    /\ UNCHANGED <<draft, connVars, exec, active, applied, task, crashes>>

\* _ACTIVE_EXECUTIONS.add and the write of EXECUTING, which keeps the response.
Claim ==
    /\ call.pc = "checked"
    /\ active' = active \union {call.key}
    /\ Update(call.key, [exec[call.key] EXCEPT !.status = "EXECUTING"])
    /\ call' = [call EXCEPT !.pc = "calling"]
    /\ UNCHANGED <<draft, connVars, applied, task, crashes>>

\* That write fails before the try block: the key stays in _ACTIVE_EXECUTIONS.
ClaimFails ==
    /\ call.pc = "checked"
    /\ active' = active \union {call.key}
    /\ call' = NoCall
    /\ UNCHANGED <<draft, connVars, exec, applied, task, crashes>>

\* adapter.execute, whose envelope is honest: ok = true only if carried out,
\* retry_safe only if not.  Anything else says nothing.
AdapterExecute ==
    /\ call.pc = "calling"
    /\ \E did \in BOOLEAN, a \in Answers :
          /\ a.ok = "true" => did
          /\ a.ok = "false" /\ a.safe => ~did
          /\ applied' = IF did THEN [applied EXCEPT ![call.key] = @ + 1] ELSE applied
          /\ call' = [pc |-> "answered", key |-> call.key, answer |-> a]
    /\ UNCHANGED <<draft, connVars, exec, active, task, crashes>>

\* Mutant: an exception counts as a failure.
OutcomeOf(a) ==
    [status |-> IF a.ok = "true" THEN "SUCCEEDED" ELSE "FAILED",
     safe |-> a.safe]

\* The row an answer leads to; safe is its response.retry_safe.
Outcome(a) ==
    [status |-> CASE a.ok = "true" -> "SUCCEEDED"
                  [] a.ok = "false" -> "FAILED"
                  [] a.ok = "none" -> "UNKNOWN_OUTCOME",
     safe |-> a.safe]

Persist ==
    /\ call.pc = "answered"
    /\ Update(call.key, Outcome(call.answer))
    /\ active' = active \ {call.key}
    /\ call' = NoCall
    /\ UNCHANGED <<draft, connVars, applied, task, crashes>>

\* Mutant: no finally.
PersistFailsActive ==
    /\ call.pc = "answered"
    /\ call' = NoCall
    /\ UNCHANGED <<draft, connVars, exec, active, applied, task, crashes>>

\* The write of the outcome fails; finally discards the key, the row stays.
PersistFails ==
    /\ call.pc = "answered"
    /\ active' = active \ {call.key}
    /\ call' = NoCall
    /\ UNCHANGED <<draft, connVars, exec, applied, task, crashes>>

-----------------------------------------------------------------------------
(* Recovery.                                                               *)

\* Mutant: what was interrupted is offered again.
RecoverPending ==
    /\ LockFree
    /\ \E k \in Keys : Orphan(k)
    /\ exec' = [k \in Keys |-> IF Orphan(k) THEN Row("PENDING") ELSE exec[k]]
    /\ UNCHANGED <<draft, connVars, active, call, applied, task, crashes>>

\* _recover_orphaned_executions, run by list_executions and diagnostics.
RecoverOrphanedExecutions ==
    /\ LockFree
    /\ \E k \in Keys : Orphan(k)
    /\ exec' = [k \in Keys |-> IF Orphan(k)
                               THEN [exec[k] EXCEPT !.status = "UNKNOWN_OUTCOME"]
                               ELSE exec[k]]
    /\ UNCHANGED <<draft, connVars, active, call, applied, task, crashes>>

\* reconcile_unknown_outcome: the user looked at the provider and reports what
\* is there.
ReconcileUnknownOutcome(k) ==
    /\ LockFree
    /\ exec[k].status = "UNKNOWN_OUTCOME"
    /\ exec' = [exec EXCEPT ![k] = IF applied[k] > 0
                                   THEN [@ EXCEPT !.status = "SUCCEEDED"]
                                   ELSE [status |-> "FAILED", safe |-> TRUE]]
    /\ UNCHANGED <<draft, connVars, active, call, applied, task, crashes>>

\* The process stops and is started again: only the database is left.
Crash ==
    /\ crashes < MaxCrashes
    /\ crashes' = crashes + 1
    /\ active' = {}
    /\ call' = NoCall
    /\ task' = [t \in Threads |-> NoTask]
    /\ UNCHANGED <<draft, connVars, exec, applied>>

-----------------------------------------------------------------------------
(* Connections.                                                            *)

Visit(t, c, pc) ==
    /\ Idle(t)
    /\ task' = [task EXCEPT ![t] = [pc |-> pc, conn |-> c, ver |-> 0, usable |-> FALSE]]

\* verify_and_connect reads the row and asks the provider, without a lock ...
VerifyBegin(t, c) ==
    /\ cred[c]
    /\ Visit(t, c, "verify")
    /\ withdrawn' = [withdrawn EXCEPT ![c] = FALSE]
    /\ overtaken' = [overtaken EXCEPT ![c] = FALSE]
    /\ UNCHANGED <<draft, conn, cred, rowVars, crashes>>

\* ... and writes what it heard over whatever the row says by then.
VerifyEnd(t) ==
    /\ task[t].pc = "verify"
    /\ \E status \in {"CONNECTED", "ERROR"} :
          conn' = [conn EXCEPT ![task[t].conn] = status]
    /\ task' = [task EXCEPT ![t] = NoTask]
    /\ UNCHANGED <<draft, cred, withdrawn, overtaken, rowVars, crashes>>

\* sync_connection reads a connected row ...
SyncBegin(t, c) ==
    /\ conn[c] = "CONNECTED"
    /\ Visit(t, c, "sync")
    /\ UNCHANGED <<draft, connVars, rowVars, crashes>>

\* ... and writes ERROR, the status it read (a failure that is not fatal to the
\* connection), or only cursors.
SyncEnd(t) ==
    /\ task[t].pc = "sync"
    /\ \E status \in {"CONNECTED", "ERROR", conn[task[t].conn]} :
          conn' = [conn EXCEPT ![task[t].conn] = status]
    /\ task' = [task EXCEPT ![t] = NoTask]
    /\ UNCHANGED <<draft, cred, withdrawn, overtaken, rowVars, crashes>>

Visited(c) == \E t \in Threads : task[t].pc \in {"verify", "sync"} /\ task[t].conn = c

\* What disconnect and revoke share.
Withdraw(c) ==
    /\ withdrawn' = [withdrawn EXCEPT ![c] = TRUE]
    /\ overtaken' = [overtaken EXCEPT ![c] = Visited(c)]
    /\ UNCHANGED <<draft, rowVars, task, crashes>>

\* Mutant: without _EXECUTION_LOCK.
DisconnectUnlocked(c) ==
    /\ conn' = [conn EXCEPT ![c] = "DISCONNECTED"]
    /\ Withdraw(c)
    /\ UNCHANGED cred

Disconnect(c) ==
    /\ LockFree
    /\ conn' = [conn EXCEPT ![c] = "DISCONNECTED"]
    /\ Withdraw(c)
    /\ UNCHANGED cred

Revoke(c) ==
    /\ LockFree
    /\ conn' = [conn EXCEPT ![c] = "REVOKED"]
    /\ cred' = [cred EXCEPT ![c] = FALSE]
    /\ Withdraw(c)

-----------------------------------------------------------------------------
Next ==
    \/ ReviewDraftAction
    \/ DeleteDraft
    \/ \E t \in Threads, c \in Connections :
          RequestBegin(t, c) \/ VerifyBegin(t, c) \/ SyncBegin(t, c)
    \/ \E t \in Threads : RequestEnd(t) \/ VerifyEnd(t) \/ SyncEnd(t)
    \/ \E k \in Keys :
          \/ ExecuteOrphan(k)
          \/ ExecuteBlocked(k)
          \/ ExecuteChecked(k)
          \/ ReconcileUnknownOutcome(k)
    \/ Claim
    \/ ClaimFails
    \/ AdapterExecute
    \/ Persist
    \/ PersistFails
    \/ RecoverOrphanedExecutions
    \/ Crash
    \/ \E c \in Connections : Disconnect(c) \/ Revoke(c)

Spec == Init /\ [][Next]_vars

-----------------------------------------------------------------------------
Statuses == {"none", "PENDING", "BLOCKED", "EXECUTING", "SUCCEEDED", "FAILED",
             "UNKNOWN_OUTCOME"}

Drafts == [status : {"DRAFT", "APPROVED", "DISMISSED", "DELETED"}, ver : 0 .. MaxReviews]
Rows == [status : Statuses, safe : BOOLEAN]
Calls == [pc : {"free", "checked", "calling", "answered"},
          key : Keys \union {NoKey}, answer : Answers]
Tasks == [pc : {"idle", "request", "verify", "sync"}, conn : Connections \union {""},
          ver : 0 .. MaxReviews, usable : BOOLEAN]

\* Every variable keeps its type, and whoever is busy is busy with something.
ConnectorTypeOK ==
    /\ draft \in Drafts
    /\ conn \in [Connections -> {"DISCONNECTED", "CONNECTED", "ERROR", "REVOKED"}]
    /\ cred \in [Connections -> BOOLEAN]
    /\ exec \in [Keys -> Rows]
    /\ active \subseteq Keys
    /\ call \in Calls
    /\ call.pc # "free" => call.key \in Keys
    /\ task \in [Threads -> Tasks]
    /\ \A t \in Threads : task[t].pc # "idle" => task[t].conn \in Connections
    /\ applied \in [Keys -> Nat]
    /\ crashes \in 0 .. MaxCrashes
    /\ withdrawn \in [Connections -> BOOLEAN]
    /\ overtaken \in [Connections -> BOOLEAN]

\* The provider carries out a request at most once, although it may be retried,
\* interrupted by a stop of the process, reconciled, or lose its outcome to a
\* failed write.
AtMostOnce == \A k \in Keys : applied[k] <= 1

\* What the audit says of the provider is true: a success was carried out, and a
\* request that was never run, was blocked, may be retried, or has no row although
\* the draft was not deleted, was not.
AuditTruth ==
    \A k \in Keys :
       /\ exec[k].status = "SUCCEEDED" => applied[k] = 1
       /\ exec[k].status = "BLOCKED" \/ Runnable(k) => applied[k] = 0
       /\ ~Exists(k) /\ draft.status # "DELETED" => applied[k] = 0

\* A row that says EXECUTING and that recovery passes over, because its key is in
\* _ACTIVE_EXECUTIONS, belongs to the call under way: no interrupted execution
\* hides from recovery, though a failed claim leaves its key behind.
OrphansVisible ==
    \A k \in active :
       exec[k].status = "EXECUTING" => call.pc \in {"calling", "answered"} /\ call.key = k

\* No provider call begins on a connection that was disconnected or revoked and
\* not verified since, unless it was being verified or synced at that moment.
WithdrawalWins ==
    call.pc \in {"checked", "calling"} =>
       (withdrawn[call.key.conn] => overtaken[call.key.conn])

\* The same without the excuse, as the comment in execute_request says: no new
\* provider call can begin after revocation wins.
RevocationWins ==
    call.pc \in {"checked", "calling"} => ~withdrawn[call.key.conn]

\* The row of the call under way, unless it was deleted with the draft, is the one
\* execute_request read or wrote, and nothing was carried out before the answer.
CallSound ==
    LET k == call.key
        As(read) == read \/ (~Exists(k) /\ draft.status = "DELETED")
    IN  /\ call.pc = "checked" => As(Runnable(k)) /\ applied[k] = 0
        /\ call.pc = "calling" => applied[k] = 0
        /\ call.pc \in {"calling", "answered"} =>
              k \in active /\ As(exec[k].status = "EXECUTING")
        /\ call.pc = "answered" =>
              /\ call.answer.ok = "true" => applied[k] = 1
              /\ call.answer.ok = "false" /\ call.answer.safe => applied[k] = 0

\* The rows of a deleted draft are gone.
DeletedGone == draft.status = "DELETED" => \A k \in Keys : ~Exists(k)

\* A connection withdrawn in peace is not connected, and nobody is about to
\* connect it.
Withdrawals ==
    \A c \in Connections :
       withdrawn[c] /\ ~overtaken[c] => conn[c] # "CONNECTED" /\ ~Visited(c)

\* The inductive invariant.
ConnectorInv ==
    /\ ConnectorTypeOK
    /\ AtMostOnce
    /\ AuditTruth
    /\ OrphansVisible
    /\ WithdrawalWins
    /\ CallSound
    /\ DeletedGone
    /\ Withdrawals

\* Execution rows implement audited external writes, under this reading of them.
Phase(k) ==
    IF draft.status = "DELETED" THEN "gone"
    ELSE CASE exec[k].status \in {"EXECUTING", "UNKNOWN_OUTCOME"} -> "doubt"
           [] exec[k].status = "SUCCEEDED" -> "done"
           [] exec[k].status = "FAILED" /\ ~exec[k].safe -> "refused"
           [] OTHER -> "open"

Write == INSTANCE ExternalWrite WITH
    Requests <- Keys,
    phase <- [k \in Keys |-> Phase(k)],
    effects <- applied

WriteSpec == Write!Spec
=============================================================================

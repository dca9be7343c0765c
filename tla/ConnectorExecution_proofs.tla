---------------------- MODULE ConnectorExecution_proofs ----------------------
(***************************************************************************)
(* Proofs about ConnectorExecution: its invariant, at-most-once, the truth *)
(* of the audit, and that it implements ExternalWrite.                     *)
(***************************************************************************)
EXTENDS ConnectorExecution, TLAPS

\* What the defaults and the updates of single records are.
LEMMA Defaults ==
    /\ NoRow \in Rows
    /\ NoCall \in Calls /\ NoCall.pc = "free"
    /\ NoTask \in Tasks /\ NoTask.pc = "idle"
BY ConnectorBounds
DEF NoRow, NoCall, NoTask, Rows, Calls, Tasks, Silence, Answers, Statuses

\* Writing only the status of a row leaves a row.
LEMMA RowUpdates ==
    ASSUME NEW r \in Rows, NEW status \in Statuses
    PROVE  /\ [r EXCEPT !.status = status] \in Rows
           /\ [r EXCEPT !.status = status] = [status |-> status, safe |-> r.safe]
           /\ r.status \in Statuses /\ r.safe \in BOOLEAN
BY DEF Rows

\* The row an answer leads to is a row.
LEMMA Outcomes ==
    ASSUME NEW a \in Answers
    PROVE  Outcome(a) \in Rows
BY DEF Outcome, Answers, Rows, Statuses

\* What the holder of _EXECUTION_LOCK becomes at a claim or an answer.
LEMMA CallUpdates ==
    /\ \A k \in Keys : [pc |-> "checked", key |-> k, answer |-> Silence] \in Calls
    /\ call \in Calls => [call EXCEPT !.pc = "calling"] \in Calls
    /\ call \in Calls => \A a \in Answers :
          [pc |-> "answered", key |-> call.key, answer |-> a] \in Calls
BY DEF Calls, Silence, Answers

\* A thread that starts a verification or a synchronisation.
LEMMA Visits ==
    ASSUME NEW c \in Connections, NEW pc \in {"verify", "sync"}
    PROVE  [pc |-> pc, conn |-> c, ver |-> 0, usable |-> FALSE] \in Tasks
<1>1. pc \in {"idle", "request", "verify", "sync"} /\ c \in Connections \union {""}
  OBVIOUS
<1>2. 0 \in 0 .. MaxReviews
  BY ConnectorBounds
<1>3. QED
  BY <1>1, <1>2 DEF Tasks

\* Every step keeps the types.
LEMMA TypeStep == ConnectorTypeOK /\ [Next]_vars => ConnectorTypeOK'
<1> SUFFICES ASSUME ConnectorTypeOK, [Next]_vars
             PROVE  ConnectorTypeOK'
  OBVIOUS
<1> USE DEF ConnectorTypeOK, connVars, rowVars
<1>1. CASE ReviewDraftAction
  <2>1. draft' \in Drafts
    BY <1>1, ConnectorBounds DEF ReviewDraftAction, Drafts
  <2>2. QED
    BY <1>1, <2>1 DEF ReviewDraftAction
<1>2. CASE DeleteDraft
  <2>1. draft' \in Drafts
    BY <1>2 DEF DeleteDraft, Drafts
  <2>2. QED
    BY <1>2, <2>1, Defaults DEF DeleteDraft
<1>3. ASSUME NEW t \in Threads, NEW c \in Connections, RequestBegin(t, c)
      PROVE  ConnectorTypeOK'
  <2>1. PICK usable \in BOOLEAN :
           task' = [task EXCEPT ![t] = [pc |-> "request", conn |-> c, ver |-> draft.ver,
                                        usable |-> usable]]
    BY <1>3 DEF RequestBegin
  <2>2. [pc |-> "request", conn |-> c, ver |-> draft.ver, usable |-> usable] \in Tasks
    BY DEF Tasks, Drafts
  <2>3. QED
    BY <1>3, <2>1, <2>2 DEF RequestBegin
<1>4. ASSUME NEW t \in Threads, RequestEnd(t)
      PROVE  ConnectorTypeOK'
  <2>1. [ver |-> task[t].ver, conn |-> task[t].conn] \in Keys
    BY <1>4 DEF RequestEnd, Keys, Tasks
  <2>2. Row("PENDING") \in Rows /\ Row("BLOCKED") \in Rows
    BY DEF Row, Rows, Statuses
  <2>3. exec' \in [Keys -> Rows]
    BY <1>4, <2>1, <2>2 DEF RequestEnd
  <2>4. QED
    BY <1>4, <2>3, Defaults DEF RequestEnd
<1>5. ASSUME NEW k \in Keys, ExecuteOrphan(k)
      PROVE  ConnectorTypeOK'
  BY <1>5, RowUpdates DEF ExecuteOrphan, Statuses
<1>6. ASSUME NEW k \in Keys, ExecuteBlocked(k)
      PROVE  ConnectorTypeOK'
  BY <1>6, RowUpdates DEF ExecuteBlocked, Statuses
<1>7. ASSUME NEW k \in Keys, ExecuteChecked(k)
      PROVE  ConnectorTypeOK'
  <2>1. call' \in Calls /\ call'.key = k
    BY <1>7, CallUpdates DEF ExecuteChecked, Silence
  <2>2. QED
    BY <1>7, <2>1 DEF ExecuteChecked
<1>8. CASE Claim
  <2>1. call.key \in Keys
    BY <1>8 DEF Claim
  <2>2. exec' \in [Keys -> Rows]
    BY <1>8, <2>1, RowUpdates DEF Claim, Update, Statuses
  <2>3. call' \in Calls /\ call'.key = call.key
    BY <1>8, CallUpdates DEF Claim, Calls
  <2>4. QED
    BY <1>8, <2>1, <2>2, <2>3 DEF Claim
<1>9. CASE ClaimFails
  BY <1>9, Defaults DEF ClaimFails
<1>10. CASE AdapterExecute
  <2>1. call' \in Calls /\ call'.key = call.key
    BY <1>10, CallUpdates DEF AdapterExecute
  <2>2. applied' \in [Keys -> Nat]
    <3>1. call.key \in Keys /\ applied[call.key] + 1 \in Nat
      BY <1>10 DEF AdapterExecute
    <3>2. \/ applied' = applied
          \/ applied' = [applied EXCEPT ![call.key] = applied[call.key] + 1]
      BY <1>10 DEF AdapterExecute
    <3>3. QED
      BY <3>1, <3>2
  <2>3. QED
    BY <1>10, <2>1, <2>2 DEF AdapterExecute
<1>11. CASE Persist
  <2>1. call.answer \in Answers
    BY DEF Calls
  <2>2. exec' \in [Keys -> Rows]
    BY <1>11, <2>1, Outcomes DEF Persist, Update
  <2>3. QED
    BY <1>11, <2>2, Defaults DEF Persist
<1>12. CASE PersistFails
  BY <1>12, Defaults DEF PersistFails
<1>13. CASE RecoverOrphanedExecutions
  BY <1>13, RowUpdates DEF RecoverOrphanedExecutions, Statuses
<1>14. ASSUME NEW k \in Keys, ReconcileUnknownOutcome(k)
       PROVE  ConnectorTypeOK'
  <2>1. [status |-> "FAILED", safe |-> TRUE] \in Rows
    BY DEF Rows, Statuses
  <2>2. exec' \in [Keys -> Rows]
    BY <1>14, <2>1, RowUpdates DEF ReconcileUnknownOutcome, Statuses
  <2>3. QED
    BY <1>14, <2>2 DEF ReconcileUnknownOutcome
<1>15. CASE Crash
  <2>1. crashes' \in 0 .. MaxCrashes
    BY <1>15, ConnectorBounds DEF Crash
  <2>2. QED
    BY <1>15, <2>1, Defaults DEF Crash
<1>16. ASSUME NEW t \in Threads, NEW c \in Connections, VerifyBegin(t, c)
       PROVE  ConnectorTypeOK'
  BY <1>16, Visits DEF VerifyBegin, Visit
<1>17. ASSUME NEW t \in Threads, VerifyEnd(t)
       PROVE  ConnectorTypeOK'
  BY <1>17, Defaults DEF VerifyEnd
<1>18. ASSUME NEW t \in Threads, NEW c \in Connections, SyncBegin(t, c)
       PROVE  ConnectorTypeOK'
  BY <1>18, Visits DEF SyncBegin, Visit
<1>19. ASSUME NEW t \in Threads, SyncEnd(t)
       PROVE  ConnectorTypeOK'
  BY <1>19, Defaults DEF SyncEnd
<1>20. ASSUME NEW c \in Connections, Disconnect(c)
       PROVE  ConnectorTypeOK'
  BY <1>20 DEF Disconnect, Withdraw, Visited
<1>21. ASSUME NEW c \in Connections, Revoke(c)
       PROVE  ConnectorTypeOK'
  BY <1>21 DEF Revoke, Withdraw, Visited
<1>22. CASE UNCHANGED vars
  BY <1>22 DEF vars
<1>23. QED
  BY <1>1, <1>2, <1>3, <1>4, <1>5, <1>6, <1>7, <1>8, <1>9, <1>10, <1>11, <1>12,
     <1>13, <1>14, <1>15, <1>16, <1>17, <1>18, <1>19, <1>20, <1>21, <1>22
  DEF Next

-----------------------------------------------------------------------------
\* What the audit, the provider and the call under way have to do with one another:
\* the half of the invariant that speaks of draft, exec, active, call and applied.
RowInv ==
    /\ AtMostOnce
    /\ AuditTruth
    /\ OrphansVisible
    /\ CallSound
    /\ DeletedGone

\* The half that speaks of connections.
ConnInv == WithdrawalWins /\ Withdrawals

\* Every step keeps what relates the rows, the call under way and the provider.
LEMMA RowStep ==
    ConnectorTypeOK /\ ConnectorTypeOK' /\ RowInv /\ [Next]_vars => RowInv'
<1> SUFFICES ASSUME ConnectorTypeOK, ConnectorTypeOK', RowInv, [Next]_vars
             PROVE  RowInv'
  OBVIOUS
<1> USE DEF RowInv, connVars, rowVars, Exists, Runnable
<1>t. /\ \A k \in Keys : exec[k].status \in Statuses /\ exec[k].safe \in BOOLEAN
      /\ \A k \in Keys : applied[k] \in Nat
      /\ exec \in [Keys -> Rows] /\ applied \in [Keys -> Nat] /\ active \subseteq Keys
      /\ call.pc # "free" => call.key \in Keys
  BY DEF ConnectorTypeOK, Rows
<1>n. NoRow.status = "none" /\ NoCall.pc = "free"
  BY DEF NoRow, NoCall
<1>s. ASSUME draft' = draft, UNCHANGED rowVars
      PROVE  RowInv'
  BY <1>s DEF AtMostOnce, AuditTruth, OrphansVisible, CallSound, DeletedGone
<1>1. CASE ReviewDraftAction
  <2>1. draft.status # "DELETED" /\ draft'.status # "DELETED"
    BY <1>1 DEF ReviewDraftAction
  <2>2. QED
    BY <1>1, <2>1 DEF ReviewDraftAction, AtMostOnce, AuditTruth, OrphansVisible,
       CallSound, DeletedGone
<1>2. CASE DeleteDraft
  <2>1. draft'.status = "DELETED" /\ \A k \in Keys : exec'[k].status = "none"
    BY <1>2, <1>n DEF DeleteDraft, ConnectorTypeOK, Drafts
  <2>2. AtMostOnce' /\ DeletedGone' /\ AuditTruth'
    BY <1>2, <2>1 DEF DeleteDraft, AtMostOnce, DeletedGone, AuditTruth
  <2>3. OrphansVisible'
    BY <1>2, <1>t, <2>1 DEF DeleteDraft, OrphansVisible
  <2>4. CallSound'
    BY <1>2, <1>t, <2>1 DEF DeleteDraft, CallSound
  <2>5. QED
    BY <2>2, <2>3, <2>4
<1>3. ASSUME NEW t \in Threads, NEW c \in Connections,
             RequestBegin(t, c) \/ VerifyBegin(t, c) \/ SyncBegin(t, c)
      PROVE  RowInv'
  BY <1>3, <1>s DEF RequestBegin, VerifyBegin, SyncBegin
<1>4. ASSUME NEW t \in Threads, VerifyEnd(t) \/ SyncEnd(t)
      PROVE  RowInv'
  BY <1>4, <1>s DEF VerifyEnd, SyncEnd
<1>5. ASSUME NEW c \in Connections, Disconnect(c) \/ Revoke(c)
      PROVE  RowInv'
  BY <1>5, <1>s DEF Disconnect, Revoke, Withdraw
<1>6. ASSUME NEW t \in Threads, RequestEnd(t)
      PROVE  RowInv'
  <2> DEFINE k == [ver |-> task[t].ver, conn |-> task[t].conn]
  <2>1. CASE exec' = exec
    BY <1>6, <1>s, <2>1 DEF RequestEnd
  <2>2. ASSUME ~Exists(k), draft.status # "DELETED",
               NEW status \in {"PENDING", "BLOCKED"},
               exec' = [exec EXCEPT ![k] = Row(status)]
        PROVE  RowInv'
    <3>1. k \in Keys
      BY <1>6 DEF RequestEnd, ConnectorTypeOK, Keys, Tasks
    <3> HIDE DEF k
    <3>2. /\ exec'[k].status = status
          /\ \A j \in Keys \ {k} : exec'[j] = exec[j]
      BY <1>t, <2>2, <3>1 DEF Row
    <3>3. applied[k] = 0
      BY <2>2, <3>1 DEF AuditTruth
    <3>4. /\ draft' = draft /\ active' = active /\ call' = call /\ applied' = applied
      BY <1>6 DEF RequestEnd
    <3>5. AtMostOnce' /\ DeletedGone'
      BY <2>2, <3>4 DEF AtMostOnce, DeletedGone
    <3>6. AuditTruth'
      BY <2>2, <3>2, <3>3, <3>4 DEF AuditTruth
    <3>7. OrphansVisible'
      BY <1>t, <2>2, <3>2, <3>4 DEF OrphansVisible
    <3>8. CallSound'
      <4>1. call.pc # "free" => call.key # k
        BY <2>2, <1>t DEF CallSound, ConnectorTypeOK, Calls
      <4>2. QED
        BY <1>t, <2>2, <3>2, <3>4, <4>1 DEF CallSound
    <3>9. QED
      BY <3>5, <3>6, <3>7, <3>8
  <2>3. QED
    BY <1>6, <2>1, <2>2 DEF RequestEnd
<1>7. ASSUME NEW k \in Keys, ExecuteOrphan(k)
      PROVE  RowInv'
  <2>1. /\ exec'[k].status = "UNKNOWN_OUTCOME"
        /\ \A j \in Keys \ {k} : exec'[j] = exec[j]
        /\ draft' = draft /\ active' = active /\ call' = call /\ applied' = applied
        /\ call.pc = "free" /\ exec[k].status = "EXECUTING"
    BY <1>7, <1>t, RowUpdates DEF ExecuteOrphan, LockFree, Orphan, Statuses
  <2>2. QED
    BY <1>t, <2>1 DEF AtMostOnce, AuditTruth, OrphansVisible, CallSound, DeletedGone
<1>8. ASSUME NEW k \in Keys, ExecuteBlocked(k)
      PROVE  RowInv'
  <2>1. /\ exec'[k].status = "BLOCKED"
        /\ \A j \in Keys \ {k} : exec'[j] = exec[j]
        /\ draft' = draft /\ active' = active /\ call' = call /\ applied' = applied
        /\ call.pc = "free"
    BY <1>8, <1>t, RowUpdates DEF ExecuteBlocked, LockFree, Statuses
  <2>2. applied[k] = 0 /\ Exists(k)
    BY <1>8 DEF ExecuteBlocked, AuditTruth
  <2>3. QED
    BY <1>t, <2>1, <2>2 DEF AtMostOnce, AuditTruth, OrphansVisible, CallSound, DeletedGone
<1>9. ASSUME NEW k \in Keys, ExecuteChecked(k)
      PROVE  RowInv'
  <2>1. /\ draft' = draft /\ exec' = exec /\ active' = active /\ applied' = applied
        /\ call.pc = "free" /\ call'.pc = "checked" /\ call'.key = k
        /\ Runnable(k)
    BY <1>9 DEF ExecuteChecked, LockFree
  <2>2. applied[k] = 0
    BY <2>1 DEF AuditTruth
  <2>3. QED
    BY <1>t, <2>1, <2>2 DEF AtMostOnce, AuditTruth, OrphansVisible, CallSound, DeletedGone
<1>10. CASE Claim
  <2> DEFINE k == call.key
  <2>1. k \in Keys /\ call.pc = "checked" /\ call'.pc = "calling" /\ call'.key = k
    BY <1>10, <1>t DEF Claim, ConnectorTypeOK, Calls
  <2>2. /\ draft' = draft /\ applied' = applied /\ active' = active \union {k}
        /\ \A j \in Keys \ {k} : exec'[j] = exec[j]
        /\ Exists(k) => exec'[k].status = "EXECUTING"
        /\ ~Exists(k) => exec'[k].status = "none"
    <3> DEFINE row == [exec[k] EXCEPT !.status = "EXECUTING"]
    <3>1. row.status = "EXECUTING"
      BY <1>t, <2>1, RowUpdates DEF Statuses
    <3>2. exec' = IF Exists(k) THEN [exec EXCEPT ![k] = row] ELSE exec
      BY <1>10 DEF Claim, Update
    <3>3. draft' = draft /\ applied' = applied /\ active' = active \union {k}
      BY <1>10 DEF Claim
    <3> HIDE DEF k, row
    <3>4. QED
      BY <1>t, <2>1, <3>1, <3>2, <3>3
  <2>3. applied[k] = 0 /\ (Runnable(k) \/ (~Exists(k) /\ draft.status = "DELETED"))
    BY <2>1 DEF CallSound
  <2> HIDE DEF k
  <2>4. AtMostOnce' /\ DeletedGone' /\ AuditTruth'
    BY <2>1, <2>2, <2>3 DEF AtMostOnce, DeletedGone, AuditTruth
  <2>5. OrphansVisible'
    BY <1>t, <2>1, <2>2 DEF OrphansVisible
  <2>6. CallSound'
    BY <2>1, <2>2, <2>3 DEF CallSound
  <2>7. QED
    BY <2>4, <2>5, <2>6
<1>11. CASE ClaimFails
  <2>1. /\ call.key \in Keys /\ call.pc = "checked" /\ call'.pc = "free"
        /\ draft' = draft /\ exec' = exec /\ applied' = applied
        /\ active' = active \union {call.key}
    BY <1>11, <1>t, <1>n DEF ClaimFails
  <2>2. exec[call.key].status # "EXECUTING"
    BY <2>1 DEF CallSound
  <2>3. QED
    BY <1>t, <2>1, <2>2 DEF AtMostOnce, AuditTruth, OrphansVisible, CallSound, DeletedGone
<1>12. CASE AdapterExecute
  <2> DEFINE k == call.key
  <2>1. PICK did \in BOOLEAN, a \in Answers :
           /\ a.ok = "true" => did
           /\ a.ok = "false" /\ a.safe => ~did
           /\ applied' = IF did THEN [applied EXCEPT ![k] = @ + 1] ELSE applied
           /\ call' = [pc |-> "answered", key |-> k, answer |-> a]
    BY <1>12 DEF AdapterExecute
  <2>2. /\ k \in Keys /\ call.pc = "calling" /\ applied[k] = 0
        /\ draft' = draft /\ exec' = exec /\ active' = active
    BY <1>12, <1>t DEF AdapterExecute, CallSound
  <2>3. /\ call'.pc = "answered" /\ call'.key = k /\ call'.answer = a
        /\ \A j \in Keys \ {k} : applied'[j] = applied[j]
        /\ did => applied'[k] = 1
        /\ ~did => applied'[k] = 0
    BY <1>t, <2>1, <2>2
  <2>4. k \in active /\ (exec[k].status = "EXECUTING"
                         \/ (~Exists(k) /\ draft.status = "DELETED"))
    BY <2>2 DEF CallSound
  <2> HIDE DEF k
  <2>5. AtMostOnce' /\ DeletedGone'
    BY <2>2, <2>3 DEF AtMostOnce, DeletedGone
  <2>6. AuditTruth'
    BY <2>2, <2>3, <2>4 DEF AuditTruth
  <2>7. OrphansVisible'
    BY <1>t, <2>2, <2>3 DEF OrphansVisible, k
  <2>8. CallSound'
    BY <2>1, <2>2, <2>3, <2>4 DEF CallSound
  <2>9. QED
    BY <2>5, <2>6, <2>7, <2>8
<1>13. CASE Persist
  <2> DEFINE k == call.key
             a == call.answer
  <2>1. /\ k \in Keys /\ call.pc = "answered" /\ call'.pc = "free" /\ a \in Answers
        /\ draft' = draft /\ applied' = applied /\ active' = active \ {k}
    BY <1>13, <1>t, <1>n DEF Persist, ConnectorTypeOK, Calls
  <2>2. /\ \A j \in Keys \ {k} : exec'[j] = exec[j]
        /\ Exists(k) => exec'[k] = Outcome(a)
        /\ ~Exists(k) => exec'[k].status = "none"
    BY <1>13, <1>t, <2>1 DEF Persist, Update
  <2>3. /\ k \in active
        /\ exec[k].status = "EXECUTING" \/ (~Exists(k) /\ draft.status = "DELETED")
        /\ a.ok = "true" => applied[k] = 1
        /\ a.ok = "false" /\ a.safe => applied[k] = 0
    BY <2>1 DEF CallSound
  <2>4. /\ Outcome(a).status \in {"SUCCEEDED", "FAILED", "UNKNOWN_OUTCOME"}
        /\ Outcome(a).status = "SUCCEEDED" => a.ok = "true"
        /\ Outcome(a).status = "FAILED" => a.ok = "false"
        /\ Outcome(a).safe = a.safe
    BY <2>1 DEF Outcome, Answers
  <2> HIDE DEF k, a
  <2>5. AtMostOnce' /\ DeletedGone'
    BY <2>1, <2>2 DEF AtMostOnce, DeletedGone
  <2>6. AuditTruth'
    BY <2>1, <2>2, <2>3, <2>4 DEF AuditTruth
  <2>7. OrphansVisible' /\ CallSound'
    BY <1>t, <2>1, <2>2 DEF OrphansVisible, CallSound, k
  <2>8. QED
    BY <2>5, <2>6, <2>7
<1>14. CASE PersistFails
  <2>1. /\ call.pc = "answered" /\ call'.pc = "free" /\ active' = active \ {call.key}
        /\ draft' = draft /\ exec' = exec /\ applied' = applied
    BY <1>14, <1>n DEF PersistFails
  <2>2. QED
    BY <1>t, <2>1 DEF AtMostOnce, AuditTruth, OrphansVisible, CallSound, DeletedGone
<1>15. CASE RecoverOrphanedExecutions
  <2>1. /\ call.pc = "free" /\ call' = call /\ active' = active
        /\ draft' = draft /\ applied' = applied
    BY <1>15 DEF RecoverOrphanedExecutions, LockFree
  <2>2. \A j \in Keys :
           \/ exec'[j] = exec[j]
           \/ exec[j].status = "EXECUTING" /\ exec'[j].status = "UNKNOWN_OUTCOME"
    BY <1>15, <1>t, RowUpdates DEF RecoverOrphanedExecutions, Orphan, Statuses
  <2>3. QED
    BY <1>t, <2>1, <2>2 DEF AtMostOnce, AuditTruth, OrphansVisible, CallSound, DeletedGone
<1>16. ASSUME NEW k \in Keys, ReconcileUnknownOutcome(k)
       PROVE  RowInv'
  <2>1. /\ call.pc = "free" /\ call' = call /\ active' = active
        /\ draft' = draft /\ applied' = applied
        /\ exec[k].status = "UNKNOWN_OUTCOME"
        /\ \A j \in Keys \ {k} : exec'[j] = exec[j]
    BY <1>16, <1>t DEF ReconcileUnknownOutcome, LockFree
  <2>2. /\ applied[k] > 0 => exec'[k].status = "SUCCEEDED"
        /\ ~(applied[k] > 0) => exec'[k].status = "FAILED"
    BY <1>16, <1>t, RowUpdates DEF ReconcileUnknownOutcome, Statuses
  <2>3. /\ applied[k] > 0 => applied[k] = 1
        /\ ~(applied[k] > 0) => applied[k] = 0
    BY <1>t DEF AtMostOnce
  <2>4. QED
    BY <1>t, <2>1, <2>2, <2>3 DEF AtMostOnce, AuditTruth, OrphansVisible, CallSound,
       DeletedGone
<1>17. CASE Crash
  <2>1. /\ call'.pc = "free" /\ active' = {}
        /\ draft' = draft /\ exec' = exec /\ applied' = applied
    BY <1>17, <1>n DEF Crash
  <2>2. QED
    BY <2>1 DEF AtMostOnce, AuditTruth, OrphansVisible, CallSound, DeletedGone
<1>18. CASE UNCHANGED vars
  BY <1>18, <1>s DEF vars
<1>19. QED
  BY <1>1, <1>2, <1>3, <1>4, <1>5, <1>6, <1>7, <1>8, <1>9, <1>10, <1>11, <1>12,
     <1>13, <1>14, <1>15, <1>16, <1>17, <1>18
  DEF Next

\* Every step keeps what relates withdrawals, connections and the call.
LEMMA ConnStep ==
    ConnectorTypeOK /\ ConnectorTypeOK' /\ ConnInv /\ [Next]_vars => ConnInv'
<1> SUFFICES ASSUME ConnectorTypeOK, ConnectorTypeOK', ConnInv, [Next]_vars
             PROVE  ConnInv'
  OBVIOUS
<1> USE DEF ConnInv, connVars, rowVars
<1>t. /\ task \in [Threads -> Tasks]
      /\ withdrawn \in [Connections -> BOOLEAN] /\ overtaken \in [Connections -> BOOLEAN]
      /\ DOMAIN conn = Connections
      /\ call.pc # "free" => call.key.conn \in Connections
  BY DEF ConnectorTypeOK, Keys
<1>n. NoCall.pc = "free" /\ NoTask.pc = "idle"
  BY DEF NoCall, NoTask
\* Threads that stop, or that neither verify nor sync, threaten nothing.
<1>v. ASSUME \A t \in Threads : task'[t].pc \in {"verify", "sync"} => task'[t] = task[t],
             UNCHANGED connVars
      PROVE  Withdrawals'
  BY <1>v DEF Withdrawals, Visited
<1>1. CASE ReviewDraftAction \/ DeleteDraft \/ RecoverOrphanedExecutions
  <2>1. UNCHANGED <<connVars, call, task>>
    BY <1>1 DEF ReviewDraftAction, DeleteDraft, RecoverOrphanedExecutions
  <2>2. QED
    BY <1>v, <2>1 DEF WithdrawalWins
<1>2. ASSUME NEW t \in Threads, NEW c \in Connections, RequestBegin(t, c)
      PROVE  ConnInv'
  <2>1. UNCHANGED <<connVars, call>>
    BY <1>2 DEF RequestBegin
  <2>2. /\ task'[t].pc = "request"
        /\ \A u \in Threads \ {t} : task'[u] = task[u]
    BY <1>2, <1>t DEF RequestBegin
  <2>3. QED
    BY <1>v, <2>1, <2>2 DEF WithdrawalWins
<1>3. ASSUME NEW t \in Threads, RequestEnd(t)
      PROVE  ConnInv'
  <2>1. UNCHANGED <<connVars, call>>
    BY <1>3 DEF RequestEnd
  <2>2. /\ task'[t].pc = "idle"
        /\ \A u \in Threads \ {t} : task'[u] = task[u]
    BY <1>3, <1>t, <1>n DEF RequestEnd
  <2>3. QED
    BY <1>v, <2>1, <2>2 DEF WithdrawalWins
<1>4. ASSUME NEW k \in Keys,
             ExecuteOrphan(k) \/ ExecuteBlocked(k) \/ ReconcileUnknownOutcome(k)
      PROVE  ConnInv'
  <2>1. UNCHANGED <<connVars, call, task>>
    BY <1>4 DEF ExecuteOrphan, ExecuteBlocked, ReconcileUnknownOutcome
  <2>2. QED
    BY <1>v, <2>1 DEF WithdrawalWins
<1>5. ASSUME NEW k \in Keys, ExecuteChecked(k)
      PROVE  ConnInv'
  <2>1. /\ UNCHANGED <<connVars, task>>
        /\ call'.key = k /\ k.conn \in Connections /\ conn[k.conn] = "CONNECTED"
    BY <1>5 DEF ExecuteChecked, MayUse, Keys
  <2>2. withdrawn[k.conn] => overtaken[k.conn]
    BY <1>t, <2>1 DEF Withdrawals
  <2>3. QED
    BY <1>v, <2>1, <2>2 DEF WithdrawalWins
<1>6. CASE Claim
  <2>1. UNCHANGED <<connVars, task>> /\ call.pc = "checked" /\ call'.key = call.key
    BY <1>6 DEF Claim, ConnectorTypeOK, Calls
  <2>2. QED
    BY <1>v, <2>1 DEF WithdrawalWins
<1>7. CASE ClaimFails \/ AdapterExecute \/ Persist \/ PersistFails
  <2>1. UNCHANGED <<connVars, task>> /\ call'.pc \in {"free", "answered"}
    BY <1>7, <1>n DEF ClaimFails, AdapterExecute, Persist, PersistFails
  <2>2. QED
    BY <1>v, <2>1 DEF WithdrawalWins
<1>8. CASE Crash
  <2>1. UNCHANGED connVars /\ call'.pc = "free" /\ \A t \in Threads : task'[t].pc = "idle"
    BY <1>8, <1>n DEF Crash
  <2>2. QED
    BY <1>v, <2>1 DEF WithdrawalWins
<1>9. ASSUME NEW t \in Threads, NEW c \in Connections, VerifyBegin(t, c)
      PROVE  ConnInv'
  <2>1. /\ conn' = conn /\ call' = call
        /\ withdrawn' = [withdrawn EXCEPT ![c] = FALSE]
        /\ overtaken' = [overtaken EXCEPT ![c] = FALSE]
    BY <1>9 DEF VerifyBegin
  <2>2. /\ task'[t].conn = c
        /\ \A u \in Threads \ {t} : task'[u] = task[u]
    BY <1>9, <1>t DEF VerifyBegin, Visit
  <2>3. /\ ~withdrawn'[c]
        /\ \A d \in Connections \ {c} :
              withdrawn'[d] = withdrawn[d] /\ overtaken'[d] = overtaken[d]
    BY <1>t, <2>1
  <2>4. Withdrawals'
    BY <2>1, <2>2, <2>3 DEF Withdrawals, Visited
  <2>5. WithdrawalWins'
    BY <1>t, <2>1, <2>3 DEF WithdrawalWins
  <2>6. QED
    BY <2>4, <2>5
<1>10. ASSUME NEW t \in Threads, NEW c \in Connections, SyncBegin(t, c)
       PROVE  ConnInv'
  <2>1. UNCHANGED <<connVars, call>> /\ conn[c] = "CONNECTED"
    BY <1>10 DEF SyncBegin
  <2>2. /\ task'[t].conn = c
        /\ \A u \in Threads \ {t} : task'[u] = task[u]
    BY <1>10, <1>t DEF SyncBegin, Visit
  <2>3. Withdrawals'
    BY <2>1, <2>2 DEF Withdrawals, Visited
  <2>4. QED
    BY <2>1, <2>3 DEF WithdrawalWins
<1>11. ASSUME NEW t \in Threads, VerifyEnd(t) \/ SyncEnd(t)
       PROVE  ConnInv'
  <2> DEFINE c == task[t].conn
  <2>1. UNCHANGED <<withdrawn, overtaken, call>> /\ task[t].pc \in {"verify", "sync"}
    BY <1>11 DEF VerifyEnd, SyncEnd
  <2>2. /\ task'[t].pc = "idle"
        /\ \A u \in Threads \ {t} : task'[u] = task[u]
    BY <1>11, <1>t, <1>n DEF VerifyEnd, SyncEnd
  <2>3. \A d \in Connections \ {c} : conn'[d] = conn[d]
    BY <1>11, <1>t DEF VerifyEnd, SyncEnd
  <2>4. Visited(c) /\ c \in Connections
    BY <2>1 DEF Visited, ConnectorTypeOK
  <2>5. ~(withdrawn[c] /\ ~overtaken[c])
    BY <2>4 DEF Withdrawals
  <2> HIDE DEF c
  <2>6. Withdrawals'
    BY <2>1, <2>2, <2>3, <2>5 DEF Withdrawals, Visited
  <2>7. QED
    BY <2>1, <2>6 DEF WithdrawalWins
<1>12. ASSUME NEW c \in Connections, Disconnect(c) \/ Revoke(c)
       PROVE  ConnInv'
  <2>1. /\ call' = call /\ call.pc = "free" /\ task' = task
        /\ withdrawn' = [withdrawn EXCEPT ![c] = TRUE]
        /\ overtaken' = [overtaken EXCEPT ![c] = Visited(c)]
    BY <1>12 DEF Disconnect, Revoke, Withdraw, LockFree
  <2>2. /\ conn'[c] # "CONNECTED"
        /\ \A d \in Connections \ {c} : conn'[d] = conn[d]
    BY <1>12, <1>t DEF Disconnect, Revoke
  <2>3. /\ overtaken'[c] = Visited(c)
        /\ \A d \in Connections \ {c} :
              withdrawn'[d] = withdrawn[d] /\ overtaken'[d] = overtaken[d]
    BY <1>t, <2>1
  <2>4. \A d \in Connections : Visited(d)' = Visited(d)
    BY <2>1 DEF Visited
  <2>5. Withdrawals'
    BY <2>2, <2>3, <2>4 DEF Withdrawals
  <2>6. QED
    BY <2>1, <2>5 DEF WithdrawalWins
<1>13. CASE UNCHANGED vars
  BY <1>13, <1>v DEF vars, WithdrawalWins
<1>14. QED
  BY <1>1, <1>2, <1>3, <1>4, <1>5, <1>6, <1>7, <1>8, <1>9, <1>10, <1>11, <1>12, <1>13
  DEF Next

-----------------------------------------------------------------------------
\* The inductive invariant holds at the start ...
LEMMA ConnectorInit == Init => ConnectorInv
<1> SUFFICES ASSUME Init
             PROVE  ConnectorInv
  OBVIOUS
<1>1. ConnectorTypeOK
  BY Defaults, ConnectorBounds DEF Init, ConnectorTypeOK, Drafts, Statuses
<1>2. /\ call.pc = "free" /\ draft.status = "DRAFT" /\ active = {}
      /\ \A k \in Keys : exec[k].status = "none" /\ applied[k] = 0
      /\ \A c \in Connections : ~withdrawn[c]
  BY Defaults DEF Init, NoRow
<1>3. QED
  BY <1>1, <1>2 DEF ConnectorInv, AtMostOnce, AuditTruth, OrphansVisible,
     WithdrawalWins, CallSound, DeletedGone, Withdrawals, Runnable, Exists

\* ... and every step keeps it.
LEMMA ConnectorStep == ConnectorInv /\ [Next]_vars => ConnectorInv'
<1> SUFFICES ASSUME ConnectorInv, [Next]_vars
             PROVE  ConnectorInv'
  OBVIOUS
<1>1. ConnectorTypeOK /\ RowInv /\ ConnInv
  BY DEF ConnectorInv, RowInv, ConnInv
<1>2. ConnectorTypeOK'
  BY <1>1, TypeStep
<1>3. RowInv' /\ ConnInv'
  BY <1>1, <1>2, RowStep, ConnStep
<1>4. QED
  BY <1>2, <1>3 DEF ConnectorInv, RowInv, ConnInv

\* The inductive invariant holds in every reachable state.
THEOREM ConnectorInvariance == Spec => []ConnectorInv
BY ConnectorInit, ConnectorStep, PTL DEF Spec

\* An external write is carried out at most once per execution row, through every
\* retry, stop of the process, failed write and reconciliation.
THEOREM OnceOnly == Spec => []AtMostOnce
<1>1. ConnectorInv => AtMostOnce
  BY DEF ConnectorInv
<1>2. QED
  BY <1>1, ConnectorInvariance, PTL

\* What the audit says of the provider is true.
THEOREM Truthful == Spec => []AuditTruth
<1>1. ConnectorInv => AuditTruth
  BY DEF ConnectorInv
<1>2. QED
  BY <1>1, ConnectorInvariance, PTL

\* No interrupted execution hides from recovery behind _ACTIVE_EXECUTIONS.
THEOREM Recoverable == Spec => []OrphansVisible
<1>1. ConnectorInv => OrphansVisible
  BY DEF ConnectorInv
<1>2. QED
  BY <1>1, ConnectorInvariance, PTL

\* No call begins on a connection withdrawn while nobody verified or synced it.
THEOREM Withdrawn == Spec => []WithdrawalWins
<1>1. ConnectorInv => WithdrawalWins
  BY DEF ConnectorInv
<1>2. QED
  BY <1>1, ConnectorInvariance, PTL

-----------------------------------------------------------------------------
(* ConnectorExecution implements ExternalWrite.                            *)

\* The initial states are initial states of ExternalWrite ...
LEMMA WriteInit == Init => Write!Init
<1> SUFFICES ASSUME Init
             PROVE  Write!Init
  OBVIOUS
<1>1. \A k \in Keys : Phase(k) = "open"
  BY DEF Init, Phase, NoRow
<1>2. QED
  BY <1>1 DEF Init, Write!Init

\* A step after which the audit says the same and the provider did nothing.
LEMMA WriteStutter ==
    ASSUME \A k \in Keys : Phase(k)' = Phase(k), applied' = applied
    PROVE  UNCHANGED Write!vars
BY DEF Write!vars

\* A step that changes what the audit says of one request.
LEMMA WriteOne ==
    ASSUME NEW k \in Keys, NEW p, Phase(k)' = p,
           \A j \in Keys \ {k} : Phase(j)' = Phase(j)
    PROVE  [j \in Keys |-> Phase(j)]' = [[j \in Keys |-> Phase(j)] EXCEPT ![k] = p]
OBVIOUS

\* ... and every step is a step of it, or changes nothing there.
LEMMA WriteStep == ConnectorInv /\ [Next]_vars => [Write!Next]_Write!vars
<1> SUFFICES ASSUME ConnectorInv, [Next]_vars
             PROVE  [Write!Next]_Write!vars
  OBVIOUS
<1> USE DEF connVars, rowVars
<1>t. /\ exec \in [Keys -> Rows] /\ applied \in [Keys -> Nat]
      /\ \A k \in Keys : exec[k].status \in Statuses /\ exec[k].safe \in BOOLEAN
      /\ call.pc # "free" => call.key \in Keys
  BY DEF ConnectorInv, ConnectorTypeOK, Rows
<1>g. draft.status = "DELETED" => \A k \in Keys : exec[k].status = "none"
  BY DEF ConnectorInv, DeletedGone, Exists
<1>s. ASSUME draft' = draft, exec' = exec, applied' = applied
      PROVE  UNCHANGED Write!vars
  BY <1>s, WriteStutter DEF Phase
<1>1. CASE ReviewDraftAction
  <2>1. draft.status # "DELETED" /\ draft'.status # "DELETED"
    BY <1>1 DEF ReviewDraftAction
  <2>2. \A k \in Keys : Phase(k)' = Phase(k)
    BY <1>1, <2>1 DEF ReviewDraftAction, Phase
  <2>3. QED
    BY <1>1, <2>2, WriteStutter DEF ReviewDraftAction
<1>2. CASE DeleteDraft
  <2>1. draft'.status = "DELETED"
    BY <1>2 DEF DeleteDraft, ConnectorInv, ConnectorTypeOK, Drafts
  <2>2. \A k \in Keys : Phase(k)' = "gone"
    BY <2>1 DEF Phase
  <2>3. Write!Forget
    BY <1>2, <2>2 DEF DeleteDraft, Write!Forget
  <2>4. QED
    BY <2>3 DEF Write!Next
<1>3. ASSUME NEW t \in Threads, NEW c \in Connections,
             RequestBegin(t, c) \/ VerifyBegin(t, c) \/ SyncBegin(t, c)
      PROVE  UNCHANGED Write!vars
  BY <1>3, <1>s DEF RequestBegin, VerifyBegin, SyncBegin
<1>4. ASSUME NEW t \in Threads, VerifyEnd(t) \/ SyncEnd(t)
      PROVE  UNCHANGED Write!vars
  BY <1>4, <1>s DEF VerifyEnd, SyncEnd
<1>5. ASSUME NEW c \in Connections, Disconnect(c) \/ Revoke(c)
      PROVE  UNCHANGED Write!vars
  BY <1>5, <1>s DEF Disconnect, Revoke, Withdraw
<1>6. ASSUME NEW t \in Threads, RequestEnd(t)
      PROVE  UNCHANGED Write!vars
  <2> DEFINE k == [ver |-> task[t].ver, conn |-> task[t].conn]
  <2>1. draft' = draft /\ applied' = applied
    BY <1>6 DEF RequestEnd
  <2>2. ASSUME exec[k].status = "none", NEW status \in {"PENDING", "BLOCKED"},
               exec' = [exec EXCEPT ![k] = Row(status)]
        PROVE  UNCHANGED Write!vars
    <3>1. k \in Keys
      BY <1>6 DEF RequestEnd, ConnectorInv, ConnectorTypeOK, Keys, Tasks
    <3> HIDE DEF k
    <3>2. /\ exec'[k].status = status
          /\ \A j \in Keys \ {k} : exec'[j] = exec[j]
      BY <1>t, <2>2, <3>1 DEF Row
    <3>3. \A j \in Keys : Phase(j)' = Phase(j)
      BY <2>1, <2>2, <3>2 DEF Phase
    <3>4. QED
      BY <2>1, <3>3, WriteStutter
  <2>3. QED
    BY <1>6, <1>s, <2>1, <2>2 DEF RequestEnd, Exists
<1>7. ASSUME NEW k \in Keys, ExecuteOrphan(k)
      PROVE  UNCHANGED Write!vars
  <2>1. /\ exec'[k].status = "UNKNOWN_OUTCOME" /\ exec[k].status = "EXECUTING"
        /\ \A j \in Keys \ {k} : exec'[j] = exec[j]
        /\ draft' = draft /\ applied' = applied
    BY <1>7, <1>t, RowUpdates DEF ExecuteOrphan, Orphan, Statuses
  <2>2. \A j \in Keys : Phase(j)' = Phase(j)
    BY <2>1 DEF Phase
  <2>3. QED
    BY <2>1, <2>2, WriteStutter
<1>8. ASSUME NEW k \in Keys, ExecuteBlocked(k)
      PROVE  UNCHANGED Write!vars
  <2>1. /\ exec'[k].status = "BLOCKED" /\ Runnable(k)
        /\ \A j \in Keys \ {k} : exec'[j] = exec[j]
        /\ draft' = draft /\ applied' = applied
    BY <1>8, <1>t, RowUpdates DEF ExecuteBlocked, Statuses
  <2>2. \A j \in Keys : Phase(j)' = Phase(j)
    BY <2>1 DEF Phase, Runnable
  <2>3. QED
    BY <2>1, <2>2, WriteStutter
<1>9. ASSUME NEW k \in Keys, ExecuteChecked(k)
      PROVE  UNCHANGED Write!vars
  BY <1>9, <1>s DEF ExecuteChecked
<1>10. CASE Claim
  <2>k. PICK k \in Keys : k = call.key
    BY <1>10, <1>t DEF Claim
  <2> DEFINE row == [exec[k] EXCEPT !.status = "EXECUTING"]
  <2>1. k \in Keys /\ (Runnable(k) \/ exec[k].status = "none")
    BY <1>10, <2>k DEF Claim, ConnectorInv, CallSound, Exists
  <2>2. row.status = "EXECUTING"
    BY <1>t, <2>1, RowUpdates DEF Statuses
  <2>3. /\ exec' = IF Exists(k) THEN [exec EXCEPT ![k] = row] ELSE exec
        /\ draft' = draft /\ applied' = applied
    BY <1>10, <2>k DEF Claim, Update
  <2> HIDE DEF row
  <2>4. CASE exec[k].status = "none"
    BY <1>s, <2>3, <2>4 DEF Exists
  <2>5. CASE Runnable(k)
    <3>1. /\ exec'[k].status = "EXECUTING" /\ draft.status # "DELETED"
          /\ \A j \in Keys \ {k} : exec'[j] = exec[j]
      BY <1>t, <1>g, <2>1, <2>2, <2>3, <2>5 DEF Exists, Runnable
    <3>2. /\ Phase(k) = "open" /\ Phase(k)' = "doubt"
          /\ \A j \in Keys \ {k} : Phase(j)' = Phase(j)
      BY <2>1, <2>3, <2>5, <3>1 DEF Phase, Runnable
    <3>3. Write!Attempt(k)
      BY <2>1, <2>3, <3>2, WriteOne DEF Write!Attempt
    <3>4. QED
      BY <2>1, <3>3 DEF Write!Next
  <2>6. QED
    BY <2>1, <2>4, <2>5
<1>11. CASE ClaimFails \/ PersistFails \/ Crash
  BY <1>11, <1>s DEF ClaimFails, PersistFails, Crash
<1>12. CASE AdapterExecute
  <2> DEFINE k == call.key
  <2>1. /\ k \in Keys /\ applied[k] = 0
        /\ exec[k].status = "EXECUTING" \/ draft.status = "DELETED"
        /\ draft' = draft /\ exec' = exec
    BY <1>12, <1>t DEF AdapterExecute, ConnectorInv, CallSound
  <2>2. \/ applied' = applied
        \/ applied' = [applied EXCEPT ![k] = applied[k] + 1]
    BY <1>12 DEF AdapterExecute
  <2> HIDE DEF k
  <2>3. CASE applied' = applied
    BY <1>s, <2>1, <2>3
  <2>4. CASE applied' = [applied EXCEPT ![k] = applied[k] + 1]
    <3>1. applied' = [applied EXCEPT ![k] = 1]
      BY <2>1, <2>4
    <3>2. /\ Phase(k) \in {"doubt", "gone"}
          /\ \A j \in Keys : Phase(j)' = Phase(j)
      BY <2>1 DEF Phase
    <3>3. Write!Apply(k)
      BY <2>1, <3>1, <3>2 DEF Write!Apply
    <3>4. QED
      BY <2>1, <3>3 DEF Write!Next
  <2>5. QED
    BY <2>2, <2>3, <2>4
<1>13. CASE Persist
  <2>k. PICK k \in Keys : k = call.key
    BY <1>13, <1>t DEF Persist
  <2> DEFINE a == call.answer
  <2>1. /\ k \in Keys /\ a \in Answers
        /\ draft' = draft /\ applied' = applied
        /\ exec[k].status = "EXECUTING" \/ exec[k].status = "none"
        /\ a.ok = "true" => applied[k] = 1
        /\ a.ok = "false" /\ a.safe => applied[k] = 0
    BY <1>13, <2>k DEF Persist, ConnectorInv, ConnectorTypeOK, Calls, CallSound, Exists
  <2>2. exec' = IF Exists(k) THEN [exec EXCEPT ![k] = Outcome(a)] ELSE exec
    BY <1>13, <2>k DEF Persist, Update
  <2>3. /\ a.ok \in {"true", "false", "none"} /\ a.safe \in BOOLEAN
        /\ a.ok = "true" => Outcome(a).status = "SUCCEEDED"
        /\ a.ok = "false" => Outcome(a).status = "FAILED"
        /\ a.ok = "none" => Outcome(a).status = "UNKNOWN_OUTCOME"
        /\ Outcome(a).safe = a.safe
    BY <2>1 DEF Outcome, Answers
  <2> HIDE DEF a
  <2>4. CASE exec[k].status = "none"
    BY <1>s, <2>1, <2>2, <2>4 DEF Exists
  <2>5. CASE exec[k].status = "EXECUTING"
    <3>1. /\ exec'[k] = Outcome(a) /\ draft.status # "DELETED"
          /\ \A j \in Keys \ {k} : exec'[j] = exec[j]
      BY <1>t, <1>g, <2>1, <2>2, <2>5 DEF Exists
    <3>2. Phase(k) = "doubt" /\ \A j \in Keys \ {k} : Phase(j)' = Phase(j)
      BY <2>1, <2>5, <3>1 DEF Phase
    <3>3. CASE a.ok = "true"
      <4>1. Phase(k)' = "done"
        BY <2>1, <2>3, <3>1, <3>3 DEF Phase
      <4>2. Write!Confirm(k)
        BY <2>1, <3>2, <3>3, <4>1, WriteOne DEF Write!Confirm
      <4>3. QED
        BY <2>1, <4>2 DEF Write!Next
    <3>4. CASE a.ok = "false" /\ a.safe
      <4>1. Phase(k)' = "open"
        BY <2>1, <2>3, <3>1, <3>4 DEF Phase
      <4>2. Write!Reopen(k)
        BY <2>1, <3>2, <3>4, <4>1, WriteOne DEF Write!Reopen
      <4>3. QED
        BY <2>1, <4>2 DEF Write!Next
    <3>5. CASE a.ok = "false" /\ ~a.safe
      <4>1. Phase(k)' = "refused"
        BY <2>1, <2>3, <3>1, <3>5 DEF Phase
      <4>2. Write!Refuse(k)
        BY <2>1, <3>2, <4>1, WriteOne DEF Write!Refuse
      <4>3. QED
        BY <2>1, <4>2 DEF Write!Next
    <3>6. CASE a.ok = "none"
      <4>1. \A j \in Keys : Phase(j)' = Phase(j)
        BY <2>1, <2>3, <3>1, <3>2, <3>6 DEF Phase
      <4>2. QED
        BY <2>1, <4>1, WriteStutter
    <3>7. QED
      BY <2>3, <3>3, <3>4, <3>5, <3>6
  <2>6. QED
    BY <2>1, <2>4, <2>5
<1>14. CASE RecoverOrphanedExecutions
  <2>1. draft' = draft /\ applied' = applied
    BY <1>14 DEF RecoverOrphanedExecutions
  <2>2. \A j \in Keys :
           \/ exec'[j] = exec[j]
           \/ exec[j].status = "EXECUTING" /\ exec'[j].status = "UNKNOWN_OUTCOME"
    BY <1>14, <1>t, RowUpdates DEF RecoverOrphanedExecutions, Orphan, Statuses
  <2>3. \A j \in Keys : Phase(j)' = Phase(j)
    BY <2>1, <2>2 DEF Phase
  <2>4. QED
    BY <2>1, <2>3, WriteStutter
<1>15. ASSUME NEW k \in Keys, ReconcileUnknownOutcome(k)
       PROVE  Write!Next
  <2>1. /\ draft' = draft /\ applied' = applied
        /\ exec[k].status = "UNKNOWN_OUTCOME" /\ draft.status # "DELETED"
        /\ \A j \in Keys \ {k} : exec'[j] = exec[j]
    BY <1>15, <1>t, <1>g DEF ReconcileUnknownOutcome
  <2>2. /\ applied[k] > 0 => exec'[k].status = "SUCCEEDED"
        /\ ~(applied[k] > 0) => exec'[k].status = "FAILED" /\ exec'[k].safe
    BY <1>15, <1>t, RowUpdates DEF ReconcileUnknownOutcome, Statuses
  <2>3. /\ Phase(k) = "doubt"
        /\ \A j \in Keys \ {k} : Phase(j)' = Phase(j)
    BY <2>1 DEF Phase
  <2>4. CASE applied[k] > 0
    <3>1. applied[k] = 1 /\ Phase(k)' = "done"
      BY <1>t, <2>1, <2>2, <2>4 DEF Phase, ConnectorInv, AtMostOnce
    <3>2. Write!Confirm(k)
      BY <2>1, <2>3, <3>1, WriteOne DEF Write!Confirm
    <3>3. QED
      BY <3>2 DEF Write!Next
  <2>5. CASE ~(applied[k] > 0)
    <3>1. applied[k] = 0 /\ Phase(k)' = "open"
      BY <1>t, <2>1, <2>2, <2>5 DEF Phase
    <3>2. Write!Reopen(k)
      BY <2>1, <2>3, <3>1, WriteOne DEF Write!Reopen
    <3>3. QED
      BY <3>2 DEF Write!Next
  <2>6. QED
    BY <2>4, <2>5
<1>16. CASE UNCHANGED vars
  BY <1>16, <1>s DEF vars
<1>17. QED
  BY <1>1, <1>2, <1>3, <1>4, <1>5, <1>6, <1>7, <1>8, <1>9, <1>10, <1>11, <1>12,
     <1>13, <1>14, <1>15, <1>16
  DEF Next

\* Every behaviour of the execution rows is one of audited external writes.
THEOREM Audited == Spec => WriteSpec
<1>1. ConnectorInv /\ [Next]_vars => [Write!Next]_Write!vars
  BY WriteStep
<1>2. QED
  BY <1>1, WriteInit, ConnectorInvariance, PTL DEF Spec, WriteSpec, Write!Spec

=============================================================================

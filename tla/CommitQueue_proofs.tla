------------------------- MODULE CommitQueue_proofs -------------------------
(***************************************************************************)
(* Proofs about CommitQueue for every set of resetters and every bound.    *)
(*                                                                         *)
(* TypeOK is inductive.  LogOrdered, ClearedStaysClear and NothingStranded *)
(* are not: IInv adds what keeps them true, above all that a number of the *)
(* current version which can still be answered is neither behind the queue *)
(* (Passed) nor behind an answer already in qa_pairs (LogBehind), and that *)
(* the cut of a reset separates the versions (Cuts).                       *)
(***************************************************************************)
EXTENDS CommitQueue, SequenceTheorems, TLAPS

-----------------------------------------------------------------------------
(* Sequences: cutting a list of answers at either end.                     *)

LEMMA SubSeqFacts ==
    ASSUME NEW S, NEW q \in Seq(S), NEW m \in 1 .. Len(q) + 1, NEW n \in 0 .. Len(q),
           m <= n + 1
    PROVE  /\ SubSeq(q, m, n) \in Seq(S)
           /\ Len(SubSeq(q, m, n)) = n - m + 1
           /\ \A i \in 1 .. Len(SubSeq(q, m, n)) :
                /\ m + i - 1 \in 1 .. Len(q)
                /\ SubSeq(q, m, n)[i] = q[m + i - 1]
  OBVIOUS

\* What add_qa leaves is a suffix of the extended list.
LEMMA KeepNewestFacts ==
    ASSUME NEW S, NEW q \in Seq(S)
    PROVE  /\ KeepNewest(q) \in Seq(S)
           /\ \E d \in Nat :
                 /\ d + Len(KeepNewest(q)) = Len(q)
                 /\ \A i \in 1 .. Len(KeepNewest(q)) : KeepNewest(q)[i] = q[d + i]
<1>1. CASE Len(q) > QaCap
  <2> DEFINE d == Len(q) - QaCap
             k == SubSeq(q, d + 1, Len(q))
  <2>1. /\ d \in Nat
        /\ d + 1 \in 1 .. Len(q) + 1
        /\ Len(q) \in 0 .. Len(q)
        /\ d + 1 <= Len(q) + 1
    BY <1>1, BoundsAssumption
  <2>2. KeepNewest(q) = k
    BY <1>1 DEF KeepNewest
  <2>3. /\ k \in Seq(S)
        /\ Len(k) = Len(q) - (d + 1) + 1
        /\ \A i \in 1 .. Len(k) : k[i] = q[(d + 1) + i - 1]
    BY <2>1, SubSeqFacts
  <2>4. d + Len(k) = Len(q) /\ \A i \in 1 .. Len(k) : k[i] = q[d + i]
    BY <2>1, <2>3
  <2>5. QED
    BY <2>1, <2>2, <2>3, <2>4
<1>2. CASE ~(Len(q) > QaCap)
  <2>1. KeepNewest(q) = q
    BY <1>2 DEF KeepNewest
  <2>2. 0 + Len(q) = Len(q) /\ \A i \in 1 .. Len(q) : q[i] = q[0 + i]
    OBVIOUS
  <2>3. QED
    BY <2>1, <2>2
<1>3. QED
  BY <1>1, <1>2

-----------------------------------------------------------------------------
(* Type correctness.                                                       *)

LEMMA TypeInit == Init => TypeOK
<1> SUFFICES ASSUME Init
             PROVE  TypeOK
  OBVIOUS
<1>1. nextSubmitSeq \in 0 .. MaxSubmits /\ sessionVersion \in 0 .. MaxResets
  BY BoundsAssumption DEF Init
<1>2. ver \in [Seqs -> Nat] /\ qaPairs \in Seq(Seqs)
  BY DEF Init
<1>3. reset \in [Resetters -> [pc : {"idle", "commit", "data"}, cut : Nat, v : Nat]]
  BY DEF Init, Idle
<1>4. QED
  BY <1>1, <1>2, <1>3 DEF Init, TypeOK, Free, Applying

LEMMA TypeStep == TypeOK /\ [Next]_vars => TypeOK'
<1> SUFFICES ASSUME TypeOK, [Next]_vars
             PROVE  TypeOK'
  OBVIOUS
<1> USE BoundsAssumption DEF TypeOK, Applying, LockFree
<1>1. CASE SubmitAnswerTask
  <2>1. nextSubmitSeq \in Seqs /\ nextSubmitSeq + 1 \in 0 .. MaxSubmits
    BY <1>1 DEF SubmitAnswerTask, Seqs
  <2>2. sessionVersion \in Nat
    OBVIOUS
  <2>3. QED
    BY <1>1, <2>1, <2>2 DEF SubmitAnswerTask, queueVars, ghostVars
<1>2. ASSUME NEW s \in Seqs, FlushCommit(s)
      PROVE  TypeOK'
  BY <1>2 DEF FlushCommit, queueVars, ghostVars, Looping
<1>3. ASSUME NEW s \in Seqs, MarkSeqSkipped(s)
      PROVE  TypeOK'
  BY <1>3 DEF MarkSeqSkipped, queueVars, ghostVars, Looping
<1>4. ASSUME NEW s \in Seqs, WorkerDies(s)
      PROVE  TypeOK'
  BY <1>4 DEF WorkerDies, queueVars
<1>5. CASE DrainSkip
  BY <1>5 DEF DrainSkip, ghostVars
<1>6. CASE DrainApply
  BY <1>6 DEF DrainApply, ghostVars
<1>7. CASE DrainWrite
  <2>1. Append(qaPairs, nextCommitSeq) \in Seq(Seqs)
    BY <1>7 DEF DrainWrite
  <2>2. QED
    BY <1>7, <2>1, KeepNewestFacts DEF DrainWrite, ghostVars
<1>8. CASE DrainNoWrite
  BY <1>8 DEF DrainNoWrite, ghostVars, Looping
<1>9. CASE DrainDone
  BY <1>9 DEF DrainDone, ghostVars, Looping
<1>10. CASE DrainRollback
  <2>1. Len(qaPairs) > drain.pre => SubSeq(qaPairs, 1, Len(qaPairs) - 1) \in Seq(Seqs)
    OBVIOUS
  <2>2. QED
    BY <1>10, <2>1 DEF DrainRollback, ghostVars, Looping
<1>11. CASE DrainExit
  BY <1>11 DEF DrainExit, ghostVars, Free
<1>12. ASSUME NEW r \in Resetters, ResetBegin(r)
       PROVE  TypeOK'
  BY <1>12 DEF ResetBegin, queueVars, ghostVars
<1>13. ASSUME NEW r \in Resetters, ResetCommit(r)
       PROVE  TypeOK'
  BY <1>13 DEF ResetCommit
<1>14. ASSUME NEW r \in Resetters, ResetData(r)
       PROVE  TypeOK'
  BY <1>14 DEF ResetData, queueVars, Idle
<1>15. ASSUME NEW r \in Resetters, ResetKeep(r)
       PROVE  TypeOK'
  BY <1>15 DEF ResetKeep, queueVars, ghostVars, Idle
<1>16. CASE UNCHANGED vars
  BY <1>16 DEF vars, queueVars, ghostVars
<1>17. QED
  BY <1>1, <1>2, <1>3, <1>4, <1>5, <1>6, <1>7, <1>8, <1>9, <1>10, <1>11, <1>12,
     <1>13, <1>14, <1>15, <1>16 DEF Next, Report, Drain, ResetEnd

-----------------------------------------------------------------------------
(* The inductive invariant.                                                *)

\* Nothing mentions a number that was not submitted.
Known ==
    /\ \A s \in Seqs : s < nextSubmitSeq => ver[s] <= sessionVersion
    /\ \A s \in owed \union commitBuffer \union skippedSeqs : s < nextSubmitSeq
    /\ \A i \in 1 .. Len(qaPairs) : qaPairs[i] < nextSubmitSeq
    /\ nextCommitSeq <= nextSubmitSeq
    /\ Applying => nextCommitSeq < nextSubmitSeq
    /\ clearedAt <= sessionVersion

\* A number is in one place.
Apart ==
    /\ owed \intersect (commitBuffer \union skippedSeqs) = {}
    /\ commitBuffer \intersect skippedSeqs = {}
    /\ Applying => nextCommitSeq \notin owed \union commitBuffer \union skippedSeqs

\* The cut of a reset under way separates the versions before it from its own.
Cuts ==
    \A r \in Resetters : reset[r].pc # "idle" =>
        /\ reset[r].cut <= nextSubmitSeq
        /\ reset[r].v <= sessionVersion
        /\ \A s \in Seqs : s < reset[r].cut => ver[s] < reset[r].v

\* The queue has not passed a number of the current version that can still be
\* answered, not even when a reset rewinds or forwards it.
Passed ==
    \A s \in owed \union commitBuffer : ver[s] = sessionVersion => s >= nextCommitSeq

\* No answer that can still be delivered belongs before one already delivered.
LogBehind ==
    \A s \in Eligible : \A i \in 1 .. Len(qaPairs) : qaPairs[i] < s

\* An answer past the version check is younger than every reset that may still
\* empty qa_pairs.
WriteFresh ==
    drain.pc = "write" =>
        /\ ver[nextCommitSeq] >= clearedAt
        /\ \A r \in Resetters : reset[r].pc = "data" =>
              ver[nextCommitSeq] >= reset[r].v

IInv ==
    /\ TypeOK
    /\ Known
    /\ Apart
    /\ Cuts
    /\ Passed
    /\ LogOrdered
    /\ LogBehind
    /\ WriteFresh
    /\ ClearedStaysClear
    /\ NothingStranded

LEMMA InvInit == Init => IInv
<1> SUFFICES ASSUME Init
             PROVE  IInv
  OBVIOUS
<1>1. TypeOK
  BY TypeInit
<1>2. Known /\ Apart /\ Cuts /\ Passed
  BY <1>1, BoundsAssumption DEF Init, Known, Apart, Cuts, Passed, Applying, Free, Idle
<1>3. qaPairs = <<>> /\ Len(qaPairs) = 0
  BY DEF Init
<1>4. LogOrdered /\ LogBehind /\ WriteFresh /\ ClearedStaysClear
  BY <1>3 DEF Init, LogOrdered, LogBehind, WriteFresh, ClearedStaysClear, Free
<1>5. NothingStranded
  BY DEF Init, NothingStranded, Outstanding, Seqs
<1>6. QED
  BY <1>1, <1>2, <1>4, <1>5 DEF IInv

\* A closure that returns, in whatever way, strands no other number.
LEMMA StrandPass ==
    ASSUME IInv,
           nextCommitSeq' = nextCommitSeq + 1,
           UNCHANGED <<nextSubmitSeq, sessionVersion, ver, owed, commitBuffer,
                       skippedSeqs, ghostVars>>
    PROVE  NothingStranded'
<1> SUFFICES ASSUME ~clobbered', NEW s \in Outstanding'
             PROVE  Accounted(s)' \/ s \in lost'
  BY DEF NothingStranded
<1>1. nextCommitSeq \in Nat /\ s \in Nat
  BY DEF IInv, TypeOK, Outstanding, Seqs
<1>2. s \in Outstanding /\ s # nextCommitSeq /\ ~clobbered
  BY <1>1 DEF Outstanding, ghostVars
<1>3. Accounted(s) \/ s \in lost
  BY <1>2 DEF IInv, NothingStranded
<1>4. s \in owed \union commitBuffer \union skippedSeqs \/ s \in lost
  BY <1>2, <1>3 DEF Accounted
<1>5. QED
  BY <1>4 DEF Accounted, ghostVars

LEMMA InvStep == IInv /\ [Next]_vars => IInv'
<1> SUFFICES ASSUME IInv, [Next]_vars
             PROVE  IInv'
  OBVIOUS
<1>0. TypeOK'
  BY TypeStep DEF IInv
<1>a. \A s \in Seqs : s \in Nat
  BY DEF Seqs
<1> USE BoundsAssumption, <1>0, <1>a DEF IInv
<1>1. CASE SubmitAnswerTask
  <2>1. Apart'
    BY <1>1 DEF SubmitAnswerTask, TypeOK, Apart, Applying, Known, queueVars,
       ghostVars, Seqs
  <2>2. Passed'
    BY <1>1 DEF SubmitAnswerTask, TypeOK, Passed, Known, queueVars, ghostVars,
       Seqs
  <2>3. LogBehind'
    <3>1. qaPairs' = qaPairs
      BY <1>1 DEF SubmitAnswerTask
    <3>2. Eligible' \subseteq Eligible \union {nextSubmitSeq}
      BY <1>1 DEF SubmitAnswerTask, TypeOK, Eligible, Known, queueVars, Seqs
    <3>3. \A i \in 1 .. Len(qaPairs) : qaPairs[i] < nextSubmitSeq
      BY DEF Known
    <3>4. QED
      BY <3>1, <3>2, <3>3 DEF LogBehind
  <2>4. WriteFresh'
    BY <1>1 DEF SubmitAnswerTask, TypeOK, WriteFresh, Known, Applying, queueVars,
       ghostVars, Seqs
  <2>5. ClearedStaysClear'
    BY <1>1 DEF SubmitAnswerTask, TypeOK, ClearedStaysClear, Known, queueVars,
       ghostVars, Seqs
  <2>6. Known' /\ Cuts'
    BY <1>1 DEF SubmitAnswerTask, TypeOK, Known, Applying, Cuts, queueVars,
       ghostVars, Seqs
  <2>7. LogOrdered'
    BY <1>1 DEF SubmitAnswerTask, TypeOK, LogOrdered, queueVars, ghostVars, Seqs
  <2>8. NothingStranded'
    BY <1>1 DEF SubmitAnswerTask, TypeOK, NothingStranded, Outstanding, Accounted,
       Applying, queueVars, ghostVars, Seqs
  <2>9. QED
    BY <2>1, <2>2, <2>3, <2>4, <2>5, <2>6, <2>7, <2>8
<1>2. ASSUME NEW s \in Seqs, FlushCommit(s)
      PROVE  IInv'
  <2>1. Known' /\ Apart' /\ Cuts'
    BY <1>2 DEF FlushCommit, TypeOK, Known, Applying, Apart, Cuts, queueVars,
       ghostVars, LockFree, Looping
  <2>2. Passed' /\ LogOrdered' /\ LogBehind'
    BY <1>2 DEF FlushCommit, TypeOK, Passed, LogOrdered, LogBehind, Eligible,
       queueVars, ghostVars, LockFree, Looping
  <2>3. WriteFresh' /\ ClearedStaysClear'
    BY <1>2 DEF FlushCommit, TypeOK, WriteFresh, ClearedStaysClear, queueVars,
       ghostVars, LockFree, Looping
  <2>4. NothingStranded'
    BY <1>2 DEF FlushCommit, TypeOK, NothingStranded, Outstanding, Accounted,
       Applying, queueVars, ghostVars, LockFree, Looping
  <2>5. QED
    BY <2>1, <2>2, <2>3, <2>4
<1>3. ASSUME NEW s \in Seqs, MarkSeqSkipped(s)
      PROVE  IInv'
  <2>1. Known' /\ Apart' /\ Cuts'
    BY <1>3 DEF MarkSeqSkipped, TypeOK, Known, Applying, Apart, Cuts, queueVars,
       ghostVars, LockFree, Looping
  <2>2. Passed' /\ LogOrdered' /\ LogBehind'
    BY <1>3 DEF MarkSeqSkipped, TypeOK, Passed, LogOrdered, LogBehind, Eligible,
       queueVars, ghostVars, LockFree, Looping
  <2>3. WriteFresh' /\ ClearedStaysClear'
    BY <1>3 DEF MarkSeqSkipped, TypeOK, WriteFresh, ClearedStaysClear, queueVars,
       ghostVars, LockFree, Looping
  <2>4. NothingStranded'
    BY <1>3 DEF MarkSeqSkipped, TypeOK, NothingStranded, Outstanding, Accounted,
       Applying, queueVars, ghostVars, LockFree, Looping
  <2>5. QED
    BY <2>1, <2>2, <2>3, <2>4
<1>4. ASSUME NEW s \in Seqs, WorkerDies(s)
      PROVE  IInv'
  <2>1. Known' /\ Apart' /\ Cuts'
    BY <1>4 DEF WorkerDies, TypeOK, Known, Applying, Apart, Cuts, queueVars
  <2>2. Passed' /\ LogOrdered' /\ LogBehind'
    BY <1>4 DEF WorkerDies, TypeOK, Passed, LogOrdered, LogBehind, Eligible,
       queueVars
  <2>3. WriteFresh' /\ ClearedStaysClear'
    BY <1>4 DEF WorkerDies, TypeOK, WriteFresh, ClearedStaysClear, queueVars
  <2>4. NothingStranded'
    BY <1>4 DEF WorkerDies, TypeOK, NothingStranded, Outstanding, Accounted,
       Applying, queueVars
  <2>5. QED
    BY <2>1, <2>2, <2>3, <2>4
<1>5. CASE DrainSkip
  <2>1. Passed'
    BY <1>5 DEF DrainSkip, TypeOK, Passed, Apart, ghostVars
  <2>2. Known' /\ Apart' /\ Cuts'
    BY <1>5 DEF DrainSkip, TypeOK, Known, Applying, Apart, Cuts, ghostVars
  <2>3. LogOrdered' /\ LogBehind'
    BY <1>5 DEF DrainSkip, TypeOK, LogOrdered, LogBehind, Eligible, ghostVars
  <2>4. WriteFresh' /\ ClearedStaysClear'
    BY <1>5 DEF DrainSkip, TypeOK, WriteFresh, ClearedStaysClear, ghostVars
  <2>5. NothingStranded'
    BY <1>5 DEF DrainSkip, TypeOK, NothingStranded, Outstanding, Accounted,
       Applying, ghostVars
  <2>6. QED
    BY <2>1, <2>2, <2>3, <2>4, <2>5
<1>6. CASE DrainApply
  <2>1. Passed'
    BY <1>6 DEF DrainApply, TypeOK, Passed, Apart, ghostVars
  <2>2. WriteFresh'
    BY <1>6 DEF DrainApply, TypeOK, WriteFresh, Known, Cuts, ghostVars
  <2>3. Known' /\ Apart' /\ Cuts'
    BY <1>6 DEF DrainApply, TypeOK, Known, Applying, Apart, Cuts, ghostVars
  <2>4. LogOrdered' /\ LogBehind'
    BY <1>6 DEF DrainApply, TypeOK, LogOrdered, LogBehind, Eligible, ghostVars
  <2>5. ClearedStaysClear'
    BY <1>6 DEF DrainApply, TypeOK, ClearedStaysClear, ghostVars
  <2>6. NothingStranded'
    BY <1>6 DEF DrainApply, TypeOK, NothingStranded, Outstanding, Accounted,
       Applying, ghostVars
  <2>7. QED
    BY <2>1, <2>2, <2>3, <2>4, <2>5, <2>6
<1>7. CASE DrainWrite
  <2> DEFINE q == Append(qaPairs, nextCommitSeq)
  <2>1. q \in Seq(Seqs) /\ Len(q) = Len(qaPairs) + 1
    BY <1>7 DEF DrainWrite, TypeOK, Applying
  <2>2. \A j \in 1 .. Len(q) :
           q[j] = IF j <= Len(qaPairs) THEN qaPairs[j] ELSE nextCommitSeq
    BY <2>1, <1>7 DEF DrainWrite, TypeOK, Applying
  <2>3. qaPairs' = KeepNewest(q)
    BY <1>7 DEF DrainWrite
  <2>4. PICK d \in Nat : /\ d + Len(qaPairs') = Len(q)
                         /\ \A i \in 1 .. Len(qaPairs') : qaPairs'[i] = q[d + i]
    BY <2>1, <2>3, KeepNewestFacts
  <2>5. nextCommitSeq \in Seqs /\ nextCommitSeq < nextSubmitSeq
    BY <1>7 DEF DrainWrite, TypeOK, Known, Applying
  <2>6. \A j \in 1 .. Len(qaPairs) : qaPairs[j] < nextCommitSeq
    BY <1>7 DEF DrainWrite, LogBehind, Eligible
  <2>. /\ Len(qaPairs) \in Nat /\ Len(qaPairs') \in Nat
       /\ \A j \in 1 .. Len(qaPairs) : qaPairs[j] \in Nat
    BY DEF TypeOK
  <2> HIDE DEF q
  <2>7. \A i \in 1 .. Len(qaPairs') :
           /\ d + i \in 1 .. Len(q)
           /\ qaPairs'[i] = IF d + i <= Len(qaPairs) THEN qaPairs[d + i] ELSE nextCommitSeq
    BY <2>1, <2>2, <2>4
  <2>8. /\ drain.pc = "write" /\ drain'.pc = "wrote"
        /\ UNCHANGED <<nextSubmitSeq, sessionVersion, ver, owed, commitBuffer,
                       skippedSeqs, nextCommitSeq, reset, ghostVars>>
    BY <1>7 DEF DrainWrite, TypeOK
  <2>9. \A i \in 1 .. Len(qaPairs') :
            qaPairs'[i] = nextCommitSeq \/ \E j \in 1 .. Len(qaPairs) : qaPairs'[i] = qaPairs[j]
    BY <2>1, <2>7
  <2>10. Known'
    BY <2>5, <2>8, <2>9 DEF Known, Applying, ghostVars
  <2>11. LogOrdered'
    <3> SUFFICES ASSUME NEW i \in 1 .. Len(qaPairs'), NEW j \in 1 .. Len(qaPairs'), i < j
                 PROVE  qaPairs'[i] < qaPairs'[j]
      BY DEF LogOrdered
    <3>1. d + i \in 1 .. Len(qaPairs) /\ qaPairs'[i] = qaPairs[d + i]
      BY <2>1, <2>7
    <3>2. CASE d + j <= Len(qaPairs)
      BY <2>1, <2>7, <3>1, <3>2 DEF LogOrdered
    <3>3. CASE ~(d + j <= Len(qaPairs))
      BY <2>6, <2>7, <3>1, <3>3
    <3>4. QED
      BY <3>2, <3>3
  <2>12. \A i \in 1 .. Len(qaPairs') : qaPairs'[i] <= nextCommitSeq
    BY <2>5, <2>6, <2>9
  <2>13. \A s \in owed \union commitBuffer : ver[s] = sessionVersion => s > nextCommitSeq
    BY <1>7, <2>5 DEF DrainWrite, Passed, Apart, Applying, TypeOK
  <2>14. LogBehind'
    <3>1. \A s \in Eligible' : s \in Nat /\ s > nextCommitSeq
      BY <2>8, <2>13 DEF Eligible, TypeOK, ghostVars
    <3>2. \A i \in 1 .. Len(qaPairs') : qaPairs'[i] \in Nat
      BY <2>5, <2>9
    <3>3. QED
      BY <2>5, <2>12, <3>1, <3>2 DEF LogBehind
  <2>15. ClearedStaysClear'
    BY <2>8, <2>9 DEF ClearedStaysClear, WriteFresh, ghostVars
  <2>16. Apart' /\ Cuts' /\ Passed' /\ WriteFresh'
    BY <1>7 DEF DrainWrite, Apart, Cuts, Passed, WriteFresh, TypeOK, Applying, ghostVars
  <2>17. NothingStranded'
    BY <1>7
    DEF DrainWrite, NothingStranded, Outstanding, Accounted, Applying, TypeOK, ghostVars
  <2>18. QED
    BY <2>11, <2>14, <2>15, <2>16, <2>17, <2>10
<1>8. CASE DrainNoWrite
  <2>1. Passed'
    BY <1>8 DEF DrainNoWrite, TypeOK, Passed, Apart, Applying, ghostVars, Looping
  <2>2. Known' /\ Apart' /\ Cuts'
    BY <1>8 DEF DrainNoWrite, TypeOK, Known, Applying, Apart, Cuts, ghostVars,
       Looping
  <2>3. LogOrdered' /\ LogBehind'
    <3>1. qaPairs' = qaPairs
      BY <1>8 DEF DrainNoWrite
    <3>2. Eligible' \subseteq Eligible
      BY <1>8 DEF DrainNoWrite, TypeOK, Eligible, Looping
    <3>3. QED
      BY <3>1, <3>2 DEF LogOrdered, LogBehind
  <2>4. WriteFresh' /\ ClearedStaysClear'
    BY <1>8 DEF DrainNoWrite, TypeOK, WriteFresh, ClearedStaysClear, ghostVars,
       Looping
  <2>5. NothingStranded'
    BY <1>8, StrandPass DEF DrainNoWrite, Applying
  <2>6. QED
    BY <2>1, <2>2, <2>3, <2>4, <2>5
<1>9. CASE DrainDone
  <2>1. Passed'
    BY <1>9 DEF DrainDone, TypeOK, Passed, Apart, Applying, ghostVars, Looping
  <2>2. Known' /\ Apart' /\ Cuts'
    BY <1>9 DEF DrainDone, TypeOK, Known, Applying, Apart, Cuts, ghostVars,
       Looping
  <2>3. LogOrdered' /\ LogBehind'
    <3>1. qaPairs' = qaPairs
      BY <1>9 DEF DrainDone
    <3>2. Eligible' \subseteq Eligible
      BY <1>9 DEF DrainDone, TypeOK, Eligible, Looping
    <3>3. QED
      BY <3>1, <3>2 DEF LogOrdered, LogBehind
  <2>4. WriteFresh' /\ ClearedStaysClear'
    BY <1>9 DEF DrainDone, TypeOK, WriteFresh, ClearedStaysClear, ghostVars,
       Looping
  <2>5. NothingStranded'
    BY <1>9, StrandPass DEF DrainDone, Applying
  <2>6. QED
    BY <2>1, <2>2, <2>3, <2>4, <2>5
<1>10. CASE DrainRollback
  <2>1. /\ Len(qaPairs') <= Len(qaPairs)
        /\ \A i \in 1 .. Len(qaPairs') : qaPairs'[i] = qaPairs[i]
    BY <1>10 DEF DrainRollback, TypeOK
  <2>. Len(qaPairs) \in Nat /\ Len(qaPairs') \in Nat
    BY DEF TypeOK
  <2>2. Known' /\ ClearedStaysClear'
    BY <1>10, <2>1
    DEF DrainRollback, Known, ClearedStaysClear, TypeOK, Applying, Looping, ghostVars
  <2>3. LogOrdered'
    BY <2>1 DEF LogOrdered
  <2>4. LogBehind'
    <3>1. Eligible' \subseteq Eligible
      BY <1>10 DEF DrainRollback, Eligible, Looping, ghostVars
    <3>2. QED
      BY <2>1, <3>1 DEF LogBehind
  <2>5. Passed'
    BY <1>10 DEF DrainRollback, Passed, Apart, Applying, TypeOK, Looping, ghostVars
  <2>6. Apart' /\ Cuts' /\ WriteFresh'
    BY <1>10 DEF DrainRollback, Apart, Cuts, WriteFresh, Applying, TypeOK, Looping, ghostVars
  <2>7. /\ drain.pc = "wrote" /\ drain' = Looping /\ nextCommitSeq' = nextCommitSeq + 1
        /\ UNCHANGED <<nextSubmitSeq, sessionVersion, ver, owed, commitBuffer,
                       skippedSeqs, ghostVars>>
    BY <1>10 DEF DrainRollback
  <2>8. NothingStranded'
    BY <2>7, StrandPass
  <2>9. QED
    BY <2>2, <2>4, <2>5, <2>6, <2>8, <2>3
<1>11. CASE DrainExit
  <2>1. Known' /\ Apart' /\ Cuts'
    BY <1>11 DEF DrainExit, TypeOK, Known, Applying, Apart, Cuts, ghostVars, Free
  <2>2. Passed' /\ LogOrdered' /\ LogBehind'
    BY <1>11 DEF DrainExit, TypeOK, Passed, LogOrdered, LogBehind, Eligible,
       ghostVars, Free
  <2>3. WriteFresh' /\ ClearedStaysClear'
    BY <1>11 DEF DrainExit, TypeOK, WriteFresh, ClearedStaysClear, ghostVars, Free
  <2>4. NothingStranded'
    BY <1>11 DEF DrainExit, TypeOK, NothingStranded, Outstanding, Accounted,
       Applying, ghostVars, Free
  <2>5. QED
    BY <2>1, <2>2, <2>3, <2>4
<1>12. ASSUME NEW r \in Resetters, ResetBegin(r)
      PROVE  IInv'
  <2>1. Cuts'
    BY <1>12 DEF ResetBegin, TypeOK, Cuts, Known, queueVars, ghostVars
  <2>2. Passed'
    BY <1>12 DEF ResetBegin, TypeOK, Passed, Known, queueVars, ghostVars
  <2>3. LogBehind'
    BY <1>12 DEF ResetBegin, TypeOK, LogBehind, Eligible, Known, queueVars,
       ghostVars
  <2>4. NothingStranded'
    BY <1>12 DEF ResetBegin, TypeOK, NothingStranded, Outstanding, Accounted,
       Applying, Known, queueVars, ghostVars
  <2>5. Known' /\ Apart'
    BY <1>12 DEF ResetBegin, TypeOK, Known, Applying, Apart, queueVars, ghostVars
  <2>6. LogOrdered'
    BY <1>12 DEF ResetBegin, TypeOK, LogOrdered, queueVars, ghostVars
  <2>7. WriteFresh' /\ ClearedStaysClear'
    BY <1>12 DEF ResetBegin, TypeOK, WriteFresh, ClearedStaysClear, queueVars,
       ghostVars
  <2>8. QED
    BY <2>1, <2>2, <2>3, <2>4, <2>5, <2>6, <2>7
<1>13. ASSUME NEW r \in Resetters, ResetCommit(r)
      PROVE  IInv'
  <2> DEFINE cut == reset[r].cut
  <2>1. /\ cut \in Nat /\ cut <= nextSubmitSeq
        /\ \A s \in Seqs : ver[s] = sessionVersion => s >= cut
    <3>1. reset[r].pc = "commit" /\ reset[r].cut \in Nat /\ reset[r].v \in Nat
      BY <1>13 DEF ResetCommit, TypeOK
    <3>2. /\ cut <= nextSubmitSeq
          /\ reset[r].v <= sessionVersion
          /\ \A s \in Seqs : s < cut => ver[s] < reset[r].v
      BY <3>1 DEF Cuts
    <3>3. sessionVersion \in Nat /\ \A s \in Seqs : ver[s] \in Nat
      BY DEF TypeOK
    <3>4. QED
      BY <3>1, <3>2, <3>3
  <2>2. /\ drain.pc = "free" /\ drain' = drain
        /\ commitBuffer' = {} /\ skippedSeqs' = {} /\ nextCommitSeq' = cut
        /\ clobbered' = (clobbered \/ NewerThan(cut))
        /\ UNCHANGED <<nextSubmitSeq, sessionVersion, ver, owed, qaPairs, lost, clearedAt>>
    BY <1>13 DEF ResetCommit, LockFree
  <2> HIDE DEF cut
  <2>3. Known' /\ Apart' /\ Passed'
    BY <2>1, <2>2 DEF Known, Apart, Passed, Applying, TypeOK
  <2>4. LogOrdered' /\ LogBehind' /\ ClearedStaysClear'
    BY <2>2 DEF LogOrdered, LogBehind, ClearedStaysClear, Eligible
  <2>5. Cuts' /\ WriteFresh'
    BY <1>13 DEF ResetCommit, LockFree, Cuts, WriteFresh, TypeOK
  <2>6. NothingStranded'
    <3> SUFFICES ASSUME ~clobbered', NEW s \in Outstanding'
                 PROVE  s \in owed \/ s \in lost
      BY <2>2 DEF NothingStranded, Accounted
    <3>1. /\ s \in Seqs /\ s < nextSubmitSeq /\ s >= cut /\ ver[s] = sessionVersion
          /\ ~clobbered /\ ~NewerThan(cut)
      BY <2>2 DEF Outstanding
    <3>2. nextCommitSeq <= cut /\ s \notin commitBuffer \union skippedSeqs
      BY <2>1, <3>1 DEF NewerThan, TypeOK
    <3>a. s \in Nat /\ nextCommitSeq \in Nat
      BY <3>1 DEF TypeOK
    <3>b. s >= nextCommitSeq
      BY <2>1, <3>1, <3>2, <3>a
    <3>3. s \in Outstanding
      BY <3>1, <3>b DEF Outstanding
    <3>4. QED
      BY <2>2, <3>1, <3>2, <3>3 DEF NothingStranded, Accounted, Applying
  <2>7. QED
    BY <2>3, <2>4, <2>5, <2>6
<1>14. ASSUME NEW r \in Resetters, ResetData(r)
      PROVE  IInv'
  <2>1. Known'
    BY <1>14 DEF ResetData, TypeOK, Known, Applying, Cuts, queueVars, Idle
  <2>2. WriteFresh'
    BY <1>14 DEF ResetData, TypeOK, WriteFresh, Cuts, queueVars, Idle
  <2>3. Apart' /\ Cuts'
    BY <1>14 DEF ResetData, TypeOK, Apart, Applying, Cuts, queueVars, Idle
  <2>4. Passed' /\ LogOrdered' /\ LogBehind'
    BY <1>14 DEF ResetData, TypeOK, Passed, LogOrdered, LogBehind, Eligible,
       queueVars, Idle
  <2>5. ClearedStaysClear'
    BY <1>14 DEF ResetData, TypeOK, ClearedStaysClear, queueVars, Idle
  <2>6. NothingStranded'
    BY <1>14 DEF ResetData, TypeOK, NothingStranded, Outstanding, Accounted,
       Applying, queueVars, Idle
  <2>7. QED
    BY <2>1, <2>2, <2>3, <2>4, <2>5, <2>6
<1>15. ASSUME NEW r \in Resetters, ResetKeep(r)
      PROVE  IInv'
  <2>1. Known' /\ Apart' /\ Cuts'
    BY <1>15 DEF ResetKeep, TypeOK, Known, Applying, Apart, Cuts, queueVars,
       ghostVars, Idle
  <2>2. Passed' /\ LogOrdered' /\ LogBehind'
    BY <1>15 DEF ResetKeep, TypeOK, Passed, LogOrdered, LogBehind, Eligible,
       queueVars, ghostVars, Idle
  <2>3. WriteFresh' /\ ClearedStaysClear'
    BY <1>15 DEF ResetKeep, TypeOK, WriteFresh, ClearedStaysClear, queueVars,
       ghostVars, Idle
  <2>4. NothingStranded'
    BY <1>15 DEF ResetKeep, TypeOK, NothingStranded, Outstanding, Accounted,
       Applying, queueVars, ghostVars, Idle
  <2>5. QED
    BY <2>1, <2>2, <2>3, <2>4
<1>16. CASE UNCHANGED vars
  BY <1>16
  DEF vars, queueVars, ghostVars, TypeOK, Known, Apart, Cuts, Passed, LogOrdered,
      LogBehind, WriteFresh, ClearedStaysClear, NothingStranded, Outstanding, Accounted,
      Applying, Eligible
<1>17. QED
  BY <1>1, <1>2, <1>3, <1>4, <1>5, <1>6, <1>7, <1>8, <1>9, <1>10, <1>11, <1>12, <1>13,
     <1>14, <1>15, <1>16 DEF Next, Report, Drain, ResetEnd

-----------------------------------------------------------------------------
(* The properties of the specification.                                    *)

\* Every variable keeps its type in every run of the queue.
THEOREM TypeCorrect == Spec => []TypeOK
  BY TypeInit, TypeStep, PTL DEF Spec

\* The strengthening holds in every run of the queue.
THEOREM Invariance == Spec => []IInv
  BY InvInit, InvStep, PTL DEF Spec

\* qa_pairs lists answers in submission order, each at most once, for every
\* interleaving of reports, drains and overlapping resets.
THEOREM Order == Spec => []LogOrdered
<1>1. IInv => LogOrdered
  BY DEF IInv
<1>2. QED
  BY <1>1, Invariance, PTL

\* After a reset has emptied qa_pairs no older answer comes back.
THEOREM Cleared == Spec => []ClearedStaysClear
<1>1. IInv => ClearedStaysClear
  BY DEF IInv
<1>2. QED
  BY <1>1, Invariance, PTL

\* The queue waits only for numbers somebody will still report, as long as no
\* reset overwrote newer state and no worker died silently.
THEOREM Stranding == Spec => []NothingStranded
<1>1. IInv => NothingStranded
  BY DEF IInv
<1>2. QED
  BY <1>1, Invariance, PTL

-----------------------------------------------------------------------------
(* The queue implements OrderedAnswers.                                    *)

LEMMA RefineInit == Init => Ordered!Init
  BY DEF Init, Ordered!Init, Eligible, Free

LEMMA RefineStep == IInv /\ [Next]_vars => [Ordered!Next]_Ordered!vars
<1> SUFFICES ASSUME IInv, [Next]_vars
             PROVE  [Ordered!Next]_Ordered!vars
  OBVIOUS
<1>a. \A s \in Seqs : s \in Nat
  BY DEF Seqs
<1>t. TypeOK /\ Known /\ Apart /\ Passed
  BY DEF IInv
<1>g. ASSUME Eligible' \subseteq Eligible, UNCHANGED <<nextSubmitSeq, qaPairs>>
      PROVE  [Ordered!Next]_Ordered!vars
  BY <1>g DEF Ordered!Next, Ordered!GiveUp
<1>1. CASE SubmitAnswerTask
  <2>1. nextSubmitSeq \in Seqs
    BY <1>1, <1>t, BoundsAssumption DEF SubmitAnswerTask, TypeOK, Seqs
  <2>2. Eligible' = Eligible \union {nextSubmitSeq}
    BY <1>1, <1>a, <1>t, <2>1
    DEF SubmitAnswerTask, Eligible, TypeOK, Known, queueVars
  <2>3. Ordered!Submit
    BY <1>1, <2>2 DEF SubmitAnswerTask, Ordered!Submit
  <2>4. QED
    BY <2>3 DEF Ordered!Next
<1>2. ASSUME NEW s \in Seqs, FlushCommit(s) \/ MarkSeqSkipped(s) \/ WorkerDies(s)
      PROVE  [Ordered!Next]_Ordered!vars
  BY <1>2, <1>g
  DEF FlushCommit, MarkSeqSkipped, WorkerDies, Eligible, LockFree, Looping, queueVars
<1>3. CASE DrainSkip \/ DrainApply \/ DrainNoWrite \/ DrainDone \/ DrainExit
  BY <1>3, <1>g
  DEF DrainSkip, DrainApply, DrainNoWrite, DrainDone, DrainExit, Eligible, Looping, Free
<1>4. CASE DrainWrite
  <2>1. nextCommitSeq \in Eligible
    BY <1>4 DEF DrainWrite, Eligible
  <2>2. nextCommitSeq \in Nat /\ drain'.pc = "wrote"
    BY <1>4, <1>t DEF DrainWrite, TypeOK
  <2>3. \A s \in owed \union commitBuffer : ver[s] = sessionVersion => s > nextCommitSeq
    BY <1>4, <1>a, <1>t, <2>2 DEF DrainWrite, Passed, Apart, Applying, TypeOK
  <2>4. Eligible' = {s \in owed \union commitBuffer : ver[s] = sessionVersion}
    BY <1>4, <2>2 DEF DrainWrite, Eligible
  <2>5. Eligible' = {s \in Eligible : s > nextCommitSeq}
    BY <2>2, <2>3, <2>4 DEF Eligible
  <2>6. Ordered!Deliver(nextCommitSeq)
    BY <1>4, <2>1, <2>5 DEF DrainWrite, Ordered!Deliver, KeepNewest, Ordered!Newest
  <2>7. QED
    BY <2>1, <2>6 DEF Ordered!Next
<1>5. CASE DrainRollback
  <2>1. Eligible' = Eligible /\ nextSubmitSeq' = nextSubmitSeq
    BY <1>5 DEF DrainRollback, Eligible, Looping
  <2>2. CASE Len(qaPairs) > drain.pre
    <3>1. qaPairs # <<>> /\ qaPairs' = SubSeq(qaPairs, 1, Len(qaPairs) - 1)
      BY <1>5, <1>t, <2>2 DEF DrainRollback, TypeOK
    <3>2. QED
      BY <2>1, <3>1 DEF Ordered!Next, Ordered!TakeBack
  <2>3. CASE ~(Len(qaPairs) > drain.pre)
    BY <1>5, <1>g, <2>1, <2>3 DEF DrainRollback
  <2>4. QED
    BY <2>2, <2>3
<1>6. ASSUME NEW r \in Resetters, ResetBegin(r)
      PROVE  [Ordered!Next]_Ordered!vars
  <2>1. \A s \in owed \union commitBuffer : ver[s] # sessionVersion + 1
    BY <1>a, <1>t, BoundsAssumption DEF TypeOK, Known
  <2>2. Eligible' \subseteq Eligible
    BY <1>6, <2>1 DEF ResetBegin, Eligible, queueVars
  <2>3. QED
    BY <1>6, <1>g, <2>2 DEF ResetBegin
<1>7. ASSUME NEW r \in Resetters, ResetCommit(r)
      PROVE  [Ordered!Next]_Ordered!vars
  BY <1>7, <1>g DEF ResetCommit, Eligible, LockFree
<1>8. ASSUME NEW r \in Resetters, ResetData(r)
      PROVE  [Ordered!Next]_Ordered!vars
  BY <1>8 DEF ResetData, Eligible, queueVars, Ordered!Next, Ordered!Clear
<1>9. ASSUME NEW r \in Resetters, ResetKeep(r)
      PROVE  [Ordered!Next]_Ordered!vars
  BY <1>9, <1>g DEF ResetKeep, Eligible, queueVars
<1>10. CASE UNCHANGED vars
  BY <1>10, <1>g DEF vars, Eligible, queueVars
<1>11. QED
  BY <1>1, <1>2, <1>3, <1>4, <1>5, <1>6, <1>7, <1>8, <1>9, <1>10
  DEF Next, Report, Drain, ResetEnd

\* Whatever the threads do, a reader of qa_pairs sees a history of the abstract
\* list: every step of the queue is one of its steps or leaves it alone.
THEOREM Refinement == Spec => OrderedSpec
<1>1. Init => Ordered!Init
  BY RefineInit
<1>2. IInv /\ [Next]_vars => [Ordered!Next]_Ordered!vars
  BY RefineStep
<1>3. QED
  BY <1>1, <1>2, Invariance, PTL DEF Spec, OrderedSpec, Ordered!Spec

=============================================================================

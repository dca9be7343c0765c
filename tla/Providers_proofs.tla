-------------------------- MODULE Providers_proofs --------------------------
(***************************************************************************)
(* Proofs about ProviderWrites and ConnectorSync: what the adapters say of *)
(* their calls and leave in the Decision Log, and what a sync leaves in a  *)
(* Conversation Space, for every number of requests, objects, edits and    *)
(* syncs, and every limit.                                                 *)
(***************************************************************************)
EXTENDS ProviderWrites, ConnectorSync, FiniteSetTheorems, SequenceTheorems,
        NaturalsInduction, WellFoundedInduction, TLAPS

(***************************************************************************)
(* Writes.                                                                 *)
(***************************************************************************)

Verdicts == {"none", "calling", "ok", "refused", "retry", "unknown"}
OfService == {"resolve", "post", "reply"}
OfFile == {"target", "read", "compare", "replace", "confirm"}
Undone == {"checks", "resolve", "post", "target", "read", "compare", "replace"}

Files == [there : BOOLEAN, stat : Nat, marks : Seq(Executions), notes : Nat]

Attempts ==
    [at : {"none", "checks"} \union OfService \union OfFile, key : Executions \union {""},
     before : Files, text : Files, reply : Replies \union {"none"}, did : BOOLEAN]

Types ==
    /\ adapter \in Adapters /\ dangers \in Dangers /\ tries \in 0..MaxTries
    /\ verdict \in [Executions -> Verdicts] /\ carried \in [Executions -> Nat]
    /\ file \in Files /\ editor \in [marks : Seq(Executions), notes : 0..MaxSaves]
    /\ attempt \in Attempts
    /\ attempt.at # "none" => attempt.key \in Executions

\* A call is one adapter's, and of one request.
OneCall ==
    /\ attempt.at \in OfService => adapter # "LOCAL_MARKDOWN"
    /\ attempt.at \in OfFile => adapter = "LOCAL_MARKDOWN"
    /\ \A k \in Executions : verdict[k] = "calling" <=> attempt.at # "none" /\ attempt.key = k

\* A call carries its request out at most once.
Counted ==
    \A k \in Executions :
        /\ carried[k] <= tries
        /\ attempt.at \in Undone /\ attempt.key = k => carried[k] < tries

\* What a call of a service finds done, and what it has done itself.
CallOfService(k) ==
    /\ carried[k] <= 1
    /\ verdict[k] \in {"none", "refused", "retry"} => carried[k] = 0
    /\ attempt.at \in {"checks", "resolve", "post"} /\ attempt.key = k => carried[k] = 0
    /\ attempt.at = "reply" /\ attempt.key = k =>
          /\ attempt.reply = "created" => carried[k] = 1
          /\ attempt.reply = "rejected" => carried[k] = 0

Truth ==
    "mistake" \notin dangers => \A k \in Executions :
        /\ verdict[k] = "ok" => carried[k] >= 1
        /\ adapter # "LOCAL_MARKDOWN" => CallOfService(k)

\* The texts that lie about hold each mark once, and only of what was carried out.
Texts ==
    /\ IsInjective(file.marks) /\ IsInjective(editor.marks) /\ IsInjective(attempt.text.marks)
    /\ \A k \in Executions :
          Marked(k, file) \/ Marked(k, editor) \/ Marked(k, attempt.text) => carried[k] >= 1
    /\ attempt.at = "confirm" => carried[attempt.key] >= 1
    /\ attempt.at \in {"compare", "replace"} => ~Marked(attempt.key, attempt.text)

\* The text read has the notes of the file, unless the file's stat tells otherwise.
Notes ==
    /\ ~file.there => file = EmptyFile
    /\ "window" \notin dangers => file.notes = editor.notes
    /\ attempt.at \in {"read", "compare"} => attempt.before.stat <= file.stat
    /\ attempt.at = "compare" =>
          IF attempt.before.there
          THEN attempt.before.stat = file.stat => attempt.text.notes = file.notes
          ELSE attempt.text.notes = 0
    /\ attempt.at = "replace" /\ "window" \notin dangers => attempt.text.notes = file.notes

WritesIInv == Types /\ OneCall /\ Counted /\ Truth /\ Texts /\ Notes

-----------------------------------------------------------------------------
(* The kinds of steps.                                                     *)

\* The call under way ends with the verdict v.
Ended(v) ==
    /\ attempt.at # "none" /\ Comes(v)
    /\ UNCHANGED <<adapter, dangers, carried, file, editor, tries>>

\* What v says of the request under way is so.
Honest(v) ==
    "mistake" \notin dangers =>
        /\ v = "ok" => carried[attempt.key] >= 1
        /\ v \in {"refused", "retry"} /\ adapter # "LOCAL_MARKDOWN" => carried[attempt.key] = 0

\* The call under way goes on, and nothing has been carried out yet.
Moved ==
    /\ UNCHANGED <<adapter, dangers, verdict, carried, file, editor, tries>>
    /\ attempt' \in Attempts /\ attempt'.key = attempt.key
    /\ attempt.at \in Undone /\ attempt'.at \in Undone \ {"checks"}
    /\ attempt'.at \in OfService => adapter # "LOCAL_MARKDOWN"
    /\ attempt'.at \in OfFile => adapter = "LOCAL_MARKDOWN"
    /\ \/ /\ attempt'.at \in {"resolve", "post", "target"}
          /\ attempt'.before = attempt.before /\ attempt'.text = attempt.text
       \/ attempt'.at = "read" /\ attempt'.before = file /\ attempt'.text = attempt.text
       \/ /\ attempt.at = "read" /\ attempt'.at = "compare" /\ attempt'.before = attempt.before
          /\ attempt'.text = IF attempt.before.there THEN file ELSE EmptyFile
          /\ ~Marked(attempt.key, attempt'.text)
       \/ /\ attempt.at = "compare" /\ attempt'.at = "replace" /\ Unchanged
          /\ attempt'.before = attempt.before /\ attempt'.text = attempt.text

\* The replacement is done, and the call goes on or raises.
Renamed ==
    /\ attempt.at = "replace" /\ file' = Replaced
    /\ carried' = [carried EXCEPT ![attempt.key] = @ + 1]
    /\ UNCHANGED <<adapter, dangers, editor, tries>>
    /\ \/ attempt' = [attempt EXCEPT !.at = "confirm", !.did = TRUE] /\ UNCHANGED verdict
       \/ Comes("unknown")

LEMMA EmptyIsFile == EmptyFile \in Files
BY DEF EmptyFile, Files

LEMMA NoAttemptTyped == NoAttempt \in Attempts /\ NoAttempt.at = "none"
BY EmptyIsFile DEF NoAttempt, Attempts

LEMMA EndsMoves ==
    ASSUME WritesIInv,
           ChecksFail \/ ChecksPass \/ ResolveList \/ Answered \/ TargetRefused \/ StatFile
              \/ ReadFile \/ CompareFile \/ ConfirmFile
    PROVE  Moved \/ \E v \in {"ok", "refused", "retry", "unknown"} : Ended(v) /\ Honest(v)
<1>1. Types /\ OneCall BY DEF WritesIInv
<1>2. attempt \in Attempts /\ EmptyFile \in Files /\ file \in Files BY <1>1, EmptyIsFile DEF Types
<1>t. ASSUME attempt.at # "none" PROVE attempt.key \in Executions BY <1>1, <1>t DEF Types
<1>w. ASSUME NEW w \in {"none", "checks"} \union OfService \union OfFile, To(w)
      PROVE  /\ attempt' \in Attempts /\ attempt'.at = w /\ attempt'.key = attempt.key
             /\ attempt'.before = attempt.before /\ attempt'.text = attempt.text
  BY <1>2, <1>w DEF To, Attempts
<1>s. ASSUME "mistake" \notin dangers, adapter # "LOCAL_MARKDOWN",
             attempt.at \in {"checks", "resolve", "post"}
      PROVE  carried[attempt.key] = 0
  <2>1. attempt.key \in Executions BY <1>t, <1>s
  <2>2. CallOfService(attempt.key) BY <1>s, <2>1 DEF WritesIInv, Truth
  <2> QED BY <1>s, <2>2 DEF CallOfService
<1>3. CASE ChecksFail
  <2>1. PICK v \in {"refused", "unknown"} : Comes(v) BY <1>3 DEF ChecksFail
  <2>2. Ended(v) BY <1>3, <2>1 DEF ChecksFail, In, Ended
  <2>3. Honest(v) BY <1>3, <1>s DEF ChecksFail, In, Honest
  <2> QED BY <2>2, <2>3
<1>4. CASE ChecksPass
  <2>1. attempt.at = "checks" /\ UNCHANGED <<adapter, dangers, verdict, carried, file, editor, tries>>
    BY <1>4 DEF ChecksPass, In
  <2>2. adapter \in Adapters BY <1>1 DEF Types
  <2>3. \/ To("target") /\ adapter = "LOCAL_MARKDOWN"
        \/ To("resolve") /\ adapter # "LOCAL_MARKDOWN"
        \/ To("post") /\ adapter # "LOCAL_MARKDOWN"
    BY <1>4, <2>2 DEF ChecksPass, Adapters
  <2>4. CASE To("target") /\ adapter = "LOCAL_MARKDOWN"
    BY <2>1, <2>4, <1>w DEF Moved, OfService, OfFile, Undone
  <2>5. CASE To("resolve") /\ adapter # "LOCAL_MARKDOWN"
    BY <2>1, <2>5, <1>w DEF Moved, OfService, OfFile, Undone
  <2>6. CASE To("post") /\ adapter # "LOCAL_MARKDOWN"
    BY <2>1, <2>6, <1>w DEF Moved, OfService, OfFile, Undone
  <2> QED BY <2>3, <2>4, <2>5, <2>6
<1>5. CASE ResolveList
  <2>1. /\ attempt.at = "resolve" /\ adapter # "LOCAL_MARKDOWN"
        /\ UNCHANGED <<adapter, dangers, carried, file, editor, tries>>
    BY <1>5, <1>1 DEF ResolveList, In, OneCall, OfService
  <2>2. CASE To("post") /\ UNCHANGED verdict
    BY <2>1, <2>2, <1>w DEF Moved, OfService, OfFile, Undone
  <2>3. CASE \E reply \in Replies : \E v \in ResolveVerdicts(reply) : Comes(v)
    <3>1. PICK v \in {"refused", "retry"} : Comes(v) BY <2>3 DEF ResolveVerdicts
    <3>2. Ended(v) BY <2>1, <3>1 DEF Ended
    <3>3. Honest(v) BY <2>1, <1>s DEF Honest
    <3> QED BY <3>2, <3>3
  <2> QED BY <1>5, <2>2, <2>3 DEF ResolveList
<1>6. CASE Answered
  <2>1. /\ attempt.at = "reply" /\ adapter # "LOCAL_MARKDOWN" /\ Comes(VerdictOn(attempt.reply))
        /\ UNCHANGED <<adapter, dangers, carried, file, editor, tries>>
    BY <1>6, <1>1 DEF Answered, In, OneCall, OfService
  <2>2. VerdictOn(attempt.reply) \in {"ok", "refused", "unknown"} BY DEF VerdictOn
  <2>3. Ended(VerdictOn(attempt.reply)) BY <2>1 DEF Ended
  <2>4. attempt.key \in Executions BY <2>1, <1>t
  <2>5. ASSUME "mistake" \notin dangers PROVE CallOfService(attempt.key)
    BY <2>1, <2>4, <2>5 DEF WritesIInv, Truth
  <2>6. Honest(VerdictOn(attempt.reply)) BY <2>1, <2>5 DEF CallOfService, VerdictOn, Honest
  <2> QED BY <2>2, <2>3, <2>6
<1>7. CASE TargetRefused
  <2>1. attempt.at = "target" /\ adapter = "LOCAL_MARKDOWN" BY <1>7, <1>1 DEF TargetRefused, In, OneCall, OfFile
  <2>2. Ended("retry") BY <1>7 DEF TargetRefused, In, Ended
  <2> QED BY <2>1, <2>2 DEF Honest
<1>8. CASE StatFile
  <2>1. attempt.at = "target" /\ adapter = "LOCAL_MARKDOWN" BY <1>8, <1>1 DEF StatFile, In, OneCall, OfFile
  <2>2. /\ attempt' = [attempt EXCEPT !.at = "read", !.before = file]
        /\ UNCHANGED <<adapter, dangers, verdict, carried, file, editor, tries>> BY <1>8 DEF StatFile, In
  <2>3. /\ attempt' \in Attempts /\ attempt'.at = "read" /\ attempt'.key = attempt.key
        /\ attempt'.before = file /\ attempt'.text = attempt.text
    BY <2>2, <1>2 DEF Attempts, OfFile
  <2> QED BY <2>1, <2>2, <2>3 DEF Moved, OfService, OfFile, Undone
<1>9. CASE ReadFile
  <2> DEFINE text == IF attempt.before.there THEN file ELSE EmptyFile
  <2>1. attempt.at = "read" /\ adapter = "LOCAL_MARKDOWN" BY <1>9, <1>1 DEF ReadFile, In, OneCall, OfFile
  <2>2. UNCHANGED <<adapter, dangers, carried, file, editor, tries>> BY <1>9 DEF ReadFile, In
  <2>3. CASE Marked(attempt.key, text)
    <3>1. Ended("ok") BY <1>9, <2>1, <2>2, <2>3 DEF ReadFile, Ended
    <3>2. ~Marked(attempt.key, EmptyFile) BY DEF Marked, EmptyFile
    <3>3. Marked(attempt.key, file) BY <2>3, <3>2
    <3>4. Honest("ok") BY <2>1, <1>t, <3>3 DEF WritesIInv, Texts, Honest
    <3> QED BY <3>1, <3>4
  <2>4. CASE ~Marked(attempt.key, text)
    <3>1. attempt' = [attempt EXCEPT !.at = "compare", !.text = text] /\ UNCHANGED verdict
      BY <1>9, <2>4 DEF ReadFile
    <3>2. text \in Files BY <1>2
    <3>3. /\ attempt' \in Attempts /\ attempt'.at = "compare" /\ attempt'.key = attempt.key
          /\ attempt'.before = attempt.before /\ attempt'.text = text
      BY <3>1, <3>2, <1>2 DEF Attempts, OfFile
    <3> QED BY <2>1, <2>2, <2>4, <3>1, <3>3 DEF Moved, OfService, OfFile, Undone
  <2> QED BY <2>3, <2>4
<1>10. CASE CompareFile
  <2>1. /\ attempt.at = "compare" /\ adapter = "LOCAL_MARKDOWN"
        /\ UNCHANGED <<adapter, dangers, carried, file, editor, tries>>
    BY <1>10, <1>1 DEF CompareFile, In, OneCall, OfFile
  <2>2. CASE Unchanged
    <3>1. To("replace") /\ UNCHANGED verdict BY <1>10, <2>2 DEF CompareFile
    <3> QED BY <2>1, <2>2, <3>1, <1>w DEF Moved, OfService, OfFile, Undone
  <2>3. CASE ~Unchanged
    <3>1. Ended("retry") BY <1>10, <2>1, <2>3 DEF CompareFile, Ended
    <3> QED BY <2>1, <3>1 DEF Honest
  <2> QED BY <2>2, <2>3
<1>11. CASE ConfirmFile
  <2>1. attempt.at = "confirm" /\ adapter = "LOCAL_MARKDOWN" BY <1>11, <1>1 DEF ConfirmFile, In, OneCall, OfFile
  <2>2. PICK v \in {"ok", "unknown"} : Comes(v) BY <1>11 DEF ConfirmFile
  <2>3. Ended(v) BY <1>11, <2>2 DEF ConfirmFile, In, Ended
  <2>4. Honest(v) BY <2>1 DEF WritesIInv, Texts, Honest
  <2> QED BY <2>3, <2>4
<1> QED BY <1>3, <1>4, <1>5, <1>6, <1>7, <1>8, <1>9, <1>10, <1>11

LEMMA RaiseRenames ==
    ASSUME WritesIInv, ReplaceFile \/ WriteRaises
    PROVE  Renamed \/ (Ended("unknown") /\ Honest("unknown"))
<1>1. CASE ReplaceFile
  <2>1. /\ attempt.at = "replace" /\ file' = Replaced
        /\ carried' = [carried EXCEPT ![attempt.key] = @ + 1]
        /\ UNCHANGED <<adapter, dangers, editor, tries>>
    BY <1>1 DEF ReplaceFile, In
  <2>2. attempt' = [attempt EXCEPT !.at = "confirm", !.did = TRUE] /\ UNCHANGED verdict
    BY <1>1 DEF ReplaceFile
  <2> QED BY <2>1, <2>2 DEF Renamed
<1>2. CASE WriteRaises
  <2>1. /\ attempt.at # "none" /\ Comes("unknown") /\ UNCHANGED <<adapter, dangers, editor, tries>>
    BY <1>2 DEF WriteRaises, In
  <2>2. Honest("unknown") BY DEF Honest
  <2> QED BY <1>2, <2>1, <2>2 DEF WriteRaises, Renamed, Ended
<1> QED BY <1>1, <1>2

\* Every step is of one of seven kinds.
LEMMA Kinds ==
    ASSUME WritesIInv, WritesNext
    PROVE  \/ \E k \in Executions : Execute(k) \/ Reconcile(k)
           \/ EditorOpens \/ EditorSaves \/ Post \/ Moved \/ Renamed
           \/ \E v \in {"ok", "refused", "retry", "unknown"} : Ended(v) /\ Honest(v)
BY EndsMoves, RaiseRenames DEF WritesNext

-----------------------------------------------------------------------------
(* Each part of the invariant holds at first and is kept by every step.    *)

LEMMA WritesStart == WritesInit => WritesIInv
<1> SUFFICES ASSUME WritesInit PROVE WritesIInv OBVIOUS
<1> USE WritesAssumption
<1>1. NoAttempt \in Attempts /\ NoAttempt.at = "none" /\ NoAttempt.text = EmptyFile /\ NoAttempt.before = EmptyFile
  BY NoAttemptTyped DEF NoAttempt
<1>2. /\ adapter \in Adapters /\ dangers \in Dangers /\ tries = 0 /\ attempt = NoAttempt /\ file = EmptyFile
      /\ verdict = [k \in Executions |-> "none"] /\ carried = [k \in Executions |-> 0]
      /\ editor = [marks |-> <<>>, notes |-> 0]
  BY DEF WritesInit
<1>3. Types BY <1>1, <1>2, EmptyIsFile DEF Types, Verdicts
<1>4. OneCall BY <1>1, <1>2 DEF OneCall, OfService, OfFile
<1>5. Counted BY <1>1, <1>2 DEF Counted, Undone
<1>6. Truth BY <1>1, <1>2 DEF Truth, CallOfService
<1>7. Texts BY <1>1, <1>2 DEF Texts, Marked, EmptyFile, IsInjective
<1>8. Notes BY <1>1, <1>2 DEF Notes, EmptyFile
<1> QED BY <1>3, <1>4, <1>5, <1>6, <1>7, <1>8 DEF WritesIInv

\* What an ending leaves behind.
LEMMA EndLeaves ==
    ASSUME WritesIInv, NEW v \in {"ok", "refused", "retry", "unknown"}, attempt.at # "none", Comes(v)
    PROVE  /\ attempt' \in Attempts /\ attempt'.at = "none" /\ attempt'.text = EmptyFile
           /\ verdict' \in [Executions -> Verdicts] /\ attempt.key \in Executions
           /\ \A k \in Executions : verdict'[k] = IF k = attempt.key THEN v ELSE verdict[k]
<1>1. attempt.key \in Executions /\ verdict \in [Executions -> Verdicts] BY DEF WritesIInv, Types
<1>2. verdict' = [verdict EXCEPT ![attempt.key] = v] /\ attempt' = NoAttempt BY DEF Comes
<1>3. NoAttempt.text = EmptyFile BY DEF NoAttempt
<1> QED BY <1>1, <1>2, <1>3, NoAttemptTyped DEF Verdicts

\* What a call that begins leaves behind.
LEMMA ExecuteLeaves ==
    ASSUME WritesIInv, NEW k \in Executions, Execute(k)
    PROVE  /\ attempt' \in Attempts /\ attempt'.at = "checks" /\ attempt'.key = k /\ attempt'.text = EmptyFile
           /\ verdict' \in [Executions -> Verdicts] /\ attempt.at = "none" /\ tries' = tries + 1
           /\ tries < MaxTries /\ verdict[k] \in {"none", "retry"}
           /\ \A x \in Executions : verdict'[x] = IF x = k THEN "calling" ELSE verdict[x]
<1>1. verdict \in [Executions -> Verdicts] BY DEF WritesIInv, Types
<1>2. NoAttempt \in Attempts /\ NoAttempt.text = EmptyFile BY NoAttemptTyped DEF NoAttempt
<1>3. /\ attempt' = [NoAttempt EXCEPT !.at = "checks", !.key = k] /\ verdict' = [verdict EXCEPT ![k] = "calling"]
      /\ tries' = tries + 1 /\ attempt.at = "none" /\ tries < MaxTries /\ verdict[k] \in {"none", "retry"}
  BY DEF Execute
<1>4. attempt' \in Attempts /\ attempt'.at = "checks" /\ attempt'.key = k /\ attempt'.text = EmptyFile
  BY <1>2, <1>3 DEF Attempts
<1> QED BY <1>1, <1>3, <1>4 DEF Verdicts

\* What a request the service answered leaves behind.
LEMMA PostLeaves ==
    ASSUME WritesIInv, Post
    PROVE  /\ attempt.at = "post" /\ attempt.key \in Executions /\ adapter # "LOCAL_MARKDOWN"
           /\ attempt' \in Attempts /\ attempt'.at = "reply" /\ attempt'.key = attempt.key
           /\ attempt'.text = attempt.text
           /\ UNCHANGED <<adapter, dangers, tries, verdict, file, editor>>
           /\ carried' \in [Executions -> Nat]
           /\ \A k \in Executions \ {attempt.key} : carried'[k] = carried[k]
           /\ carried'[attempt.key] \in {carried[attempt.key], carried[attempt.key] + 1}
           /\ attempt'.reply = "created" => carried'[attempt.key] = carried[attempt.key] + 1
           /\ attempt'.reply = "rejected" => carried'[attempt.key] = carried[attempt.key]
<1>1. /\ attempt.at = "post" /\ attempt.key \in Executions /\ adapter # "LOCAL_MARKDOWN"
      /\ attempt \in Attempts /\ carried \in [Executions -> Nat]
  BY DEF Post, In, WritesIInv, Types, OneCall, OfService
<1>2. PICK did \in BOOLEAN, reply \in Replies :
         /\ reply = "created" => did
         /\ reply = "rejected" => ~did
         /\ carried' = IF did THEN [carried EXCEPT ![attempt.key] = @ + 1] ELSE carried
         /\ attempt' = [attempt EXCEPT !.at = "reply", !.reply = reply, !.did = did]
  BY DEF Post
<1>3. /\ attempt' \in Attempts /\ attempt'.at = "reply" /\ attempt'.key = attempt.key
      /\ attempt'.text = attempt.text /\ attempt'.reply = reply
  BY <1>1, <1>2 DEF Attempts, OfService
<1>4. UNCHANGED <<adapter, dangers, tries, verdict, file, editor>> BY DEF Post, In
<1> QED BY <1>1, <1>2, <1>3, <1>4

\* What a replacement leaves behind.
LEMMA RenameLeaves ==
    ASSUME WritesIInv, Renamed
    PROVE  /\ attempt.at = "replace" /\ attempt.key \in Executions /\ adapter = "LOCAL_MARKDOWN"
           /\ attempt' \in Attempts /\ attempt'.at \in {"none", "confirm"}
           /\ attempt'.at = "confirm" => attempt'.key = attempt.key
           /\ attempt'.text \in {attempt.text, EmptyFile}
           /\ UNCHANGED <<adapter, dangers, tries, editor>>
           /\ carried' \in [Executions -> Nat]
           /\ \A k \in Executions : carried'[k] = IF k = attempt.key THEN carried[k] + 1 ELSE carried[k]
           /\ verdict' \in [Executions -> Verdicts]
           /\ \A k \in Executions \ {attempt.key} : verdict'[k] = verdict[k]
           /\ verdict'[attempt.key] = IF attempt'.at = "none" THEN "unknown" ELSE verdict[attempt.key]
           /\ file' \in Files /\ file'.there /\ file'.notes = attempt.text.notes
           /\ file'.marks = Append(attempt.text.marks, attempt.key)
<1>1. /\ attempt.at = "replace" /\ attempt.key \in Executions /\ adapter = "LOCAL_MARKDOWN"
      /\ attempt \in Attempts /\ carried \in [Executions -> Nat] /\ verdict \in [Executions -> Verdicts]
      /\ file \in Files
  BY DEF Renamed, WritesIInv, Types, OneCall, OfFile
<1>2. attempt.text \in Files BY <1>1 DEF Attempts
<1>3. Append(attempt.text.marks, attempt.key) \in Seq(Executions) BY <1>1, <1>2 DEF Files
<1>4. /\ file' \in Files /\ file'.there /\ file'.notes = attempt.text.notes
      /\ file'.marks = Append(attempt.text.marks, attempt.key)
  BY <1>1, <1>2, <1>3 DEF Renamed, Replaced, Files
<1>5. /\ UNCHANGED <<adapter, dangers, tries, editor>> /\ carried' \in [Executions -> Nat]
      /\ \A k \in Executions : carried'[k] = IF k = attempt.key THEN carried[k] + 1 ELSE carried[k]
  BY <1>1 DEF Renamed
<1>6. CASE attempt' = [attempt EXCEPT !.at = "confirm", !.did = TRUE] /\ UNCHANGED verdict
  <2>1. /\ attempt' \in Attempts /\ attempt'.at = "confirm" /\ attempt'.key = attempt.key
        /\ attempt'.text = attempt.text
    BY <1>1, <1>6 DEF Attempts, OfFile
  <2> QED BY <1>1, <1>4, <1>5, <1>6, <2>1
<1>7. CASE Comes("unknown")
  <2> HIDE DEF Renamed
  <2> QED BY <1>1, <1>4, <1>5, <1>7, EndLeaves
<1> QED BY <1>6, <1>7 DEF Renamed

\* What reconciling and the editor leave behind.
LEMMA ReconcileLeaves ==
    ASSUME WritesIInv, NEW k \in Executions, Reconcile(k)
    PROVE  /\ attempt.at = "none" /\ verdict[k] = "unknown"
           /\ UNCHANGED <<adapter, dangers, attempt, carried, file, editor, tries>>
           /\ verdict' \in [Executions -> Verdicts]
           /\ \A x \in Executions \ {k} : verdict'[x] = verdict[x]
           /\ verdict'[k] \in {"ok", "retry"}
           /\ "mistake" \notin dangers => (verdict'[k] = "ok" <=> Applied(k))
<1>1. verdict \in [Executions -> Verdicts] BY DEF WritesIInv, Types
<1>2. PICK applied \in BOOLEAN :
         /\ "mistake" \in dangers \/ applied = Applied(k)
         /\ verdict' = [verdict EXCEPT ![k] = IF applied THEN "ok" ELSE "retry"]
  BY DEF Reconcile
<1>3. /\ attempt.at = "none" /\ verdict[k] = "unknown"
      /\ UNCHANGED <<adapter, dangers, attempt, carried, file, editor, tries>>
  BY DEF Reconcile
<1>4. Applied(k) \in BOOLEAN
  <2>1. CASE adapter = "LOCAL_MARKDOWN" BY <2>1 DEF Applied, Marked
  <2>2. CASE adapter # "LOCAL_MARKDOWN"
    <3>1. Applied(k) = (carried[k] > 0) BY <2>2 DEF Applied
    <3> QED BY <3>1
  <2> QED BY <2>1, <2>2
<1> QED BY <1>1, <1>2, <1>3, <1>4 DEF Verdicts

LEMMA EditorLeaves ==
    ASSUME WritesIInv, EditorOpens \/ EditorSaves
    PROVE  /\ UNCHANGED <<adapter, dangers, verdict, attempt, carried, tries>>
           /\ editor' \in [marks : Seq(Executions), notes : 0..MaxSaves] /\ file' \in Files
           /\ editor'.marks \in {editor.marks, file.marks} /\ file'.marks \in {editor.marks, file.marks}
           /\ \/ EditorOpens /\ file' = file /\ editor'.notes = editor.notes
              \/ /\ EditorSaves /\ file'.there /\ file'.stat = file.stat + 1 /\ file'.notes = editor'.notes
                 /\ "window" \notin dangers => attempt.at # "replace"
<1>1. file \in Files /\ editor \in [marks : Seq(Executions), notes : 0..MaxSaves] /\ MaxSaves \in Nat
  BY WritesAssumption DEF WritesIInv, Types
<1>2. CASE EditorOpens
  <2>1. /\ editor' = [editor EXCEPT !.marks = file.marks] /\ file' = file
        /\ UNCHANGED <<adapter, dangers, verdict, attempt, carried, tries>>
    BY <1>2 DEF EditorOpens
  <2>2. file.marks \in Seq(Executions) BY <1>1 DEF Files
  <2>3. /\ editor' \in [marks : Seq(Executions), notes : 0..MaxSaves]
        /\ editor'.marks = file.marks /\ editor'.notes = editor.notes
    BY <1>1, <2>1, <2>2
  <2> QED BY <1>1, <1>2, <2>1, <2>3
<1>3. CASE EditorSaves
  <2>1. /\ editor.notes < MaxSaves /\ ("window" \in dangers \/ attempt.at # "replace")
        /\ editor' = [editor EXCEPT !.notes = @ + 1]
        /\ file' = [there |-> TRUE, stat |-> file.stat + 1, marks |-> editor.marks, notes |-> editor.notes + 1]
        /\ UNCHANGED <<adapter, dangers, verdict, attempt, carried, tries>>
    BY <1>3 DEF EditorSaves
  <2>2. /\ editor' \in [marks : Seq(Executions), notes : 0..MaxSaves]
        /\ editor'.marks = editor.marks /\ editor'.notes = editor.notes + 1
    BY <1>1, <2>1
  <2>3. file' \in Files BY <1>1, <2>1 DEF Files
  <2> QED BY <1>3, <2>1, <2>2, <2>3
<1> QED BY <1>2, <1>3

LEMMA TypesStep == ASSUME WritesIInv, [WritesNext]_writesVars PROVE Types'
<1>0. Types BY DEF WritesIInv
<1>u. CASE UNCHANGED writesVars BY <1>0, <1>u DEF Types, writesVars
<1>1. ASSUME NEW k \in Executions, Execute(k) PROVE Types'
  <2>1. UNCHANGED <<adapter, dangers, carried, file, editor>> BY <1>1 DEF Execute
  <2>2. tries' \in 0..MaxTries
    <3>1. MaxTries \in Nat /\ tries \in 0..MaxTries BY <1>0, WritesAssumption DEF Types
    <3> QED BY <3>1, <1>1, ExecuteLeaves
  <2> QED BY <1>0, <1>1, <2>1, <2>2, ExecuteLeaves DEF Types
<1>2. ASSUME NEW k \in Executions, Reconcile(k) PROVE Types' BY <1>0, <1>2, ReconcileLeaves DEF Types
<1>3. CASE EditorOpens \/ EditorSaves BY <1>0, <1>3, EditorLeaves DEF Types
<1>4. CASE Post BY <1>0, <1>4, PostLeaves DEF Types
<1>5. CASE Moved BY <1>0, <1>5 DEF Moved, Types, Undone
<1>6. CASE Renamed BY <1>0, <1>6, RenameLeaves DEF Types
<1>7. ASSUME NEW v \in {"ok", "refused", "retry", "unknown"}, Ended(v) PROVE Types'
  BY <1>0, <1>7, EndLeaves DEF Ended, Types
<1> QED BY <1>u, <1>1, <1>2, <1>3, <1>4, <1>5, <1>6, <1>7, Kinds

LEMMA OneCallStep == ASSUME WritesIInv, [WritesNext]_writesVars PROVE OneCall'
<1>0. OneCall BY DEF WritesIInv
<1>d. "none" \notin OfService \union OfFile /\ "checks" \notin OfService \union OfFile BY DEF OfService, OfFile
<1>u. CASE UNCHANGED writesVars BY <1>0, <1>u DEF OneCall, writesVars
<1>1. ASSUME NEW k \in Executions, Execute(k) PROVE OneCall'
  BY <1>0, <1>1, <1>d, ExecuteLeaves DEF OneCall
<1>2. ASSUME NEW k \in Executions, Reconcile(k) PROVE OneCall'
  BY <1>0, <1>2, ReconcileLeaves DEF OneCall
<1>3. CASE EditorOpens \/ EditorSaves
  <2>1. UNCHANGED <<adapter, verdict, attempt>> BY <1>3, EditorLeaves
  <2> QED BY <1>0, <2>1 DEF OneCall
<1>4. CASE Post
  <2>1. "reply" \notin OfFile BY DEF OfFile
  <2> QED BY <1>0, <1>4, <2>1, PostLeaves DEF OneCall
<1>5. CASE Moved BY <1>0, <1>5 DEF Moved, OneCall, Undone
<1>6. CASE Renamed
  <2>1. "confirm" \notin OfService BY DEF OfService
  <2> QED BY <1>0, <1>6, <1>d, <2>1, RenameLeaves DEF OneCall
<1>7. ASSUME NEW v \in {"ok", "refused", "retry", "unknown"}, Ended(v) PROVE OneCall'
  BY <1>0, <1>7, <1>d, EndLeaves DEF Ended, OneCall
<1> QED BY <1>u, <1>1, <1>2, <1>3, <1>4, <1>5, <1>6, <1>7, Kinds

LEMMA CountedStep == ASSUME WritesIInv, [WritesNext]_writesVars PROVE Counted'
<1>0. Counted /\ tries \in Nat /\ carried \in [Executions -> Nat]
  BY WritesAssumption DEF WritesIInv, Types
<1>d. "none" \notin Undone /\ "reply" \notin Undone /\ "confirm" \notin Undone BY DEF Undone
<1>u. CASE UNCHANGED writesVars BY <1>0, <1>u DEF Counted, writesVars
<1>1. ASSUME NEW k \in Executions, Execute(k) PROVE Counted'
  <2>1. carried' = carried BY <1>1 DEF Execute
  <2> QED BY <1>0, <1>1, <2>1, ExecuteLeaves DEF Counted
<1>2. ASSUME NEW k \in Executions, Reconcile(k) PROVE Counted'
  <2>1. UNCHANGED <<attempt, carried, tries>> BY <1>2, ReconcileLeaves
  <2> QED BY <1>0, <2>1 DEF Counted
<1>3. CASE EditorOpens \/ EditorSaves
  <2>1. UNCHANGED <<attempt, carried, tries>> BY <1>3, EditorLeaves
  <2> QED BY <1>0, <2>1 DEF Counted
<1>4. CASE Post
  <2>1. attempt.at \in Undone BY <1>4, PostLeaves DEF Undone
  <2> QED BY <1>0, <1>4, <1>d, <2>1, PostLeaves DEF Counted
<1>5. CASE Moved BY <1>0, <1>5 DEF Moved, Counted
<1>6. CASE Renamed
  <2>1. attempt.at \in Undone BY <1>6, RenameLeaves DEF Undone
  <2> QED BY <1>0, <1>6, <1>d, <2>1, RenameLeaves DEF Counted
<1>7. ASSUME NEW v \in {"ok", "refused", "retry", "unknown"}, Ended(v) PROVE Counted'
  BY <1>0, <1>7, <1>d, EndLeaves DEF Ended, Counted
<1> QED BY <1>u, <1>1, <1>2, <1>3, <1>4, <1>5, <1>6, <1>7, Kinds

LEMMA TruthStep == ASSUME WritesIInv, [WritesNext]_writesVars PROVE Truth'
<1>0. Truth /\ OneCall /\ carried \in [Executions -> Nat] BY DEF WritesIInv, Types
<1>u. CASE UNCHANGED writesVars BY <1>0, <1>u DEF Truth, CallOfService, writesVars
<1>s. UNCHANGED <<adapter, dangers>> /\ (carried' = carried \/ Post \/ Renamed)
  <2>1. ASSUME NEW k \in Executions, Execute(k) PROVE UNCHANGED <<adapter, dangers, carried>>
    BY <2>1 DEF Execute
  <2>2. CASE EditorOpens \/ EditorSaves BY <2>2, EditorLeaves
  <2> QED BY <1>u, <2>1, <2>2, Kinds, ReconcileLeaves, PostLeaves, RenameLeaves
          DEF Moved, Ended, writesVars
<1> SUFFICES ASSUME "mistake" \notin dangers, NEW x \in Executions
             PROVE  /\ verdict'[x] = "ok" => carried'[x] >= 1
                    /\ adapter # "LOCAL_MARKDOWN" => CallOfService(x)'
  BY <1>s DEF Truth
<1>x. /\ verdict[x] = "ok" => carried[x] >= 1
      /\ adapter # "LOCAL_MARKDOWN" => CallOfService(x)
      /\ carried[x] \in Nat
      /\ verdict[x] = "calling" <=> attempt.at # "none" /\ attempt.key = x
  BY <1>0 DEF Truth, OneCall
<1>1. ASSUME NEW k \in Executions, Execute(k)
      PROVE  /\ verdict'[x] = "ok" => carried'[x] >= 1
             /\ adapter # "LOCAL_MARKDOWN" => CallOfService(x)'
  <2>1. carried' = carried BY <1>1 DEF Execute
  <2> QED BY <1>x, <1>1, <2>1, ExecuteLeaves DEF CallOfService
<1>2. ASSUME NEW k \in Executions, Reconcile(k)
      PROVE  /\ verdict'[x] = "ok" => carried'[x] >= 1
             /\ adapter # "LOCAL_MARKDOWN" => CallOfService(x)'
  <2>1. CASE x # k BY <1>x, <1>2, <2>1, ReconcileLeaves DEF CallOfService
  <2>2. CASE x = k /\ adapter = "LOCAL_MARKDOWN"
    <3>1. Marked(x, file) => carried[x] >= 1 BY DEF WritesIInv, Texts
    <3>2. Applied(x) <=> Marked(x, file) BY <2>2 DEF Applied
    <3> QED BY <1>2, <2>2, <3>1, <3>2, ReconcileLeaves
  <2>3. CASE x = k /\ adapter # "LOCAL_MARKDOWN"
    <3>1. Applied(x) <=> carried[x] > 0 BY <2>3 DEF Applied
    <3>2. verdict'[x] \in {"ok", "retry"} /\ (verdict'[x] = "ok" <=> carried[x] > 0)
      BY <1>2, <2>3, <3>1, ReconcileLeaves
    <3>3. UNCHANGED <<attempt, carried>> /\ attempt.at = "none" BY <1>2, ReconcileLeaves
    <3> QED BY <1>x, <2>3, <3>2, <3>3 DEF CallOfService
  <2> QED BY <2>1, <2>2, <2>3
<1>3. ASSUME EditorOpens \/ EditorSaves
      PROVE  /\ verdict'[x] = "ok" => carried'[x] >= 1
             /\ adapter # "LOCAL_MARKDOWN" => CallOfService(x)'
  <2>1. UNCHANGED <<verdict, attempt, carried>> BY <1>3, EditorLeaves
  <2> QED BY <1>x, <2>1 DEF CallOfService
<1>4. ASSUME Post
      PROVE  /\ verdict'[x] = "ok" => carried'[x] >= 1
             /\ adapter # "LOCAL_MARKDOWN" => CallOfService(x)'
  <2>1. CASE x = attempt.key
    BY <1>x, <1>4, <2>1, PostLeaves DEF CallOfService
  <2>2. CASE x # attempt.key
    BY <1>x, <1>4, <2>2, PostLeaves DEF CallOfService
  <2> QED BY <2>1, <2>2
<1>5. ASSUME Moved
      PROVE  /\ verdict'[x] = "ok" => carried'[x] >= 1
             /\ adapter # "LOCAL_MARKDOWN" => CallOfService(x)'
  <2>1. /\ UNCHANGED <<verdict, carried>> /\ attempt'.key = attempt.key /\ attempt'.at # "reply"
        /\ attempt.at \in Undone /\ (attempt.at \in OfFile => adapter = "LOCAL_MARKDOWN")
    BY <1>0, <1>5 DEF Moved, Undone, OneCall
  <2>2. adapter # "LOCAL_MARKDOWN" => attempt.at \in {"checks", "resolve", "post"}
    BY <2>1 DEF Undone, OfFile
  <2> QED BY <1>x, <2>1, <2>2 DEF CallOfService
<1>6. ASSUME Renamed
      PROVE  /\ verdict'[x] = "ok" => carried'[x] >= 1
             /\ adapter # "LOCAL_MARKDOWN" => CallOfService(x)'
  BY <1>x, <1>6, RenameLeaves
<1>7. ASSUME NEW v \in {"ok", "refused", "retry", "unknown"}, Ended(v), Honest(v)
      PROVE  /\ verdict'[x] = "ok" => carried'[x] >= 1
             /\ adapter # "LOCAL_MARKDOWN" => CallOfService(x)'
  <2>1. /\ carried' = carried /\ attempt'.at = "none"
        /\ verdict'[x] = IF x = attempt.key THEN v ELSE verdict[x]
    BY <1>7, EndLeaves DEF Ended
  <2> QED BY <1>x, <1>7, <2>1 DEF CallOfService, Honest
<1>8. ASSUME UNCHANGED writesVars
      PROVE  /\ verdict'[x] = "ok" => carried'[x] >= 1
             /\ adapter # "LOCAL_MARKDOWN" => CallOfService(x)'
  BY <1>x, <1>8 DEF writesVars, CallOfService
<1> QED BY <1>8, <1>1, <1>2, <1>3, <1>4, <1>5, <1>6, <1>7, Kinds

\* A mark that is appended where it was not leaves every mark once.
LEMMA AppendMark ==
    ASSUME NEW s \in Seq(Executions), NEW k \in Executions, IsInjective(s),
           \A i \in DOMAIN s : s[i] # k
    PROVE  /\ IsInjective(Append(s, k))
           /\ \A x : (\E i \in DOMAIN Append(s, k) : Append(s, k)[i] = x)
                       => x = k \/ \E i \in DOMAIN s : s[i] = x
<1> DEFINE t == Append(s, k)
<1>1. Len(s) \in Nat /\ DOMAIN s = 1..Len(s) /\ DOMAIN t = 1..(Len(s) + 1) /\ t[Len(s) + 1] = k
  OBVIOUS
<1>2. \A i \in 1..Len(s) : t[i] = s[i] OBVIOUS
<1>3. \A i \in DOMAIN t : i = Len(s) + 1 \/ i \in DOMAIN s BY <1>1
<1> HIDE DEF t
<1>4. IsInjective(t)
  <2> SUFFICES ASSUME NEW i \in DOMAIN t, NEW j \in DOMAIN t, t[i] = t[j] PROVE i = j BY DEF IsInjective
  <2> QED BY <1>1, <1>2, <1>3 DEF IsInjective
<1>5. ASSUME NEW x, NEW i \in DOMAIN t, t[i] = x PROVE x = k \/ \E j \in DOMAIN s : s[j] = x
  BY <1>1, <1>2, <1>3, <1>5
<1> QED BY <1>4, <1>5 DEF t

LEMMA NothingMarked == IsInjective(EmptyFile.marks) /\ \A k : ~Marked(k, EmptyFile)
<1>1. EmptyFile.marks = <<>> BY DEF EmptyFile
<1> QED BY <1>1 DEF Marked, IsInjective

LEMMA TextsStep == ASSUME WritesIInv, [WritesNext]_writesVars PROVE Texts'
<1>0. Texts /\ carried \in [Executions -> Nat] /\ attempt \in Attempts /\ Types BY DEF WritesIInv, Types
<1>t. attempt.at # "none" => attempt.key \in Executions BY <1>0 DEF Types
\* The marks of any text stand for what was carried out, before and after the step.
<1>g. ASSUME \A k \in Executions : carried'[k] >= carried[k], carried' \in [Executions -> Nat]
      PROVE  \A k \in Executions : carried[k] >= 1 => carried'[k] >= 1
  BY <1>0, <1>g
\* A step that leaves the file and the editor alone, and reads nothing new.
<1>k. ASSUME UNCHANGED <<file, editor>>, carried' \in [Executions -> Nat],
             \A k \in Executions : carried'[k] >= carried[k],
             attempt'.text \in {attempt.text, file, EmptyFile},
             attempt'.at = "confirm" => attempt.at = "confirm" /\ attempt'.key = attempt.key,
             attempt'.at \in {"compare", "replace"} => ~Marked(attempt'.key, attempt'.text)
      PROVE  Texts'
  <2>1. IsInjective(attempt'.text.marks) BY <1>0, <1>k, NothingMarked DEF Texts
  <2>2. ASSUME NEW k \in Executions, Marked(k, file)' \/ Marked(k, editor)' \/ Marked(k, attempt.text)'
        PROVE  carried'[k] >= 1
    <3>1. Marked(k, file) \/ Marked(k, editor) \/ Marked(k, attempt.text)
      BY <1>k, <2>2, NothingMarked DEF Marked
    <3>2. carried[k] >= 1 BY <1>0, <3>1 DEF Texts
    <3> QED BY <1>k, <1>g, <3>2
  <2>3. attempt'.at = "confirm" => carried'[attempt'.key] >= 1
    BY <1>0, <1>k, <1>g, <1>t DEF Texts
  <2>4. attempt'.at \in {"compare", "replace"} => ~Marked(attempt.key, attempt.text)'
    BY <1>k DEF Marked
  <2> QED BY <1>0, <1>k, <2>1, <2>2, <2>3, <2>4 DEF Texts
<1>c. carried' = carried => carried' \in [Executions -> Nat] /\ \A k \in Executions : carried'[k] >= carried[k]
  BY <1>0
<1>u. CASE UNCHANGED writesVars
  <2>1. UNCHANGED <<file, editor, attempt, carried>> BY <1>u DEF writesVars
  <2>2. attempt.at \in {"compare", "replace"} => ~Marked(attempt.key, attempt.text) BY <1>0 DEF Texts
  <2> QED BY <1>k, <1>c, <2>1, <2>2
<1>1. ASSUME NEW k \in Executions, Execute(k) PROVE Texts'
  <2>1. UNCHANGED <<carried, file, editor>> BY <1>1 DEF Execute
  <2> QED BY <1>1, <1>k, <1>c, <2>1, ExecuteLeaves
<1>2. ASSUME NEW k \in Executions, Reconcile(k) PROVE Texts'
  <2>1. UNCHANGED <<attempt, carried, file, editor>> /\ attempt.at = "none" BY <1>2, ReconcileLeaves
  <2> QED BY <1>k, <1>c, <2>1
<1>3. CASE EditorOpens \/ EditorSaves
  <2>1. /\ UNCHANGED <<attempt, carried>> /\ editor'.marks \in {editor.marks, file.marks}
        /\ file'.marks \in {editor.marks, file.marks}
    BY <1>3, EditorLeaves
  <2>2. ASSUME NEW k \in Executions, Marked(k, file)' \/ Marked(k, editor)'
        PROVE  Marked(k, file) \/ Marked(k, editor)
    BY <2>1, <2>2 DEF Marked
  <2>3. \A k \in Executions : Marked(k, attempt.text)' <=> Marked(k, attempt.text) BY <2>1 DEF Marked
  <2>4. IsInjective(file'.marks) /\ IsInjective(editor'.marks) BY <1>0, <2>1 DEF Texts
  <2>5. Marked(attempt.key, attempt.text)' <=> Marked(attempt.key, attempt.text) BY <2>1 DEF Marked
  <2> QED BY <1>0, <2>1, <2>2, <2>3, <2>4, <2>5 DEF Texts
<1>4. CASE Post
  <2>1. \A k \in Executions : carried'[k] >= carried[k] BY <1>0, <1>4, PostLeaves
  <2> QED BY <1>4, <1>k, <2>1, PostLeaves
<1>5. CASE Moved
  <2>1. UNCHANGED <<carried, file, editor>> /\ attempt'.key = attempt.key /\ attempt'.at # "confirm"
    BY <1>5 DEF Moved, Undone
  <2>2. attempt'.text \in {attempt.text, file, EmptyFile} BY <1>5 DEF Moved
  <2>3. attempt'.at \in {"compare", "replace"} => ~Marked(attempt.key, attempt'.text)
    BY <1>0, <1>5 DEF Moved, Texts
  <2> QED BY <1>k, <1>c, <2>1, <2>2, <2>3
<1>6. CASE Renamed
  <2> DEFINE s == attempt.text.marks
  <2>1. /\ s \in Seq(Executions) /\ IsInjective(s) /\ attempt.key \in Executions
        /\ \A i \in DOMAIN s : s[i] # attempt.key
    BY <1>0, <1>6, RenameLeaves DEF Attempts, Files, Texts, Marked
  <2>2. /\ IsInjective(file'.marks)
        /\ \A x : Marked(x, file)' => x = attempt.key \/ Marked(x, attempt.text)
    <3>1. file'.marks = Append(s, attempt.key) BY <1>6, RenameLeaves
    <3>2. /\ IsInjective(file'.marks)
          /\ \A x : (\E i \in DOMAIN file'.marks : file'.marks[i] = x)
                      => x = attempt.key \/ \E i \in DOMAIN s : s[i] = x
      BY <2>1, <3>1, AppendMark
    <3> QED BY <3>2 DEF Marked
  <2>3. /\ carried'[attempt.key] >= 1 /\ carried' \in [Executions -> Nat]
        /\ \A k \in Executions : carried'[k] >= carried[k]
    BY <1>0, <1>6, <2>1, RenameLeaves
  <2>4. editor' = editor /\ attempt'.text \in {attempt.text, EmptyFile} BY <1>6, RenameLeaves
  <2>5. ASSUME NEW k \in Executions, Marked(k, file)' \/ Marked(k, editor)' \/ Marked(k, attempt.text)'
        PROVE  carried'[k] >= 1
    <3>1. k = attempt.key \/ Marked(k, attempt.text) \/ Marked(k, editor)
      BY <2>2, <2>4, <2>5, NothingMarked DEF Marked
    <3> QED BY <1>0, <1>g, <2>3, <3>1 DEF Texts
  <2>6. IsInjective(editor'.marks) /\ IsInjective(attempt'.text.marks)
    BY <1>0, <2>4, NothingMarked DEF Texts
  <2> QED BY <1>6, <2>2, <2>3, <2>5, <2>6, RenameLeaves DEF Texts
<1>7. ASSUME NEW v \in {"ok", "refused", "retry", "unknown"}, Ended(v) PROVE Texts'
  <2>1. UNCHANGED <<carried, file, editor>> BY <1>7 DEF Ended
  <2>2. attempt'.at = "none" /\ attempt'.text = EmptyFile BY <1>7, EndLeaves DEF Ended
  <2> QED BY <1>k, <1>c, <2>1, <2>2
<1> QED BY <1>u, <1>1, <1>2, <1>3, <1>4, <1>5, <1>6, <1>7, Kinds

LEMMA NotesStep == ASSUME WritesIInv, [WritesNext]_writesVars PROVE Notes'
<1>0. Notes /\ file \in Files /\ attempt \in Attempts BY DEF WritesIInv, Types
<1>1. file.stat \in Nat /\ attempt.before.stat \in Nat BY <1>0 DEF Files, Attempts
\* A step that leaves the texts alone, and does not go on reading or replacing.
<1>k. ASSUME UNCHANGED <<dangers, file, editor>>, attempt'.at \notin {"read", "compare", "replace"} PROVE Notes'
  BY <1>0, <1>k DEF Notes
<1>u. CASE UNCHANGED writesVars BY <1>0, <1>u DEF Notes, writesVars
<1>2. ASSUME NEW k \in Executions, Execute(k) PROVE Notes'
  <2>1. UNCHANGED <<dangers, file, editor>> BY <1>2 DEF Execute
  <2> QED BY <1>2, <1>k, <2>1, ExecuteLeaves
<1>3. ASSUME NEW k \in Executions, Reconcile(k) PROVE Notes'
  <2>1. UNCHANGED <<dangers, attempt, file, editor>> BY <1>3, ReconcileLeaves
  <2> QED BY <1>0, <2>1 DEF Notes
<1>4. CASE EditorOpens \/ EditorSaves
  <2>1. UNCHANGED <<dangers, attempt>> BY <1>4, EditorLeaves
  <2>2. CASE file' = file /\ editor'.notes = editor.notes BY <1>0, <2>1, <2>2 DEF Notes
  <2>3. CASE /\ file'.there /\ file'.stat = file.stat + 1 /\ file'.notes = editor'.notes
             /\ "window" \notin dangers => attempt.at # "replace"
    <3>1. attempt.at = "compare" /\ ~attempt.before.there => attempt.text.notes = 0 BY <1>0 DEF Notes
    <3>2. attempt.at \in {"read", "compare"} => attempt.before.stat < file'.stat
      BY <1>0, <1>1, <2>3 DEF Notes
    <3> QED BY <1>1, <2>1, <2>3, <3>1, <3>2 DEF Notes
  <2> QED BY <1>4, <2>2, <2>3, EditorLeaves
<1>5. CASE Post BY <1>5, <1>k, PostLeaves
<1>6. CASE Moved
  <2>1. UNCHANGED <<dangers, file, editor>> BY <1>6 DEF Moved
  <2>2. CASE attempt'.at \in {"resolve", "post", "target"} BY <1>k, <2>1, <2>2
  <2>3. CASE attempt'.at = "read" /\ attempt'.before = file BY <1>0, <1>1, <2>1, <2>3 DEF Notes
  <2>4. CASE /\ attempt.at = "read" /\ attempt'.at = "compare" /\ attempt'.before = attempt.before
             /\ attempt'.text = IF attempt.before.there THEN file ELSE EmptyFile
    <3>1. EmptyFile.notes = 0 BY DEF EmptyFile
    <3> QED BY <1>0, <2>1, <2>4, <3>1 DEF Notes
  <2>5. CASE /\ attempt.at = "compare" /\ attempt'.at = "replace" /\ Unchanged
             /\ attempt'.text = attempt.text
    <3>1. EmptyFile.notes = 0 BY DEF EmptyFile
    <3>2. attempt.text.notes = file.notes BY <1>0, <2>5, <3>1 DEF Notes, Unchanged
    <3> QED BY <1>0, <2>1, <2>5, <3>2 DEF Notes
  <2> QED BY <1>6, <2>2, <2>3, <2>4, <2>5 DEF Moved
<1>7. CASE Renamed
  <2>1. /\ file'.there /\ file'.notes = attempt.text.notes /\ attempt.at = "replace"
        /\ attempt'.at \in {"none", "confirm"} /\ UNCHANGED <<dangers, editor>>
    BY <1>7, RenameLeaves
  <2> QED BY <1>0, <2>1 DEF Notes
<1>8. ASSUME NEW v \in {"ok", "refused", "retry", "unknown"}, Ended(v) PROVE Notes'
  <2>1. UNCHANGED <<dangers, file, editor>> /\ attempt'.at = "none" BY <1>8, EndLeaves DEF Ended
  <2> QED BY <1>k, <2>1
<1> QED BY <1>u, <1>2, <1>3, <1>4, <1>5, <1>6, <1>7, <1>8, Kinds

-----------------------------------------------------------------------------
\* The inductive invariant gives the invariant the runs check.
LEMMA WritesBounds == WritesIInv => ProviderInv
<1> SUFFICES ASSUME WritesIInv PROVE ProviderInv OBVIOUS
<1>0. Types /\ Counted /\ Truth /\ Texts /\ Notes BY DEF WritesIInv
<1>1. carried \in [Executions -> 0..MaxTries]
  <2>1. MaxTries \in Nat /\ tries \in 0..MaxTries /\ carried \in [Executions -> Nat]
    BY <1>0, WritesAssumption DEF Types
  <2>2. \A k \in Executions : carried[k] <= tries BY <1>0 DEF Counted
  <2> QED BY <2>1, <2>2
<1>2. WritesTypeOK
  <2>1. file.there \in BOOLEAN /\ editor.notes \in 0..MaxSaves BY <1>0 DEF Types, Files
  <2>2. attempt.at \in {"none", "checks", "resolve", "post", "reply", "target", "read", "compare", "replace", "confirm"}
    BY <1>0 DEF Types, Attempts, OfService, OfFile
  <2> QED BY <1>0, <1>1, <2>1, <2>2 DEF Types, WritesTypeOK, Verdicts
<1>3. HonestVerdicts BY <1>0 DEF Truth, CallOfService, HonestVerdicts
<1>4. MarkedOnce /\ EditorKept BY <1>0 DEF Texts, Notes, MarkedOnce, EditorKept
<1> QED BY <1>2, <1>3, <1>4 DEF ProviderInv

\* An adapter's word is good, no request is twice in the Decision Log, and what the
\* editor saved before the adapter last looked stays in it, whatever fails or is retried.
THEOREM ProviderInvariance == WritesSpec => []ProviderInv
<1>1. WritesInit => WritesIInv BY WritesStart
<1>2. WritesIInv /\ [WritesNext]_writesVars => WritesIInv'
  BY TypesStep, OneCallStep, CountedStep, TruthStep, TextsStep, NotesStep DEF WritesIInv
<1>3. WritesIInv => ProviderInv BY WritesBounds
<1> QED BY <1>1, <1>2, <1>3, PTL DEF WritesSpec

(***************************************************************************)
(* Syncs.                                                                  *)
(***************************************************************************)

Steps == {"idle", "issues", "events", "folder", "files", "store", "done"}

Edits == [of : Objects, at : Nat, gone : BOOLEAN]
Snapshots == [stamp : Nat, text : Nat]
SnapshotRows == [space : Spaces, stamp : Nat, text : Nat]

Syncs ==
    [at : Steps, space : Spaces, target : Targets, from : Nat, page : 1 .. MaxPages + 1,
     read : SUBSET Snapshots, listed : SUBSET Nat, count : 0 .. Limit + PerPage,
     newest : Nat, cut : BOOLEAN, seen : Nat]

SyncShape ==
    /\ provider \in Providers /\ risks \in Risks /\ status \in {"CONNECTED", "ERROR"}
    /\ edits \in Seq(Edits) /\ Len(edits) <= MaxEdits
    /\ expired \in Nat /\ cursor \in [target : Targets, mark : Nat]
    /\ rows \in Seq(SnapshotRows) /\ begun \in 0 .. MaxSyncs
    /\ sync \in [SyncThreads -> Syncs]

\* Time goes on, by two seconds at most with every edit.
TimeGoesOn ==
    /\ \A v \in DOMAIN edits : edits[v].at \in 2 .. 2 * v
    /\ \A v, w \in DOMAIN edits : v <= w => edits[v].at <= edits[w].at

\* Edits still to come are not behind a mark.
Past(mark) ==
    IF provider = "GITHUB" THEN mark = 0 \/ \E v \in DOMAIN edits : mark < edits[v].at
    ELSE mark <= Len(edits) + 1

\* A snapshot is of one object, and only a file's text can be newer than its metadata.
Sound(r) ==
    /\ {r.stamp, r.text} \subseteq DOMAIN edits /\ edits[r.stamp].of = edits[r.text].of
    /\ r.stamp <= r.text
    /\ provider # "GOOGLE_DRIVE" => r.stamp = r.text

RowsSound == \A k \in DOMAIN rows : Sound(rows[k])

\* Unless they overlap, one sync is under way.
SyncsAlone ==
    "overlap" \notin risks =>
        \A s, t \in SyncThreads : s = t \/ sync[s].at = "idle" \/ sync[t].at = "idle"

\* What the cursor of a connection that serves one place is for.
CursorPlace == "places" \notin risks /\ provider = "GITHUB" => cursor.target = Usual(Targets)

Kept(v) == provider = "GITHUB" => IsIssue(v)
Behind(v, mark) ==
    \/ provider = "GITHUB" /\ edits[v].at < mark
    \/ provider = "GOOGLE_CALENDAR" /\ v < mark
Stored(v) == \E k \in DOMAIN rows : rows[k].space = Usual(Spaces) /\ rows[k].stamp = v

\* What is behind a mark is stored or among what is about to be.
Covers(target, mark, read) ==
    \A v \in LiveIn(target) :
        Kept(v) /\ Behind(v, mark) => Stored(v) \/ Snapshot(v, v) \in read

CursorCovered == risks \subseteq {"overlap"} => Covers(cursor.target, cursor.mark, {})

-----------------------------------------------------------------------------
(* What is true of one sync.                                               *)

\* A list of pages is GitHub's, of changes Calendar's, of files Drive's.
InPlace(s) ==
    /\ sync[s].at = "issues" => provider = "GITHUB"
    /\ sync[s].at = "events" => provider = "GOOGLE_CALENDAR"
    /\ sync[s].at \in {"folder", "files"} => provider = "GOOGLE_DRIVE"
    /\ sync[s].seen <= Len(edits)
    /\ provider # "GITHUB" => ~sync[s].cut
    /\ sync[s].at \in {"idle", "events", "folder", "done"} => sync[s].read = {}
    /\ sync[s].at # "files" => sync[s].listed = {}
    /\ "places" \notin risks =>
          /\ sync[s].space = Usual(Spaces)
          /\ provider = "GITHUB" => sync[s].target = Usual(Targets)

MarksPast(s) ==
    /\ Past(sync[s].from)
    /\ IF provider = "GITHUB"
       THEN sync[s].newest = 0 \/ \E v \in DOMAIN edits : sync[s].newest = edits[v].at
       ELSE Past(sync[s].newest)

ReadsSound(s) ==
    /\ \A r \in sync[s].read : Sound(r)
    /\ sync[s].listed \subseteq DOMAIN edits

\* But for pages that shift, a sync meets an object once.
OncePerObject(s) ==
    /\ provider # "GITHUB" =>
          \A q, r \in sync[s].read : edits[q.stamp].of = edits[r.stamp].of => q = r
    /\ \A v, w \in sync[s].listed : edits[v].of = edits[w].of => v = w
    /\ \A v \in sync[s].listed, r \in sync[s].read : edits[v].of # edits[r.stamp].of

\* What a sync has read or will read is not older than what its Space has.
NotOlder(row, r) == Of(row) = edits[r.stamp].of => row.stamp <= r.stamp /\ row.text <= r.text

Fresh(s) ==
    "overlap" \notin risks => \A k \in DOMAIN rows : rows[k].space = sync[s].space =>
        /\ \A r \in sync[s].read : NotOlder(rows[k], r)
        /\ \A v \in sync[s].listed : NotOlder(rows[k], Snapshot(v, v))

\* The issues on the pages before the present one.
Before(s) == {v \in Issues(s) : Rank(v, Issues(s)) <= (sync[s].page - 1) * PerPage}

\* Those pages were full and are read.
PagesRead(s) ==
    /\ Cardinality(Before(s)) = (sync[s].page - 1) * PerPage
    /\ sync[s].count = Cardinality({v \in Before(s) : IsIssue(v)})
    /\ \A v \in Before(s) : edits[v].at <= sync[s].newest
    /\ sync[s].newest = 0 \/ \E v \in Before(s) : edits[v].at = sync[s].newest
    /\ \A v \in Before(s) : IsIssue(v) => Snapshot(v, v) \in sync[s].read

\* A list may shift only where an issue of it is edited between two pages.
Paging(s) ==
    sync[s].at = "issues" =>
        /\ sync[s].count < Limit /\ sync[s].page <= MaxPages
        /\ "shift" \notin risks \/ sync[s].seen = Len(edits) => PagesRead(s)

CoveredBy(s) ==
    risks \subseteq {"overlap"} =>
        /\ sync[s].at \in {"issues", "events"} => Covers(sync[s].target, sync[s].from, {})
        /\ sync[s].at = "store" => Covers(sync[s].target, NextMark(s), sync[s].read)

\* A limit is met by a crowd or behind a mark that is further on.
Crowd(s) == {v \in Issues(s) : edits[v].at \in sync[s].from .. sync[s].from + 1}
CutFurther(s) ==
    sync[s].at \in {"store", "done"} /\ sync[s].cut /\ sync[s].seen = Len(edits) =>
        \/ NextMark(s) > sync[s].from
        \/ Cardinality(Crowd(s)) >= Limit
        \/ Cardinality(Crowd(s)) >= PerPage * MaxPages

\* A sync that nothing disturbs leaves nothing out.
Taken(s) == \A v \in LiveIn(sync[s].target) : Kept(v) =>
    \/ \E k \in DOMAIN rows : rows[k] = [space |-> sync[s].space, stamp |-> v, text |-> v]
    \/ Snapshot(v, v) \in sync[s].read
    \/ v \in sync[s].listed

Mirroring(s) ==
    risks = {} /\ sync[s].at \in {"files", "store", "done"} /\ ~sync[s].cut
        /\ sync[s].seen = Len(edits) => Taken(s)

SyncGood(s) ==
    /\ InPlace(s) /\ MarksPast(s) /\ ReadsSound(s) /\ OncePerObject(s) /\ Fresh(s)
    /\ Paging(s) /\ CoveredBy(s) /\ CutFurther(s) /\ Mirroring(s)

\* The inductive invariant.
SyncIInv ==
    /\ SyncShape /\ TimeGoesOn /\ Past(cursor.mark) /\ RowsSound /\ SyncsAlone
    /\ LatestIsNewest /\ CursorPlace /\ CursorCovered
    /\ \A s \in SyncThreads : SyncGood(s)

-----------------------------------------------------------------------------
(* Sets of versions.                                                       *)

\* A set of numbers has a least one.
LEMMA LeastNumber ==
    ASSUME NEW T, T \subseteq Nat, T # {}
    PROVE  \E x \in T : \A y \in T : x <= y
<1>1. \E x \in T : \A y \in T : ~ (<<y, x>> \in OpToRel(<, Nat))
  BY NatLessThanWellFounded, WFMin
<1>2. PICK x \in T : \A y \in T : ~ (<<y, x>> \in OpToRel(<, Nat))
  BY <1>1
<1>3. \A y \in T : ~(y < x)
  BY <1>2 DEF OpToRel
<1>4. QED
  BY <1>3

\* A set of versions has a last one.
LEMMA Greatest ==
    ASSUME NEW n \in Nat, NEW T \in SUBSET (1 .. n), T # {}
    PROVE  \E x \in T : \A y \in T : y <= x
<1> DEFINE U == {n - x : x \in T}
<1>1. U # {}
  OBVIOUS
<1>2. \A x \in T : n - x \in Nat
  OBVIOUS
<1>3. U \subseteq Nat
  BY <1>2
<1>4. PICK u \in U : \A y \in U : u <= y
  BY <1>1, <1>3, LeastNumber
<1>5. PICK x \in T : u = n - x
  BY <1>4
<1>6. \A y \in T : n - x <= n - y
  BY <1>4, <1>5
<1>7. \A y \in T : y <= x
  BY <1>6
<1>8. QED
  BY <1>7

\* The version of an object is the last of its edits.
LEMMA VersionIsLast ==
    ASSUME edits \in Seq(Edits), NEW o
    PROVE  /\ EditsOf(o) \subseteq DOMAIN edits
           /\ Version(o) \in 0 .. Len(edits)
           /\ Version(o) = 0 <=> EditsOf(o) = {}
           /\ Version(o) # 0 => Version(o) \in DOMAIN edits /\ edits[Version(o)].of = o
           /\ \A v \in EditsOf(o) : v <= Version(o)
<1>1. EditsOf(o) \in SUBSET (1 .. Len(edits)) /\ Len(edits) \in Nat /\ DOMAIN edits = 1 .. Len(edits)
  BY DEF EditsOf
<1>2. CASE EditsOf(o) = {}
  BY <1>1, <1>2 DEF Version
<1>3. CASE EditsOf(o) # {}
  <2>1. PICK x \in EditsOf(o) : \A y \in EditsOf(o) : y <= x
    BY <1>1, <1>3, Greatest
  <2>2. Version(o) \in EditsOf(o) /\ \A w \in EditsOf(o) : w <= Version(o)
    BY <1>3, <2>1 DEF Version
  <2>3. QED
    BY <1>1, <1>3, <2>2 DEF EditsOf
<1>4. QED
  BY <1>2, <1>3

\* The versions of a target's objects, and those of them that are live.
LEMMA CurrentVersions ==
    ASSUME edits \in Seq(Edits), NEW target
    PROVE  /\ LiveIn(target) \subseteq Current(target) /\ Current(target) \subseteq DOMAIN edits
           /\ \A v \in Current(target) : Version(edits[v].of) = v /\ edits[v].of[1] = target
           /\ \A o \in Objects : Live(o) /\ o[1] = target => Version(o) \in LiveIn(target)
           /\ \A v \in LiveIn(target) : ~edits[v].gone /\ Live(edits[v].of)
<1>1. \A v \in Current(target) : v \in DOMAIN edits /\ Version(edits[v].of) = v /\ edits[v].of[1] = target
  BY VersionIsLast DEF Current
<1>2. Len(edits) \in Nat /\ DOMAIN edits = 1 .. Len(edits)
  OBVIOUS
<1>3. \A v \in LiveIn(target) : ~edits[v].gone /\ Live(edits[v].of)
  BY <1>1, <1>2 DEF LiveIn, Live
<1>4. QED
  BY <1>1, <1>3 DEF LiveIn, Live, Current

\* The newest time among some versions.
LEMMA LatestIsOne ==
    ASSUME edits \in Seq(Edits), TimeGoesOn, NEW S \in SUBSET DOMAIN edits
    PROVE  /\ S = {} => Latest(S) = 0
           /\ S # {} => \E v \in S : Latest(S) = edits[v].at
           /\ \A w \in S : edits[w].at <= Latest(S)
<1>1. Len(edits) \in Nat /\ DOMAIN edits = 1 .. Len(edits)
  OBVIOUS
<1>2. CASE S = {}
  BY <1>2 DEF Latest
<1>3. CASE S # {}
  <2>1. PICK x \in S : \A y \in S : y <= x
    BY <1>1, <1>3, Greatest
  <2>2. \A w \in S : edits[w].at <= edits[x].at
    BY <2>1 DEF TimeGoesOn
  <2>3. Latest(S) \in {edits[v].at : v \in S} /\ \A v \in S : edits[v].at <= Latest(S)
    BY <1>3, <2>1, <2>2 DEF Latest
  <2>4. QED
    BY <1>3, <2>3
<1>4. QED
  BY <1>2, <1>3

-----------------------------------------------------------------------------
(* Ranks and pages.                                                        *)

\* Ranks count the versions of a set upwards.
LEMMA Ranks ==
    ASSUME NEW n \in Nat, NEW S \in SUBSET (1 .. n)
    PROVE  /\ IsFiniteSet(S) /\ Cardinality(S) \in Nat
           /\ \A v \in S : Rank(v, S) \in 1 .. Cardinality(S)
           /\ \A v, w \in S : v < w <=> Rank(v, S) < Rank(w, S)
<1>0. IsFiniteSet(1 .. n)
  BY FS_Interval, 1 \in Int, n \in Int
<1>1. IsFiniteSet(S) /\ Cardinality(S) \in Nat
  BY <1>0, FS_Subset, FS_CardinalityType
<1> DEFINE Upto(v) == {w \in S : w <= v}
<1>2. \A v \in S : IsFiniteSet(Upto(v)) /\ Cardinality(Upto(v)) \in Nat /\ Cardinality(Upto(v)) <= Cardinality(S)
  BY <1>1, FS_Subset, FS_CardinalityType
<1>3. \A v \in S : Cardinality(Upto(v)) # 0
  <2>1. TAKE v \in S
  <2>2. v \in Upto(v)
    OBVIOUS
  <2>3. QED
    BY <1>2, <2>2, FS_EmptySet
<1>4. \A v, w \in S : v < w => Cardinality(Upto(v)) < Cardinality(Upto(w))
  <2>1. SUFFICES ASSUME NEW v \in S, NEW w \in S, v < w
                 PROVE  Cardinality(Upto(v)) < Cardinality(Upto(w))
    OBVIOUS
  <2>a. \A x \in S : x <= v => x <= w
    BY <2>1
  <2>b. Upto(v) \in SUBSET Upto(w)
    BY <2>a
  <2>c. w \in Upto(w) /\ w \notin Upto(v)
    BY <2>1
  <2>2. Upto(v) \in SUBSET Upto(w) /\ w \in Upto(w) /\ w \notin Upto(v)
    BY <2>b, <2>c
  <2>3. Cardinality(Upto(v)) <= Cardinality(Upto(w)) /\ Cardinality(Upto(v)) # Cardinality(Upto(w))
    BY <1>2, <2>2, FS_Subset
  <2>4. QED
    BY <1>2, <2>3
<1>5. \A v \in S : Rank(v, S) = Cardinality(Upto(v))
  BY DEF Rank
<1> HIDE DEF Upto
<1>6. \A v \in S : Rank(v, S) \in 1 .. Cardinality(S)
  BY <1>1, <1>2, <1>3, <1>5
<1>7. \A v, w \in S : v < w => Rank(v, S) < Rank(w, S)
  BY <1>4, <1>5
<1>8. \A v, w \in S : Rank(v, S) < Rank(w, S) => v < w
  <2>1. SUFFICES ASSUME NEW v \in S, NEW w \in S, Rank(v, S) < Rank(w, S), w <= v
                 PROVE  FALSE
    OBVIOUS
  <2>2. w < v \/ w = v
    BY <2>1
  <2>3. QED
    BY <1>6, <1>7, <2>1, <2>2
<1>9. QED
  BY <1>1, <1>6, <1>7, <1>8

\* Ranks between two numbers are as many as these allow, and exactly as many if the set goes on.
LEMMA RanksBetween ==
    ASSUME NEW n \in Nat, NEW S \in SUBSET (1 .. n), NEW a \in Nat, NEW b \in Nat, a <= b,
           NEW T, T = {v \in S : Rank(v, S) \in a + 1 .. b}
    PROVE  /\ IsFiniteSet(T) /\ Cardinality(T) \in Nat /\ Cardinality(T) <= b - a
           /\ (\E w \in S : Rank(w, S) > b) => Cardinality(T) = b - a
<1> DEFINE f == [v \in T |-> Rank(v, S)]
           g == [v \in S |-> Rank(v, S)]
<1>1. /\ IsFiniteSet(S) /\ Cardinality(S) \in Nat
      /\ \A v \in S : Rank(v, S) \in 1 .. Cardinality(S)
      /\ \A v, w \in S : v < w <=> Rank(v, S) < Rank(w, S)
  BY Ranks
<1>2. \A v, w \in S : Rank(v, S) = Rank(w, S) => v = w
  BY <1>1
<1>3. f \in Injection(T, a + 1 .. b)
  BY <1>2 DEF Injection, IsInjective
<1>a. a + 1 \in Int /\ b \in Int
  OBVIOUS
<1>b. IsFiniteSet(a + 1 .. b) /\ Cardinality(a + 1 .. b) = IF a + 1 > b THEN 0 ELSE b - (a + 1) + 1
  BY <1>a, FS_Interval
<1>4. IsFiniteSet(a + 1 .. b) /\ Cardinality(a + 1 .. b) = b - a
  BY <1>b
<1>5. IsFiniteSet(T) /\ Cardinality(T) <= b - a
  BY <1>3, <1>4, FS_Injection
<1>6. ASSUME NEW w \in S, Rank(w, S) > b
      PROVE  Cardinality(T) = b - a
  <2>1. g \in Injection(S, 1 .. Cardinality(S))
    BY <1>1, <1>2 DEF Injection, IsInjective
  <2>2. IsFiniteSet(1 .. Cardinality(S)) /\ Cardinality(1 .. Cardinality(S)) = Cardinality(S)
    BY <1>1, FS_Interval
  <2>3. g \in Surjection(S, 1 .. Cardinality(S))
    BY <2>1, <2>2, FS_Injection
  <2>4. \A j \in a + 1 .. b : \E v \in S : Rank(v, S) = j
    <3>1. TAKE j \in a + 1 .. b
    <3>2. j \in 1 .. Cardinality(S)
      BY <1>1, <1>6
    <3>3. QED
      BY <2>3, <3>2 DEF Surjection
  <2>5. \A j \in a + 1 .. b : \E v \in T : f[v] = j
    BY <2>4
  <2>6. f \in Surjection(T, a + 1 .. b)
    BY <1>3, <2>5 DEF Surjection, Injection
  <2>7. QED
    BY <1>3, <1>4, <2>6, FS_Injection
<1>7. Cardinality(T) \in Nat
  BY <1>5, FS_CardinalityType
<1>8. QED
  BY <1>5, <1>6, <1>7

-----------------------------------------------------------------------------
(* Syncs a step does not touch, and syncs that end.                        *)

RowsOnlyGrow ==
    /\ rows' \in Seq(SnapshotRows) /\ Len(rows) <= Len(rows')
    /\ \A k \in DOMAIN rows : rows'[k] = rows[k]

\* What is said of the account alone stays while nobody edits.
LEMMA SameAccount ==
    ASSUME UNCHANGED <<provider, edits>>
    PROVE  /\ \A target : LiveIn(target)' = LiveIn(target) /\ Current(target)' = Current(target)
           /\ \A v : Kept(v)' = Kept(v)
           /\ \A v, mark : Behind(v, mark)' = Behind(v, mark)
           /\ \A mark : Past(mark)' = Past(mark)
           /\ \A r : Sound(r)' = Sound(r)
<1>1. \A o : Version(o)' = Version(o)
  BY DEF Version, EditsOf
<1>2. \A target : Current(target)' = Current(target)
  BY <1>1 DEF Current
<1>3. \A target : LiveIn(target)' = LiveIn(target)
  BY <1>2 DEF LiveIn
<1>4. \A v : Kept(v)' = Kept(v)
  BY DEF Kept, IsIssue
<1>5. \A v, mark : Behind(v, mark)' = Behind(v, mark)
  BY DEF Behind
<1>6. \A mark : Past(mark)' = Past(mark)
  BY DEF Past
<1>7. \A r : Sound(r)' = Sound(r)
  BY DEF Sound
<1>8. QED
  BY <1>2, <1>3, <1>4, <1>5, <1>6, <1>7

\* Rows are never removed: what is covered stays covered.
LEMMA CoversStays ==
    ASSUME UNCHANGED <<provider, edits>>, rows \in Seq(SnapshotRows), RowsOnlyGrow,
           NEW target, NEW mark, NEW read, Covers(target, mark, read)
    PROVE  Covers(target, mark, read)'
<1>1. DOMAIN rows \subseteq DOMAIN rows'
  BY DEF RowsOnlyGrow
<1>2. \A v : Stored(v) => Stored(v)'
  BY <1>1 DEF Stored, RowsOnlyGrow
<1>3. QED
  BY <1>2, SameAccount DEF Covers, Snapshot

\* A step leaves the syncs of other threads in order.
LEMMA Untouched ==
    ASSUME SyncIInv, UNCHANGED <<provider, risks, edits>>, RowsOnlyGrow,
           NEW t \in SyncThreads, sync'[t] = sync[t],
           rows' = rows \/ "overlap" \in risks \/ sync[t].at = "idle"
    PROVE  SyncGood(t)'
<1>i. SyncGood(t) /\ SyncShape
  BY DEF SyncIInv
<1>n. DOMAIN rows \subseteq DOMAIN rows'
  BY <1>i DEF RowsOnlyGrow, SyncShape
<1>1. InPlace(t)'
  BY <1>i DEF SyncGood, InPlace
<1>2. MarksPast(t)'
  BY <1>i, SameAccount DEF SyncGood, MarksPast
<1>3. ReadsSound(t)'
  BY <1>i, SameAccount DEF SyncGood, ReadsSound
<1>4. OncePerObject(t)'
  BY <1>i DEF SyncGood, OncePerObject
<1>5. Fresh(t)'
  <2>1. CASE rows' = rows
    BY <1>i, <2>1 DEF SyncGood, Fresh, NotOlder, Of, Snapshot
  <2>2. CASE "overlap" \in risks
    BY <2>2 DEF Fresh
  <2>3. CASE sync[t].at = "idle"
    <3>1. sync[t].read = {} /\ sync[t].listed = {}
      BY <1>i, <2>3 DEF SyncGood, InPlace
    <3>2. QED
      BY <3>1 DEF Fresh
  <2>4. QED
    BY <2>1, <2>2, <2>3
<1>a. Issues(t)' = Issues(t)
  BY SameAccount DEF Issues
<1>b. Before(t)' = Before(t)
  BY <1>a DEF Before
<1>6. Paging(t)'
  <2>1. {v \in Before(t) : IsIssue(v)}' = {v \in Before(t) : IsIssue(v)}
    BY <1>b DEF IsIssue
  <2>2. PagesRead(t) => PagesRead(t)'
    BY <1>b, <2>1 DEF PagesRead, IsIssue, Snapshot
  <2>3. QED
    BY <1>i, <2>2 DEF SyncGood, Paging
<1>c. NextMark(t)' = NextMark(t)
  BY DEF NextMark
<1>7. CoveredBy(t)'
  <2>1. \A target, mark, read : Covers(target, mark, read) => Covers(target, mark, read)'
    BY <1>i, CoversStays DEF SyncShape
  <2>2. QED
    BY <1>i, <1>c, <2>1 DEF SyncGood, CoveredBy
<1>8. CutFurther(t)'
  <2>1. Crowd(t)' = Crowd(t)
    BY <1>a DEF Crowd
  <2>2. QED
    BY <1>i, <1>c, <2>1 DEF SyncGood, CutFurther
<1>9. Mirroring(t)'
  <2>1. Taken(t) => Taken(t)'
    BY <1>n, SameAccount DEF Taken, RowsOnlyGrow, Snapshot
  <2>2. QED
    BY <1>i, <2>1 DEF SyncGood, Mirroring
<1>10. QED
  BY <1>1, <1>2, <1>3, <1>4, <1>5, <1>6, <1>7, <1>8, <1>9 DEF SyncGood

\* What the assumption gives, and the sync that has not begun.
LEMMA SyncConstants ==
    /\ Usual(Spaces) \in Spaces /\ Usual(Targets) \in Targets
    /\ Limit \in Nat \ {0} /\ PerPage \in Nat \ {0} /\ MaxPages \in Nat \ {0}
    /\ MaxEdits \in Nat /\ MaxSyncs \in Nat
    /\ NoSync \in Syncs
<1>1. Usual(Spaces) \in Spaces /\ Usual(Targets) \in Targets
  BY SyncAssumption DEF Usual
<1>2. /\ Limit \in Nat \ {0} /\ PerPage \in Nat \ {0} /\ MaxPages \in Nat \ {0}
      /\ MaxEdits \in Nat /\ MaxSyncs \in Nat
  BY SyncAssumption
<1>3. NoSync \in Syncs
  BY <1>1, <1>2 DEF NoSync, Syncs, Steps
<1>4. QED
  BY <1>1, <1>2, <1>3

\* A thread without a sync is in order.
LEMMA NothingUnderWay ==
    ASSUME edits' \in Seq(Edits), NEW t \in SyncThreads, sync'[t] = NoSync
    PROVE  SyncGood(t)'
<1>1. /\ sync'[t].at = "idle" /\ sync'[t].read = {} /\ sync'[t].listed = {} /\ ~sync'[t].cut
      /\ sync'[t].from = 0 /\ sync'[t].newest = 0 /\ sync'[t].seen = 0
      /\ sync'[t].space = Usual(Spaces) /\ sync'[t].target = Usual(Targets)
  BY DEF NoSync
<1>2. Len(edits') \in Nat
  OBVIOUS
<1>3. InPlace(t)' /\ MarksPast(t)' /\ ReadsSound(t)'
  BY <1>1, <1>2 DEF InPlace, MarksPast, ReadsSound, Past
<1>4. OncePerObject(t)' /\ Fresh(t)' /\ Paging(t)'
  BY <1>1 DEF OncePerObject, Fresh, Paging
<1>5. CoveredBy(t)' /\ CutFurther(t)' /\ Mirroring(t)'
  BY <1>1 DEF CoveredBy, CutFurther, Mirroring
<1>6. QED
  BY <1>3, <1>4, <1>5 DEF SyncGood

\* What the account and the rows say stays true if they stay.
LEMMA SameRecords ==
    ASSUME SyncIInv, UNCHANGED <<provider, risks, edits, rows, cursor>>
    PROVE  /\ TimeGoesOn' /\ Past(cursor.mark)' /\ RowsSound' /\ LatestIsNewest'
           /\ CursorPlace' /\ CursorCovered'
<1>1. /\ TimeGoesOn /\ Past(cursor.mark) /\ RowsSound /\ LatestIsNewest
      /\ CursorPlace /\ CursorCovered
  BY DEF SyncIInv
<1>2. TimeGoesOn' /\ CursorPlace' /\ RowsSound'
  BY <1>1 DEF TimeGoesOn, CursorPlace, RowsSound, Sound
<1>3. Past(cursor.mark)'
  BY <1>1 DEF Past
<1>4. LatestIsNewest'
  BY <1>1 DEF LatestIsNewest, Of
<1>5. \A v : Stored(v)' = Stored(v)
  BY DEF Stored
<1>6. CursorCovered'
  BY <1>1, <1>5, SameAccount DEF CursorCovered, Covers, Snapshot
<1>7. QED
  BY <1>2, <1>3, <1>4, <1>6

\* A step of one sync that stores nothing keeps the invariant if that sync is in order.
LEMMA OneSyncMoves ==
    ASSUME SyncIInv, UNCHANGED <<provider, risks, edits, rows, cursor>>,
           expired' \in Nat, status' \in {"CONNECTED", "ERROR"}, begun' \in 0 .. MaxSyncs,
           NEW s \in SyncThreads, NEW w \in Syncs, sync' = [sync EXCEPT ![s] = w],
           SyncGood(s)',
           \/ w.at = "idle" \/ sync[s].at # "idle" \/ "overlap" \in risks
           \/ \A t \in SyncThreads : sync[t].at = "idle"
    PROVE  SyncIInv'
<1>i. SyncShape /\ SyncsAlone
  BY DEF SyncIInv
<1>1. sync \in [SyncThreads -> Syncs]
  BY <1>i DEF SyncShape
<1>2. SyncShape'
  BY <1>i, <1>1 DEF SyncShape
<1>3. sync'[s] = w /\ \A t \in SyncThreads \ {s} : sync'[t] = sync[t]
  BY <1>1
<1>4. SyncsAlone'
  BY <1>i, <1>3 DEF SyncsAlone
<1>5. RowsOnlyGrow
  BY <1>i DEF RowsOnlyGrow, SyncShape
<1>6. \A t \in SyncThreads \ {s} : SyncGood(t)'
  BY <1>3, <1>5, Untouched
<1>7. \A t \in SyncThreads : SyncGood(t)'
  BY <1>6
<1>8. QED
  BY <1>2, <1>4, <1>7, SameRecords DEF SyncIInv

-----------------------------------------------------------------------------
(* An edit at the provider.                                                *)

\* An edit adds a version, not older than the others.
LEMMA EditMakesAVersion ==
    ASSUME SyncIInv, NEW o \in Objects, NEW gone \in BOOLEAN, Edit(o, gone)
    PROVE  /\ edits' \in Seq(Edits) /\ Len(edits') = Len(edits) + 1 /\ Len(edits) \in Nat
           /\ DOMAIN edits = 1 .. Len(edits) /\ DOMAIN edits' = 1 .. Len(edits) + 1
           /\ Len(edits) + 1 <= MaxEdits
           /\ \A v \in DOMAIN edits : edits'[v] = edits[v]
           /\ edits'[Len(edits) + 1].at \in 2 .. 2 * (Len(edits) + 1)
           /\ \A v \in DOMAIN edits : edits[v].at <= edits'[Len(edits) + 1].at
           /\ edits'[Len(edits) + 1].of = o
<1>i. edits \in Seq(Edits) /\ TimeGoesOn /\ MaxEdits \in Nat
  BY SyncConstants DEF SyncIInv, SyncShape
<1> DEFINE n == Len(edits)
<1>1. n \in Nat /\ DOMAIN edits = 1 .. n /\ n + 1 <= MaxEdits
  BY <1>i DEF Edit
<1>2. PICK now \in Int : /\ edits' = Append(edits, [of |-> o, at |-> now, gone |-> gone])
                         /\ IF edits = <<>> THEN now = 2 ELSE now \in {edits[n].at, edits[n].at + 2}
  <2>1. PICK tick \in {0, 2} :
            edits' = Append(edits, [of |-> o, at |-> IF edits = <<>> THEN 2 ELSE edits[n].at + tick, gone |-> gone])
    BY DEF Edit
  <2>2. CASE edits = <<>>
    BY <2>1, <2>2
  <2>3. CASE edits # <<>>
    <3>1. n \in DOMAIN edits
      BY <1>i, <1>1, <2>3, EmptySeq
    <3>2. edits[n].at \in Int
      BY <1>i, <3>1 DEF TimeGoesOn
    <3>3. edits[n].at + tick \in {edits[n].at, edits[n].at + 2}
      BY <3>2, <2>1
    <3>4. QED
      BY <2>1, <2>3, <3>2, <3>3
  <2>4. QED
    BY <2>2, <2>3
<1>3. now \in 2 .. 2 * (n + 1) /\ \A v \in DOMAIN edits : edits[v].at <= now
  <2>1. CASE edits = <<>>
    BY <1>1, <1>2, <2>1
  <2>2. CASE edits # <<>>
    <3>1. n \in DOMAIN edits
      BY <1>i, <1>1, <2>2, EmptySeq
    <3>2. edits[n].at \in 2 .. 2 * n
      BY <1>i, <3>1 DEF TimeGoesOn
    <3>3. \A v \in DOMAIN edits : edits[v].at \in Int /\ edits[v].at <= edits[n].at
      BY <1>1, <1>i, <3>1 DEF TimeGoesOn
    <3>4. QED
      BY <1>1, <1>2, <2>2, <3>2, <3>3
  <2>3. QED
    BY <2>1, <2>2
<1> DEFINE e == [of |-> o, at |-> now, gone |-> gone]
<1>4. e \in Edits
  BY <1>3, <1>1 DEF Edits
<1>5. e.of = o /\ e.at = now
  OBVIOUS
<1> HIDE DEF e
<1>6. edits' = Append(edits, e)
  BY <1>2 DEF e
<1>7. /\ edits' \in Seq(Edits) /\ Len(edits') = n + 1 /\ edits'[n + 1] = e
      /\ \A v \in 1 .. n : edits'[v] = edits[v]
  BY <1>i, <1>4, <1>6, AppendProperties
<1>8. DOMAIN edits' = 1 .. n + 1
  BY <1>7
<1>9. QED
  BY <1>1, <1>3, <1>5, <1>7, <1>8

\* An edit takes the place of one version at most.
LEMMA EditChangesOneObject ==
    ASSUME SyncIInv, NEW o \in Objects, NEW gone \in BOOLEAN, Edit(o, gone), NEW target
    PROVE  /\ LiveIn(target)' \subseteq LiveIn(target) \union {Len(edits) + 1}
           /\ LiveIn(target) \ {Version(o)} \subseteq LiveIn(target)'
<1>i. edits \in Seq(Edits)
  BY DEF SyncIInv, SyncShape
<1> DEFINE n == Len(edits)
<1>1. /\ edits' \in Seq(Edits) /\ Len(edits') = n + 1 /\ n \in Nat
      /\ DOMAIN edits = 1 .. n /\ DOMAIN edits' = 1 .. n + 1
      /\ \A v \in DOMAIN edits : edits'[v] = edits[v]
      /\ edits'[n + 1].of = o
  BY EditMakesAVersion
<1> HIDE DEF n
<1>2. \A p : p # o => EditsOf(p)' = EditsOf(p)
  BY <1>1 DEF EditsOf
<1>3. \A p : p # o => Version(p)' = Version(p)
  <2>1. SUFFICES ASSUME NEW p, p # o
                 PROVE  Version(p)' = Version(p)
    OBVIOUS
  <2>2. EditsOf(p)' = EditsOf(p)
    BY <1>2, <2>1
  <2>3. QED
    BY <2>2 DEF Version
<1>4. Version(o)' = n + 1
  <2>1. n + 1 \in EditsOf(o)' /\ \A w \in EditsOf(o)' : w <= n + 1
    BY <1>1 DEF EditsOf
  <2>2. Version(o)' \in EditsOf(o)' /\ \A w \in EditsOf(o)' : w <= Version(o)'
    BY <2>1 DEF Version
  <2>3. Version(o)' <= n + 1 /\ n + 1 <= Version(o)' /\ Version(o)' \in Int
    BY <1>1, <2>1, <2>2 DEF EditsOf
  <2>4. QED
    BY <1>1, <2>3
<1>5. \A v \in Current(target) : v \in DOMAIN edits
  BY <1>i, CurrentVersions
<1>6. Current(target)' \subseteq Current(target) \union {n + 1}
  BY <1>3, <1>4 DEF Current
<1>7. Current(target) \ {Version(o)} \subseteq Current(target)'
  BY <1>3 DEF Current
<1>8. \A v \in Current(target) : edits'[v].gone = edits[v].gone
  BY <1>1, <1>5
<1>9. QED
  BY <1>6, <1>7, <1>8 DEF LiveIn, n

\* The mark a sync will save is behind everything still to come.
LEMMA NextMarkPast ==
    ASSUME SyncShape, TimeGoesOn, NEW s \in SyncThreads, MarksPast(s)
    PROVE  Past(NextMark(s)) /\ NextMark(s) \in Nat
<1>1. sync[s] \in Syncs /\ edits \in Seq(Edits)
  BY DEF SyncShape
<1>2. sync[s].newest \in Nat /\ sync[s].from \in Nat
  BY <1>1 DEF Syncs
<1>3. \A v \in DOMAIN edits : edits[v].at \in Int
  BY DEF TimeGoesOn
<1>4. CASE provider # "GITHUB"
  BY <1>2, <1>4 DEF MarksPast, NextMark
<1>5. CASE provider = "GITHUB" /\ sync[s].newest = 0
  BY <1>2, <1>5 DEF MarksPast, NextMark
<1>6. CASE provider = "GITHUB" /\ sync[s].newest # 0
  <2>1. PICK v \in DOMAIN edits : sync[s].newest = edits[v].at
    BY <1>6 DEF MarksPast
  <2>2. NextMark(s) = sync[s].newest - 1
    BY <1>6 DEF NextMark
  <2>3. NextMark(s) \in Nat /\ NextMark(s) < edits[v].at
    BY <1>2, <1>6, <2>1, <2>2
  <2>4. QED
    BY <1>6, <2>1, <2>3 DEF Past
<1>7. QED
  BY <1>4, <1>5, <1>6

\* A mark behind everything to come stays so.
LEMMA EditPast ==
    ASSUME SyncIInv, NEW o \in Objects, NEW gone \in BOOLEAN, Edit(o, gone),
           NEW mark \in Nat, Past(mark)
    PROVE  Past(mark)'
<1>i. edits \in Seq(Edits) /\ UNCHANGED provider
  BY DEF SyncIInv, SyncShape, Edit
<1>1. /\ Len(edits') = Len(edits) + 1 /\ Len(edits) \in Nat
      /\ DOMAIN edits = 1 .. Len(edits) /\ DOMAIN edits' = 1 .. Len(edits) + 1
      /\ \A v \in DOMAIN edits : edits'[v] = edits[v]
  BY EditMakesAVersion
<1>2. CASE provider = "GITHUB"
  <2>1. mark = 0 \/ \E v \in DOMAIN edits' : mark < edits'[v].at
    BY <1>1, <1>2 DEF Past
  <2>2. QED
    BY <1>i, <1>2, <2>1 DEF Past
<1>3. CASE provider # "GITHUB"
  BY <1>i, <1>1, <1>3 DEF Past
<1>4. QED
  BY <1>2, <1>3

\* A new version is not behind a mark: what was covered is all there is to cover.
LEMMA EditCovers ==
    ASSUME SyncIInv, NEW o \in Objects, NEW gone \in BOOLEAN, Edit(o, gone),
           NEW target, NEW mark \in Nat, NEW read, Past(mark), Covers(target, mark, read)
    PROVE  Covers(target, mark, read)'
<1>i. edits \in Seq(Edits) /\ TimeGoesOn /\ UNCHANGED <<provider, rows>>
  BY DEF SyncIInv, SyncShape, Edit
<1> DEFINE n == Len(edits)
<1>1. /\ edits' \in Seq(Edits) /\ Len(edits') = n + 1 /\ n \in Nat
      /\ DOMAIN edits = 1 .. n /\ DOMAIN edits' = 1 .. n + 1
      /\ \A v \in DOMAIN edits : edits'[v] = edits[v]
      /\ edits'[n + 1].at \in 2 .. 2 * (n + 1)
      /\ \A v \in DOMAIN edits : edits[v].at <= edits'[n + 1].at
  BY EditMakesAVersion
<1>2. LiveIn(target)' \subseteq LiveIn(target) \union {n + 1}
  BY EditChangesOneObject
<1>3. LiveIn(target) \subseteq DOMAIN edits
  BY <1>i, CurrentVersions
<1> HIDE DEF n
<1>5. \A x : x = n + 1 => ~Behind(x, mark)'
  <2>1. SUFFICES ASSUME NEW x, x = n + 1
                 PROVE  ~Behind(x, mark)'
    OBVIOUS
  <2>2. CASE provider = "GITHUB"
    <3>1. mark <= edits'[x].at
      <4>1. \A v \in DOMAIN edits : edits[v].at \in Int
        BY <1>i DEF TimeGoesOn
      <4>2. QED
        BY <1>1, <2>1, <2>2, <4>1 DEF Past
    <3>2. QED
      BY <1>i, <1>1, <2>1, <2>2, <3>1 DEF Behind
  <2>3. CASE provider # "GITHUB"
    BY <1>i, <1>1, <2>1, <2>3 DEF Past, Behind, n
  <2>4. QED
    BY <2>2, <2>3
<1>6. \A v \in LiveIn(target) : Kept(v)' = Kept(v) /\ Behind(v, mark)' = Behind(v, mark)
  BY <1>i, <1>1, <1>3 DEF Kept, IsIssue, Behind
<1>7. \A v : Stored(v)' = Stored(v)
  BY <1>i DEF Stored
<1>8. \A v \in LiveIn(target)' : Kept(v)' /\ Behind(v, mark)' => Stored(v)' \/ Snapshot(v, v) \in read
  <2>1. SUFFICES ASSUME NEW v \in LiveIn(target)', Kept(v)', Behind(v, mark)'
                 PROVE  Stored(v)' \/ Snapshot(v, v) \in read
    OBVIOUS
  <2>2. v # n + 1
    BY <1>5, <2>1
  <2>3. v \in LiveIn(target)
    BY <1>2, <2>1, <2>2
  <2>4. QED
    BY <1>6, <1>7, <2>1, <2>3 DEF Covers
<1>9. QED
  BY <1>8 DEF Covers, Snapshot

\* What is added at the end of a list leaves the pages before it as they were.
LEMMA PagesBeforeStay ==
    ASSUME NEW n \in Nat, NEW S \in SUBSET (1 .. n), NEW k \in Nat,
           Cardinality({v \in S : Rank(v, S) <= k}) = k,
           NEW S2, S \subseteq S2, S2 \subseteq S \union {n + 1}
    PROVE  {v \in S2 : Rank(v, S2) <= k} = {v \in S : Rank(v, S) <= k}
<1>1. n + 1 \in Nat /\ S2 \in SUBSET (1 .. n + 1)
  OBVIOUS
<1>2. IsFiniteSet(S) /\ Cardinality(S) \in Nat
  BY Ranks
<1>3. \A v \in S : Rank(v, S2) = Rank(v, S)
  <2>1. TAKE v \in S
  <2>2. \A w \in S2 : w <= v => w \in S
    OBVIOUS
  <2>3. {w \in S2 : w <= v} = {w \in S : w <= v}
    BY <2>2
  <2>4. QED
    BY <2>3 DEF Rank
<1>4. k <= Cardinality(S)
  <2>1. {v \in S : Rank(v, S) <= k} \in SUBSET S
    OBVIOUS
  <2>2. QED
    BY <1>2, <2>1, FS_Subset
<1>5. n + 1 \in S2 => Rank(n + 1, S2) = Cardinality(S) + 1
  <2>1. SUFFICES ASSUME n + 1 \in S2
                 PROVE  Rank(n + 1, S2) = Cardinality(S) + 1
    OBVIOUS
  <2>2. \A w \in S2 : w <= n + 1
    BY <1>1
  <2>3. {w \in S2 : w <= n + 1} = S \union {n + 1}
    BY <2>1, <2>2
  <2>4. n + 1 \notin S
    OBVIOUS
  <2>5. Cardinality(S \union {n + 1}) = Cardinality(S) + 1
    BY <1>2, <2>4, FS_AddElement
  <2>6. QED
    BY <2>3, <2>5 DEF Rank
<1>6. n + 1 \in S2 => ~(Rank(n + 1, S2) <= k)
  BY <1>2, <1>4, <1>5
<1>7. QED
  BY <1>3, <1>6

\* There is nothing before the first page.
LEMMA NoneBeforeTheFirst ==
    ASSUME NEW n \in Nat, NEW S \in SUBSET (1 .. n)
    PROVE  {v \in S : Rank(v, S) <= 0} = {}
<1>1. \A v \in S : Rank(v, S) \in 1 .. Cardinality(S)
  BY Ranks
<1>2. Cardinality(S) \in Nat
  BY Ranks
<1>3. \A v \in S : ~(Rank(v, S) <= 0)
  BY <1>1, <1>2
<1>4. QED
  BY <1>3

\* The issues listed are versions.
LEMMA BeforeAreListed ==
    ASSUME edits \in Seq(Edits), NEW s
    PROVE  /\ Issues(s) \in SUBSET (1 .. Len(edits)) /\ Len(edits) \in Nat
           /\ Before(s) \subseteq Issues(s) /\ DOMAIN edits = 1 .. Len(edits)
<1>1. Issues(s) \subseteq DOMAIN edits
  BY CurrentVersions DEF Issues
<1>2. QED
  BY <1>1 DEF Before

\* An edit does not touch the pages a sync has read, unless the list shifts.
LEMMA EditPages ==
    ASSUME SyncIInv, NEW o \in Objects, NEW gone \in BOOLEAN, Edit(o, gone), NEW t \in SyncThreads
    PROVE  Paging(t)'
<1>i. /\ edits \in Seq(Edits) /\ Paging(t) /\ sync[t].seen <= Len(edits) /\ sync[t] \in Syncs
      /\ UNCHANGED <<provider, risks, rows, sync>>
  BY DEF SyncIInv, SyncShape, SyncGood, InPlace, Edit
<1> DEFINE n == Len(edits)
<1>1. /\ edits' \in Seq(Edits) /\ Len(edits') = n + 1 /\ n \in Nat
      /\ DOMAIN edits = 1 .. n /\ DOMAIN edits' = 1 .. n + 1
      /\ \A v \in DOMAIN edits : edits'[v] = edits[v]
  BY EditMakesAVersion
<1>a. sync[t].seen \in Nat /\ sync[t].page \in Nat /\ sync[t].page >= 1 /\ PerPage \in Nat
  BY <1>i, SyncConstants DEF Syncs
<1>2. sync'[t].seen # Len(edits')
  BY <1>i, <1>1, <1>a
<1> HIDE DEF n
<1>3. SUFFICES ASSUME sync[t].at = "issues", "shift" \notin risks
               PROVE  PagesRead(t)'
  BY <1>i, <1>2 DEF Paging
<1>4. PagesRead(t)
  BY <1>i, <1>3 DEF Paging
<1> DEFINE k == (sync[t].page - 1) * PerPage
<1>5. k \in Nat /\ (sync[t].page = 1 => k = 0)
  BY <1>a
<1>6. Issues(t) \in SUBSET (1 .. n) /\ Before(t) \subseteq Issues(t)
  BY <1>i, BeforeAreListed DEF n
<1>b. Before(t) = {v \in Issues(t) : Rank(v, Issues(t)) <= k}
  BY DEF Before
<1>c. Before(t)' = {v \in Issues(t)' : Rank(v, Issues(t)') <= k}
  BY <1>i DEF Before, Rank
<1>d. Cardinality(Before(t)) = k
  BY <1>4 DEF PagesRead
<1> HIDE DEF k
<1>7. Issues(t)' \subseteq Issues(t) \union {n + 1}
  <2>1. LiveIn(sync[t].target)' \subseteq LiveIn(sync[t].target) \union {n + 1}
    BY <1>i, EditChangesOneObject DEF n
  <2>2. LiveIn(sync[t].target) \subseteq DOMAIN edits
    BY <1>i, CurrentVersions
  <2>3. QED
    BY <1>i, <1>1, <2>1, <2>2 DEF Issues
<1>8. Before(t)' = Before(t)
  <2>1. CASE sync[t].page = 1
    <3>1. Issues(t)' \in SUBSET (1 .. n + 1) /\ n + 1 \in Nat
      BY <1>1, <1>6, <1>7
    <3>2. {v \in Issues(t)' : Rank(v, Issues(t)') <= 0} = {}
      BY <3>1, NoneBeforeTheFirst
    <3>3. {v \in Issues(t) : Rank(v, Issues(t)) <= 0} = {}
      BY <1>1, <1>6, NoneBeforeTheFirst
    <3>4. k = 0
      BY <1>5, <2>1
    <3>5. QED
      BY <1>b, <1>c, <3>2, <3>3, <3>4
  <2>2. CASE sync[t].page # 1
    <3>1. Version(o) \notin Issues(t)
      BY <1>3, <1>a, <2>2 DEF Edit
    <3>2. LiveIn(sync[t].target) \ {Version(o)} \subseteq LiveIn(sync[t].target)'
      BY <1>i, EditChangesOneObject
    <3>3. Issues(t) \subseteq Issues(t)'
      <4>1. LiveIn(sync[t].target) \subseteq DOMAIN edits
        BY <1>i, CurrentVersions
      <4>2. QED
        BY <1>i, <1>1, <3>1, <3>2, <4>1 DEF Issues
    <3>4. Cardinality({v \in Issues(t) : Rank(v, Issues(t)) <= k}) = k
      BY <1>b, <1>d
    <3>5. {v \in Issues(t)' : Rank(v, Issues(t)') <= k} = {v \in Issues(t) : Rank(v, Issues(t)) <= k}
      BY <1>1, <1>5, <1>6, <1>7, <3>3, <3>4, PagesBeforeStay
    <3>6. QED
      BY <1>b, <1>c, <3>5
  <2>3. QED
    BY <2>1, <2>2
<1>9. \A v \in Before(t) : edits'[v] = edits[v]
  BY <1>1, <1>6
<1>10. {v \in Before(t) : IsIssue(v)}' = {v \in Before(t) : IsIssue(v)}
  BY <1>8, <1>9 DEF IsIssue
<1>11. QED
  BY <1>i, <1>4, <1>8, <1>9, <1>10 DEF PagesRead, IsIssue, Snapshot

\* An edit leaves every sync in order.
LEMMA EditKeepsSyncs ==
    ASSUME SyncIInv, NEW o \in Objects, NEW gone \in BOOLEAN, Edit(o, gone), NEW t \in SyncThreads
    PROVE  SyncGood(t)'
<1>i. /\ SyncShape /\ TimeGoesOn /\ RowsSound /\ SyncGood(t)
      /\ UNCHANGED <<provider, risks, rows, sync>>
  BY DEF SyncIInv, Edit
<1> DEFINE n == Len(edits)
<1>1. /\ edits \in Seq(Edits) /\ edits' \in Seq(Edits) /\ Len(edits') = n + 1 /\ n \in Nat
      /\ DOMAIN edits = 1 .. n /\ DOMAIN edits' = 1 .. n + 1
      /\ \A v \in DOMAIN edits : edits'[v] = edits[v]
  BY <1>i, EditMakesAVersion DEF SyncShape
<1>2. sync[t] \in Syncs /\ sync[t].seen \in Nat /\ sync[t].from \in Nat
  BY <1>i DEF SyncShape, Syncs
<1>3. InPlace(t)'
  BY <1>i, <1>1, <1>2 DEF SyncGood, InPlace
<1>4. sync'[t].seen # Len(edits')
  BY <1>i, <1>1, <1>2 DEF SyncGood, InPlace
<1> HIDE DEF n
<1>5. MarksPast(t)'
  <2>1. sync[t].newest \in Nat
    BY <1>i DEF SyncShape, Syncs
  <2>2. Past(sync[t].from)'
    BY <1>i, <1>2, EditPast DEF SyncGood, MarksPast
  <2>3. CASE provider = "GITHUB"
    BY <1>i, <1>1, <2>2, <2>3 DEF SyncGood, MarksPast
  <2>4. CASE provider # "GITHUB"
    <3>1. Past(sync[t].newest)'
      BY <1>i, <2>1, <2>4, EditPast DEF SyncGood, MarksPast
    <3>2. QED
      BY <1>i, <2>2, <2>4, <3>1 DEF MarksPast
  <2>5. QED
    BY <2>3, <2>4
<1>6. ReadsSound(t)'
  BY <1>i, <1>1 DEF SyncGood, ReadsSound, Sound
<1>7. OncePerObject(t)'
  BY <1>i, <1>1 DEF SyncGood, OncePerObject, ReadsSound, Sound
<1>8. Fresh(t)'
  <2>1. \A k \in DOMAIN rows : Of(rows[k])' = Of(rows[k])
    BY <1>i, <1>1 DEF RowsSound, Sound, Of
  <2>2. \A r \in sync[t].read : edits'[r.stamp] = edits[r.stamp]
    BY <1>i, <1>1 DEF SyncGood, ReadsSound, Sound
  <2>3. \A v \in sync[t].listed : edits'[v] = edits[v]
    BY <1>i, <1>1 DEF SyncGood, ReadsSound
  <2>4. QED
    BY <1>i, <2>1, <2>2, <2>3 DEF SyncGood, Fresh, NotOlder, Snapshot
<1>9. CoveredBy(t)'
  <2>1. Past(NextMark(t)) /\ NextMark(t) \in Nat /\ NextMark(t)' = NextMark(t)
    BY <1>i, NextMarkPast DEF SyncGood, NextMark
  <2>2. Past(sync[t].from)
    BY <1>i DEF SyncGood, MarksPast
  <2>3. \A target, read : \A mark \in Nat :
            Past(mark) /\ Covers(target, mark, read) => Covers(target, mark, read)'
    <3>1. SUFFICES ASSUME NEW target, NEW mark \in Nat, NEW read, Past(mark), Covers(target, mark, read)
                   PROVE  Covers(target, mark, read)'
      OBVIOUS
    <3>2. QED
      BY <3>1, EditCovers
  <2>4. QED
    BY <1>i, <1>2, <2>1, <2>2, <2>3 DEF SyncGood, CoveredBy
<1>10. CutFurther(t)' /\ Mirroring(t)'
  BY <1>4 DEF CutFurther, Mirroring
<1>11. QED
  BY <1>3, <1>5, <1>6, <1>7, <1>8, <1>9, <1>10, EditPages DEF SyncGood

\* An edit keeps the invariant.
LEMMA EditStep ==
    ASSUME SyncIInv, NEW o \in Objects, NEW gone \in BOOLEAN, Edit(o, gone)
    PROVE  SyncIInv'
<1>i. /\ SyncShape /\ TimeGoesOn /\ Past(cursor.mark) /\ RowsSound /\ SyncsAlone
      /\ LatestIsNewest /\ CursorPlace /\ CursorCovered
      /\ UNCHANGED <<provider, risks, expired, status, cursor, rows, sync, begun>>
  BY DEF SyncIInv, Edit
<1> DEFINE n == Len(edits)
<1>1. /\ edits \in Seq(Edits) /\ edits' \in Seq(Edits) /\ Len(edits') = n + 1 /\ n \in Nat
      /\ DOMAIN edits = 1 .. n /\ DOMAIN edits' = 1 .. n + 1
      /\ n + 1 <= MaxEdits
      /\ \A v \in DOMAIN edits : edits'[v] = edits[v]
      /\ edits'[n + 1].at \in 2 .. 2 * (n + 1)
      /\ \A v \in DOMAIN edits : edits[v].at <= edits'[n + 1].at
  BY <1>i, EditMakesAVersion DEF SyncShape
<1> HIDE DEF n
<1>2. SyncShape'
  BY <1>i, <1>1 DEF SyncShape
<1>3. TimeGoesOn'
  <2>1. \A v \in DOMAIN edits' : v \in DOMAIN edits \/ v = n + 1
    BY <1>1
  <2>2. \A v \in DOMAIN edits' : edits'[v].at \in 2 .. 2 * v
    BY <1>i, <1>1, <2>1 DEF TimeGoesOn
  <2>3. \A v, w \in DOMAIN edits' : v <= w => edits'[v].at <= edits'[w].at
    <3>1. SUFFICES ASSUME NEW v \in DOMAIN edits', NEW w \in DOMAIN edits', v <= w
                   PROVE  edits'[v].at <= edits'[w].at
      OBVIOUS
    <3>2. CASE w \in DOMAIN edits
      BY <1>i, <1>1, <3>1, <3>2 DEF TimeGoesOn
    <3>3. CASE w = n + 1 /\ v \in DOMAIN edits
      BY <1>1, <3>3
    <3>4. CASE w = n + 1 /\ v = n + 1
      BY <2>2, <3>4
    <3>5. QED
      BY <2>1, <3>2, <3>3, <3>4
  <2>4. QED
    BY <2>2, <2>3 DEF TimeGoesOn
<1>4. cursor.mark \in Nat
  BY <1>i DEF SyncShape
<1>5. Past(cursor.mark)'
  BY <1>i, <1>4, EditPast
<1>6. RowsSound' /\ SyncsAlone' /\ CursorPlace'
  BY <1>i, <1>1 DEF RowsSound, Sound, SyncsAlone, CursorPlace
<1>7. LatestIsNewest'
  <2>1. \A k \in DOMAIN rows : Of(rows[k])' = Of(rows[k])
    BY <1>i, <1>1 DEF RowsSound, Sound, Of
  <2>2. QED
    BY <1>i, <2>1 DEF LatestIsNewest
<1>8. CursorCovered'
  <2>1. Covers(cursor.target, cursor.mark, {}) => Covers(cursor.target, cursor.mark, {})'
    <3>1. ASSUME NEW target, NEW mark \in Nat, Past(mark), Covers(target, mark, {})
          PROVE  Covers(target, mark, {})'
      BY <3>1, EditCovers
    <3>2. QED
      BY <1>i, <1>4, <3>1
  <2>2. QED
    BY <1>i, <2>1 DEF CursorCovered
<1>9. \A t \in SyncThreads : SyncGood(t)'
  BY EditKeepsSyncs
<1>10. QED
  BY <1>2, <1>3, <1>5, <1>6, <1>7, <1>8, <1>9 DEF SyncIInv

-----------------------------------------------------------------------------
(* Steps that read and store nothing.                                      *)

\* Expiry of tokens, a new verification and a stop of the process keep the invariant.
LEMMA QuietStep ==
    ASSUME SyncIInv, Expire \/ VerifyAgain \/ ProcessStops \/ UNCHANGED syncVars
    PROVE  SyncIInv'
<1>i. SyncShape /\ SyncsAlone
  BY DEF SyncIInv
<1>1. UNCHANGED <<provider, risks, edits, rows, cursor, begun>>
  BY DEF Expire, VerifyAgain, ProcessStops, syncVars, accountVars
<1>2. sync' \in [SyncThreads -> Syncs] /\ \A t \in SyncThreads : sync'[t] \in {sync[t], NoSync}
  BY <1>i, SyncConstants DEF SyncShape, Expire, VerifyAgain, ProcessStops, syncVars
<1>3. SyncShape'
  <2>1. expired' \in Nat /\ status' \in {"CONNECTED", "ERROR"}
    BY <1>i DEF SyncShape, Expire, VerifyAgain, ProcessStops, syncVars, accountVars
  <2>2. QED
    BY <1>i, <1>1, <1>2, <2>1 DEF SyncShape
<1>4. NoSync.at = "idle"
  BY DEF NoSync
<1>5. SyncsAlone'
  BY <1>i, <1>1, <1>2, <1>4 DEF SyncsAlone
<1>6. RowsOnlyGrow
  BY <1>i, <1>1 DEF RowsOnlyGrow, SyncShape
<1>7. \A t \in SyncThreads : SyncGood(t)'
  <2>1. TAKE t \in SyncThreads
  <2>2. CASE sync'[t] = sync[t]
    BY <1>1, <1>6, <2>2, Untouched
  <2>3. CASE sync'[t] = NoSync
    BY <1>i, <1>1, <2>3, NothingUnderWay DEF SyncShape
  <2>4. QED
    BY <1>2, <2>2, <2>3
<1>8. QED
  BY <1>1, <1>3, <1>5, <1>7, SameRecords DEF SyncIInv

\* A sync may end anywhere.
LEMMA SyncEnds ==
    ASSUME SyncIInv, NEW s \in SyncThreads, Goes(s, NoSync), status' \in {"CONNECTED", "ERROR"},
           UNCHANGED <<provider, risks, edits, expired, rows, cursor, begun>>
    PROVE  SyncIInv'
<1>i. SyncShape
  BY DEF SyncIInv
<1>1. sync' = [sync EXCEPT ![s] = NoSync]
  BY DEF Goes
<1>2. sync'[s] = NoSync
  BY <1>i, <1>1 DEF SyncShape
<1>3. SyncGood(s)'
  BY <1>i, <1>2, NothingUnderWay DEF SyncShape
<1>4. NoSync.at = "idle" /\ NoSync \in Syncs
  BY SyncConstants DEF NoSync
<1>5. expired' \in Nat /\ begun' \in 0 .. MaxSyncs
  BY <1>i DEF SyncShape
<1>6. QED
  BY <1>1, <1>3, <1>4, <1>5, OneSyncMoves

\* A sync that fails has ended.
LEMMA FailureEnds ==
    ASSUME SyncIInv, NEW s \in SyncThreads, NEW now \in {"CONNECTED", "ERROR"},
           Fails(s, now), UNCHANGED <<accountVars, begun>>
    PROVE  SyncIInv'
<1>1. /\ UNCHANGED <<provider, risks, edits, expired, rows, cursor, begun>>
      /\ Goes(s, NoSync) /\ status' \in {"CONNECTED", "ERROR"}
  BY DEF Fails, accountVars
<1>2. QED
  BY <1>1, SyncEnds

\* So has one that returns.
LEMMA RequestEnds ==
    ASSUME SyncIInv, NEW s \in SyncThreads, RequestFails(s) \/ StoreFails(s) \/ SyncReturns(s)
    PROVE  SyncIInv'
<1>1. CASE SyncReturns(s)
  <2>1. /\ UNCHANGED <<provider, risks, edits, expired, rows, cursor, begun, status>>
        /\ Goes(s, NoSync) /\ status \in {"CONNECTED", "ERROR"}
    BY <1>1 DEF SyncReturns, Within, accountVars, SyncIInv, SyncShape
  <2>2. QED
    BY <2>1, SyncEnds
<1>2. CASE RequestFails(s) \/ StoreFails(s)
  <2>1. PICK now \in {"CONNECTED", "ERROR"} : Fails(s, now) /\ UNCHANGED <<accountVars, begun>>
    BY <1>2 DEF RequestFails, StoreFails, Within
  <2>2. QED
    BY <2>1, FailureEnds
<1>3. QED
  BY <1>1, <1>2

\* Nothing is behind a mark of nothing.
LEMMA NothingBehind ==
    ASSUME edits \in Seq(Edits), TimeGoesOn, NEW target, NEW read
    PROVE  Covers(target, 0, read)
<1>1. Len(edits) \in Nat /\ DOMAIN edits = 1 .. Len(edits) /\ LiveIn(target) \subseteq DOMAIN edits
  BY CurrentVersions
<1>2. \A v \in LiveIn(target) : edits[v].at >= 2 /\ v >= 1 /\ v \in Int /\ edits[v].at \in Int
  BY <1>1 DEF TimeGoesOn
<1>3. \A v \in LiveIn(target) : ~Behind(v, 0)
  BY <1>2 DEF Behind
<1>4. QED
  BY <1>3 DEF Covers

\* What a sync asks for begins where everything is stored.
LEMMA SyncConnectionStep ==
    ASSUME SyncIInv, NEW s \in SyncThreads, NEW space \in Spaces, NEW target \in Targets,
           SyncConnection(s, space, target)
    PROVE  SyncIInv'
<1>i. SyncShape /\ TimeGoesOn /\ Past(cursor.mark) /\ CursorPlace /\ CursorCovered
  BY DEF SyncIInv
<1> DEFINE w == [NoSync EXCEPT !.at = FirstStep, !.space = space, !.target = target,
                               !.from = MarkFor(target), !.seen = Len(edits)]
<1>1. /\ UNCHANGED <<provider, risks, edits, expired, rows, cursor, status>>
      /\ sync' = [sync EXCEPT ![s] = w] /\ begun' \in 0 .. MaxSyncs
      /\ sync[s].at = "idle"
  BY <1>i, SyncConstants DEF SyncShape, SyncConnection, Goes, accountVars
<1>2. /\ "overlap" \in risks \/ \A t \in SyncThreads : sync[t].at = "idle"
      /\ "places" \in risks \/ (space = Usual(Spaces) /\ (provider = "GITHUB" => target = Usual(Targets)))
  BY DEF SyncConnection
<1>3. /\ provider \in Providers /\ edits \in Seq(Edits) /\ Len(edits) \in Nat
      /\ cursor.mark \in Nat
  BY <1>i DEF SyncShape
<1>4. FirstStep = (CASE provider = "GITHUB" -> "issues" [] provider = "GOOGLE_CALENDAR" -> "events"
                     [] provider = "GOOGLE_DRIVE" -> "folder") /\ FirstStep \in Steps
  BY <1>3 DEF FirstStep, Providers, Steps
<1>5. PICK m : /\ m = MarkFor(target)
               /\ m = 0 \/ (m = cursor.mark /\ (provider = "GOOGLE_CALENDAR" => cursor.target = target))
  BY <1>3 DEF MarkFor, Providers
<1>6. m \in Nat /\ Past(m)
  BY <1>i, <1>3, <1>5 DEF Past
<1>7. w \in Syncs
  BY <1>3, <1>4, <1>5, <1>6, SyncConstants DEF NoSync, Syncs
<1>8. /\ w.at = FirstStep /\ w.space = space /\ w.target = target /\ w.from = m
      /\ w.seen = Len(edits) /\ w.page = 1 /\ w.read = {} /\ w.listed = {} /\ w.count = 0
      /\ w.newest = 0 /\ ~w.cut
  BY <1>5 DEF NoSync
<1> HIDE DEF w
<1>9. sync'[s] = w
  BY <1>i, <1>1 DEF SyncShape
<1>10. InPlace(s)'
  BY <1>1, <1>2, <1>3, <1>4, <1>8, <1>9 DEF InPlace, Providers
<1>11. MarksPast(s)'
  <2>1. Past(m)'
    BY <1>1, <1>6, SameAccount
  <2>2. provider # "GITHUB" => Past(0)'
    BY <1>1, <1>3 DEF Past
  <2>3. QED
    BY <1>1, <1>8, <1>9, <2>1, <2>2 DEF MarksPast
<1>12. ReadsSound(s)' /\ OncePerObject(s)' /\ Fresh(s)'
  BY <1>8, <1>9 DEF ReadsSound, OncePerObject, Fresh
<1>13. Paging(s)'
  <2>1. SUFFICES ASSUME w.at = "issues"
                 PROVE  PagesRead(s)'
    BY <1>8, <1>9, SyncConstants DEF Paging
  <2>2. Issues(s)' \in SUBSET (1 .. Len(edits))
    BY <1>1, <1>3, <1>9, CurrentVersions, SameAccount DEF Issues
  <2>3. {v \in Issues(s)' : Rank(v, Issues(s)') <= 0} = {}
    BY <1>3, <2>2, NoneBeforeTheFirst
  <2>4. (w.page - 1) * PerPage = 0
    BY <1>8, SyncConstants
  <2>5. Before(s)' = {}
    BY <1>9, <2>3, <2>4 DEF Before, Rank
  <2>6. Cardinality({}) = 0
    BY FS_EmptySet
  <2>7. {v \in Before(s) : IsIssue(v)}' = {}
    BY <2>5
  <2>8. QED
    BY <1>8, <1>9, <2>4, <2>5, <2>6, <2>7 DEF PagesRead
<1>14. CoveredBy(s)'
  <2>1. SUFFICES ASSUME risks \subseteq {"overlap"}, w.at \in {"issues", "events"}
                 PROVE  Covers(target, m, {})'
    <3>1. w.at # "store"
      BY <1>3, <1>4, <1>8 DEF Providers
    <3>2. QED
      BY <1>1, <1>8, <1>9, <3>1 DEF CoveredBy
  <2>2. Covers(target, m, {})
    <3>1. CASE m = 0
      BY <1>i, <1>3, <3>1, NothingBehind
    <3>2. CASE m = cursor.mark /\ (provider = "GOOGLE_CALENDAR" => cursor.target = target)
      <4>1. provider \in {"GITHUB", "GOOGLE_CALENDAR"}
        BY <1>3, <1>4, <1>8, <2>1 DEF Providers
      <4>2. cursor.target = target
        BY <1>i, <1>2, <2>1, <3>2, <4>1 DEF CursorPlace
      <4>3. QED
        BY <1>i, <2>1, <3>2, <4>2 DEF CursorCovered
    <3>3. QED
      BY <1>5, <3>1, <3>2
  <2>3. RowsOnlyGrow /\ rows \in Seq(SnapshotRows)
    BY <1>i, <1>1 DEF RowsOnlyGrow, SyncShape
  <2>4. QED
    BY <1>1, <2>2, <2>3, CoversStays
<1>15. CutFurther(s)' /\ Mirroring(s)'
  BY <1>4, <1>3, <1>8, <1>9 DEF CutFurther, Mirroring, Providers
<1>16. SyncGood(s)'
  BY <1>10, <1>11, <1>12, <1>13, <1>14, <1>15 DEF SyncGood
<1>17. expired' \in Nat /\ status' \in {"CONNECTED", "ERROR"}
  BY <1>i, <1>1 DEF SyncShape
<1>18. QED
  BY <1>1, <1>2, <1>7, <1>16, <1>17, OneSyncMoves

\* A sync that starts over asks for everything.
LEMMA FullSyncStep ==
    ASSUME SyncIInv, NEW s \in SyncThreads, FullSyncRequired(s)
    PROVE  SyncIInv'
<1>i. SyncShape /\ TimeGoesOn /\ SyncGood(s)
  BY DEF SyncIInv
<1> DEFINE w == [sync[s] EXCEPT !.from = 0]
<1>1. /\ UNCHANGED <<provider, risks, edits, expired, rows, cursor, status, begun>>
      /\ sync' = [sync EXCEPT ![s] = w] /\ sync[s].at = "events"
  BY DEF FullSyncRequired, Within, Goes, accountVars
<1>2. sync[s] \in Syncs /\ edits \in Seq(Edits) /\ provider = "GOOGLE_CALENDAR"
  BY <1>i, <1>1 DEF SyncShape, SyncGood, InPlace
<1>3. w \in Syncs
  BY <1>2 DEF Syncs
<1>4. /\ w.at = "events" /\ w.from = 0 /\ w.space = sync[s].space /\ w.target = sync[s].target
      /\ w.seen = sync[s].seen /\ w.read = sync[s].read /\ w.listed = sync[s].listed
      /\ w.newest = sync[s].newest /\ w.cut = sync[s].cut
  BY <1>1, <1>2 DEF Syncs
<1> HIDE DEF w
<1>5. sync'[s] = w
  BY <1>i, <1>1 DEF SyncShape
<1>6. InPlace(s)' /\ ReadsSound(s)' /\ OncePerObject(s)'
  BY <1>i, <1>1, <1>2, <1>4, <1>5 DEF SyncGood, InPlace, ReadsSound, OncePerObject, Sound
<1>7. MarksPast(s)'
  BY <1>i, <1>1, <1>2, <1>4, <1>5 DEF SyncGood, MarksPast, Past
<1>8. Fresh(s)'
  BY <1>i, <1>1, <1>4, <1>5 DEF SyncGood, Fresh, NotOlder, Of, Snapshot
<1>9. Paging(s)' /\ CutFurther(s)' /\ Mirroring(s)'
  BY <1>4, <1>5 DEF Paging, CutFurther, Mirroring
<1>10. CoveredBy(s)'
  <2>1. RowsOnlyGrow /\ rows \in Seq(SnapshotRows)
    BY <1>i, <1>1 DEF RowsOnlyGrow, SyncShape
  <2>2. ASSUME NEW target
        PROVE  Covers(target, 0, {})'
    BY <1>i, <1>1, <1>2, <2>1, NothingBehind, CoversStays
  <2>3. QED
    BY <1>4, <1>5, <2>2 DEF CoveredBy
<1>11. SyncGood(s)'
  BY <1>6, <1>7, <1>8, <1>9, <1>10 DEF SyncGood
<1>12. expired' \in Nat /\ status' \in {"CONNECTED", "ERROR"} /\ begun' \in 0 .. MaxSyncs
  BY <1>i, <1>1 DEF SyncShape
<1>13. QED
  BY <1>1, <1>3, <1>11, <1>12, OneSyncMoves

-----------------------------------------------------------------------------
(* Steps that read.                                                        *)

\* No row is newer than the present version of its object.
LEMMA RowsNotNewer ==
    ASSUME SyncIInv, NEW target, NEW v \in Current(target), NEW k \in DOMAIN rows,
           Of(rows[k]) = edits[v].of
    PROVE  rows[k].stamp <= v /\ rows[k].text <= v
<1>1. edits \in Seq(Edits) /\ Sound(rows[k])
  BY DEF SyncIInv, SyncShape, RowsSound
<1>2. Version(edits[v].of) = v
  BY <1>1, CurrentVersions
<1>3. rows[k].stamp \in EditsOf(edits[v].of) /\ rows[k].text \in EditsOf(edits[v].of)
  BY <1>1 DEF Sound, Of, EditsOf
<1>4. QED
  BY <1>1, <1>2, <1>3, VersionIsLast

\* A list of changes completes what was stored before its token.
LEMMA ListEventsStep ==
    ASSUME SyncIInv, NEW s \in SyncThreads, ListEvents(s)
    PROVE  SyncIInv'
<1>i. SyncShape /\ TimeGoesOn /\ SyncGood(s) /\ RowsSound
  BY DEF SyncIInv
<1>0. /\ sync[s].at = "events" /\ UNCHANGED <<provider, risks, edits, expired, begun>>
      /\ UNCHANGED <<accountVars, begun>>
  BY DEF ListEvents, Within, accountVars
<1>2. sync[s] \in Syncs /\ edits \in Seq(Edits) /\ provider = "GOOGLE_CALENDAR"
  BY <1>i, <1>0 DEF SyncShape, SyncGood, InPlace
<1>t. PICK T : T = sync[s].target
  OBVIOUS
<1>3. PICK ES \in SUBSET Current(T) :
         /\ \A v \in LiveIn(T) : v \in ES \/ v < sync[s].from
         /\ \/ Fails(s, "ERROR")
            \/ /\ Goes(s, [sync[s] EXCEPT !.at = "store", !.read = {Snapshot(v, v) : v \in ES},
                                          !.newest = Len(edits) + 1])
               /\ UNCHANGED <<status, cursor, rows>>
  <2>1. PICK dead \in SUBSET (Current(T) \ LiveIn(T)) :
           LET events == IF sync[s].from = 0 THEN LiveIn(T) \union dead
                         ELSE {v \in Current(T) : v >= sync[s].from}
           IN IF Cardinality(events) > Limit
              THEN Fails(s, "ERROR")
              ELSE /\ Goes(s, [sync[s] EXCEPT !.at = "store", !.read = {Snapshot(v, v) : v \in events},
                                              !.newest = Len(edits) + 1])
                   /\ UNCHANGED <<status, cursor, rows>>
    BY <1>t DEF ListEvents
  <2> DEFINE events == IF sync[s].from = 0 THEN LiveIn(T) \union dead
                       ELSE {v \in Current(T) : v >= sync[s].from}
  <2>2. LiveIn(T) \subseteq Current(T) /\ Current(T) \subseteq 1 .. Len(edits) /\ sync[s].from \in Nat
    BY <1>2, CurrentVersions DEF Syncs
  <2>3. events \in SUBSET Current(T)
    BY <2>1, <2>2
  <2>4. \A v \in LiveIn(T) : v \in events \/ v < sync[s].from
    BY <2>2
  <2>5. QED
    BY <2>1, <2>3, <2>4
<1>4. CASE Fails(s, "ERROR")
  BY <1>0, <1>4, FailureEnds
<1>5. CASE /\ Goes(s, [sync[s] EXCEPT !.at = "store", !.read = {Snapshot(v, v) : v \in ES},
                                      !.newest = Len(edits) + 1])
           /\ UNCHANGED <<status, cursor, rows>>
  <2>r. PICK R : R = {Snapshot(v, v) : v \in ES}
    OBVIOUS
  <2>w. PICK w : w = [sync[s] EXCEPT !.at = "store", !.read = R, !.newest = Len(edits) + 1]
    OBVIOUS
  <2>1. sync' = [sync EXCEPT ![s] = w]
    BY <1>5, <2>r, <2>w DEF Goes
  <2>2. /\ Len(edits) \in Nat /\ DOMAIN edits = 1 .. Len(edits)
        /\ ES \subseteq DOMAIN edits /\ LiveIn(T) \subseteq Current(T) /\ Current(T) \subseteq DOMAIN edits
        /\ \A v \in Current(T) : Version(edits[v].of) = v
    BY <1>2, CurrentVersions
  <2>3. R \subseteq Snapshots
    BY <2>2, <2>r DEF Snapshot, Snapshots
  <2>4. \A r \in R : r.stamp \in ES /\ r.text = r.stamp
    BY <2>r DEF Snapshot
  <2>5. \A v \in ES : Snapshot(v, v) \in R
    BY <2>r
  <2>6. \A q, r \in R : q.stamp = r.stamp => q = r
    BY <2>r DEF Snapshot
  <2>7. w \in Syncs
    <3>1. R \in SUBSET Snapshots /\ Len(edits) + 1 \in Nat /\ "store" \in Steps
      BY <2>2, <2>3 DEF Steps
    <3>2. QED
      BY <1>2, <2>w, <3>1 DEF Syncs
  <2>8. /\ w.at = "store" /\ w.from = sync[s].from /\ w.space = sync[s].space /\ w.target = T
        /\ w.seen = sync[s].seen /\ w.read = R /\ w.listed = sync[s].listed
        /\ w.newest = Len(edits) + 1 /\ w.cut = sync[s].cut
    BY <1>2, <1>t, <2>w DEF Syncs
  <2>9. sync'[s] = w
    BY <1>i, <2>1 DEF SyncShape
  <2>10. w.listed = {} /\ ~w.cut /\ w.seen <= Len(edits)
    BY <1>i, <1>0, <1>2, <2>8 DEF SyncGood, InPlace
  <2>11. InPlace(s)'
    BY <1>i, <1>0, <1>2, <2>8, <2>9, <2>10 DEF SyncGood, InPlace
  <2>12. MarksPast(s)'
    BY <1>i, <1>0, <1>2, <2>8, <2>9 DEF SyncGood, MarksPast, Past
  <2>13. ReadsSound(s)'
    BY <1>0, <2>2, <2>4, <2>8, <2>9, <2>10 DEF ReadsSound, Sound
  <2>14. OncePerObject(s)'
    <3>1. \A q, r \in R : edits[q.stamp].of = edits[r.stamp].of => q.stamp = r.stamp
      BY <2>2, <2>4
    <3>2. QED
      BY <1>0, <2>6, <2>8, <2>9, <2>10, <3>1 DEF OncePerObject
  <2>15. Fresh(s)'
    <3>1. \A k \in DOMAIN rows, r \in R : Of(rows[k]) = edits[r.stamp].of =>
              rows[k].stamp <= r.stamp /\ rows[k].text <= r.text
      BY <2>4, RowsNotNewer
    <3>2. QED
      BY <1>0, <1>5, <2>8, <2>9, <2>10, <3>1 DEF Fresh, NotOlder, Of
  <2>16. Paging(s)'
    BY <2>8, <2>9 DEF Paging
  <2>17. CoveredBy(s)'
    <3>1. SUFFICES ASSUME risks \subseteq {"overlap"}
                   PROVE  Covers(w.target, w.newest, w.read)'
      <4>1. NextMark(s)' = w.newest
        BY <1>0, <1>2, <2>9 DEF NextMark
      <4>2. QED
        BY <1>0, <2>8, <2>9, <4>1 DEF CoveredBy
    <3>2. \A v \in LiveIn(T) : Kept(v) => Stored(v) \/ Snapshot(v, v) \in R
      <4>1. Covers(T, sync[s].from, {})
        BY <1>i, <1>0, <1>t, <3>1 DEF SyncGood, CoveredBy
      <4>2. QED
        BY <1>2, <1>3, <2>5, <4>1 DEF Covers, Behind
    <3>3. Covers(T, w.newest, R)
      BY <3>2 DEF Covers
    <3>4. RowsOnlyGrow /\ rows \in Seq(SnapshotRows)
      BY <1>i, <1>5 DEF RowsOnlyGrow, SyncShape
    <3>5. QED
      BY <1>0, <2>8, <3>3, <3>4, CoversStays
  <2>18. CutFurther(s)'
    BY <2>8, <2>9, <2>10 DEF CutFurther
  <2>19. Mirroring(s)'
    <3>1. SUFFICES ASSUME risks = {}
                   PROVE  Taken(s)'
      BY <1>0 DEF Mirroring
    <3>2. Covers(T, sync[s].from, {}) /\ sync[s].space = Usual(Spaces)
      BY <1>i, <1>0, <1>t, <3>1 DEF SyncGood, CoveredBy, InPlace
    <3>3. \A v \in LiveIn(T) : v \notin ES => Stored(v)
      BY <1>2, <1>3, <3>2 DEF Covers, Behind, Kept
    <3>4. \A k \in DOMAIN rows : rows[k] = [space |-> rows[k].space, stamp |-> rows[k].stamp, text |-> rows[k].stamp]
      <4>1. \A k \in DOMAIN rows : rows[k] \in SnapshotRows /\ rows[k].text = rows[k].stamp
        BY <1>i, <1>2 DEF SyncShape, RowsSound, Sound
      <4>2. QED
        BY <4>1 DEF SnapshotRows
    <3>5. \A v \in LiveIn(T) : v \notin ES =>
             \E k \in DOMAIN rows : rows[k] = [space |-> sync[s].space, stamp |-> v, text |-> v]
      BY <3>2, <3>3, <3>4 DEF Stored
    <3>6. QED
      BY <1>0, <1>5, <2>5, <2>8, <2>9, <3>5, SameAccount DEF Taken, Snapshot
  <2>20. SyncGood(s)'
    BY <2>11, <2>12, <2>13, <2>14, <2>15, <2>16, <2>17, <2>18, <2>19 DEF SyncGood
  <2>21. expired' \in Nat /\ status' \in {"CONNECTED", "ERROR"} /\ begun' \in 0 .. MaxSyncs
    BY <1>i, <1>0, <1>5 DEF SyncShape
  <2>22. QED
    BY <1>0, <1>5, <2>1, <2>7, <2>20, <2>21, OneSyncMoves
<1>6. QED
  BY <1>3, <1>4, <1>5

\* A list of files is everything there is.
LEMMA ListFolderStep ==
    ASSUME SyncIInv, NEW s \in SyncThreads, ListFolder(s)
    PROVE  SyncIInv'
<1>i. SyncShape /\ SyncGood(s)
  BY DEF SyncIInv
<1>0. /\ sync[s].at = "folder" /\ UNCHANGED <<provider, risks, edits, expired, begun>>
      /\ UNCHANGED <<accountVars, begun>>
  BY DEF ListFolder, Within, accountVars
<1>1. sync[s] \in Syncs /\ edits \in Seq(Edits) /\ provider = "GOOGLE_DRIVE"
  BY <1>i, <1>0 DEF SyncShape, SyncGood, InPlace
<1>2. PICK files : files = LiveIn(sync[s].target)
  OBVIOUS
<1>3. PICK w : w = [sync[s] EXCEPT !.at = IF files = {} THEN "store" ELSE "files", !.listed = files]
  OBVIOUS
<1>4. CASE Fails(s, "ERROR")
  BY <1>0, <1>4, FailureEnds
<1>5. CASE Goes(s, w) /\ UNCHANGED <<status, cursor, rows>>
  <2>1. sync' = [sync EXCEPT ![s] = w]
    BY <1>5 DEF Goes
  <2>2. /\ DOMAIN edits = 1 .. Len(edits) /\ Len(edits) \in Nat /\ files \subseteq DOMAIN edits
        /\ files \subseteq Current(sync[s].target)
        /\ \A v \in files : Version(edits[v].of) = v
    BY <1>1, <1>2, CurrentVersions
  <2>3. files \subseteq Nat
    BY <2>2
  <2>4. w \in Syncs
    <3>1. {"store", "files"} \subseteq Steps
      BY DEF Steps
    <3>2. QED
      BY <1>1, <1>3, <2>3, <3>1 DEF Syncs
  <2>5. /\ w.at = (IF files = {} THEN "store" ELSE "files")
        /\ w.from = sync[s].from /\ w.space = sync[s].space /\ w.target = sync[s].target
        /\ w.seen = sync[s].seen /\ w.read = sync[s].read /\ w.listed = files
        /\ w.newest = sync[s].newest /\ w.cut = sync[s].cut
    BY <1>1, <1>3 DEF Syncs
  <2>6. sync'[s] = w
    BY <1>i, <2>1 DEF SyncShape
  <2>7. w.read = {} /\ ~w.cut
    BY <1>i, <1>0, <1>1, <2>5 DEF SyncGood, InPlace
  <2>8. InPlace(s)'
    BY <1>i, <1>0, <1>1, <2>5, <2>6, <2>7 DEF SyncGood, InPlace
  <2>9. MarksPast(s)'
    BY <1>i, <1>0, <1>1, <2>5, <2>6 DEF SyncGood, MarksPast, Past
  <2>10. ReadsSound(s)'
    BY <1>0, <2>2, <2>5, <2>6, <2>7 DEF ReadsSound
  <2>11. OncePerObject(s)'
    BY <1>0, <2>2, <2>5, <2>6, <2>7 DEF OncePerObject
  <2>12. Fresh(s)'
    <3>1. \A k \in DOMAIN rows, v \in files : Of(rows[k]) = edits[v].of =>
              rows[k].stamp <= v /\ rows[k].text <= v
      BY <2>2, RowsNotNewer
    <3>2. QED
      BY <1>0, <1>5, <2>5, <2>6, <2>7, <3>1 DEF Fresh, NotOlder, Of, Snapshot
  <2>13. Paging(s)' /\ CutFurther(s)'
    BY <2>5, <2>6, <2>7 DEF Paging, CutFurther
  <2>14. CoveredBy(s)'
    <3>1. \A v, mark : ~Behind(v, mark)'
      BY <1>0, <1>1 DEF Behind
    <3>2. QED
      BY <2>5, <2>6, <3>1 DEF CoveredBy, Covers
  <2>15. Mirroring(s)'
    <3>1. \A v \in LiveIn(w.target)' : v \in w.listed
      BY <1>0, <1>2, <2>5, SameAccount
    <3>2. QED
      BY <2>6, <3>1 DEF Mirroring, Taken
  <2>16. SyncGood(s)'
    BY <2>8, <2>9, <2>10, <2>11, <2>12, <2>13, <2>14, <2>15 DEF SyncGood
  <2>17. expired' \in Nat /\ status' \in {"CONNECTED", "ERROR"} /\ begun' \in 0 .. MaxSyncs
    BY <1>i, <1>0, <1>5 DEF SyncShape
  <2>18. QED
    BY <1>0, <1>5, <2>1, <2>4, <2>16, <2>17, OneSyncMoves
<1>6. QED
  BY <1>2, <1>3, <1>4, <1>5 DEF ListFolder

\* The text of a file is read in its present version.
LEMMA ReadFileStep ==
    ASSUME SyncIInv, NEW s \in SyncThreads, NEW v \in sync[s].listed, ReadFileContent(s, v)
    PROVE  SyncIInv'
<1>i. SyncShape /\ SyncGood(s)
  BY DEF SyncIInv
<1>0. /\ sync[s].at = "files" /\ UNCHANGED <<provider, risks, edits, expired, begun>>
      /\ UNCHANGED <<status, cursor, rows>>
  BY DEF ReadFileContent, Within, accountVars
<1>1. sync[s] \in Syncs /\ edits \in Seq(Edits) /\ provider = "GOOGLE_DRIVE"
  BY <1>i, <1>0 DEF SyncShape, SyncGood, InPlace
<1>2. /\ DOMAIN edits = 1 .. Len(edits) /\ Len(edits) \in Nat
      /\ v \in DOMAIN edits /\ sync[s].listed \subseteq DOMAIN edits
  BY <1>i, <1>1 DEF SyncGood, ReadsSound
<1>3. PICK text : text = Version(edits[v].of)
  OBVIOUS
<1>4. text \in DOMAIN edits /\ edits[text].of = edits[v].of /\ v <= text
  <2>1. v \in EditsOf(edits[v].of)
    BY <1>2 DEF EditsOf
  <2>2. QED
    BY <1>1, <1>2, <1>3, <2>1, VersionIsLast
<1>5. PICK r : r = Snapshot(v, text)
  OBVIOUS
<1>6. r \in Snapshots /\ r.stamp = v /\ r.text = text /\ Sound(r)
  BY <1>1, <1>2, <1>4, <1>5 DEF Snapshot, Snapshots, Sound
<1>7. PICK left : left = sync[s].listed \ {v}
  OBVIOUS
<1>8. PICK w : w = [sync[s] EXCEPT !.at = IF left = {} THEN "store" ELSE "files", !.listed = left,
                                   !.read = @ \union {r}]
  OBVIOUS
<1>9. sync' = [sync EXCEPT ![s] = w]
  BY <1>3, <1>5, <1>7, <1>8 DEF ReadFileContent, Goes
<1>10. w \in Syncs
  <2>1. {"store", "files"} \subseteq Steps
    BY DEF Steps
  <2>2. left \in SUBSET Nat /\ sync[s].read \union {r} \in SUBSET Snapshots
    BY <1>1, <1>6, <1>7 DEF Syncs
  <2>3. QED
    BY <1>1, <1>8, <2>1, <2>2 DEF Syncs
<1>11. /\ w.at = (IF left = {} THEN "store" ELSE "files")
       /\ w.from = sync[s].from /\ w.space = sync[s].space /\ w.target = sync[s].target
       /\ w.seen = sync[s].seen /\ w.read = sync[s].read \union {r} /\ w.listed = left
       /\ w.newest = sync[s].newest /\ w.cut = sync[s].cut
  BY <1>1, <1>8 DEF Syncs
<1>12. sync'[s] = w
  BY <1>i, <1>9 DEF SyncShape
<1>13. InPlace(s)'
  BY <1>i, <1>0, <1>1, <1>11, <1>12 DEF SyncGood, InPlace
<1>14. MarksPast(s)'
  BY <1>i, <1>0, <1>1, <1>11, <1>12 DEF SyncGood, MarksPast, Past
<1>15. ReadsSound(s)'
  BY <1>i, <1>0, <1>2, <1>6, <1>7, <1>11, <1>12 DEF SyncGood, ReadsSound, Sound
<1>16. OncePerObject(s)'
  <2>1. \A u \in left : u # v /\ edits[u].of # edits[v].of
    BY <1>i, <1>7 DEF SyncGood, OncePerObject
  <2>2. \A q \in sync[s].read : edits[q.stamp].of # edits[v].of
    BY <1>i DEF SyncGood, OncePerObject
  <2>3. QED
    BY <1>i, <1>0, <1>1, <1>6, <1>7, <1>11, <1>12, <2>1, <2>2 DEF SyncGood, OncePerObject
<1>17. Fresh(s)'
  <2>1. SUFFICES ASSUME "overlap" \notin risks, NEW k \in DOMAIN rows, rows[k].space = sync[s].space
                 PROVE  /\ \A q \in w.read : NotOlder(rows[k], q)
                        /\ \A u \in w.listed : NotOlder(rows[k], Snapshot(u, u))
    BY <1>0, <1>11, <1>12 DEF Fresh, NotOlder, Of, Snapshot
  <2>2. /\ \A q \in sync[s].read : NotOlder(rows[k], q)
        /\ \A u \in sync[s].listed : NotOlder(rows[k], Snapshot(u, u))
    BY <1>i, <2>1 DEF SyncGood, Fresh
  <2>3. Of(rows[k]) = edits[v].of => rows[k].stamp <= v /\ rows[k].text <= v
    BY <2>2 DEF NotOlder, Snapshot
  <2>4. rows[k] \in SnapshotRows
    BY <1>i DEF SyncShape
  <2>5. NotOlder(rows[k], r)
    BY <1>2, <1>4, <1>6, <2>3, <2>4 DEF NotOlder, SnapshotRows
  <2>6. QED
    BY <1>7, <1>11, <2>2, <2>5
<1>18. Paging(s)' /\ CutFurther(s)'
  BY <1>i, <1>1, <1>0, <1>11, <1>12 DEF SyncGood, InPlace, Paging, CutFurther
<1>19. CoveredBy(s)'
  <2>1. \A u, mark : ~Behind(u, mark)'
    BY <1>0, <1>1 DEF Behind
  <2>2. QED
    BY <1>11, <1>12, <2>1 DEF CoveredBy, Covers
<1>20. Mirroring(s)'
  <2>1. SUFFICES ASSUME risks = {}, sync[s].seen = Len(edits)
                 PROVE  Taken(s)'
    BY <1>0, <1>11, <1>12 DEF Mirroring
  <2>2. Taken(s)
    BY <1>i, <1>0, <1>1, <2>1 DEF SyncGood, Mirroring, InPlace
  <2>3. \A u \in LiveIn(sync[s].target) : u = v => Snapshot(u, u) = r
    BY <1>1, <1>3, <1>5, CurrentVersions
  <2>4. QED
    BY <1>0, <1>7, <1>11, <1>12, <2>2, <2>3, SameAccount DEF Taken, Snapshot
<1>21. SyncGood(s)'
  BY <1>13, <1>14, <1>15, <1>16, <1>17, <1>18, <1>19, <1>20 DEF SyncGood
<1>22. expired' \in Nat /\ status' \in {"CONNECTED", "ERROR"} /\ begun' \in 0 .. MaxSyncs
  BY <1>i, <1>0 DEF SyncShape
<1>23. QED
  BY <1>0, <1>9, <1>10, <1>21, <1>22, OneSyncMoves

-----------------------------------------------------------------------------
(* Steps that store.                                                       *)

\* Storing a snapshot appends a row that is not older than its like.
LEMMA StoreStep ==
    ASSUME SyncIInv, NEW s \in SyncThreads, NEW r \in sync[s].read, StoreSnapshot(s, r)
    PROVE  SyncIInv'
<1>i. /\ SyncShape /\ SyncsAlone /\ SyncGood(s) /\ TimeGoesOn /\ Past(cursor.mark) /\ RowsSound
      /\ LatestIsNewest /\ CursorPlace /\ CursorCovered
  BY DEF SyncIInv
<1>0. /\ sync[s].at = "store"
      /\ UNCHANGED <<provider, risks, edits, expired, begun, status, cursor>>
      /\ provider = "GITHUB" => \A q \in sync[s].read : r.stamp <= q.stamp
  BY DEF StoreSnapshot, Within, accountVars
<1>1. sync[s] \in Syncs /\ edits \in Seq(Edits) /\ rows \in Seq(SnapshotRows) /\ sync[s].listed = {}
  BY <1>i, <1>0 DEF SyncShape, SyncGood, InPlace
<1>2. r \in Snapshots /\ Sound(r) /\ sync[s].space \in Spaces
  BY <1>i, <1>1 DEF SyncGood, ReadsSound, Syncs
<1>3. PICK row : row = [space |-> sync[s].space, stamp |-> r.stamp, text |-> r.text]
  OBVIOUS
<1>4. /\ row \in SnapshotRows
      /\ row.space = sync[s].space /\ row.stamp = r.stamp /\ row.text = r.text
  BY <1>2, <1>3 DEF Snapshots, SnapshotRows
<1>5. \/ rows' = rows /\ \E k \in DOMAIN rows : rows[k] = row
      \/ rows' = Append(rows, row)
  BY <1>3 DEF StoreSnapshot
<1>6. PICK w : w = [sync[s] EXCEPT !.read = @ \ {r}]
  OBVIOUS
<1>7. sync' = [sync EXCEPT ![s] = w]
  BY <1>6 DEF StoreSnapshot, Goes
<1>8. w \in Syncs
  BY <1>1, <1>6 DEF Syncs
<1>9. /\ w.at = "store" /\ w.from = sync[s].from /\ w.space = sync[s].space /\ w.target = sync[s].target
      /\ w.seen = sync[s].seen /\ w.read = sync[s].read \ {r} /\ w.listed = {}
      /\ w.newest = sync[s].newest /\ w.cut = sync[s].cut
  BY <1>0, <1>1, <1>6 DEF Syncs
<1>10. sync'[s] = w /\ \A t \in SyncThreads \ {s} : sync'[t] = sync[t]
  BY <1>i, <1>7 DEF SyncShape
<1>11. /\ rows' \in Seq(SnapshotRows) /\ Len(rows) \in Nat /\ Len(rows') \in Nat
       /\ DOMAIN rows = 1 .. Len(rows) /\ DOMAIN rows' = 1 .. Len(rows')
       /\ Len(rows') \in {Len(rows), Len(rows) + 1}
       /\ \A k \in DOMAIN rows : rows'[k] = rows[k]
       /\ Len(rows') = Len(rows) + 1 => rows'[Len(rows) + 1] = row
       /\ \E k \in DOMAIN rows' : rows'[k] = row
  <2>1. CASE rows' = rows /\ \E k \in DOMAIN rows : rows[k] = row
    BY <1>1, <2>1
  <2>2. CASE rows' = Append(rows, row)
    <3>1. /\ rows' \in Seq(SnapshotRows) /\ Len(rows') = Len(rows) + 1 /\ rows'[Len(rows) + 1] = row
          /\ \A k \in 1 .. Len(rows) : rows'[k] = rows[k]
      BY <1>1, <1>4, <2>2, AppendProperties
    <3>2. Len(rows) + 1 \in DOMAIN rows'
      BY <1>1, <3>1
    <3>3. QED
      BY <1>1, <3>1, <3>2
  <2>3. QED
    BY <1>5, <2>1, <2>2
<1>n. PICK n \in Nat, m \in Nat :
         /\ n = Len(rows) /\ m = Len(rows') /\ m \in {n, n + 1}
         /\ DOMAIN rows = 1 .. n /\ DOMAIN rows' = 1 .. m
  BY <1>11
<1>12. RowsOnlyGrow /\ DOMAIN rows \subseteq DOMAIN rows'
  <2>1. n <= m
    BY <1>n
  <2>2. RowsOnlyGrow
    BY <1>11, <2>1, <1>n DEF RowsOnlyGrow
  <2>3. 1 .. n \subseteq 1 .. m
    BY <2>1
  <2>4. QED
    BY <1>n, <2>2, <2>3
<1>13. \A k \in DOMAIN rows' : k \in DOMAIN rows \/ (k = Len(rows) + 1 /\ rows'[k] = row)
  <2>1. TAKE k \in DOMAIN rows'
  <2>2. CASE m = n
    BY <1>n, <2>2
  <2>3. CASE m = n + 1
    <3>1. k \in 1 .. n \/ k = n + 1
      BY <1>n, <2>3
    <3>2. QED
      BY <1>11, <1>n, <2>3, <3>1
  <2>4. QED
    BY <1>n, <2>2, <2>3
<1>14. SyncShape'
  BY <1>i, <1>0, <1>7, <1>8, <1>11 DEF SyncShape
<1>15. SyncsAlone'
  BY <1>i, <1>0, <1>10 DEF SyncsAlone
<1>16. RowsSound'
  <2>1. Sound(row)
    BY <1>2, <1>4 DEF Sound
  <2>2. \A k \in DOMAIN rows' : Sound(rows'[k])
    BY <1>i, <1>11, <1>13, <2>1 DEF RowsSound
  <2>3. QED
    BY <1>0, <2>2, SameAccount DEF RowsSound
<1>17. LatestIsNewest'
  <2>1. SUFFICES ASSUME "overlap" \notin risks, NEW j \in DOMAIN rows', NEW k \in DOMAIN rows',
                        j < k, rows'[j].space = rows'[k].space, Of(rows'[j]) = Of(rows'[k])
                 PROVE  rows'[j].stamp <= rows'[k].stamp /\ rows'[j].text <= rows'[k].text
    BY <1>0 DEF LatestIsNewest, Of
  <2>2. CASE k \in DOMAIN rows
    <3>1. j \in DOMAIN rows
      BY <1>n, <2>1, <2>2
    <3>2. QED
      BY <1>i, <1>11, <2>1, <2>2, <3>1 DEF LatestIsNewest, Of
  <2>3. CASE k = Len(rows) + 1 /\ rows'[k] = row
    <3>1. j \in DOMAIN rows
      BY <1>n, <2>1, <2>3
    <3>2. NotOlder(rows[j], r)
      BY <1>i, <1>4, <1>11, <2>1, <2>3, <3>1 DEF SyncGood, Fresh
    <3>3. QED
      BY <1>4, <1>11, <2>1, <2>3, <3>1, <3>2 DEF NotOlder, Of
  <2>4. QED
    BY <1>13, <2>2, <2>3
<1>18. \A target, mark, read : Covers(target, mark, read) => Covers(target, mark, read)'
  BY <1>0, <1>1, <1>12, CoversStays
<1>19. CursorCovered'
  BY <1>i, <1>0, <1>18 DEF CursorCovered
<1>20. TimeGoesOn' /\ CursorPlace' /\ Past(cursor.mark)'
  BY <1>i, <1>0 DEF TimeGoesOn, CursorPlace, Past
<1>21. \A t \in SyncThreads \ {s} : SyncGood(t)'
  <2>1. TAKE t \in SyncThreads \ {s}
  <2>2. "overlap" \in risks \/ sync[t].at = "idle"
    BY <1>i, <1>0 DEF SyncsAlone
  <2>3. QED
    BY <1>0, <1>10, <1>12, <2>2, Untouched
<1>22. InPlace(s)'
  BY <1>i, <1>0, <1>9, <1>10 DEF SyncGood, InPlace
<1>23. MarksPast(s)'
  BY <1>i, <1>0, <1>9, <1>10, SameAccount DEF SyncGood, MarksPast
<1>24. ReadsSound(s)' /\ OncePerObject(s)'
  BY <1>i, <1>0, <1>9, <1>10 DEF SyncGood, ReadsSound, OncePerObject, Sound
<1>25. Fresh(s)'
  <2>1. SUFFICES ASSUME "overlap" \notin risks, NEW k \in DOMAIN rows', rows'[k].space = sync[s].space,
                        NEW q \in w.read
                 PROVE  NotOlder(rows'[k], q)
    BY <1>0, <1>9, <1>10 DEF Fresh, NotOlder, Of
  <2>2. q \in sync[s].read /\ q # r /\ q \in Snapshots /\ Sound(q)
    BY <1>i, <1>1, <1>9, <2>1 DEF SyncGood, ReadsSound, Syncs
  <2>3. CASE k \in DOMAIN rows
    BY <1>i, <1>11, <2>1, <2>2, <2>3 DEF SyncGood, Fresh
  <2>4. CASE k = Len(rows) + 1 /\ rows'[k] = row
    <3>1. CASE provider = "GITHUB"
      BY <1>0, <1>2, <1>4, <2>2, <2>4, <3>1 DEF NotOlder, Sound
    <3>2. CASE provider # "GITHUB"
      <4>1. edits[q.stamp].of # edits[r.stamp].of
        BY <1>i, <2>2, <3>2 DEF SyncGood, OncePerObject
      <4>2. QED
        BY <1>4, <2>4, <4>1 DEF NotOlder, Of
    <3>3. QED
      BY <3>1, <3>2
  <2>5. QED
    BY <1>13, <2>3, <2>4
<1>26. Paging(s)'
  BY <1>9, <1>10 DEF Paging
<1>27. NextMark(s)' = NextMark(s)
  BY <1>0, <1>9, <1>10 DEF NextMark
<1>28. CoveredBy(s)'
  <2>1. PICK target, mark, read : target = sync[s].target /\ mark = NextMark(s) /\ read = sync[s].read
    OBVIOUS
  <2>2. SUFFICES ASSUME risks \subseteq {"overlap"}
                 PROVE  Covers(target, mark, read \ {r})'
    BY <1>0, <1>9, <1>10, <1>27, <2>1 DEF CoveredBy
  <2>3. Covers(target, mark, read)
    BY <1>i, <1>0, <2>1, <2>2 DEF SyncGood, CoveredBy
  <2>4. Covers(target, mark, read)'
    BY <1>18, <2>3
  <2>5. Stored(r.stamp)'
    <3>1. sync[s].space = Usual(Spaces)
      BY <1>i, <2>2 DEF SyncGood, InPlace
    <3>2. QED
      BY <1>4, <1>11, <3>1 DEF Stored
  <2>6. \A v : Snapshot(v, v) = r => v = r.stamp
    BY DEF Snapshot
  <2>7. QED
    BY <2>4, <2>5, <2>6 DEF Covers, Snapshot
<1>29. CutFurther(s)'
  <2>1. Crowd(s)' = Crowd(s)
    BY <1>0, <1>9, <1>10, SameAccount DEF Crowd, Issues
  <2>2. QED
    BY <1>i, <1>0, <1>9, <1>10, <1>27, <2>1 DEF SyncGood, CutFurther
<1>30. Mirroring(s)'
  <2>1. SUFFICES ASSUME risks = {}, ~sync[s].cut, sync[s].seen = Len(edits)
                 PROVE  Taken(s)'
    BY <1>0, <1>9, <1>10 DEF Mirroring
  <2>2. Taken(s)
    BY <1>i, <1>0, <2>1 DEF SyncGood, Mirroring
  <2>3. \A v \in LiveIn(sync[s].target) : Snapshot(v, v) = r =>
            row = [space |-> sync[s].space, stamp |-> v, text |-> v]
    BY <1>3 DEF Snapshot
  <2>4. SUFFICES ASSUME NEW v \in LiveIn(sync[s].target), Kept(v)
                 PROVE  \/ \E k \in DOMAIN rows' : rows'[k] = [space |-> sync[s].space, stamp |-> v, text |-> v]
                        \/ Snapshot(v, v) \in w.read
    BY <1>0, <1>9, <1>10, SameAccount DEF Taken, Snapshot
  <2>5. CASE \E k \in DOMAIN rows : rows[k] = [space |-> sync[s].space, stamp |-> v, text |-> v]
    BY <1>11, <1>12, <2>5
  <2>6. CASE Snapshot(v, v) \in sync[s].read
    BY <1>9, <1>11, <2>3, <2>6
  <2>7. QED
    BY <1>1, <2>2, <2>4, <2>5, <2>6 DEF Taken
<1>31. SyncGood(s)'
  BY <1>22, <1>23, <1>24, <1>25, <1>26, <1>28, <1>29, <1>30 DEF SyncGood
<1>32. \A t \in SyncThreads : SyncGood(t)'
  BY <1>21, <1>31
<1>33. QED
  BY <1>14, <1>15, <1>16, <1>17, <1>19, <1>20, <1>32 DEF SyncIInv

\* A cursor is saved when everything behind it is stored.
LEMMA SaveCursorStep ==
    ASSUME SyncIInv, NEW s \in SyncThreads, SaveCursor(s)
    PROVE  SyncIInv'
<1>i. /\ SyncShape /\ SyncsAlone /\ SyncGood(s) /\ TimeGoesOn /\ RowsSound /\ LatestIsNewest
  BY DEF SyncIInv
<1>0. /\ sync[s].at = "store" /\ sync[s].read = {}
      /\ UNCHANGED <<provider, risks, edits, expired, begun, status, rows>>
      /\ cursor' = [target |-> sync[s].target, mark |-> NextMark(s)]
  BY DEF SaveCursor, Within, accountVars
<1>1. sync[s] \in Syncs /\ sync[s].listed = {} /\ sync[s].target \in Targets
  BY <1>i, <1>0 DEF SyncShape, SyncGood, InPlace, Syncs
<1>2. Past(NextMark(s)) /\ NextMark(s) \in Nat
  BY <1>i, NextMarkPast DEF SyncGood
<1>3. PICK w : w = [sync[s] EXCEPT !.at = "done"]
  OBVIOUS
<1>4. sync' = [sync EXCEPT ![s] = w]
  BY <1>3 DEF SaveCursor, Goes
<1>5. w \in Syncs
  BY <1>1, <1>3 DEF Syncs, Steps
<1>6. /\ w.at = "done" /\ w.from = sync[s].from /\ w.space = sync[s].space /\ w.target = sync[s].target
      /\ w.seen = sync[s].seen /\ w.read = {} /\ w.listed = {}
      /\ w.newest = sync[s].newest /\ w.cut = sync[s].cut
  BY <1>0, <1>1, <1>3 DEF Syncs
<1>7. sync'[s] = w /\ \A t \in SyncThreads \ {s} : sync'[t] = sync[t]
  BY <1>i, <1>4 DEF SyncShape
<1>8. SyncShape'
  BY <1>i, <1>0, <1>1, <1>2, <1>4, <1>5 DEF SyncShape
<1>9. TimeGoesOn' /\ RowsSound' /\ LatestIsNewest' /\ SyncsAlone'
  BY <1>i, <1>0, <1>7 DEF TimeGoesOn, RowsSound, Sound, LatestIsNewest, Of, SyncsAlone
<1>10. RowsOnlyGrow /\ rows \in Seq(SnapshotRows)
  BY <1>i, <1>0 DEF RowsOnlyGrow, SyncShape
<1>11. PICK mark : mark = NextMark(s)
  OBVIOUS
<1>12. cursor'.target = sync[s].target /\ cursor'.mark = mark
  BY <1>0, <1>11
<1>13. Past(cursor.mark)'
  BY <1>0, <1>2, <1>11, <1>12, SameAccount
<1>14. CursorPlace'
  BY <1>i, <1>0, <1>12 DEF SyncGood, InPlace, CursorPlace
<1>15. CursorCovered'
  <2>1. PICK target : target = sync[s].target
    OBVIOUS
  <2>2. SUFFICES ASSUME risks \subseteq {"overlap"}
                 PROVE  Covers(target, mark, {})'
    BY <1>0, <1>12, <2>1 DEF CursorCovered
  <2>3. Covers(target, mark, {})
    BY <1>i, <1>0, <1>11, <2>1, <2>2 DEF SyncGood, CoveredBy
  <2>4. QED
    BY <1>0, <1>10, <2>3, CoversStays
<1>16. \A t \in SyncThreads \ {s} : SyncGood(t)'
  BY <1>0, <1>7, <1>10, Untouched
<1>17. InPlace(s)'
  BY <1>i, <1>0, <1>6, <1>7 DEF SyncGood, InPlace
<1>18. MarksPast(s)'
  BY <1>i, <1>0, <1>6, <1>7, SameAccount DEF SyncGood, MarksPast
<1>19. ReadsSound(s)' /\ OncePerObject(s)' /\ Fresh(s)' /\ Paging(s)' /\ CoveredBy(s)'
  BY <1>6, <1>7 DEF ReadsSound, OncePerObject, Fresh, Paging, CoveredBy
<1>20. CutFurther(s)'
  <2>1. Crowd(s)' = Crowd(s)
    BY <1>0, <1>6, <1>7, SameAccount DEF Crowd, Issues
  <2>2. NextMark(s)' = NextMark(s)
    BY <1>0, <1>6, <1>7 DEF NextMark
  <2>3. QED
    BY <1>i, <1>0, <1>6, <1>7, <2>1, <2>2 DEF SyncGood, CutFurther
<1>21. Mirroring(s)'
  <2>1. SUFFICES ASSUME risks = {}, ~sync[s].cut, sync[s].seen = Len(edits)
                 PROVE  Taken(s)'
    BY <1>0, <1>6, <1>7 DEF Mirroring
  <2>2. Taken(s)
    BY <1>i, <1>0, <2>1 DEF SyncGood, Mirroring
  <2>3. QED
    BY <1>0, <1>1, <1>6, <1>7, <2>2, SameAccount DEF Taken, Snapshot
<1>22. \A t \in SyncThreads : SyncGood(t)'
  BY <1>16, <1>17, <1>18, <1>19, <1>20, <1>21 DEF SyncGood
<1>23. QED
  BY <1>8, <1>9, <1>13, <1>14, <1>15, <1>22 DEF SyncIInv

-----------------------------------------------------------------------------
(* A page of GitHub's list.                                                *)

Found(s) == {v \in Handled(s) : IsIssue(v)}
CountThen(s) == sync[s].count + Cardinality(Found(s))
NewestThen(s) == IF Latest(Handled(s)) > sync[s].newest THEN Latest(Handled(s)) ELSE sync[s].newest

\* The numbers of the rows of a page.
LEMMA PageNumbers ==
    ASSUME NEW p \in Nat, p >= 1, NEW q \in Nat
    PROVE  (p - 1) * q \in Nat /\ p * q \in Nat /\ p * q = (p - 1) * q + q
<1>1. PICK m \in Nat : p = m + 1
  <2>1. p - 1 \in Nat /\ p = (p - 1) + 1
    OBVIOUS
  <2>2. QED
    BY <2>1
<1>2. (m + 1) * q = m * q + q /\ m * q \in Nat
  OBVIOUS
<1>3. p - 1 = m
  BY <1>1
<1>4. QED
  BY <1>1, <1>2, <1>3

\* The page asked for follows those before it.
LEMMA APage ==
    ASSUME edits \in Seq(Edits), NEW s \in SyncThreads, sync[s] \in Syncs
    PROVE  /\ Issues(s) \in SUBSET (1 .. Len(edits)) /\ Len(edits) \in Nat
           /\ DOMAIN edits = 1 .. Len(edits) /\ IsFiniteSet(Issues(s))
           /\ Page(s) \subseteq Issues(s) /\ IsFiniteSet(Page(s))
           /\ Cardinality(Page(s)) \in 0 .. PerPage
           /\ Handled(s) \subseteq Page(s)
           /\ IsFiniteSet(Found(s)) /\ Cardinality(Found(s)) \in 0 .. PerPage
           /\ \A v \in Issues(s) : v \in Before(s) \/ v \in Page(s) \/ Rank(v, Issues(s)) > sync[s].page * PerPage
           /\ \A v \in Before(s) : v \notin Page(s)
           /\ (\E v \in Issues(s) : Rank(v, Issues(s)) > sync[s].page * PerPage) => Cardinality(Page(s)) = PerPage
<1>1. /\ Issues(s) \in SUBSET (1 .. Len(edits)) /\ Len(edits) \in Nat /\ DOMAIN edits = 1 .. Len(edits)
      /\ IsFiniteSet(Issues(s))
  BY BeforeAreListed, Ranks
<1>2. sync[s].page \in Nat /\ sync[s].page >= 1 /\ PerPage \in Nat
  <2>1. MaxPages \in Nat /\ PerPage \in Nat BY SyncConstants
  <2>2. sync[s].page \in 1 .. MaxPages + 1 BY DEF Syncs
  <2> QED BY <2>1, <2>2
<1>3. PICK a \in Nat, b \in Nat : /\ a = (sync[s].page - 1) * PerPage
                                  /\ b = sync[s].page * PerPage /\ b = a + PerPage
  BY <1>2, PageNumbers
<1>4. Page(s) = {v \in Issues(s) : Rank(v, Issues(s)) \in a + 1 .. b}
  BY <1>3 DEF Page
<1>5. Before(s) = {v \in Issues(s) : Rank(v, Issues(s)) <= a}
  BY <1>3 DEF Before
<1>6. /\ IsFiniteSet(Page(s)) /\ Cardinality(Page(s)) \in Nat /\ Cardinality(Page(s)) <= b - a
      /\ (\E v \in Issues(s) : Rank(v, Issues(s)) > b) => Cardinality(Page(s)) = b - a
  <2>1. a <= b
    BY <1>2, <1>3
  <2>2. QED
    BY <1>1, <1>4, <2>1, RanksBetween
<1>7. b - a = PerPage
  BY <1>2, <1>3
<1>8. \A v \in Issues(s) : Rank(v, Issues(s)) \in Int
  <2>1. \A v \in Issues(s) : Rank(v, Issues(s)) \in 1 .. Cardinality(Issues(s))
    BY <1>1, Ranks
  <2>2. QED
    BY <2>1
<1>9. Handled(s) \subseteq Page(s) /\ Found(s) \in SUBSET Page(s)
  BY DEF Handled, Found
<1>10. IsFiniteSet(Found(s)) /\ Cardinality(Found(s)) \in Nat /\ Cardinality(Found(s)) <= Cardinality(Page(s))
  BY <1>6, <1>9, FS_Subset, FS_CardinalityType
<1>11. Cardinality(Page(s)) \in 0 .. PerPage /\ Cardinality(Found(s)) \in 0 .. PerPage
  BY <1>2, <1>6, <1>7, <1>10
<1>12. \A v \in Issues(s) : v \in Before(s) \/ v \in Page(s) \/ Rank(v, Issues(s)) > b
  BY <1>4, <1>5, <1>8
<1>13. \A v \in Before(s) : v \notin Page(s)
  BY <1>4, <1>5, <1>8
<1>14. QED
  BY <1>1, <1>3, <1>4, <1>6, <1>7, <1>9, <1>10, <1>11, <1>12, <1>13

\* The rows of a page are handled from the first on, all of them below the limit.
LEMMA HandledFirst ==
    ASSUME edits \in Seq(Edits), NEW s \in SyncThreads, sync[s] \in Syncs
    PROVE  /\ \A v \in Handled(s), u \in Page(s) : u < v => u \in Handled(s)
           /\ CountThen(s) < Limit => Handled(s) = Page(s)
<1>1. /\ Page(s) \in SUBSET (1 .. Len(edits)) /\ Len(edits) \in Nat /\ IsFiniteSet(Page(s))
      /\ Handled(s) \subseteq Page(s) /\ IsFiniteSet(Found(s)) /\ Cardinality(Found(s)) \in Nat
  BY APage
<1>2. sync[s].count \in Nat /\ Limit \in Nat
  BY SyncConstants DEF Syncs
<1> DEFINE Ahead(v) == {w \in Page(s) : w < v /\ IsIssue(w)}
<1>3. \A v : IsFiniteSet(Ahead(v)) /\ Cardinality(Ahead(v)) \in Nat
  <2>1. TAKE v
  <2>2. Ahead(v) \in SUBSET Page(s)
    OBVIOUS
  <2>3. QED
    BY <1>1, <2>2, FS_Subset, FS_CardinalityType
<1>4. \A v \in Page(s) : v \in Handled(s) <=> sync[s].count + Cardinality(Ahead(v)) < Limit
  BY DEF Handled
<1>a. \A v : Ahead(v) = {w \in Page(s) : w < v /\ IsIssue(w)}
  OBVIOUS
<1> HIDE DEF Ahead
<1>5. ASSUME NEW v \in Handled(s), NEW u \in Page(s), u < v
      PROVE  u \in Handled(s)
  <2>1. Ahead(u) \in SUBSET Ahead(v)
    <3>1. \A x \in Page(s) : x < u => x < v
      BY <1>1, <1>5
    <3>2. QED
      BY <1>a, <3>1
  <2>2. Cardinality(Ahead(u)) <= Cardinality(Ahead(v))
    BY <1>3, <2>1, FS_Subset
  <2>3. sync[s].count + Cardinality(Ahead(v)) < Limit
    BY <1>1, <1>4
  <2>4. sync[s].count + Cardinality(Ahead(u)) < Limit
    BY <1>2, <1>3, <2>2, <2>3
  <2>5. QED
    BY <1>4, <2>4
<1>6. ASSUME CountThen(s) < Limit, Handled(s) # Page(s)
      PROVE  FALSE
  <2>1. PICK v \in Page(s) \ Handled(s) : \A u \in Page(s) \ Handled(s) : v <= u
    <3>1. Page(s) \ Handled(s) # {}
      BY <1>1, <1>6
    <3>a. Page(s) \ Handled(s) \subseteq Nat
      BY <1>1
    <3>2. QED
      BY <3>1, <3>a, LeastNumber
  <2>2. \A u \in Page(s) : u < v => u \in Handled(s)
    BY <1>1, <2>1
  <2>3. Ahead(v) \in SUBSET Found(s)
    BY <1>a, <2>2 DEF Found
  <2>4. Cardinality(Ahead(v)) <= Cardinality(Found(s))
    BY <1>1, <2>3, FS_Subset
  <2>5. sync[s].count + Cardinality(Ahead(v)) < Limit
    BY <1>1, <1>2, <1>3, <1>6, <2>4 DEF CountThen
  <2>6. QED
    BY <1>4, <2>1, <2>5
<1>7. QED
  BY <1>5, <1>6

\* Nothing is newer than the newest that was handled, and something is as new.
LEMMA NewestHandled ==
    ASSUME edits \in Seq(Edits), TimeGoesOn, NEW s \in SyncThreads, sync[s] \in Syncs
    PROVE  /\ NewestThen(s) \in Nat /\ sync[s].newest <= NewestThen(s)
           /\ \A v \in Handled(s) : edits[v].at <= NewestThen(s)
           /\ NewestThen(s) = sync[s].newest \/ \E v \in Handled(s) : NewestThen(s) = edits[v].at
<1>1. Handled(s) \in SUBSET DOMAIN edits
  BY APage
<1>2. \A v \in DOMAIN edits : edits[v].at \in Nat /\ edits[v].at >= 2
  BY DEF TimeGoesOn
<1>3. /\ Handled(s) = {} => Latest(Handled(s)) = 0
      /\ Handled(s) # {} => \E v \in Handled(s) : Latest(Handled(s)) = edits[v].at
      /\ \A w \in Handled(s) : edits[w].at <= Latest(Handled(s))
  BY <1>1, LatestIsOne
<1>4. Latest(Handled(s)) \in Nat /\ sync[s].newest \in Nat
  BY <1>1, <1>2, <1>3 DEF Syncs
<1>5. CASE Latest(Handled(s)) > sync[s].newest
  <2>1. Handled(s) # {}
    BY <1>3, <1>4, <1>5
  <2>2. QED
    BY <1>3, <1>4, <1>5, <2>1 DEF NewestThen
<1>6. CASE ~(Latest(Handled(s)) > sync[s].newest)
  <2>1. NewestThen(s) = sync[s].newest
    BY <1>6 DEF NewestThen
  <2>2. \A v \in Handled(s) : edits[v].at <= NewestThen(s)
    BY <1>1, <1>2, <1>3, <1>4, <1>6, <2>1
  <2>3. QED
    BY <1>4, <2>1, <2>2
<1>7. QED
  BY <1>5, <1>6

\* The pages up to this one, in numbers.
LEMMA PagesSoFar ==
    ASSUME edits \in Seq(Edits), NEW s \in SyncThreads, sync[s] \in Syncs, PagesRead(s)
    PROVE  /\ Cardinality(Before(s) \union Page(s)) = (sync[s].page - 1) * PerPage + Cardinality(Page(s))
           /\ CountThen(s) = Cardinality({v \in Before(s) : IsIssue(v)} \union Found(s))
           /\ IsFiniteSet(Before(s) \union Page(s))
<1>1. /\ IsFiniteSet(Issues(s)) /\ IsFiniteSet(Page(s)) /\ IsFiniteSet(Found(s))
      /\ Before(s) \in SUBSET Issues(s) /\ \A v \in Before(s) : v \notin Page(s)
      /\ Handled(s) \subseteq Page(s)
  BY APage, BeforeAreListed
<1> DEFINE B == {v \in Before(s) : IsIssue(v)}
<1>2. IsFiniteSet(Before(s))
  BY <1>1, FS_Subset
<1>3. B \in SUBSET Before(s)
  OBVIOUS
<1>4. IsFiniteSet(B)
  BY <1>2, <1>3, FS_Subset
<1>5. Before(s) \cap Page(s) = {} /\ B \cap Found(s) = {}
  BY <1>1 DEF Found
<1>6. Cardinality(Before(s) \union Page(s)) = Cardinality(Before(s)) + Cardinality(Page(s)) - Cardinality({})
  BY <1>1, <1>2, <1>5, FS_Union
<1>7. Cardinality(B \union Found(s)) = Cardinality(B) + Cardinality(Found(s)) - Cardinality({})
  BY <1>1, <1>4, <1>5, FS_Union
<1>8. Cardinality({}) = 0 /\ Cardinality(B) \in Nat /\ Cardinality(Found(s)) \in Nat
      /\ Cardinality(Before(s)) \in Nat /\ Cardinality(Page(s)) \in Nat
  BY <1>1, <1>2, <1>4, FS_EmptySet, FS_CardinalityType
<1>9. Cardinality(Before(s)) = (sync[s].page - 1) * PerPage /\ sync[s].count = Cardinality(B)
  BY DEF PagesRead
<1>10. IsFiniteSet(Before(s) \union Page(s))
  BY <1>1, <1>2, FS_Union
<1> HIDE DEF B
<1>11. Cardinality(Before(s) \union Page(s)) = Cardinality(Before(s)) + Cardinality(Page(s))
  BY <1>6, <1>8
<1>12. CountThen(s) = Cardinality(B \union Found(s))
  BY <1>7, <1>8, <1>9 DEF CountThen
<1>13. QED
  BY <1>9, <1>10, <1>11, <1>12 DEF B

\* A page of issues: what is behind its newest row was on it or on one before.
LEMMA ListIssuesStep ==
    ASSUME SyncIInv, NEW s \in SyncThreads, ListIssues(s)
    PROVE  SyncIInv'
<1>i. SyncShape /\ TimeGoesOn /\ SyncGood(s) /\ RowsSound
  BY DEF SyncIInv
<1>0. /\ sync[s].at = "issues"
      /\ UNCHANGED <<provider, risks, edits, expired, begun, status, cursor, rows>>
  BY DEF ListIssues, Within, accountVars
<1>1. /\ sync[s] \in Syncs /\ edits \in Seq(Edits) /\ rows \in Seq(SnapshotRows) /\ provider = "GITHUB"
      /\ sync[s].listed = {}
  BY <1>i, <1>0 DEF SyncShape, SyncGood, InPlace
<1>2. /\ sync[s].count \in Nat /\ sync[s].count < Limit
      /\ sync[s].page \in 1 .. MaxPages /\ sync[s].from \in Nat
      /\ "shift" \notin risks \/ sync[s].seen = Len(edits) => PagesRead(s)
  <2>1. Paging(s) BY <1>i, <1>0 DEF SyncGood
  <2>2. sync[s].count \in Nat /\ sync[s].count < Limit BY <1>0, <1>1, <2>1, SyncConstants DEF Paging, Syncs
  <2>3. sync[s].page \in 1 .. MaxPages /\ sync[s].from \in Nat BY <1>0, <1>1, <2>1, SyncConstants DEF Paging, Syncs
  <2>4. "shift" \notin risks \/ sync[s].seen = Len(edits) => PagesRead(s) BY <1>0, <2>1 DEF Paging
  <2> QED BY <2>2, <2>3, <2>4
<1>3. /\ Issues(s) \in SUBSET (1 .. Len(edits)) /\ Len(edits) \in Nat
      /\ DOMAIN edits = 1 .. Len(edits)
      /\ Handled(s) \subseteq Page(s) /\ Page(s) \subseteq Issues(s)
      /\ Cardinality(Page(s)) \in 0 .. PerPage /\ Cardinality(Found(s)) \in 0 .. PerPage
  BY <1>1, APage
<1>4. PICK R : R = {Snapshot(v, v) : v \in Found(s)}
  OBVIOUS
<1>5. PICK last, count : /\ last = (Cardinality(Page(s)) < PerPage \/ sync[s].page = MaxPages \/ count >= Limit)
                         /\ count = CountThen(s)
  OBVIOUS
<1>6. PICK newest : newest = NewestThen(s)
  OBVIOUS
<1>7. PICK w : w = [sync[s] EXCEPT !.at = IF last THEN "store" ELSE "issues", !.page = @ + 1,
                        !.read = @ \union R, !.count = count, !.newest = newest,
                        !.cut = last /\ (count >= Limit \/ Cardinality(Page(s)) = PerPage)]
  OBVIOUS
<1>8. sync' = [sync EXCEPT ![s] = w]
  BY <1>4, <1>5, <1>6, <1>7 DEF ListIssues, Goes, Found, CountThen, NewestThen
<1>9. last \in BOOLEAN /\ count \in 0 .. Limit + PerPage /\ newest \in Nat /\ R \in SUBSET Snapshots
  <2>1. last \in BOOLEAN
    BY <1>5
  <2>2. count \in 0 .. Limit + PerPage
    BY <1>2, <1>3, <1>5, SyncConstants DEF CountThen
  <2>3. newest \in Nat
    BY <1>i, <1>1, <1>6, NewestHandled
  <2>4. R \in SUBSET Snapshots
    BY <1>3, <1>4 DEF Found, Snapshot, Snapshots
  <2>5. QED
    BY <2>1, <2>2, <2>3, <2>4
<1>10. sync[s].page + 1 \in 1 .. MaxPages + 1
  BY <1>2, SyncConstants
<1>11. w \in Syncs
  <2>1. {"store", "issues"} \subseteq Steps
    BY DEF Steps
  <2>2. (last /\ (count >= Limit \/ Cardinality(Page(s)) = PerPage)) \in BOOLEAN
    OBVIOUS
  <2>3. sync[s].read \union R \in SUBSET Snapshots
    BY <1>1, <1>9 DEF Syncs
  <2>4. QED
    BY <1>1, <1>7, <1>9, <1>10, <2>1, <2>2, <2>3 DEF Syncs
<1>12. /\ w.at = (IF last THEN "store" ELSE "issues") /\ w.page = sync[s].page + 1
       /\ w.from = sync[s].from /\ w.space = sync[s].space /\ w.target = sync[s].target
       /\ w.seen = sync[s].seen /\ w.read = sync[s].read \union R /\ w.listed = {}
       /\ w.count = count /\ w.newest = newest
       /\ w.cut = (last /\ (count >= Limit \/ Cardinality(Page(s)) = PerPage))
  BY <1>1, <1>7 DEF Syncs
<1>13. sync'[s] = w
  BY <1>i, <1>8 DEF SyncShape
<1>14. \A r \in R : r.stamp \in Found(s) /\ r.text = r.stamp
  BY <1>4 DEF Snapshot
<1>15. \A v \in Found(s) : v \in Handled(s) /\ v \in DOMAIN edits /\ v \in Current(sync[s].target)
  BY <1>1, <1>3, CurrentVersions DEF Found, Issues
<1>16. /\ newest >= sync[s].newest
       /\ \A v \in Handled(s) : edits[v].at <= newest
       /\ newest = sync[s].newest \/ \E v \in Handled(s) : newest = edits[v].at
  BY <1>i, <1>1, <1>6, <1>9, NewestHandled DEF Syncs
<1>17. InPlace(s)'
  BY <1>i, <1>0, <1>1, <1>12, <1>13 DEF SyncGood, InPlace
<1>18. MarksPast(s)'
  BY <1>i, <1>0, <1>1, <1>3, <1>12, <1>13, <1>16, SameAccount DEF SyncGood, MarksPast
<1>19. ReadsSound(s)'
  BY <1>i, <1>0, <1>3, <1>12, <1>13, <1>14, <1>15 DEF SyncGood, ReadsSound, Sound
<1>20. OncePerObject(s)'
  BY <1>0, <1>1, <1>12, <1>13 DEF OncePerObject
<1>21. Fresh(s)'
  <2>1. SUFFICES ASSUME "overlap" \notin risks, NEW k \in DOMAIN rows, rows[k].space = sync[s].space,
                        NEW r \in w.read
                 PROVE  NotOlder(rows[k], r)
    BY <1>0, <1>12, <1>13 DEF Fresh, NotOlder, Of
  <2>2. CASE r \in sync[s].read
    BY <1>i, <2>1, <2>2 DEF SyncGood, Fresh
  <2>3. CASE r \in R
    BY <1>14, <1>15, <2>3, RowsNotNewer DEF NotOlder
  <2>4. QED
    BY <1>12, <2>1, <2>2, <2>3
<1>22. Issues(s)' = Issues(s)
  BY <1>0, <1>12, <1>13, SameAccount DEF Issues
<1>a. /\ \A v \in Issues(s) : v \in Before(s) \/ v \in Page(s) \/ Rank(v, Issues(s)) > sync[s].page * PerPage
      /\ (\E v \in Issues(s) : Rank(v, Issues(s)) > sync[s].page * PerPage) => Cardinality(Page(s)) = PerPage
      /\ Before(s) \subseteq Issues(s)
  BY <1>1, APage, BeforeAreListed
<1>b. /\ \A v \in Handled(s), u \in Page(s) : u < v => u \in Handled(s)
      /\ count < Limit => Handled(s) = Page(s)
  BY <1>1, <1>5, HandledFirst
<1>c. \A v \in Found(s) : Snapshot(v, v) \in w.read
  BY <1>4, <1>12
<1>d. /\ (sync[s].page - 1) * PerPage \in Nat /\ sync[s].page * PerPage \in Nat
      /\ sync[s].page * PerPage = (sync[s].page - 1) * PerPage + PerPage
      /\ PerPage \in Nat /\ Limit \in Nat /\ MaxPages \in Nat
  <2>1. sync[s].page \in Nat /\ sync[s].page >= 1 /\ PerPage \in Nat /\ Limit \in Nat /\ MaxPages \in Nat
    BY <1>2, SyncConstants
  <2>2. QED
    BY <2>1, PageNumbers
<1>e. \A v, u \in Issues(s) : v < u <=> Rank(v, Issues(s)) < Rank(u, Issues(s))
  BY <1>3, Ranks
<1>f. \A v \in Issues(s) : Rank(v, Issues(s)) \in Nat
  <2>1. \A v \in Issues(s) : Rank(v, Issues(s)) \in 1 .. Cardinality(Issues(s))
    BY <1>3, Ranks
  <2>2. QED
    BY <2>1
<1>g. \A v \in Issues(s) : edits[v].at \in Nat /\ edits[v].at >= sync[s].from
  BY <1>i, <1>3 DEF Issues, TimeGoesOn
<1>23. Paging(s)'
  <2>1. SUFFICES ASSUME ~last
                 PROVE  /\ count < Limit /\ sync[s].page + 1 <= MaxPages
                        /\ "shift" \notin risks \/ sync[s].seen = Len(edits) => PagesRead(s)'
    BY <1>0, <1>12, <1>13 DEF Paging
  <2>2. count < Limit /\ sync[s].page + 1 <= MaxPages /\ Cardinality(Page(s)) = PerPage
    <3>1. ~(Cardinality(Page(s)) < PerPage) /\ sync[s].page # MaxPages /\ ~(count >= Limit)
      BY <1>5, <2>1
    <3>2. Cardinality(Page(s)) = PerPage
      BY <1>3, <1>d, <3>1
    <3>3. sync[s].page + 1 <= MaxPages
      BY <1>2, <1>d, <3>1
    <3>4. count < Limit
      BY <1>9, <1>d, <3>1
    <3>5. QED
      BY <3>2, <3>3, <3>4
  <2>3. SUFFICES ASSUME PagesRead(s)
                 PROVE  PagesRead(s)'
    BY <1>2, <2>2
  <2>4. Handled(s) = Page(s)
    BY <1>b, <2>2
  <2>5. Before(s)' = Before(s) \union Page(s)
    <3>1. Before(s)' = {v \in Issues(s) : Rank(v, Issues(s)) <= (w.page - 1) * PerPage}
      BY <1>13, <1>22 DEF Before, Rank
    <3>2. (w.page - 1) * PerPage = sync[s].page * PerPage
      <4>1. w.page - 1 = sync[s].page
        BY <1>2, <1>12
      <4>2. QED
        BY <4>1
    <3>3. \A v \in Before(s) : Rank(v, Issues(s)) <= sync[s].page * PerPage
      BY <1>a, <1>d, <1>f DEF Before
    <3>4. \A v \in Page(s) : v \in Issues(s) /\ Rank(v, Issues(s)) <= sync[s].page * PerPage
      BY <1>3, <1>d, <1>f DEF Page
    <3>5. \A v \in Issues(s) : Rank(v, Issues(s)) <= sync[s].page * PerPage => v \in Before(s) \union Page(s)
      BY <1>a, <1>d, <1>f
    <3>6. QED
      BY <1>a, <3>1, <3>2, <3>3, <3>4, <3>5
  <2>6. /\ Cardinality(Before(s) \union Page(s)) = (sync[s].page - 1) * PerPage + Cardinality(Page(s))
        /\ count = Cardinality({v \in Before(s) : IsIssue(v)} \union Found(s))
    BY <1>1, <1>5, <2>3, PagesSoFar
  <2>7. Cardinality(Before(s))' = (w.page - 1) * PerPage
    <3>1. w.page - 1 = sync[s].page
      BY <1>2, <1>12
    <3>2. QED
      BY <1>d, <2>2, <2>5, <2>6, <3>1
  <2>8. \A v : IsIssue(v)' = IsIssue(v)
    BY <1>0 DEF IsIssue
  <2>9. count = Cardinality({v \in Before(s)' : IsIssue(v)'})
    <3>1. {v \in Before(s)' : IsIssue(v)'} = {v \in Before(s) : IsIssue(v)} \union Found(s)
      BY <2>4, <2>5, <2>8 DEF Found
    <3>2. QED
      BY <2>6, <3>1
  <2>10. \A v \in Before(s)' : edits[v].at <= newest
    <3>1. \A v \in Before(s) : edits[v].at <= newest
      <4>1. \A v \in Before(s) : edits[v].at <= sync[s].newest
        BY <2>3 DEF PagesRead
      <4>2. sync[s].newest \in Nat
        BY <1>1 DEF Syncs
      <4>3. QED
        BY <1>9, <1>16, <1>a, <1>g, <4>1, <4>2
    <3>2. QED
      BY <1>16, <2>4, <2>5, <3>1
  <2>11. newest = 0 \/ \E v \in Before(s)' : edits[v].at = newest
    BY <1>16, <2>3, <2>4, <2>5 DEF PagesRead
  <2>12. \A v \in Before(s)' : IsIssue(v)' => Snapshot(v, v) \in w.read
    <3>1. \A v \in Before(s) : IsIssue(v) => Snapshot(v, v) \in w.read
      BY <1>12, <2>3 DEF PagesRead
    <3>2. \A v \in Page(s) : IsIssue(v) => Snapshot(v, v) \in w.read
      BY <1>c, <2>4 DEF Found
    <3>3. QED
      BY <2>5, <2>8, <3>1, <3>2
  <2>13. QED
    BY <1>0, <1>12, <1>13, <2>7, <2>9, <2>10, <2>11, <2>12 DEF PagesRead, Snapshot
<1>24. CoveredBy(s)'
  <2>1. PICK target, mark : target = sync[s].target /\ mark = (IF newest = 0 THEN sync[s].from ELSE newest - 1)
    OBVIOUS
  <2>2. SUFFICES ASSUME risks \subseteq {"overlap"}
                 PROVE  /\ Covers(target, sync[s].from, {})
                        /\ last => Covers(target, mark, w.read)
    <3>1. RowsOnlyGrow
      BY <1>0, <1>1 DEF RowsOnlyGrow
    <3>2. NextMark(s)' = mark
      BY <1>0, <1>1, <1>12, <1>13, <2>1 DEF NextMark
    <3>3. PICK from, read : from = sync[s].from /\ read = w.read
      OBVIOUS
    <3>4. Covers(target, from, {}) => Covers(target, from, {})'
      BY <1>0, <1>1, <3>1, CoversStays
    <3>5. Covers(target, mark, read) => Covers(target, mark, read)'
      BY <1>0, <1>1, <3>1, CoversStays
    <3>6. QED
      BY <1>0, <1>12, <1>13, <2>1, <3>2, <3>3, <3>4, <3>5 DEF CoveredBy
  <2>3. Covers(target, sync[s].from, {})
    BY <1>i, <1>0, <2>1, <2>2 DEF SyncGood, CoveredBy
  <2>4. PagesRead(s)
    BY <1>2, <2>2
  <2>5. ASSUME NEW v \in LiveIn(target), Kept(v), Behind(v, mark), edits[v].at >= sync[s].from
        PROVE  Snapshot(v, v) \in w.read
    <3>1. v \in Issues(s) /\ IsIssue(v)
      BY <1>1, <2>1, <2>5 DEF Issues, Kept
    <3>2. edits[v].at < newest /\ newest # 0
      BY <1>1, <1>2, <1>9, <1>g, <2>1, <2>5, <3>1 DEF Behind
    <3>3. CASE v \in Before(s)
      BY <1>12, <2>4, <3>1, <3>3 DEF PagesRead
    <3>4. CASE v \notin Before(s)
      <4>1. PICK x \in Before(s) \union Handled(s) : edits[x].at = newest
        BY <1>16, <2>4, <3>2 DEF PagesRead
      <4>2. x \in Issues(s) /\ v < x
        <5>1. x \in Issues(s)
          BY <1>3, <1>a, <4>1
        <5>2. ~(x <= v)
          BY <1>i, <1>3, <1>g, <3>1, <3>2, <4>1, <5>1 DEF TimeGoesOn
        <5>3. QED
          BY <1>3, <3>1, <5>1, <5>2
      <4>3. Rank(v, Issues(s)) < Rank(x, Issues(s))
        BY <1>e, <3>1, <4>2
      <4>4. x \notin Before(s)
        BY <1>d, <1>f, <3>1, <3>4, <4>2, <4>3 DEF Before
      <4>5. x \in Handled(s) /\ x \in Page(s)
        BY <1>3, <4>1, <4>4
      <4>6. Rank(x, Issues(s)) <= sync[s].page * PerPage
        BY <1>d, <1>f, <4>2, <4>5 DEF Page
      <4>7. v \in Page(s)
        BY <1>a, <1>d, <1>f, <3>1, <3>4, <4>2, <4>3, <4>6
      <4>8. v \in Handled(s)
        BY <1>b, <4>2, <4>5, <4>7
      <4>9. QED
        BY <1>c, <3>1, <4>8 DEF Found
    <3>5. QED
      BY <3>3, <3>4
  <2>6. \A v \in LiveIn(target) : Kept(v) /\ ~(edits[v].at >= sync[s].from) => Stored(v)
    <3>1. SUFFICES ASSUME NEW v \in LiveIn(target), Kept(v), ~(edits[v].at >= sync[s].from)
                   PROVE  Stored(v)
      OBVIOUS
    <3>2. v \in DOMAIN edits
      BY <1>1, CurrentVersions
    <3>3. edits[v].at < sync[s].from
      BY <1>i, <1>2, <3>1, <3>2 DEF TimeGoesOn
    <3>4. QED
      BY <1>1, <2>3, <3>1, <3>3 DEF Covers, Behind
  <2>7. QED
    BY <2>3, <2>5, <2>6 DEF Covers
<1>25. CutFurther(s)'
  <2>1. NextMark(s)' = (IF newest = 0 THEN sync[s].from ELSE newest - 1)
    BY <1>0, <1>1, <1>12, <1>13 DEF NextMark
  <2>2. Crowd(s)' = Crowd(s)
    BY <1>0, <1>12, <1>13, <1>22 DEF Crowd
  <2>a. SUFFICES ASSUME last /\ (count >= Limit \/ Cardinality(Page(s)) = PerPage),
                        sync[s].seen = Len(edits), ~(NextMark(s)' > sync[s].from)
                 PROVE  Cardinality(Crowd(s)) >= Limit \/ Cardinality(Crowd(s)) >= PerPage * MaxPages
    <3>1. w.cut => last /\ (count >= Limit \/ Cardinality(Page(s)) = PerPage)
      BY <1>12
    <3>2. sync'[s].cut = w.cut /\ sync'[s].seen = sync[s].seen /\ sync'[s].from = sync[s].from
      BY <1>12, <1>13
    <3>3. QED
      BY <1>0, <2>2, <3>1, <3>2 DEF CutFurther
  <2>3. newest <= sync[s].from + 1
    BY <1>2, <1>9, <2>1, <2>a
  <2>4. PagesRead(s)
    BY <1>2, <2>a
  <2>5. \A v \in Before(s) \union Handled(s) : v \in Crowd(s)
    <3>1. SUFFICES ASSUME NEW v \in Before(s) \union Handled(s)
                   PROVE  v \in Crowd(s)
      OBVIOUS
    <3>2. v \in Issues(s)
      BY <1>3, <1>a
    <3>3. sync[s].newest \in Nat
      BY <1>1 DEF Syncs
    <3>4. edits[v].at <= newest
      <4>1. CASE v \in Handled(s)
        BY <1>16, <4>1
      <4>2. CASE v \in Before(s)
        <5>1. edits[v].at <= sync[s].newest
          BY <2>4, <4>2 DEF PagesRead
        <5>2. QED
          BY <1>9, <1>16, <1>g, <3>2, <3>3, <5>1
      <4>3. QED
        BY <4>1, <4>2
    <3>5. edits[v].at \in sync[s].from .. sync[s].from + 1
      BY <1>2, <1>9, <1>g, <2>3, <3>2, <3>4
    <3>6. QED
      BY <3>2, <3>5 DEF Crowd
  <2>6. IsFiniteSet(Crowd(s)) /\ Cardinality(Crowd(s)) \in Nat
    <3>1. Crowd(s) \in SUBSET Issues(s) /\ IsFiniteSet(Issues(s))
      BY <1>1, APage DEF Crowd
    <3>2. QED
      BY <3>1, FS_Subset, FS_CardinalityType
  <2>7. /\ Cardinality(Before(s) \union Page(s)) = (sync[s].page - 1) * PerPage + Cardinality(Page(s))
        /\ count = Cardinality({v \in Before(s) : IsIssue(v)} \union Found(s))
    BY <1>1, <1>5, <2>4, PagesSoFar
  <2>8. CASE count >= Limit
    <3>1. {v \in Before(s) : IsIssue(v)} \union Found(s) \in SUBSET Crowd(s)
      BY <2>5 DEF Found
    <3>2. count <= Cardinality(Crowd(s))
      BY <2>6, <2>7, <3>1, FS_Subset
    <3>3. QED
      BY <1>9, <1>d, <2>6, <2>8, <3>2
  <2>9. CASE count < Limit
    <3>1. Handled(s) = Page(s)
      BY <1>b, <2>9
    <3>2. ~(count >= Limit)
      BY <1>9, <1>d, <2>9
    <3>a. Cardinality(Page(s)) = PerPage
      BY <2>a, <3>2
    <3>b. last /\ ~(Cardinality(Page(s)) < PerPage)
      BY <1>d, <2>a, <3>a
    <3>3. Cardinality(Page(s)) = PerPage /\ sync[s].page = MaxPages
      BY <1>5, <3>2, <3>a, <3>b
    <3>4. Before(s) \union Page(s) \in SUBSET Crowd(s)
      BY <2>5, <3>1
    <3>5. Cardinality(Before(s) \union Page(s)) <= Cardinality(Crowd(s))
      BY <2>6, <3>4, FS_Subset
    <3>6. Cardinality(Before(s) \union Page(s)) = MaxPages * PerPage
      BY <1>d, <2>7, <3>3
    <3>7. MaxPages * PerPage = PerPage * MaxPages
      BY <1>d
    <3>8. PerPage * MaxPages \in Nat
      BY <1>d, <3>3, <3>7
    <3>9. QED
      BY <2>6, <3>5, <3>6, <3>7, <3>8
  <2>10. QED
    BY <1>9, <1>d, <2>8, <2>9
<1>26. Mirroring(s)'
  <2>1. SUFFICES ASSUME risks = {}, last, ~(count >= Limit), Cardinality(Page(s)) # PerPage,
                        sync[s].seen = Len(edits),
                        NEW v \in LiveIn(sync[s].target), Kept(v)
                 PROVE  \/ \E k \in DOMAIN rows : rows[k] = [space |-> sync[s].space, stamp |-> v, text |-> v]
                        \/ Snapshot(v, v) \in w.read
    BY <1>0, <1>12, <1>13, SameAccount DEF Mirroring, Taken, Snapshot
  <2>2. PagesRead(s) /\ Covers(sync[s].target, sync[s].from, {}) /\ sync[s].space = Usual(Spaces)
    BY <1>i, <1>0, <1>2, <2>1 DEF SyncGood, CoveredBy, InPlace
  <2>3. Handled(s) = Page(s)
    BY <1>9, <1>b, <1>d, <2>1
  <2>4. v \in DOMAIN edits /\ edits[v].at \in Nat
    <3>1. v \in DOMAIN edits
      BY <1>1, <2>1, CurrentVersions
    <3>2. QED
      BY <1>i, <3>1 DEF TimeGoesOn
  <2>5. CASE edits[v].at < sync[s].from
    <3>1. PICK k \in DOMAIN rows : rows[k].space = Usual(Spaces) /\ rows[k].stamp = v
      BY <1>1, <2>1, <2>2, <2>5 DEF Covers, Behind, Stored
    <3>2. rows[k] \in SnapshotRows /\ rows[k].text = rows[k].stamp
      BY <1>i, <1>1 DEF RowsSound, Sound
    <3>3. rows[k] = [space |-> sync[s].space, stamp |-> v, text |-> v]
      BY <2>2, <3>1, <3>2 DEF SnapshotRows
    <3>4. QED
      BY <3>3
  <2>6. CASE edits[v].at >= sync[s].from
    <3>1. v \in Issues(s) /\ IsIssue(v)
      BY <1>1, <2>1, <2>6 DEF Issues, Kept
    <3>2. v \in Before(s) \/ v \in Page(s)
      BY <1>a, <2>1, <3>1
    <3>3. CASE v \in Before(s)
      BY <1>12, <2>2, <3>1, <3>3 DEF PagesRead
    <3>4. CASE v \in Page(s)
      BY <1>c, <2>3, <3>1, <3>4 DEF Found
    <3>5. QED
      BY <3>2, <3>3, <3>4
  <2>7. QED
    BY <1>2, <2>4, <2>5, <2>6
<1>27. SyncGood(s)'
  BY <1>17, <1>18, <1>19, <1>20, <1>21, <1>23, <1>24, <1>25, <1>26 DEF SyncGood
<1>28. expired' \in Nat /\ status' \in {"CONNECTED", "ERROR"} /\ begun' \in 0 .. MaxSyncs
  BY <1>i, <1>0 DEF SyncShape
<1>29. QED
  BY <1>0, <1>8, <1>11, <1>27, <1>28, OneSyncMoves

-----------------------------------------------------------------------------
(* The invariant.                                                          *)

\* The invariant holds at the start.
LEMMA SyncStart == SyncInit => SyncIInv
<1>1. SUFFICES ASSUME SyncInit
               PROVE  SyncIInv
  OBVIOUS
<1>2. /\ provider \in Providers /\ risks \in Risks /\ edits = <<>> /\ rows = <<>>
      /\ cursor = [target |-> Usual(Targets), mark |-> 0]
      /\ sync = [s \in SyncThreads |-> NoSync]
  BY <1>1 DEF SyncInit
<1>3. edits \in Seq(Edits) /\ rows \in Seq(SnapshotRows) /\ DOMAIN edits = {} /\ DOMAIN rows = {}
      /\ Len(edits) = 0
  BY <1>2
<1>4. SyncShape
  BY <1>1, <1>2, <1>3, SyncConstants DEF SyncInit, SyncShape
<1>5. TimeGoesOn /\ RowsSound /\ LatestIsNewest
  BY <1>3 DEF TimeGoesOn, RowsSound, LatestIsNewest
<1>6. Past(cursor.mark) /\ CursorPlace
  BY <1>2, <1>3 DEF Past, CursorPlace
<1>7. SyncsAlone
  BY <1>2 DEF SyncsAlone, NoSync
<1>8. CursorCovered
  BY <1>2, <1>3, <1>5, NothingBehind DEF CursorCovered
<1>9. ASSUME NEW s \in SyncThreads
      PROVE  SyncGood(s)
  <2>1. sync[s] = NoSync
    BY <1>2
  <2>2. /\ sync[s].at = "idle" /\ sync[s].read = {} /\ sync[s].listed = {} /\ ~sync[s].cut
        /\ sync[s].from = 0 /\ sync[s].newest = 0 /\ sync[s].seen = 0
        /\ sync[s].space = Usual(Spaces) /\ sync[s].target = Usual(Targets)
    BY <2>1 DEF NoSync
  <2>3. InPlace(s) /\ MarksPast(s) /\ ReadsSound(s) /\ OncePerObject(s) /\ Fresh(s)
    BY <1>3, <2>2 DEF InPlace, MarksPast, ReadsSound, OncePerObject, Fresh, Past
  <2>4. Paging(s) /\ CoveredBy(s) /\ CutFurther(s) /\ Mirroring(s)
    BY <2>2 DEF Paging, CoveredBy, CutFurther, Mirroring
  <2>5. QED
    BY <2>3, <2>4 DEF SyncGood
<1>10. QED
  BY <1>4, <1>5, <1>6, <1>7, <1>8, <1>9 DEF SyncIInv

\* Every step keeps it.
LEMMA SyncStep == SyncIInv /\ [SyncNext]_syncVars => SyncIInv'
<1>1. SUFFICES ASSUME SyncIInv, [SyncNext]_syncVars
               PROVE  SyncIInv'
  OBVIOUS
<1>2. ASSUME NEW o \in Objects, NEW gone \in BOOLEAN, Edit(o, gone)
      PROVE  SyncIInv'
  BY <1>1, <1>2, EditStep
<1>3. CASE Expire \/ VerifyAgain \/ ProcessStops \/ UNCHANGED syncVars
  BY <1>1, <1>3, QuietStep
<1>4. ASSUME NEW s \in SyncThreads, NEW space \in Spaces, NEW target \in Targets,
             SyncConnection(s, space, target)
      PROVE  SyncIInv'
  BY <1>1, <1>4, SyncConnectionStep
<1>5. ASSUME NEW s \in SyncThreads,
             ListIssues(s) \/ ListEvents(s) \/ FullSyncRequired(s) \/ ListFolder(s) \/ SaveCursor(s)
      PROVE  SyncIInv'
  BY <1>1, <1>5, ListIssuesStep, ListEventsStep, FullSyncStep, ListFolderStep, SaveCursorStep
<1>6. ASSUME NEW s \in SyncThreads, NEW v \in sync[s].listed, ReadFileContent(s, v)
      PROVE  SyncIInv'
  BY <1>1, <1>6, ReadFileStep
<1>7. ASSUME NEW s \in SyncThreads, NEW r \in sync[s].read, StoreSnapshot(s, r)
      PROVE  SyncIInv'
  BY <1>1, <1>7, StoreStep
<1>8. ASSUME NEW s \in SyncThreads, RequestFails(s) \/ StoreFails(s) \/ SyncReturns(s)
      PROVE  SyncIInv'
  BY <1>1, <1>8, RequestEnds
<1>9. QED
  BY <1>1, <1>2, <1>3, <1>4, <1>5, <1>6, <1>7, <1>8 DEF SyncNext

\* It gives what the runs check.
LEMMA SyncIInvImplies == SyncIInv => SyncInv /\ MirrorAfterSync
<1>1. SUFFICES ASSUME SyncIInv
               PROVE  SyncInv /\ MirrorAfterSync
  OBVIOUS
<1>2. /\ SyncShape /\ TimeGoesOn /\ Past(cursor.mark) /\ RowsSound /\ LatestIsNewest
      /\ CursorPlace /\ CursorCovered
      /\ \A s \in SyncThreads : SyncGood(s)
      /\ edits \in Seq(Edits) /\ Len(edits) \in Nat /\ DOMAIN edits = 1 .. Len(edits)
  BY <1>1 DEF SyncIInv, SyncShape
<1>3. SyncTypeOK
  <2>1. \A v \in DOMAIN edits : edits[v].of \in Objects /\ edits[v].gone \in BOOLEAN
    <3>1. \A v \in DOMAIN edits : edits[v] \in Edits
      BY <1>2
    <3>2. QED
      BY <3>1 DEF Edits
  <2>2. cursor.target \in Targets /\ cursor.mark \in 0 .. 2 * MaxEdits + 2
    <3>1. cursor.target \in Targets /\ cursor.mark \in Nat /\ Len(edits) <= MaxEdits /\ MaxEdits \in Nat
      BY <1>2, SyncConstants DEF SyncShape
    <3>2. \A v \in DOMAIN edits : edits[v].at \in Nat /\ edits[v].at <= 2 * MaxEdits
      BY <1>2, <3>1 DEF TimeGoesOn
    <3>3. cursor.mark <= 2 * MaxEdits + 2
      BY <1>2, <3>1, <3>2 DEF Past
    <3>4. QED
      BY <3>1, <3>3
  <2>3. \A k \in DOMAIN rows : rows[k].space \in Spaces /\ {rows[k].stamp, rows[k].text} \subseteq DOMAIN edits
    <3>1. \A k \in DOMAIN rows : rows[k] \in SnapshotRows
      BY <1>2 DEF SyncShape
    <3>2. QED
      BY <1>2, <3>1 DEF SnapshotRows, RowsSound, Sound
  <2>4. \A s \in SyncThreads : sync[s].count <= Limit + PerPage /\ sync[s].page \in 1 .. MaxPages + 1
    <3>1. \A s \in SyncThreads : sync[s] \in Syncs
      BY <1>2 DEF SyncShape
    <3>2. QED
      BY <3>1, SyncConstants DEF Syncs
  <2>5. QED
    BY <1>2, <2>1, <2>2, <2>3, <2>4 DEF SyncShape, SyncTypeOK
<1>4. TextAsNewAsStamp
  BY <1>2 DEF TextAsNewAsStamp, RowsSound, Sound
<1>5. CursorCovers
  <2>1. SUFFICES ASSUME risks \subseteq {"overlap"}, NEW o \in Objects, Live(o),
                        \/ /\ provider = "GITHUB" /\ o \notin Pulls /\ o[1] = Usual(Targets)
                           /\ edits[Version(o)].at < cursor.mark
                        \/ provider = "GOOGLE_CALENDAR" /\ o[1] = cursor.target /\ Version(o) < cursor.mark
                 PROVE  \E k \in InSpace(Usual(Spaces), o) : rows[k].stamp = Version(o)
    BY DEF CursorCovers
  <2>2. Version(o) # 0 /\ edits[Version(o)].of = o
    BY <1>2, <2>1, VersionIsLast DEF Live
  <2>3. o[1] = cursor.target
    BY <1>2, <2>1 DEF CursorPlace
  <2>4. Version(o) \in LiveIn(cursor.target)
    BY <1>2, <2>1, <2>3, CurrentVersions
  <2>5. Kept(Version(o)) /\ Behind(Version(o), cursor.mark)
    BY <2>1, <2>2 DEF Kept, Behind, IsIssue
  <2>6. Stored(Version(o))
    BY <1>2, <2>1, <2>4, <2>5 DEF CursorCovered, Covers
  <2>7. QED
    BY <2>2, <2>6 DEF Stored, InSpace, Of
<1>6. CutAdvances
  BY <1>2 DEF CutAdvances, SyncGood, CutFurther, Crowd
<1>7. MirrorAfterSync
  <2>1. SUFFICES ASSUME risks = {}, NEW s \in SyncThreads, Complete(s), NEW o \in Objects, Live(o),
                        o[1] = sync[s].target, ~(provider = "GITHUB" /\ o \in Pulls)
                 PROVE  \E k \in InSpace(sync[s].space, o) :
                            rows[k].stamp = Version(o) /\ rows[k].text = Version(o)
    BY DEF MirrorAfterSync, Mirrors
  <2>2. Version(o) # 0 /\ edits[Version(o)].of = o
    BY <1>2, <2>1, VersionIsLast DEF Live
  <2>3. Version(o) \in LiveIn(sync[s].target) /\ Kept(Version(o))
    BY <1>2, <2>1, <2>2, CurrentVersions DEF Kept, IsIssue
  <2>4. Taken(s) /\ sync[s].read = {} /\ sync[s].listed = {}
    BY <1>2, <2>1 DEF SyncGood, Mirroring, Complete, InPlace
  <2>5. PICK k \in DOMAIN rows : rows[k] = [space |-> sync[s].space, stamp |-> Version(o), text |-> Version(o)]
    BY <2>3, <2>4 DEF Taken
  <2>6. QED
    BY <2>2, <2>5 DEF InSpace, Of
<1>8. QED
  BY <1>2, <1>3, <1>4, <1>5, <1>6, <1>7 DEF SyncInv

\* So it holds always.
LEMMA SyncInductive == SyncSpec => []SyncIInv
<1>1. QED
  BY SyncStart, SyncStep, PTL DEF SyncSpec

\* The records of external objects are in order: the rows of an object in the order of its
\* versions, no text older than its metadata, nothing the cursor passed over left out, and
\* a sync that a limit cut short further on than the one before it.
THEOREM SyncInvariance == SyncSpec => []SyncInv
<1>1. SyncIInv => SyncInv
  BY SyncIInvImplies
<1>2. QED
  BY <1>1, SyncInductive, PTL

\* A complete sync leaves its Space with the present version of every object of its target.
THEOREM SyncMirrors == SyncSpec => []MirrorAfterSync
<1>1. SyncIInv => MirrorAfterSync
  BY SyncIInvImplies
<1>2. QED
  BY <1>1, SyncInductive, PTL
=============================================================================

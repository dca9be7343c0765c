---------------------------- MODULE ProviderWrites ----------------------------
(***************************************************************************)
(* The write adapters of external providers (services/product/             *)
(* github_connector.py, google_mail_connector.py,                          *)
(* microsoft_todo_connector.py, local_markdown_connector.py): what an      *)
(* adapter says of a call and what the call did.                           *)
(*                                                                         *)
(* execute_request (module ConnectorExecution) takes the word of the       *)
(* adapter: ok, a failure that may be retried, one that may not, or an     *)
(* exception, after which somebody has to look.  It makes one call at a    *)
(* time.  The services may carry a request out and not say so; the         *)
(* Markdown file has an editor of its own, which writes what it has opened *)
(* and changed whatever happened to the file meanwhile.                    *)
(***************************************************************************)
EXTENDS Naturals, Sequences, Functions

CONSTANTS
    Executions,  \* idempotency keys of reviewed execution requests
    MaxTries,    \* bound: calls of the adapter
    MaxSaves,    \* bound: changes saved by the editor
    Dangers      \* the sets of things a behaviour may be exposed to

\* "window": the editor saves between the adapter's last look at the file and its
\* replacement; "mistake": a user declares an outcome not applied without looking.
ASSUME WritesAssumption ==
    /\ Dangers \subseteq SUBSET {"window", "mistake"}
    /\ {MaxTries, MaxSaves} \subseteq Nat

Adapters == {"GITHUB", "GOOGLE_MAIL", "MICROSOFT_GRAPH", "LOCAL_MARKDOWN"}

VARIABLES
    adapter,
    dangers,
    verdict,     \* of each request, what its last call came to
    attempt,     \* the call under way
    carried,     \* how often a service carried each request out
    file,        \* the Decision Log
    editor,      \* what the editor has opened: marks, and its own changes
    tries

writesVars == <<adapter, dangers, verdict, attempt, carried, file, editor, tries>>

\* marks: the execution markers in the text; notes: the editor's changes in it;
\* stat: a change of its size or time of modification.
EmptyFile == [there |-> FALSE, stat |-> 0, marks |-> <<>>, notes |-> 0]

\* before, text: the file as it was when looked at, and when read; reply: the
\* service's; did: this call has carried the request out.
NoAttempt == [at |-> "none", key |-> "", before |-> EmptyFile, text |-> EmptyFile,
              reply |-> "none", did |-> FALSE]

WritesInit ==
    /\ adapter \in Adapters /\ dangers \in Dangers
    /\ verdict = [k \in Executions |-> "none"] /\ carried = [k \in Executions |-> 0]
    /\ attempt = NoAttempt /\ tries = 0
    /\ file = EmptyFile /\ editor = [marks |-> <<>>, notes |-> 0]

In(where) == attempt.at = where /\ UNCHANGED <<adapter, dangers, tries>>
To(where) == attempt' = [attempt EXCEPT !.at = where]

\* The call is over; the boundary takes note of what it came to.
Comes(v) ==
    /\ verdict' = [verdict EXCEPT ![attempt.key] = v]
    /\ attempt' = NoAttempt

Marked(k, text) == \E i \in DOMAIN text.marks : text.marks[i] = k
Applied(k) == IF adapter = "LOCAL_MARKDOWN" THEN Marked(k, file) ELSE carried[k] > 0
-----------------------------------------------------------------------------
(* Around the adapter.                                                     *)

\* execute_request calls the adapter for a request that is pending or may be retried.
Execute(k) ==
    /\ attempt.at = "none" /\ verdict[k] \in {"none", "retry"} /\ tries < MaxTries
    /\ attempt' = [NoAttempt EXCEPT !.at = "checks", !.key = k]
    /\ verdict' = [verdict EXCEPT ![k] = "calling"] /\ tries' = tries + 1
    /\ UNCHANGED <<adapter, dangers, carried, file, editor>>

\* A user looks at the provider, or only thinks so, and settles an unknown outcome.
Reconcile(k) ==
    /\ attempt.at = "none" /\ verdict[k] = "unknown"
    /\ \E applied \in BOOLEAN :
          /\ "mistake" \in dangers \/ applied = Applied(k)
          /\ verdict' = [verdict EXCEPT ![k] = IF applied THEN "ok" ELSE "retry"]
    /\ UNCHANGED <<adapter, dangers, attempt, carried, file, editor, tries>>

\* The editor opens the file, or saves what it has opened with one more change.
EditorOpens ==
    /\ adapter = "LOCAL_MARKDOWN" /\ editor.marks # file.marks
    /\ editor' = [editor EXCEPT !.marks = file.marks]
    /\ UNCHANGED <<adapter, dangers, verdict, attempt, carried, file, tries>>

EditorSaves ==
    /\ adapter = "LOCAL_MARKDOWN" /\ editor.notes < MaxSaves
    /\ "window" \in dangers \/ attempt.at # "replace"
    /\ editor' = [editor EXCEPT !.notes = @ + 1]
    /\ file' = [there |-> TRUE, stat |-> file.stat + 1, marks |-> editor.marks, notes |-> editor.notes + 1]
    /\ UNCHANGED <<adapter, dangers, verdict, attempt, carried, tries>>

-----------------------------------------------------------------------------
(* The services.                                                           *)

\* The payload is refused, or a credential is missing and the adapter raises.
ChecksFail ==
    /\ In("checks")
    /\ \E v \in {"refused", "unknown"} : Comes(v)
    /\ UNCHANGED <<carried, file, editor>>

ChecksPass ==
    /\ In("checks")
    /\ To(CASE adapter = "MICROSOFT_GRAPH" -> "resolve"
            [] adapter = "LOCAL_MARKDOWN" -> "target"
            [] OTHER -> "post")
    /\ UNCHANGED <<verdict, carried, file, editor>>

\* created: the status and body of success; rejected: 4xx; busy: 408, 425 or 429;
\* broken: 5xx; moved: a redirect, never followed; lost: no answer; odd: another
\* status or body.
Replies == {"created", "rejected", "busy", "broken", "moved", "lost", "odd"}

\* To Do looks its list up before it writes, so that nothing is lost by a retry; what
\* it cannot make sense of (no such list, a body that is not JSON) it refuses.
ResolveVerdicts(reply) ==
    CASE reply \in {"busy", "broken", "lost"} -> {"retry"}
      [] reply = "odd" -> {"retry", "refused"}
      [] OTHER -> {"refused"}

ResolveList ==
    /\ In("resolve")
    /\ \/ To("post") /\ UNCHANGED verdict
       \/ \E reply \in Replies : \E v \in ResolveVerdicts(reply) : Comes(v)
    /\ UNCHANGED <<carried, file, editor>>

\* The service carries the request out or not; a success says it did, a rejection
\* that it did not, and anything else leaves it open.
Post ==
    /\ In("post")
    /\ \E did \in BOOLEAN, reply \in Replies :
          /\ reply = "created" => did
          /\ reply = "rejected" => ~did
          /\ carried' = IF did THEN [carried EXCEPT ![attempt.key] = @ + 1] ELSE carried
          /\ attempt' = [attempt EXCEPT !.at = "reply", !.reply = reply, !.did = did]
    /\ UNCHANGED <<verdict, file, editor>>

\* Mutant: a busy service is taken to have refused.
VerdictOnEager(reply) ==
    CASE reply = "created" -> "ok"
      [] reply \in {"rejected", "busy"} -> "refused"
      [] OTHER -> "unknown"

\* What the adapters make of the reply.
VerdictOn(reply) ==
    CASE reply = "created" -> "ok"
      [] reply = "rejected" -> "refused"
      [] OTHER -> "unknown"

Answered == In("reply") /\ Comes(VerdictOn(attempt.reply)) /\ UNCHANGED <<carried, file, editor>>

-----------------------------------------------------------------------------
(* The Markdown file.                                                      *)

\* A target that is not a file of the root, is a link or too large may be mended.
TargetRefused == In("target") /\ Comes("retry") /\ UNCHANGED <<carried, file, editor>>

StatFile ==
    /\ In("target")
    /\ attempt' = [attempt EXCEPT !.at = "read", !.before = file]
    /\ UNCHANGED <<verdict, carried, file, editor>>

\* What is not there when looked at is taken as empty.
ReadFile ==
    /\ In("read")
    /\ LET text == IF attempt.before.there THEN file ELSE EmptyFile IN
       IF Marked(attempt.key, text)
       THEN Comes("ok")
       ELSE attempt' = [attempt EXCEPT !.at = "compare", !.text = text] /\ UNCHANGED verdict
    /\ UNCHANGED <<carried, file, editor>>

Unchanged ==
    /\ file.there = attempt.before.there
    /\ file.there => file.stat = attempt.before.stat

\* The new text is in a file beside it; is the old one still what was looked at?
CompareFile ==
    /\ In("compare")
    /\ IF Unchanged THEN To("replace") /\ UNCHANGED verdict ELSE Comes("retry")
    /\ UNCHANGED <<carried, file, editor>>

Replaced ==
    [there |-> TRUE, stat |-> file.stat + 1,
     marks |-> Append(attempt.text.marks, attempt.key), notes |-> attempt.text.notes]

ReplaceFile ==
    /\ In("replace")
    /\ file' = Replaced /\ carried' = [carried EXCEPT ![attempt.key] = @ + 1]
    /\ attempt' = [attempt EXCEPT !.at = "confirm", !.did = TRUE]
    /\ UNCHANGED <<verdict, editor>>

\* The disk, or os.replace with or without having renamed, raises an exception.
WriteRaises ==
    /\ \E where \in {"target", "read", "compare", "replace", "confirm"} : In(where)
    /\ Comes("unknown")
    /\ \/ UNCHANGED <<file, carried>>
       \/ attempt.at = "replace" /\ file' = Replaced /\ carried' = [carried EXCEPT ![attempt.key] = @ + 1]
    /\ UNCHANGED editor

ConfirmFile ==
    /\ In("confirm")
    /\ Comes(IF Marked(attempt.key, file) THEN "ok" ELSE "unknown")
    /\ UNCHANGED <<carried, file, editor>>

WritesNext ==
    \/ \E k \in Executions : Execute(k) \/ Reconcile(k)
    \/ EditorOpens \/ EditorSaves
    \/ ChecksFail \/ ChecksPass \/ ResolveList \/ Post \/ Answered
    \/ TargetRefused \/ StatFile \/ ReadFile \/ CompareFile \/ ReplaceFile \/ WriteRaises \/ ConfirmFile

WritesSpec == WritesInit /\ [][WritesNext]_writesVars

-----------------------------------------------------------------------------
\* Every variable keeps its type, and only an adapter's own steps are taken.
WritesTypeOK ==
    /\ adapter \in Adapters /\ dangers \in Dangers /\ tries \in 0..MaxTries
    /\ verdict \in [Executions -> {"none", "calling", "ok", "refused", "retry", "unknown"}]
    /\ carried \in [Executions -> 0..MaxTries]
    /\ attempt.at \in {"none", "checks", "resolve", "post", "reply", "target", "read", "compare", "replace", "confirm"}
    /\ attempt.at # "none" => attempt.key \in Executions
    /\ file.there \in BOOLEAN /\ editor.notes \in 0..MaxSaves

\* The adapter's word is good: what it calls done was done once, what it calls
\* failed, whether to be retried or not, was never done.  With services only a user
\* who settled an unknown outcome without looking can make it untrue.
HonestVerdicts ==
    "mistake" \notin dangers => \A k \in Executions :
        /\ verdict[k] = "ok" => carried[k] >= 1
        /\ verdict[k] = "refused" /\ adapter # "LOCAL_MARKDOWN" => carried[k] = 0
        /\ verdict[k] = "retry" /\ adapter # "LOCAL_MARKDOWN" => carried[k] = 0
        /\ adapter # "LOCAL_MARKDOWN" => carried[k] <= 1

\* "Writes are marker-idempotent": no request is twice in the Decision Log, whatever
\* failed, was settled by mistake or was retried.
MarkedOnce == IsInjective(file.marks)

\* A change the editor has saved is still in the file, unless it was saved after the
\* adapter last looked at it.
EditorKept == "window" \notin dangers => file.notes = editor.notes

\* What the adapters say and what they write can be relied on.
ProviderInv == WritesTypeOK /\ HonestVerdicts /\ MarkedOnce /\ EditorKept
=============================================================================

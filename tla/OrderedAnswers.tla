--------------------------- MODULE OrderedAnswers ---------------------------
(***************************************************************************)
(* What the commit queue promises to a reader of a session: a list of      *)
(* answers to which only a question submitted later than every answer      *)
(* already delivered can add.  No locks, buffers, workers or resets.       *)
(***************************************************************************)
EXTENDS Integers, Sequences

CONSTANTS
    Limit,         \* bound: questions submitted
    Cap            \* length the list is cut to

VARIABLES
    submitted,     \* how many questions were submitted
    eligible,      \* questions whose answer may still be delivered
    answers        \* the answers a reader sees

vars == <<submitted, eligible, answers>>

Init ==
    /\ submitted = 0
    /\ eligible = {}
    /\ answers = <<>>

Submit ==
    /\ submitted < Limit
    /\ submitted' = submitted + 1
    /\ eligible' = eligible \union {submitted}
    /\ UNCHANGED answers

\* Delivering the answer to q gives up every earlier question.
Newest(q) == IF Len(q) > Cap THEN SubSeq(q, Len(q) - Cap + 1, Len(q)) ELSE q

Deliver(q) ==
    /\ q \in eligible
    /\ answers' = Newest(Append(answers, q))
    /\ eligible' = {p \in eligible : p > q}
    /\ UNCHANGED submitted

\* Questions are given up: skipped, failed, or cancelled by a reset.
GiveUp ==
    /\ eligible' \in SUBSET eligible
    /\ UNCHANGED <<submitted, answers>>

\* The newest answer is taken back when its commit fails.
TakeBack ==
    /\ answers # <<>>
    /\ answers' = SubSeq(answers, 1, Len(answers) - 1)
    /\ UNCHANGED <<submitted, eligible>>

Clear ==
    /\ answers' = <<>>
    /\ UNCHANGED <<submitted, eligible>>

Next ==
    \/ Submit
    \/ \E q \in eligible : Deliver(q)
    \/ GiveUp
    \/ TakeBack
    \/ Clear

Spec == Init /\ [][Next]_vars
=============================================================================

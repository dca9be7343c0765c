----------------------------- MODULE AsrQuestions -----------------------------
(***************************************************************************)
(* api/assist/asr_state.py: how transcribed speech becomes questions.      *)
(* Fragments are merged into an utterance, utterances grouped into a       *)
(* question turn, a turn submitted; a provisional cue, shown before the    *)
(* question is certain, is confirmed on the same card or retracted.  Every *)
(* method runs under _asr_state_lock, called by the recogniser, by the     *)
(* capture worker (partials), by the flush thread and by the API.          *)
(*                                                                         *)
(* What the classifiers and the clock say is a choice: the kind of an      *)
(* utterance, whether a window has passed, whether a group is a question.  *)
(* Automatic answers are on and the merge gap is positive.                 *)
(***************************************************************************)
EXTENDS Naturals, Sequences

CONSTANTS
    Fragments,   \* pieces of transcribed speech
    MaxCues,     \* bound: provisional cues shown
    MaxStarts    \* bound: recordings started

ASSUME QuestionAssumption == MaxCues \in Nat /\ MaxStarts \in Nat

VARIABLES
    on,          \* the capture worker runs, and the flush thread with it
    starts,
    unheard,     \* fragments not transcribed yet
    parts,       \* merge_parts
    group,       \* pending_group's utterances, as the fragments in them
    cue,         \* provisional: the cue waiting for its question, or 0
    cues,        \* cues shown so far
    ended,       \* history: the cues confirmed or retracted, in order
    turns,       \* history: what was said in each turn submitted
    gone         \* history: fragments ignored, discarded or added to a question

questionVars == <<on, starts, unheard, parts, group, cue, cues, ended, turns, gone>>

QuestionInit ==
    /\ on = FALSE /\ starts = 0
    /\ unheard = Fragments /\ parts = {} /\ group = {} /\ gone = {}
    /\ cue = 0 /\ cues = 0 /\ ended = <<>> /\ turns = <<>>

\* What the methods change, handled as one value.
Now == [parts |-> parts, group |-> group, cue |-> cue, cues |-> cues, ended |-> ended,
        turns |-> turns, gone |-> gone]

Become(s) ==
    /\ parts' = s.parts /\ group' = s.group /\ gone' = s.gone
    /\ cue' = s.cue /\ cues' = s.cues /\ ended' = s.ended /\ turns' = s.turns

\* kind: what the classifier makes of an utterance; late: a pending question
\* takes it as its tail; due: the window in question has passed; viable: the
\* group is a question; early: the text already reads as a whole question.
UtteranceKinds == {"empty", "ignore", "tail", "question"}
Verdicts == [kind : UtteranceKinds, late : BOOLEAN, due : BOOLEAN, viable : BOOLEAN, early : BOOLEAN]
-----------------------------------------------------------------------------
\* submit_provisional: one cue at a time.
SubmitProvisional(s) ==
    IF s.cue # 0 \/ s.cues = MaxCues THEN s
    ELSE [s EXCEPT !.cue = s.cues + 1, !.cues = @ + 1]

\* retract_provisional, and the confirmation of the cue on its question's card.
EndCue(s) ==
    IF s.cue = 0 THEN s ELSE [s EXCEPT !.cue = 0, !.ended = Append(@, s.cue)]

\* flush_question_group_now.
FlushGroup(s, v) ==
    IF s.group = {} THEN s
    ELSE LET t == EndCue([s EXCEPT !.group = {}]) IN
         IF v.viable THEN [t EXCEPT !.turns = Append(@, s.group)]
         ELSE [t EXCEPT !.gone = @ \union s.group]

\* Mutant: a cue without a group does not expire.
TryFlushGroupOnly(s, v) == IF v.due THEN FlushGroup(s, v) ELSE s

\* try_flush_question_group; without a group, expire_provisional.
TryFlushGroup(s, v) ==
    IF ~v.due THEN s
    ELSE IF s.group # {} THEN FlushGroup(s, v)
    ELSE IF s.parts = {} THEN EndCue(s) ELSE s

\* handle_auto_detect_asr_text of an utterance of the fragments said.
HandleText(s, said, v) ==
    LET flushed == TryFlushGroup(s, v)
        ignored(t) == [t EXCEPT !.gone = @ \union said]
        grown(t) == [t EXCEPT !.group = @ \union said] IN
    CASE v.kind = "empty" -> ignored(s)
      [] v.kind = "tail" /\ s.group = {} /\ v.late -> ignored(s)
      [] v.kind = "tail" /\ s.group # {} -> grown(s)
      [] v.kind = "ignore" /\ flushed.group = {} -> ignored(flushed)
      [] OTHER -> grown(flushed)

\* Mutant: the parts merged are kept.
FlushMergeKeeps(s, v) ==
    IF s.parts = {} THEN s ELSE HandleText(s, s.parts, v)

\* flush_merge_buffer_now.
FlushMerge(s, v) ==
    IF s.parts = {} THEN s ELSE HandleText([s EXCEPT !.parts = {}], s.parts, v)
-----------------------------------------------------------------------------
\* The capture worker forgets what the last recording left, except its cue.
StartRecording ==
    /\ ~on /\ starts < MaxStarts
    /\ on' = TRUE /\ starts' = starts + 1
    /\ Become([Now EXCEPT !.parts = {}, !.group = {}, !.gone = @ \union parts \union group])
    /\ UNCHANGED unheard

\* A partial that reads as a question.
Partial ==
    /\ on /\ Become(SubmitProvisional(Now))
    /\ UNCHANGED <<on, starts, unheard>>

\* append_transcription_fragment.
Fragment(f, v, w) ==
    /\ on /\ f \in unheard
    /\ unheard' = unheard \ {f}
    /\ LET s == IF v.early THEN SubmitProvisional(Now) ELSE Now
           t == [s EXCEPT !.parts = @ \union {f}] IN
          Become(IF w THEN FlushMerge(t, v) ELSE t)
    /\ UNCHANGED <<on, starts>>

\* The flush thread: the merge buffer if its gap has passed, then the group.
FlushRound(v, w) ==
    /\ on
    /\ Become(TryFlushGroup(IF w THEN FlushMerge(Now, v) ELSE Now, v))
    /\ UNCHANGED <<on, starts, unheard>>

\* flush_pending_question_group and discard_pending_question_group.
FlushPending(v) ==
    /\ group # {} /\ Become(FlushGroup(Now, v))
    /\ UNCHANGED <<on, starts, unheard>>

DiscardPending ==
    /\ group # {} /\ Become([Now EXCEPT !.group = {}, !.gone = @ \union group])
    /\ UNCHANGED <<on, starts, unheard>>

\* The end of stop_interview_loop forces both windows.
StopRecording(v) ==
    /\ on /\ on' = FALSE
    /\ LET s == FlushMerge(Now, v) IN
          Become(IF s.group # {} THEN FlushGroup(s, v) ELSE TryFlushGroup(s, v))
    /\ UNCHANGED <<starts, unheard>>
-----------------------------------------------------------------------------
QuestionNext ==
    \/ StartRecording \/ Partial \/ DiscardPending
    \/ \E v \in Verdicts :
          \/ FlushPending(v) \/ StopRecording(v)
          \/ \E w \in BOOLEAN : FlushRound(v, w) \/ \E f \in Fragments : Fragment(f, v, w)

\* While a recording runs its flush thread ticks, and once nothing is said any more
\* the windows pass.
TickDue == \E v \in Verdicts : v.due /\ FlushRound(v, TRUE)

QuestionFairness == WF_questionVars(TickDue)

QuestionSpec == QuestionInit /\ [][QuestionNext]_questionVars /\ QuestionFairness
-----------------------------------------------------------------------------
\* The variables keep their types.
QuestionTypeOK ==
    /\ on \in BOOLEAN /\ starts \in 0..MaxStarts
    /\ {unheard, parts, group, gone} \subseteq SUBSET Fragments
    /\ cue \in 0..MaxCues /\ cues \in 0..MaxCues
    /\ ended \in Seq(1..MaxCues) /\ turns \in Seq(SUBSET Fragments)

Said == UNION {turns[i] : i \in 1..Len(turns)}

\* Where a fragment can be.
Whereabouts == <<unheard, parts, group, gone, Said>>

\* Nothing said is answered twice or lost without a trace: each fragment is unheard,
\* merging, grouped, gone, or in exactly one turn.
AnsweredOnce ==
    /\ \A i, j \in 1..Len(turns) : i # j => turns[i] \intersect turns[j] = {}
    /\ unheard \union parts \union group \union gone \union Said = Fragments
    /\ \A i, j \in 1..Len(Whereabouts) : i # j => Whereabouts[i] \intersect Whereabouts[j] = {}

\* A provisional card is settled exactly once: every cue shown before the one that
\* waits was confirmed or retracted, in order, and the one that waits was not,
\* whatever was discarded, restarted or flushed meanwhile.
CueSettledOnce ==
    ended = [i \in 1..(IF cue = 0 THEN cues ELSE cues - 1) |-> i]

\* Every fragment and every card is accounted for.
QuestionInv == QuestionTypeOK /\ AnsweredOnce /\ CueSettledOnce

\* No provisional card stays for ever while the recording runs.
CuesSettle == []<>(cue = 0 \/ ~on)
=============================================================================

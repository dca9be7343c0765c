-------------------------- MODULE MCAnswerPipeline --------------------------
(* Model-checking instances of AnswerPipeline: the ASR thread and one      *)
(* thread that stands for request, timer and worker threads run dispatch   *)
(* loops.  Pipeline.cfg has faults and no cancellation, PipelineLive.cfg a *)
(* cancellation and no fault.                                              *)
EXTENDS AnswerPipeline

NoneWaits == \A i \in DOMAIN pending : ~pending[i].wait
NoImages == \A i \in DOMAIN pending : ~pending[i].image

\* Bound: one call of _try_dispatch waits at a time, and a worker dies in one
\* turn, or health changes in one turn of two questions or in two turns, of
\* which the second has one question, no grace and no screenshot beside it.
Scope ==
    /\ calls <= 1
    /\ lost # {} => flips = 0 /\ turns <= 1
    /\ turns > 1 => disp[AsrThread].left <= 1 /\ NoneWaits /\ NoImages
=============================================================================

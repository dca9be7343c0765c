------------------------------ MODULE MCServices ------------------------------
(***************************************************************************)
(* Small instances of the components that share nothing, side by side: a   *)
(* behaviour belongs to one of them, its part, and the others stand still. *)
(***************************************************************************)
EXTENDS LiveCapture, LeaderElection, ResourceLane, BackgroundWorker, InterviewState,
        AsrQuestions, LiveView, ConversationRecords

\* A caller of add_item names any state, review and item replaced: the plain candidates,
\* one of a source, and each way to add what a review would otherwise have made.
Row(kind, now, review, old) ==
    [kind |-> kind, from |-> Typed, state |-> now, review |-> review, old |-> old]

GivenRows ==
    {Row(kind, "PROPOSED", "AI_EXTRACTED", 0) : kind \in Kinds}
    \union {Row("question", "PROPOSED", "SOURCE_CONFIRMED", 0),
            Row("decision", "AGREED", "USER_CONFIRMED", 1),
            Row("decision", "SUPERSEDED", "USER_CONFIRMED", 0),
            Row("task", "COMMITTED", "USER_EDITED", 0),
            Row("task", "DONE", "AI_EXTRACTED", 0)}

VARIABLE part

Parts == {"capture", "election", "lane", "worker", "state", "questions", "view", "records"}

servicesVars == <<part, captureVars, electionVars, laneVars, workerVars, stateVars,
                  questionVars, viewVars, recordsVars>>

ServicesInit ==
    /\ part \in Parts
    /\ CaptureInit /\ ElectionInit /\ LaneInit /\ WorkerInit /\ StateInit
    /\ QuestionInit /\ ViewInit /\ RecordsInit
    /\ part # "state" => mode = {}
    /\ part # "records" => exposed = {}

Others(p) ==
    /\ part = p /\ UNCHANGED part
    /\ IF p = "capture" THEN TRUE ELSE UNCHANGED captureVars
    /\ IF p = "election" THEN TRUE ELSE UNCHANGED electionVars
    /\ IF p = "lane" THEN TRUE ELSE UNCHANGED laneVars
    /\ IF p = "worker" THEN TRUE ELSE UNCHANGED workerVars
    /\ IF p = "state" THEN TRUE ELSE UNCHANGED stateVars
    /\ IF p = "questions" THEN TRUE ELSE UNCHANGED questionVars
    /\ IF p = "view" THEN TRUE ELSE UNCHANGED viewVars
    /\ IF p = "records" THEN TRUE ELSE UNCHANGED recordsVars

ServicesNext ==
    \/ Others("capture") /\ CaptureNext
    \/ Others("election") /\ ElectionNext
    \/ Others("lane") /\ LaneNext
    \/ Others("worker") /\ WorkerNext
    \/ Others("state") /\ StateNext
    \/ Others("questions") /\ QuestionNext
    \/ Others("view") /\ ViewNext
    \/ Others("records") /\ RecordsNext

\* The fairness of each component, in the behaviours that belong to it.
ServicesFairness ==
    /\ \A c \in Callers : WF_captureVars(part = "capture" /\ Continue(c))
    /\ \A w \in Workers : /\ WF_captureVars(part = "capture" /\ Work(w))
                          /\ WF_captureVars(part = "capture" /\ Recognise(w))
    /\ \A t \in Publishers : WF_captureVars(part = "capture" /\ Publish(t))
    /\ \A t \in Tabs : /\ WF_electionVars(part = "election" /\ Promote(t))
                       /\ WF_electionVars(part = "election" /\ TimerTick(t))
    /\ \A t, from \in Tabs : WF_electionVars(part = "election" /\ Deliver(t, from))
    /\ WF_electionVars(part = "election" /\ NextRound)
    /\ \A j \in Jobs : WF_workerVars(part = "worker" /\ Put(j))
    /\ \A k \in Stops : WF_workerVars(part = "worker" /\ stop[k] # "new" /\ Stopping(k))
    /\ \A w \in Threads : WF_workerVars(part = "worker" /\ TakeJob(w))
    /\ WF_questionVars(part = "questions" /\ TickDue)
    /\ WF_viewVars(part = "view" /\ Dispatch) /\ WF_viewVars(part = "view" /\ TellCleared)
    /\ \A c \in Clients : /\ WF_viewVars(part = "view" /\ Connect(c))
                          /\ WF_viewVars(part = "view" /\ HandleMessage(c))

ServicesSpec == ServicesInit /\ [][ServicesNext]_servicesVars /\ ServicesFairness
=============================================================================

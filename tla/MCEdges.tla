------------------------------- MODULE MCEdges -------------------------------
(***************************************************************************)
(* Small instances of the three components at the edge of the program,     *)
(* side by side: what is recorded from the room, what is read from an      *)
(* external account and what is written to one.  A behaviour belongs to    *)
(* one of them and the others stand still.                                 *)
(***************************************************************************)
EXTENDS LiveCapture, MCConnectorSync, ProviderWrites, TLC

VARIABLE edge

EdgesSymmetry == Permutations(Callers) \union Permutations(SyncThreads)

\* Bounds: two edits of an account whose syncs overlap or serve several places, and of
\* a calendar, whose list of changes expires; three, above the limit of a sync, of others.
SyncScope == Len(edits) > 2 => provider # "GOOGLE_CALENDAR" /\ risks \subseteq {"shift"}

\* One segment of speech where requests overlap or joins give up: what is claimed
\* there is about the device and the locks.
CaptureScope ==
    hazards \intersect {"overlap", "timeout"} # {} => \A s \in Segs \ {1} : own[s] = "none"

edgesVars == <<edge, captureVars, syncVars, writesVars>>

\* The parts a component that stands still chooses at the start.
Still ==
    /\ edge # "capture" => hazards = CHOOSE h \in Hazards : TRUE
    /\ edge # "sync" => provider = "GITHUB" /\ risks = CHOOSE r \in Risks : TRUE
    /\ "shift" \in risks => provider = "GITHUB"
    /\ edge # "write" => adapter = "GITHUB" /\ dangers = CHOOSE d \in Dangers : TRUE

EdgesInit ==
    /\ edge \in {"capture", "sync", "write"}
    /\ CaptureInit /\ SyncInit /\ WritesInit /\ Still

EdgesNext ==
    /\ UNCHANGED edge
    /\ \/ edge = "capture" /\ CaptureNext /\ CaptureScope' /\ UNCHANGED <<syncVars, writesVars>>
       \/ edge = "sync" /\ SyncNext /\ SyncScope' /\ UNCHANGED <<captureVars, writesVars>>
       \/ edge = "write" /\ WritesNext /\ UNCHANGED <<captureVars, syncVars>>

EdgesSpec == EdgesInit /\ [][EdgesNext]_edgesVars
=============================================================================

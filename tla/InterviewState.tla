---------------------------- MODULE InterviewState ----------------------------
(***************************************************************************)
(* services/intelligence/interview_state.py: the state of one interview,   *)
(* folded from events by the answer workers (realtime_bridge.py), with     *)
(* every version mirrored to disk, and reset or restored, whenever they    *)
(* are asked to, by the routes of api/intelligence/router.py.  apply_event *)
(* reads the state in one critical section, folds it in another and        *)
(* persists it after both; a restore reads a row and then puts it back.    *)
(*                                                                         *)
(* What an event does to topics, claims and threads is abstracted to the   *)
(* sequence of the events folded in.                                       *)
(***************************************************************************)
EXTENDS Naturals, Sequences, FiniteSets

CONSTANTS
    Events,     \* the events applied, each by a thread of its own
    Modes,      \* the sets of things a behaviour may be exposed to
    MaxAgain    \* bound: resets and crashes

\* "overlap": events are applied concurrently; "reset": the topic is reset;
\* "fail": a snapshot is not written.
ASSUME StateAssumption ==
    /\ IsFiniteSet(Events)
    /\ Modes \subseteq SUBSET {"overlap", "reset", "fail"} /\ MaxAgain \in Nat

VARIABLES
    mode,
    live,       \* whether _STATES has the session
    state,      \* _STATES[session]: version and the events folded in
    disk,       \* interview_state_snapshot, the latest row of each version
    found,      \* the row that a restore has read and will put back, if any
    at,         \* where each apply_event is
    held,       \* what it has read, then what it will persist
    committed,  \* history: the events of the interview that goes on, in commit order
    durable,    \* history: those of the last version of it that was persisted
    again

stateVars == <<mode, live, state, disk, found, at, held, committed, durable, again>>

Fresh == [version |-> 0, folded |-> <<>>]

StateInit ==
    /\ mode \in Modes
    /\ live = FALSE /\ state = Fresh /\ disk = {} /\ found = {}
    /\ at = [e \in Events |-> "new"]
    /\ held = [e \in Events |-> Fresh]
    /\ committed = <<>> /\ durable = <<>> /\ again = 0

Fold(s, e) == [version |-> s.version + 1, folded |-> Append(s.folded, e)]

Busy == {e \in Events : at[e] \in {"read", "persist"}}
NoneInHand == Busy = {} /\ found = {}
MayBegin == "overlap" \in mode \/ NoneInHand

\* get_state begins an interview when the process knows none.
BeginIfNone == live' = TRUE /\ committed' = IF live THEN committed ELSE <<>>
-----------------------------------------------------------------------------
\* get_state: the lock is released with the state in hand.
ReadState(e) ==
    /\ at[e] = "new" /\ MayBegin /\ BeginIfNone
    /\ at' = [at EXCEPT ![e] = "read"]
    /\ held' = [held EXCEPT ![e] = state]
    /\ UNCHANGED <<mode, state, disk, found, durable, again>>

\* apply_event's second critical section folds what was read, whatever is there now.
ApplyEvent(e) ==
    /\ at[e] = "read"
    /\ at' = [at EXCEPT ![e] = "persist"]
    /\ held' = [held EXCEPT ![e] = Fold(@, e)]
    /\ state' = held'[e]
    /\ committed' = Append(committed, e)
    /\ UNCHANGED <<mode, live, disk, found, durable, again>>

\* INSERT OR REPLACE, keyed by the version; a failure is logged.
PersistSnapshot(e) ==
    /\ at[e] = "persist"
    /\ at' = [at EXCEPT ![e] = "done"]
    /\ \/ /\ disk' = {row \in disk : row.version # held[e].version} \union {held[e]}
          /\ durable' = committed
       \/ "fail" \in mode /\ UNCHANGED <<disk, durable>>
    /\ UNCHANGED <<mode, live, state, found, held, committed, again>>
-----------------------------------------------------------------------------
Again == again < MaxAgain /\ again' = again + 1

\* The rows of before stay.
ResetState ==
    /\ "reset" \in mode /\ MayBegin /\ Again
    /\ live' = TRUE /\ state' = Fresh
    /\ committed' = <<>> /\ durable' = <<>>
    /\ UNCHANGED <<mode, disk, found, at, held>>

\* The process ends: what was being applied is gone, and only rows remain.
Crash ==
    /\ Again
    /\ live' = FALSE /\ state' = Fresh /\ found' = {}
    /\ at' = [e \in Events |-> IF e \in Busy THEN "done" ELSE at[e]]
    /\ committed' = durable
    /\ UNCHANGED <<mode, disk, held, durable>>

\* Mutant: the rows are ordered the other way.
Oldest(row) == row \in disk /\ \A other \in disk : other.version >= row.version

\* latest_state_snapshot orders by version.
Latest(row) == row \in disk /\ \A other \in disk : other.version <= row.version

\* restore_from_snapshot, at any time: with no row it is get_state ...
FindSnapshot ==
    /\ MayBegin /\ found = {}
    /\ \/ \E row \in disk : Latest(row) /\ found' = {row} /\ UNCHANGED <<live, committed>>
       \/ disk = {} /\ BeginIfNone /\ UNCHANGED found
    /\ UNCHANGED <<mode, state, disk, at, held, durable, again>>

\* ... and the row replaces whatever state there is: its interview goes on.
RestoreFromSnapshot ==
    /\ \E row \in found : state' = row /\ committed' = row.folded /\ durable' = row.folded
    /\ live' = TRUE /\ found' = {}
    /\ UNCHANGED <<mode, disk, at, held, again>>
-----------------------------------------------------------------------------
StateNext ==
    \/ \E e \in Events : ReadState(e) \/ ApplyEvent(e) \/ PersistSnapshot(e)
    \/ ResetState \/ Crash \/ FindSnapshot \/ RestoreFromSnapshot

StateSpec == StateInit /\ [][StateNext]_stateVars
-----------------------------------------------------------------------------
States == [version : 0..Cardinality(Events), folded : Seq(Events)]

\* The variables keep their types.
StateTypeOK ==
    /\ mode \in Modes /\ live \in BOOLEAN /\ again \in 0..MaxAgain
    /\ state \in States /\ disk \subseteq States /\ found \subseteq States
    /\ at \in [Events -> {"new", "read", "persist", "done"}]
    /\ held \in [Events -> States]
    /\ committed \in Seq(Events) /\ durable \in Seq(Events)

Serial == "overlap" \notin mode

\* "The state is the fold of InterviewEvents": it holds, in commit order, every event
\* committed since the interview began, was reset or was restored.
StateIsFold == live => state.folded = committed

\* Rows of an interview that was reset, or that no restore took up after a crash, are
\* of higher versions than what was persisted since.
OlderRowsAhead == \E row \in disk : row.version > Len(durable)

\* "Crash recovery and session switching can restore exactly where the interview was":
\* what a restore would put back is the interview as it was last persisted.
RestoresExactly == \A row \in disk : Latest(row) => row.folded = durable

\* That holds until a reset, or an event applied after a crash without a restore,
\* leaves older rows ahead; and while no write fails, all was persisted.
Recoverable ==
    /\ ~OlderRowsAhead => RestoresExactly
    /\ live /\ NoneInHand /\ "fail" \notin mode => durable = committed

\* Well-typed; and while events, resets and restores come one at a time, the state is
\* their fold and can be recovered.
StateInv == StateTypeOK /\ (Serial => StateIsFold /\ Recoverable)
=============================================================================

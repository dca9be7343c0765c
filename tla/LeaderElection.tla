--------------------------- MODULE LeaderElection ---------------------------
(***************************************************************************)
(* The election of frontend/src/lib/wsLeader.ts: of all the tabs of the    *)
(* web client, the one that leads holds the WebSocket (useInterviewWS      *)
(* connects and tears down as its role changes).  Tabs talk through a      *)
(* BroadcastChannel, first in first out between any two of them.           *)
(*                                                                         *)
(* currentlyLeader is always leaderId = TAB_ID, so leader says both.  The  *)
(* two-second timers are rounds: every tab ticks once in a round, and a    *)
(* message sent in a round is delivered before the next one begins.  Time  *)
(* since leaderSeenAt is counted in a tab's own ticks.  A standalone       *)
(* overlay window takes no part.                                           *)
(***************************************************************************)
EXTENDS Integers, Sequences

CONSTANTS
    Tabs,       \* the tabs, named by their ids, which are compared
    MaxActs     \* bound: tabs opened, closed, killed or taking over

ASSUME ElectionAssumption == Tabs \subseteq Nat /\ MaxActs \in Nat

VARIABLES
    up,         \* the tabs whose channel is open
    leader,     \* leaderId of each tab
    age,        \* ticks since the tab's leaderSeenAt
    promoting,  \* tabs whose takeover waits for its microtask
    mail,       \* messages under way between two tabs
    ticked,     \* tabs whose timer fired in this round
    acts

electionVars == <<up, leader, age, promoting, mail, ticked, acts>>

ElectionInit ==
    /\ up = {} /\ promoting = {} /\ ticked = {} /\ acts = 0
    /\ leader = [t \in Tabs |-> t]
    /\ age = [t \in Tabs |-> 0]
    /\ mail = [p \in Tabs \X Tabs |-> <<>>]

Leads(t) == leader[t] = t

\* box with message m of t posted to every other open tab.
Posted(t, m, box) ==
    [p \in Tabs \X Tabs |-> IF p[1] = t /\ p[2] \in up \ {t} THEN Append(box[p], m) ELSE box[p]]

SetLeader(t, id) ==
    /\ leader' = [leader EXCEPT ![t] = id]
    /\ age' = [age EXCEPT ![t] = 0]

User == acts < MaxActs /\ acts' = acts + 1
-----------------------------------------------------------------------------
\* init: the tab announces itself and takes itself for the leader.
OpenTab(t) ==
    /\ User /\ t \notin up
    /\ up' = up \union {t}
    /\ SetLeader(t, t)
    /\ mail' = Posted(t, "announce", mail)
    /\ UNCHANGED <<promoting, ticked>>

\* Nothing reaches a tab whose channel is closed.
Gone(t, box) == [p \in Tabs \X Tabs |-> IF p[2] = t THEN <<>> ELSE box[p]]

Leave(t, box) ==
    /\ User /\ t \in up \ promoting
    /\ up' = up \ {t} /\ ticked' = ticked \ {t}
    /\ mail' = Gone(t, box)
    /\ UNCHANGED <<leader, age, promoting>>

\* beforeunload and shutdownLeader say that the tab leaves; a killed tab does not.
Close(t) == Leave(t, Posted(t, "leaving", mail))
Kill(t) == Leave(t, mail)

\* The microtask runs before anything else the tab does.
RequestTakeover(t) ==
    /\ User /\ t \in up \ promoting /\ ~Leads(t)
    /\ mail' = Posted(t, "takeover", mail)
    /\ promoting' = promoting \union {t}
    /\ UNCHANGED <<up, leader, age, ticked>>

\* Mutant: the promotion is not announced.
PromoteSilently(t) ==
    /\ t \in promoting
    /\ promoting' = promoting \ {t}
    /\ SetLeader(t, t)
    /\ UNCHANGED <<up, mail, ticked, acts>>

Promote(t) ==
    /\ t \in promoting
    /\ promoting' = promoting \ {t}
    /\ SetLeader(t, t)
    /\ mail' = Posted(t, "announce", mail)
    /\ UNCHANGED <<up, ticked, acts>>
-----------------------------------------------------------------------------
(* channel.onmessage.                                                      *)

\* t takes from's next message, m; what it answers goes to every tab.
Receive(t, from, m) ==
    /\ t \in up \ promoting /\ mail[<<from, t>>] # <<>> /\ Head(mail[<<from, t>>]) = m
    /\ UNCHANGED <<up, promoting, ticked, acts>>

Taken(t, from) == [mail EXCEPT ![<<from, t>>] = Tail(@)]

\* Mutant: only a smaller id is heard, a follower forgets its leader.
FollowSmaller(t, from) == from < leader[t]

Follow(t, from) == from < leader[t] \/ (~Leads(t) /\ from = leader[t])

\* A leader answers an announcement it does not yield to.
Announced(t, from) ==
    /\ Receive(t, from, "announce")
    /\ IF Follow(t, from)
       THEN SetLeader(t, from) /\ mail' = Taken(t, from)
       ELSE /\ UNCHANGED <<leader, age>>
            /\ mail' = IF Leads(t) THEN Posted(t, "heartbeat", Taken(t, from)) ELSE Taken(t, from)

Heartbeat(t, from) ==
    /\ Receive(t, from, "heartbeat")
    /\ mail' = Taken(t, from)
    /\ IF Follow(t, from) THEN SetLeader(t, from) ELSE UNCHANGED <<leader, age>>

Leaving(t, from) ==
    /\ Receive(t, from, "leaving")
    /\ IF ~Leads(t) /\ leader[t] = from
       THEN SetLeader(t, t) /\ mail' = Posted(t, "announce", Taken(t, from))
       ELSE UNCHANGED <<leader, age>> /\ mail' = Taken(t, from)

TakenOver(t, from) ==
    /\ Receive(t, from, "takeover")
    /\ SetLeader(t, from)
    /\ mail' = Taken(t, from)
-----------------------------------------------------------------------------
(* tick: more than five seconds of silence are two or three ticks.         *)

Ticks(t) ==
    /\ t \in up \ (ticked \union promoting)
    /\ ticked' = ticked \union {t}
    /\ UNCHANGED <<up, promoting, acts>>

LeaderTick(t) ==
    /\ Ticks(t) /\ Leads(t)
    /\ mail' = Posted(t, "heartbeat", mail)
    /\ UNCHANGED <<leader, age>>

FollowerTick(t) ==
    /\ Ticks(t) /\ ~Leads(t) /\ age[t] < 3
    /\ age' = [age EXCEPT ![t] = @ + 1]
    /\ UNCHANGED <<leader, mail>>

LeaderSilent(t) ==
    /\ Ticks(t) /\ ~Leads(t) /\ age[t] >= 2
    /\ SetLeader(t, t)
    /\ mail' = Posted(t, "announce", mail)

NoMail == \A p \in Tabs \X Tabs : mail[p] = <<>>

NextRound ==
    /\ up # {} /\ up \subseteq ticked /\ NoMail /\ promoting = {}
    /\ ticked' = {}
    /\ UNCHANGED <<up, leader, age, promoting, mail, acts>>
-----------------------------------------------------------------------------
Deliver(t, from) ==
    Announced(t, from) \/ Heartbeat(t, from) \/ Leaving(t, from) \/ TakenOver(t, from)

TimerTick(t) == LeaderTick(t) \/ FollowerTick(t) \/ LeaderSilent(t)

ElectionNext ==
    \/ \E t \in Tabs : OpenTab(t) \/ Close(t) \/ Kill(t) \/ RequestTakeover(t) \/ Promote(t) \/ TimerTick(t)
    \/ \E t, from \in Tabs : Deliver(t, from)
    \/ NextRound

\* The browser delivers messages, runs microtasks and fires timers.
ElectionFairness ==
    /\ \A t \in Tabs : WF_electionVars(Promote(t)) /\ WF_electionVars(TimerTick(t))
    /\ \A t, from \in Tabs : WF_electionVars(Deliver(t, from))
    /\ WF_electionVars(NextRound)

ElectionSpec == ElectionInit /\ [][ElectionNext]_electionVars /\ ElectionFairness
-----------------------------------------------------------------------------
\* The variables keep their types.
ElectionTypeOK ==
    /\ up \subseteq Tabs /\ promoting \subseteq up /\ ticked \subseteq up
    /\ leader \in [Tabs -> Tabs] /\ age \in [Tabs -> 0..3]
    /\ mail \in [Tabs \X Tabs -> Seq({"announce", "heartbeat", "leaving", "takeover"})]
    /\ acts \in 0..MaxActs

UnderWay(m, from, to) == \E i \in 1..Len(mail[<<from, to>>]) : mail[<<from, to>>][i] = m

\* Two tabs that both lead, and so both hold a WebSocket, do so only while a
\* message is under way that makes the one with the larger id yield, or that makes
\* the other answer with one.
TwoLeadersMeet ==
    \A a, b \in up : a < b /\ Leads(a) /\ Leads(b) =>
        UnderWay("announce", a, b) \/ UnderWay("heartbeat", a, b) \/ UnderWay("announce", b, a)

\* Well-typed, and no two WebSockets without a message that ends one of them.
ElectionInv == ElectionTypeOK /\ TwoLeadersMeet

\* Once tabs are no longer opened, closed or promoted, exactly one leads for ever
\* and the others follow it, whatever was killed or taken over before.
OneLeaderAtLast ==
    <>[](up # {} => \E t \in up : \A u \in up : leader[u] = t)
=============================================================================

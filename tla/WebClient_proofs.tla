-------------------------- MODULE WebClient_proofs --------------------------
(***************************************************************************)
(* The election of the tab that talks to the backend, and what the clients *)
(* show of the answers.                                                    *)
(*                                                                         *)
(* Of two tabs that both lead, one is told of the other: the strengthening *)
(* of the election says which message is then under way, and that no tab   *)
(* writes to itself.  Of the view it says that nothing under way is false  *)
(* of its answer, and that what a card is to show follows on what it is    *)
(* shown: behind every event under way that could spoil it comes one that  *)
(* makes it good; and that no failure is followed by an announcement.      *)
(***************************************************************************)
EXTENDS LeaderElection, LiveView, SequenceTheorems, TLAPS

Messages == {"announce", "heartbeat", "leaving", "takeover"}

\* The types, but for the bounds that other parts give.
ElectionShape ==
    /\ up \subseteq Tabs /\ promoting \subseteq up /\ ticked \subseteq up
    /\ leader \in [Tabs -> Tabs] /\ age \in [Tabs -> 0..3]
    /\ mail \in [Tabs \X Tabs -> Seq(Messages)] /\ acts \in 0..MaxActs

\* A tab does not write to itself.
NoSelfMail == \A t \in Tabs : mail[<<t, t>>] = <<>>

ElectionIInv == ElectionShape /\ NoSelfMail /\ TwoLeadersMeet

-----------------------------------------------------------------------------
(* Boxes of messages.                                                      *)

Boxes == [Tabs \X Tabs -> Seq(Messages)]

\* Message m is in the box from a to b.
Holds(box, m, a, b) == \E i \in 1..Len(box[<<a, b>>]) : box[<<a, b>>][i] = m

LEMMA AppendHolds ==
    ASSUME NEW s \in Seq(Messages), NEW m \in Messages
    PROVE  /\ Append(s, m) \in Seq(Messages) /\ Len(Append(s, m)) = Len(s) + 1 /\ Len(s) \in Nat
           /\ Append(s, m)[Len(s) + 1] = m
           /\ \A i \in 1..Len(s) : Append(s, m)[i] = s[i]
OBVIOUS

LEMMA TailHolds ==
    ASSUME NEW s \in Seq(Messages), s # <<>>
    PROVE  /\ Tail(s) \in Seq(Messages) /\ Len(s) \in Nat /\ Len(s) >= 1 /\ Len(Tail(s)) = Len(s) - 1
           /\ Head(s) = s[1] /\ \A i \in 1..Len(Tail(s)) : Tail(s)[i] = s[i + 1]
<1>1. Len(s) \in Nat /\ Len(s) # 0 OBVIOUS
<1> QED BY <1>1, HeadTailProperties

\* What t posts reaches every other open tab, and no message is lost by it.
LEMMA PostedHolds ==
    ASSUME NEW box \in Boxes, NEW t \in Tabs, NEW m \in Messages
    PROVE  /\ Posted(t, m, box) \in Boxes
           /\ \A b \in (up \ {t}) \cap Tabs : Holds(Posted(t, m, box), m, t, b)
           /\ \A a, b \in Tabs, n \in Messages : Holds(box, n, a, b) => Holds(Posted(t, m, box), n, a, b)
           /\ (\A a \in Tabs : box[<<a, a>>] = <<>>) => \A a \in Tabs : Posted(t, m, box)[<<a, a>>] = <<>>
<1> DEFINE new == Posted(t, m, box)
<1>1. \A p \in Tabs \X Tabs :
         /\ box[p] \in Seq(Messages)
         /\ new[p] = IF p[1] = t /\ p[2] \in up \ {t} THEN Append(box[p], m) ELSE box[p]
  BY DEF Posted, Boxes
<1>2. \A a, b \in Tabs :
         /\ box[<<a, b>>] \in Seq(Messages)
         /\ new[<<a, b>>] = IF a = t /\ b \in up \ {t} THEN Append(box[<<a, b>>], m) ELSE box[<<a, b>>]
  <2> TAKE a \in Tabs, b \in Tabs
  <2>1. <<a, b>> \in Tabs \X Tabs /\ <<a, b>>[1] = a /\ <<a, b>>[2] = b OBVIOUS
  <2> QED BY <1>1, <2>1
<1>3. new \in Boxes
  <2>1. new = [p \in Tabs \X Tabs |-> IF p[1] = t /\ p[2] \in up \ {t} THEN Append(box[p], m) ELSE box[p]]
    BY DEF Posted
  <2>2. ASSUME NEW p \in Tabs \X Tabs PROVE new[p] \in Seq(Messages)
    <3> PICK s \in Seq(Messages) : s = box[p] BY <1>1
    <3> Append(s, m) \in Seq(Messages) BY AppendHolds
    <3> QED BY <1>1
  <2> QED BY <2>1, <2>2 DEF Boxes
<1> HIDE DEF new
<1>4. ASSUME NEW b \in (up \ {t}) \cap Tabs PROVE Holds(new, m, t, b)
  <2>1. PICK s \in Seq(Messages) : new[<<t, b>>] = Append(s, m) BY <1>2
  <2>2. Len(s) + 1 \in 1..Len(Append(s, m)) /\ Append(s, m)[Len(s) + 1] = m
    <3>1. Len(s) \in Nat /\ Len(Append(s, m)) = Len(s) + 1 /\ Append(s, m)[Len(s) + 1] = m
      BY AppendHolds
    <3> QED BY <3>1
  <2> QED BY <2>1, <2>2 DEF Holds
<1>5. ASSUME NEW a \in Tabs, NEW b \in Tabs, NEW n \in Messages, Holds(box, n, a, b) PROVE Holds(new, n, a, b)
  <2>1. PICK i \in 1..Len(box[<<a, b>>]) : box[<<a, b>>][i] = n BY <1>5 DEF Holds
  <2>2. CASE new[<<a, b>>] = box[<<a, b>>] BY <2>1, <2>2 DEF Holds
  <2>3. CASE new[<<a, b>>] = Append(box[<<a, b>>], m)
    <3>1. PICK s \in Seq(Messages) : s = box[<<a, b>>] BY <1>2
    <3>2. i \in 1..Len(s) /\ s[i] = n /\ new[<<a, b>>] = Append(s, m) BY <2>1, <2>3, <3>1
    <3>3. i \in 1..Len(Append(s, m)) /\ Append(s, m)[i] = n
      <4>1. Len(s) \in Nat /\ Len(Append(s, m)) = Len(s) + 1 /\ Append(s, m)[i] = s[i]
        BY <3>2, AppendHolds
      <4> QED BY <3>2, <4>1
    <3>4. i \in 1..Len(new[<<a, b>>]) /\ new[<<a, b>>][i] = n BY <3>2, <3>3
    <3> QED BY <3>4 DEF Holds
  <2> QED BY <1>2, <2>2, <2>3
<1>6. ASSUME \A a \in Tabs : box[<<a, a>>] = <<>>, NEW a \in Tabs PROVE new[<<a, a>>] = <<>>
  BY <1>2, <1>6
<1> QED BY <1>3, <1>4, <1>5, <1>6 DEF new

\* A message that is taken is the only one that may be missing from then on.
LEMMA TakenHolds ==
    ASSUME mail \in Boxes, NEW t \in Tabs, NEW from \in Tabs, NEW m \in Messages,
           mail[<<from, t>>] # <<>>, Head(mail[<<from, t>>]) = m
    PROVE  /\ Taken(t, from) \in Boxes
           /\ \A a, b \in Tabs, n \in Messages :
                 Holds(mail, n, a, b) /\ <<a, b, n>> # <<from, t, m>> => Holds(Taken(t, from), n, a, b)
           /\ (\A a \in Tabs : mail[<<a, a>>] = <<>>) => \A a \in Tabs : Taken(t, from)[<<a, a>>] = <<>>
<1> DEFINE new == Taken(t, from)
<1>0. <<from, t>> \in Tabs \X Tabs /\ mail[<<from, t>>] \in Seq(Messages) BY DEF Boxes
<1>1. new = [mail EXCEPT ![<<from, t>>] = Tail(mail[<<from, t>>])] BY DEF Taken
<1>2. Tail(mail[<<from, t>>]) \in Seq(Messages) BY <1>0, TailHolds
<1>3. new \in Boxes BY <1>0, <1>1, <1>2 DEF Boxes
<1>4. new[<<from, t>>] = Tail(mail[<<from, t>>]) BY <1>0, <1>1 DEF Boxes
<1>5. ASSUME NEW a \in Tabs, NEW b \in Tabs, <<a, b>> # <<from, t>> PROVE new[<<a, b>>] = mail[<<a, b>>]
  <2>1. <<a, b>> \in Tabs \X Tabs OBVIOUS
  <2> QED BY <1>0, <1>1, <1>5, <2>1 DEF Boxes
<1> HIDE DEF new
<1>6. ASSUME NEW a \in Tabs, NEW b \in Tabs, NEW n \in Messages, Holds(mail, n, a, b),
             <<a, b, n>> # <<from, t, m>>
      PROVE  Holds(new, n, a, b)
  <2>1. CASE <<a, b>> # <<from, t>> BY <1>5, <1>6, <2>1 DEF Holds
  <2>2. CASE a = from /\ b = t
    <3>1. PICK s \in Seq(Messages) : s = mail[<<from, t>>] BY <1>0
    <3>2. s # <<>> /\ Head(s) = m /\ new[<<from, t>>] = Tail(s) BY <1>4, <3>1
    <3>3. PICK i \in 1..Len(s) : s[i] = n BY <1>6, <2>2, <3>1 DEF Holds
    <3>4. n # m BY <1>6, <2>2
    <3>5. i # 1 BY <3>2, <3>3, <3>4, TailHolds
    <3>6. i - 1 \in 1..Len(Tail(s)) /\ Tail(s)[i - 1] = n
      <4>1. /\ Len(s) \in Nat /\ Len(Tail(s)) = Len(s) - 1
            /\ \A j \in 1..Len(Tail(s)) : Tail(s)[j] = s[j + 1]
        BY <3>2, TailHolds
      <4>2. i - 1 \in 1..Len(Tail(s)) BY <3>3, <3>5, <4>1
      <4>3. (i - 1) + 1 = i BY <3>3
      <4> QED BY <3>3, <4>1, <4>2, <4>3
    <3>7. i - 1 \in 1..Len(new[<<from, t>>]) /\ new[<<from, t>>][i - 1] = n BY <3>2, <3>6
    <3> QED BY <2>2, <3>7 DEF Holds
  <2> QED BY <2>1, <2>2
<1>7. ASSUME \A a \in Tabs : mail[<<a, a>>] = <<>>, NEW a \in Tabs PROVE new[<<a, a>>] = <<>>
  <2>1. from # t BY <1>7
  <2> QED BY <1>5, <1>7, <2>1
<1> QED BY <1>3, <1>6, <1>7 DEF new

LEMMA GoneHolds ==
    ASSUME NEW box \in Boxes, NEW t \in Tabs
    PROVE  /\ Gone(t, box) \in Boxes
           /\ \A a, b \in Tabs, n \in Messages : Holds(box, n, a, b) /\ b # t => Holds(Gone(t, box), n, a, b)
           /\ (\A a \in Tabs : box[<<a, a>>] = <<>>) => \A a \in Tabs : Gone(t, box)[<<a, a>>] = <<>>
<1> DEFINE new == Gone(t, box)
<1>1. \A p \in Tabs \X Tabs : box[p] \in Seq(Messages) /\ new[p] = IF p[2] = t THEN <<>> ELSE box[p]
  BY DEF Gone, Boxes
<1>2. new \in Boxes
  <2>1. new = [p \in Tabs \X Tabs |-> IF p[2] = t THEN <<>> ELSE box[p]] BY DEF Gone
  <2>2. <<>> \in Seq(Messages) OBVIOUS
  <2>3. ASSUME NEW p \in Tabs \X Tabs PROVE new[p] \in Seq(Messages) BY <1>1, <2>2
  <2> QED BY <2>1, <2>3 DEF Boxes
<1> HIDE DEF new
<1>3. ASSUME NEW a \in Tabs, NEW b \in Tabs PROVE new[<<a, b>>] = IF b = t THEN <<>> ELSE box[<<a, b>>]
  <2>1. <<a, b>> \in Tabs \X Tabs /\ <<a, b>>[2] = b OBVIOUS
  <2> QED BY <1>1, <2>1
<1>4. ASSUME NEW a \in Tabs, NEW b \in Tabs, NEW n \in Messages, Holds(box, n, a, b), b # t
      PROVE  Holds(new, n, a, b)
  BY <1>3, <1>4 DEF Holds
<1>5. ASSUME \A a \in Tabs : box[<<a, a>>] = <<>>, NEW a \in Tabs PROVE new[<<a, a>>] = <<>>
  BY <1>3, <1>5
<1> QED BY <1>2, <1>4, <1>5 DEF new

-----------------------------------------------------------------------------
(* The kinds of steps.                                                     *)

\* Tab t makes itself the leader and tells every open tab, after some messages were taken.
Proclaims(t, box) ==
    /\ leader' = [leader EXCEPT ![t] = t]
    /\ mail' = Posted(t, "announce", box)

\* Tab t takes a message of from.
TakesFrom(t, from, m) == mail[<<from, t>>] # <<>> /\ Head(mail[<<from, t>>]) = m

LEMMA BoxesOf == ElectionIInv => mail \in Boxes /\ \A a \in Tabs : mail[<<a, a>>] = <<>>
BY DEF ElectionIInv, ElectionShape, NoSelfMail, Boxes

LEMMA DeliverTakes ==
    ASSUME ElectionIInv, NEW t \in Tabs, NEW from \in Tabs, Deliver(t, from)
    PROVE  /\ t \in up \ promoting /\ from # t
           /\ UNCHANGED <<up, promoting, ticked, acts>>
           /\ Taken(t, from) \in Boxes /\ \A a \in Tabs : Taken(t, from)[<<a, a>>] = <<>>
           /\ \/ TakesFrom(t, from, "announce") /\ Announced(t, from)
              \/ TakesFrom(t, from, "heartbeat") /\ Heartbeat(t, from)
              \/ TakesFrom(t, from, "leaving") /\ Leaving(t, from)
              \/ TakesFrom(t, from, "takeover") /\ TakenOver(t, from)
<1>1. PICK m \in Messages :
         /\ Receive(t, from, m)
         /\ \/ m = "announce" /\ Announced(t, from)
            \/ m = "heartbeat" /\ Heartbeat(t, from)
            \/ m = "leaving" /\ Leaving(t, from)
            \/ m = "takeover" /\ TakenOver(t, from)
  BY DEF Deliver, Announced, Heartbeat, Leaving, TakenOver, Messages
<1>2. t \in up \ promoting /\ TakesFrom(t, from, m) /\ UNCHANGED <<up, promoting, ticked, acts>>
  BY <1>1 DEF Receive, TakesFrom
<1>3. from # t BY <1>2, BoxesOf DEF TakesFrom
<1>4. Taken(t, from) \in Boxes /\ \A a \in Tabs : Taken(t, from)[<<a, a>>] = <<>>
  BY <1>2, BoxesOf, TakenHolds DEF TakesFrom
<1> QED BY <1>1, <1>2, <1>3, <1>4

-----------------------------------------------------------------------------
LEMMA ElectionStart == ElectionInit => ElectionIInv
<1> SUFFICES ASSUME ElectionInit PROVE ElectionIInv OBVIOUS
<1>1. ElectionShape
  <2>1. mail \in [Tabs \X Tabs -> Seq(Messages)] BY DEF ElectionInit
  <2> QED BY <2>1, ElectionAssumption DEF ElectionInit, ElectionShape
<1>2. NoSelfMail
  <2>1. ASSUME NEW t \in Tabs PROVE <<t, t>> \in Tabs \X Tabs OBVIOUS
  <2> QED BY <2>1 DEF ElectionInit, NoSelfMail
<1>3. TwoLeadersMeet BY DEF ElectionInit, TwoLeadersMeet
<1> QED BY <1>1, <1>2, <1>3 DEF ElectionIInv

\* The boxes keep their types, and no step makes a tab write to itself.
LEMMA MailStep ==
    ASSUME ElectionIInv, [ElectionNext]_electionVars
    PROVE  mail' \in Boxes /\ \A a \in Tabs : mail'[<<a, a>>] = <<>>
<1>0. mail \in Boxes /\ \A a \in Tabs : mail[<<a, a>>] = <<>> BY BoxesOf
<1>u. CASE UNCHANGED mail BY <1>0, <1>u
<1>p. ASSUME NEW box \in Boxes, \A a \in Tabs : box[<<a, a>>] = <<>>, NEW t \in Tabs, NEW m \in Messages,
             mail' = Posted(t, m, box)
      PROVE  mail' \in Boxes /\ \A a \in Tabs : mail'[<<a, a>>] = <<>>
  BY <1>p, PostedHolds
<1>m. {"announce", "heartbeat", "leaving", "takeover"} = Messages BY DEF Messages
<1>1. ASSUME NEW t \in Tabs, OpenTab(t) \/ RequestTakeover(t) \/ Promote(t) \/ LeaderTick(t) \/ LeaderSilent(t)
      PROVE  mail' \in Boxes /\ \A a \in Tabs : mail'[<<a, a>>] = <<>>
  <2>1. \E m \in Messages : mail' = Posted(t, m, mail)
    BY <1>1, <1>m DEF OpenTab, RequestTakeover, Promote, LeaderTick, LeaderSilent
  <2> QED BY <1>0, <1>p, <2>1
<1>2. ASSUME NEW t \in Tabs, Close(t) \/ Kill(t)
      PROVE  mail' \in Boxes /\ \A a \in Tabs : mail'[<<a, a>>] = <<>>
  <2>1. PICK box \in {mail, Posted(t, "leaving", mail)} : mail' = Gone(t, box)
    BY <1>2 DEF Close, Kill, Leave
  <2>2. box \in Boxes /\ \A a \in Tabs : box[<<a, a>>] = <<>>
    BY <1>0, <1>m, <2>1, PostedHolds
  <2> QED BY <2>1, <2>2, GoneHolds
<1>3. ASSUME NEW t \in Tabs, NEW from \in Tabs, Deliver(t, from)
      PROVE  mail' \in Boxes /\ \A a \in Tabs : mail'[<<a, a>>] = <<>>
  <2>1. Taken(t, from) \in Boxes /\ \A a \in Tabs : Taken(t, from)[<<a, a>>] = <<>>
    BY <1>3, DeliverTakes
  <2>2. mail' = Taken(t, from) \/ \E m \in Messages : mail' = Posted(t, m, Taken(t, from))
    BY <1>3, <1>m DEF Deliver, Announced, Heartbeat, Leaving, TakenOver
  <2>3. CASE mail' = Taken(t, from) BY <2>1, <2>3
  <2>4. CASE \E m \in Messages : mail' = Posted(t, m, Taken(t, from)) BY <1>p, <2>1, <2>4
  <2> QED BY <2>2, <2>3, <2>4
<1>4. ASSUME NEW t \in Tabs, FollowerTick(t) PROVE UNCHANGED mail BY <1>4 DEF FollowerTick
<1>5. CASE NextRound BY <1>u, <1>5 DEF NextRound
<1> QED BY <1>u, <1>1, <1>2, <1>3, <1>4, <1>5 DEF ElectionNext, TimerTick, electionVars

LEMMA ShapeStep == ASSUME ElectionIInv, [ElectionNext]_electionVars PROVE ElectionShape'
<1>0. ElectionShape /\ mail' \in Boxes BY MailStep DEF ElectionIInv
<1>b. mail' \in [Tabs \X Tabs -> Seq(Messages)] BY <1>0 DEF Boxes
<1>s. ASSUME NEW t \in Tabs, NEW id \in Tabs, SetLeader(t, id)
      PROVE  leader' \in [Tabs -> Tabs] /\ age' \in [Tabs -> 0..3]
  BY <1>0, <1>s DEF SetLeader, ElectionShape
<1>t. ASSUME User PROVE acts' \in 0..MaxActs BY <1>0, <1>t, ElectionAssumption DEF User, ElectionShape
<1>u. CASE UNCHANGED electionVars BY <1>0, <1>u DEF electionVars, ElectionShape
<1>1. ASSUME NEW t \in Tabs, OpenTab(t) PROVE ElectionShape'
  BY <1>0, <1>b, <1>s, <1>t, <1>1 DEF OpenTab, ElectionShape
<1>2. ASSUME NEW t \in Tabs, Close(t) \/ Kill(t) PROVE ElectionShape'
  <2>1. /\ User /\ t \in up \ promoting /\ up' = up \ {t} /\ ticked' = ticked \ {t}
        /\ UNCHANGED <<leader, age, promoting>>
    BY <1>2 DEF Close, Kill, Leave
  <2> QED BY <1>0, <1>b, <1>t, <2>1 DEF ElectionShape
<1>3. ASSUME NEW t \in Tabs, RequestTakeover(t) PROVE ElectionShape'
  BY <1>0, <1>b, <1>t, <1>3 DEF RequestTakeover, ElectionShape
<1>4. ASSUME NEW t \in Tabs, Promote(t) PROVE ElectionShape'
  BY <1>0, <1>b, <1>s, <1>4 DEF Promote, ElectionShape
<1>5. ASSUME NEW t \in Tabs, TimerTick(t) PROVE ElectionShape'
  <2>1. t \in up /\ ticked' = ticked \union {t} /\ UNCHANGED <<up, promoting, acts>>
    BY <1>5 DEF TimerTick, LeaderTick, FollowerTick, LeaderSilent, Ticks
  <2>2. leader' \in [Tabs -> Tabs] /\ age' \in [Tabs -> 0..3]
    <3>1. CASE LeaderTick(t) BY <1>0, <3>1 DEF LeaderTick, ElectionShape
    <3>2. CASE FollowerTick(t) BY <1>0, <3>2 DEF FollowerTick, ElectionShape
    <3>3. CASE LeaderSilent(t) BY <1>s, <3>3 DEF LeaderSilent
    <3> QED BY <1>5, <3>1, <3>2, <3>3 DEF TimerTick
  <2> QED BY <1>0, <1>b, <2>1, <2>2 DEF ElectionShape
<1>6. ASSUME NEW t \in Tabs, NEW from \in Tabs, Deliver(t, from) PROVE ElectionShape'
  <2>1. UNCHANGED <<up, promoting, ticked, acts>> BY <1>6, DeliverTakes
  <2>2. SetLeader(t, from) \/ SetLeader(t, t) \/ UNCHANGED <<leader, age>>
    BY <1>6 DEF Deliver, Announced, Heartbeat, Leaving, TakenOver
  <2>3. leader' \in [Tabs -> Tabs] /\ age' \in [Tabs -> 0..3]
    BY <1>0, <1>s, <2>2 DEF ElectionShape
  <2> QED BY <1>0, <1>b, <2>1, <2>3 DEF ElectionShape
<1>7. CASE NextRound BY <1>0, <1>b, <1>7 DEF NextRound, ElectionShape
<1> QED BY <1>u, <1>1, <1>2, <1>3, <1>4, <1>5, <1>6, <1>7 DEF ElectionNext

LEMMA LeadersStep == ASSUME ElectionIInv, [ElectionNext]_electionVars PROVE TwoLeadersMeet'
<1>0. /\ up \subseteq Tabs /\ promoting \subseteq up /\ leader \in [Tabs -> Tabs] /\ mail \in Boxes /\ Tabs \subseteq Nat
      /\ TwoLeadersMeet
  BY ElectionAssumption, BoxesOf DEF ElectionIInv, ElectionShape
<1>1. up' \subseteq Tabs BY ShapeStep DEF ElectionShape
<1> SUFFICES ASSUME NEW a \in up', NEW b \in up', a < b, leader'[a] = a, leader'[b] = b
             PROVE  Holds(mail', "announce", a, b) \/ Holds(mail', "heartbeat", a, b) \/ Holds(mail', "announce", b, a)
  BY DEF TwoLeadersMeet, Leads, UnderWay, Holds
<1> DEFINE Meet(box) == Holds(box, "announce", a, b) \/ Holds(box, "heartbeat", a, b) \/ Holds(box, "announce", b, a)
<1>2. a \in Tabs /\ b \in Tabs /\ a # b /\ ~(b < a)
  BY <1>0, <1>1
<1>3. ASSUME a \in up, b \in up, leader[a] = a, leader[b] = b PROVE Meet(mail)
  BY <1>0, <1>3 DEF TwoLeadersMeet, Leads, UnderWay, Holds
\* One of the two has just made itself the leader.
<1>p. ASSUME NEW t \in {a, b}, NEW box \in Boxes, mail' = Posted(t, "announce", box), a \in up \union {t}, b \in up \union {t}
      PROVE  Meet(mail')
  BY <1>2, <1>p, PostedHolds DEF Messages
\* What the two have to meet by is passed on.
<1>g. ASSUME NEW t \in Tabs, NEW m \in Messages, NEW box \in Boxes, Meet(box) PROVE Meet(Posted(t, m, box))
  BY <1>2, <1>g, PostedHolds DEF Messages
<1> HIDE DEF Meet
<1>l. ASSUME NEW t \in Tabs, NEW id \in Tabs, leader' = [leader EXCEPT ![t] = id], id # t
      PROVE  t \notin {a, b} /\ leader[a] = a /\ leader[b] = b
  BY <1>0, <1>2, <1>l
<1>q. ASSUME NEW t \in Tabs, leader' = [leader EXCEPT ![t] = t], t \notin {a, b} PROVE leader[a] = a /\ leader[b] = b
  BY <1>0, <1>2, <1>q
<1>u. ASSUME UNCHANGED electionVars PROVE Meet(mail') BY <1>3, <1>u DEF electionVars, Meet
<1>4. ASSUME NEW t \in Tabs, OpenTab(t) PROVE Meet(mail')
  <2>1. leader' = [leader EXCEPT ![t] = t] /\ mail' = Posted(t, "announce", mail) /\ up' = up \union {t}
    BY <1>4 DEF OpenTab, SetLeader
  <2>2. CASE t \in {a, b} BY <1>0, <1>p, <2>1, <2>2
  <2>3. CASE t \notin {a, b} BY <1>0, <1>3, <1>g, <1>q, <2>1, <2>3 DEF Messages
  <2> QED BY <2>2, <2>3
<1>5. ASSUME NEW t \in Tabs, Close(t) \/ Kill(t) PROVE Meet(mail')
  <2>1. PICK box \in {mail, Posted(t, "leaving", mail)} : mail' = Gone(t, box)
    BY <1>5 DEF Close, Kill, Leave
  <2>2. up' = up \ {t} /\ leader' = leader BY <1>5 DEF Close, Kill, Leave
  <2>3. Meet(mail) /\ a # t /\ b # t BY <1>3, <2>2
  <2>4. box \in Boxes /\ Meet(box) BY <1>0, <1>g, <2>1, <2>3, PostedHolds DEF Messages
  <2> QED BY <1>2, <2>1, <2>3, <2>4, GoneHolds DEF Meet, Messages
<1>6. ASSUME NEW t \in Tabs, RequestTakeover(t) \/ LeaderTick(t) \/ FollowerTick(t) PROVE Meet(mail')
  <2>1. UNCHANGED <<up, leader>> /\ (mail' = mail \/ \E m \in Messages : mail' = Posted(t, m, mail))
    BY <1>6 DEF RequestTakeover, LeaderTick, FollowerTick, Ticks, Messages
  <2>2. Meet(mail) BY <1>3, <2>1
  <2> QED BY <1>0, <1>g, <2>1, <2>2
<1>7. ASSUME NEW t \in Tabs, Promote(t) \/ LeaderSilent(t) PROVE Meet(mail')
  <2>1. leader' = [leader EXCEPT ![t] = t] /\ mail' = Posted(t, "announce", mail) /\ up' = up
    BY <1>7 DEF Promote, LeaderSilent, Ticks, SetLeader
  <2>2. CASE t \in {a, b} BY <1>0, <1>p, <2>1, <2>2
  <2>3. CASE t \notin {a, b} BY <1>0, <1>3, <1>g, <1>q, <2>1, <2>3 DEF Messages
  <2> QED BY <2>2, <2>3
<1>8. ASSUME NEW t \in Tabs, NEW from \in Tabs, Deliver(t, from) PROVE Meet(mail')
  <2>0. /\ UNCHANGED up /\ Taken(t, from) \in Boxes /\ t \in up /\ from # t
        /\ \/ TakesFrom(t, from, "announce") /\ Announced(t, from)
           \/ TakesFrom(t, from, "heartbeat") /\ Heartbeat(t, from)
           \/ TakesFrom(t, from, "leaving") /\ Leaving(t, from)
           \/ TakesFrom(t, from, "takeover") /\ TakenOver(t, from)
    BY <1>8, DeliverTakes
  \* What is taken was not what the two have to meet by.
  <2>k. ASSUME NEW m \in Messages, TakesFrom(t, from, m), Meet(mail),
               \/ m \in {"leaving", "takeover"} \/ {t, from} # {a, b}
               \/ m = "heartbeat" /\ t = a
        PROVE  Meet(Taken(t, from))
    BY <1>0, <1>2, <2>k, TakenHolds DEF TakesFrom, Meet, Messages
  <2>f. ASSUME SetLeader(t, from) PROVE Meet(mail) /\ t \notin {a, b}
    BY <1>3, <1>l, <2>0, <2>f DEF SetLeader
  <2>1. CASE TakesFrom(t, from, "announce") /\ Announced(t, from)
    <3>1. CASE Follow(t, from)
      <4>1. SetLeader(t, from) /\ mail' = Taken(t, from) BY <2>1, <3>1 DEF Announced
      <4> QED BY <2>1, <2>f, <2>k, <4>1 DEF Messages
    <3>2. CASE ~Follow(t, from) /\ Leads(t)
      <4>1. leader' = leader /\ mail' = Posted(t, "heartbeat", Taken(t, from)) /\ from >= t
        BY <1>0, <2>1, <3>2 DEF Announced, Follow, Leads
      <4>2. Meet(mail) BY <1>3, <2>0, <4>1
      <4>3. CASE t = a /\ from = b
        <5>1. Holds(mail', "heartbeat", a, b) BY <1>2, <2>0, <4>1, <4>3, PostedHolds DEF Messages
        <5> QED BY <5>1 DEF Meet
      <4>4. CASE t = b /\ from = a BY <1>0, <1>2, <4>1, <4>4
      <4>5. CASE {t, from} # {a, b}
        <5>1. Meet(Taken(t, from)) BY <2>1, <2>k, <4>2, <4>5 DEF Messages
        <5> QED BY <1>g, <2>0, <4>1, <5>1 DEF Messages
      <4> QED BY <4>3, <4>4, <4>5
    <3>3. CASE ~Follow(t, from) /\ ~Leads(t)
      <4>1. leader' = leader /\ mail' = Taken(t, from) BY <2>1, <3>3 DEF Announced
      <4>2. t \notin {a, b} BY <3>3, <4>1 DEF Leads
      <4>3. Meet(mail) BY <1>3, <2>0, <4>1
      <4> QED BY <2>1, <2>k, <4>1, <4>2, <4>3 DEF Messages
    <3> QED BY <3>1, <3>2, <3>3
  <2>2. CASE TakesFrom(t, from, "heartbeat") /\ Heartbeat(t, from)
    <3>1. mail' = Taken(t, from) BY <2>2 DEF Heartbeat
    <3>2. CASE Follow(t, from) BY <2>2, <2>f, <2>k, <3>1, <3>2 DEF Heartbeat, Messages
    <3>3. CASE ~Follow(t, from)
      <4>1. leader' = leader BY <2>2, <3>3 DEF Heartbeat
      <4>2. Meet(mail) BY <1>3, <2>0, <4>1
      <4>3. ~(t = b /\ from = a) BY <1>0, <3>3, <4>1 DEF Follow
      <4>4. {t, from} # {a, b} \/ t = a BY <2>0, <4>3
      <4> QED BY <2>2, <2>k, <3>1, <4>2, <4>4 DEF Messages
    <3> QED BY <3>2, <3>3
  <2>3. CASE TakesFrom(t, from, "leaving") /\ Leaving(t, from)
    <3>1. CASE leader' = [leader EXCEPT ![t] = t] /\ mail' = Posted(t, "announce", Taken(t, from))
      <4>1. CASE t \in {a, b} BY <1>p, <2>0, <3>1, <4>1
      <4>2. CASE t \notin {a, b}
        <5>1. Meet(mail) BY <1>3, <1>q, <2>0, <3>1, <4>2
        <5>2. Meet(Taken(t, from)) BY <2>3, <2>k, <5>1 DEF Messages
        <5> QED BY <1>g, <2>0, <3>1, <5>2 DEF Messages
      <4> QED BY <4>1, <4>2
    <3>2. CASE leader' = leader /\ mail' = Taken(t, from)
      <4>1. Meet(mail) BY <1>3, <2>0, <3>2
      <4> QED BY <2>3, <2>k, <3>2, <4>1 DEF Messages
    <3> QED BY <2>3, <3>1, <3>2 DEF Leaving, SetLeader
  <2>4. CASE TakesFrom(t, from, "takeover") /\ TakenOver(t, from)
    BY <2>4, <2>f, <2>k DEF TakenOver, Messages
  <2> QED BY <2>0, <2>1, <2>2, <2>3, <2>4
<1>9. ASSUME NextRound PROVE Meet(mail')
  <2>1. UNCHANGED <<up, leader, mail>> BY <1>9 DEF NextRound
  <2> QED BY <1>3, <2>1 DEF Meet
<1>10. Meet(mail')
  BY <1>u, <1>4, <1>5, <1>6, <1>7, <1>8, <1>9 DEF ElectionNext, TimerTick
<1> QED BY <1>10 DEF Meet

-----------------------------------------------------------------------------
\* Two tabs hold a WebSocket each only while a message is under way that makes one of
\* them yield or the other answer, for every number of tabs, however they are opened,
\* closed, killed and promoted and their messages cross.
THEOREM ElectionInvariance == ElectionSpec => []ElectionInv
<1>1. ElectionInit => ElectionIInv BY ElectionStart
<1>2. ElectionIInv /\ [ElectionNext]_electionVars => ElectionIInv'
  <2> SUFFICES ASSUME ElectionIInv, [ElectionNext]_electionVars PROVE ElectionIInv' OBVIOUS
  <2>1. NoSelfMail' BY MailStep DEF NoSelfMail
  <2> QED BY <2>1, ShapeStep, LeadersStep DEF ElectionIInv
<1>3. ElectionIInv => ElectionInv
  BY DEF ElectionIInv, ElectionShape, ElectionInv, ElectionTypeOK, Messages
<1> QED BY <1>1, <1>2, <1>3, PTL DEF ElectionSpec

-----------------------------------------------------------------------------
(* The view.                                                               *)

Stages == {"none", "cued", "retracted", "pending", "starting", "live",
           "ready", "saving", "told", "stored", "cancelled", "failed", "orphan"}
Endings == {"no", "ask", "clear", "empty", "tell"}
Statuses == Settled \union {"none", "cue", "live"}

\* How far an answer is when it has been started, saved, or has come to an end.
Begun == {"live", "ready", "saving", "told", "stored", "cancelled", "failed", "orphan"}
Kept == {"saving", "told", "stored", "failed"}
Over == {"none", "retracted", "told", "stored", "cancelled", "failed"}

\* An event under way tells of its answers what is so, or was.
Tells(kind, stage) ==
    CASE kind = "cue" -> stage # "none"
      [] kind = "retract" -> stage = "retracted"
      [] kind \in {"start", "chunk"} -> stage \in Begun
      [] kind = "done" -> stage \in {"told", "stored", "failed"}
      [] kind = "cancelled" -> stage = "cancelled"
      [] kind = "error" -> stage = "failed"
      [] kind = "init" -> stage \in Kept
      [] kind = "cleared" -> TRUE

True(e, at) == \A q \in e.of : Tells(e.kind, at[q])

\* And so does a card.
Likely(status, stage) ==
    CASE status = "none" -> TRUE
      [] status = "cue" -> stage # "none"
      [] status = "live" -> stage \in Begun
      [] status = "done" -> stage \in Kept
      [] status = "cancelled" -> stage = "cancelled"
      [] status = "error" -> stage = "failed"
      [] status = "marred" -> FALSE

\* What is saved was stored, and what is being stored is saved, unless a clear that
\* came between the two excused it.
Accounted(q) ==
    /\ q \in saved => answer[q] \in {"saving", "told", "stored"}
    /\ answer[q] \in {"saving", "told"} /\ q \notin excused => q \in saved
    /\ ending = "tell" /\ q \in saved => q \in excused

NothingFalse ==
    /\ \A i \in 1..Len(bus) : True(bus[i], answer)
    /\ \A c \in Clients : \A i \in 1..Len(wire[c]) : True(wire[c][i], answer)
    /\ \A c \in Clients, q \in Answers : Likely(card[c][q], answer[q])
    /\ \A q \in Answers : Accounted(q)

-----------------------------------------------------------------------------
(* Where a card will be when all that is under way has arrived.  Of a      *)
(* property of the card some events are good, they make it so, and some    *)
(* are bad, they may end it: it will be so if behind every bad event comes *)
(* a good one, and it is so already or a good one comes.                   *)

Has(s, good) == \E i \in 1..Len(s) : s[i] \in good
Mended(s, good, bad) == \A i \in 1..Len(s) : s[i] \in bad => \E j \in i + 1..Len(s) : s[j] \in good

WillBe(q, cards, good, bad) ==
    /\ Mended(bus, good, bad)
    /\ \A c \in linked :
          \/ Has(bus, good)
          \/ Mended(wire[c], good, bad) /\ (card[c][q] \in cards \/ Has(wire[c], good))

Of(q, kinds) == {e \in EventTypes : e.kind \in kinds /\ q \in e.of}
Omits(q) == {e \in EventTypes : e.kind = "init" /\ q \notin e.of}
Whole(kinds) == {e \in EventTypes : e.kind \in kinds}

\* An answer saved and announced will be shown as done, one that is not saved will
\* not, and one that is over will not stream.
Promises == {"done", "not done", "over"}

Promised(p, stage, kept) ==
    CASE p = "done" -> kept /\ stage \in {"told", "stored"}
      [] p = "not done" -> ~kept
      [] p = "over" -> stage \in Over

Cards(p) ==
    CASE p = "done" -> {"done"}
      [] p = "not done" -> Statuses \ {"done"}
      [] p = "over" -> Statuses \ {"cue", "live"}

Good(p, q) ==
    CASE p = "done" -> Of(q, {"done", "init"})
      [] p = "not done" -> Of(q, {"error"}) \union Whole({"cleared"}) \union Omits(q)
      [] p = "over" -> Of(q, {"retract", "done", "cancelled", "error"}) \union Whole({"cleared", "init"})

Bad(p, q) ==
    CASE p = "done" -> Of(q, {"retract", "cancelled", "error"}) \union Whole({"cleared"}) \union Omits(q)
      [] p = "not done" -> Of(q, {"done", "init"})
      [] p = "over" -> Of(q, {"cue", "start"})

\* What a clear took out of the session is not shown before the clear is told.
Due(p) == p # "not done" \/ ending # "tell"

Fulfilled(p, q) ==
    Due(p) /\ Promised(p, answer[q], q \in saved) => WillBe(q, Cards(p), Good(p, q), Bad(p, q))

ViewsFollow == \A q \in Answers \ excused, p \in Promises : Fulfilled(p, q)

\* An answer that failed is not announced behind its failure.
Never(s, first, later) ==
    \A i \in 1..Len(s) : s[i] \in first => \A j \in i + 1..Len(s) : s[j] \notin later

Fallen(q) == Of(q, {"error"})
Risen(q) == Of(q, {"done"})

StaysFailed(q) ==
    /\ Never(bus, Fallen(q), Risen(q))
    /\ \A c \in Clients :
          /\ Never(wire[c], Fallen(q), Risen(q))
          /\ card[c][q] = "error" \/ Has(wire[c], Fallen(q)) => ~Has(bus, Risen(q))
          /\ card[c][q] = "error" => ~Has(wire[c], Risen(q))

NoneRises == \A q \in Answers : StaysFailed(q)

ViewIInv == ViewTypeOK /\ NothingFalse /\ ViewsFollow /\ NoneRises

-----------------------------------------------------------------------------
(* Sequences of events.                                                    *)

LEMMA AppendEvent ==
    ASSUME NEW s \in Seq(EventTypes), NEW e \in EventTypes
    PROVE  /\ Append(s, e) \in Seq(EventTypes) /\ Len(s) \in Nat /\ Len(Append(s, e)) = Len(s) + 1
           /\ Append(s, e)[Len(s) + 1] = e /\ \A i \in 1..Len(s) : Append(s, e)[i] = s[i]
OBVIOUS

LEMMA TailEvents ==
    ASSUME NEW s \in Seq(EventTypes), s # <<>>
    PROVE  /\ Tail(s) \in Seq(EventTypes) /\ Len(s) \in Nat /\ Len(s) >= 1 /\ Len(Tail(s)) = Len(s) - 1
           /\ Head(s) = s[1] /\ Head(s) \in EventTypes
           /\ \A i \in 1..Len(Tail(s)) : Tail(s)[i] = s[i + 1]
<1>1. Len(s) \in Nat /\ Len(s) # 0 OBVIOUS
<1> QED BY <1>1, HeadTailProperties

LEMMA AppendMends ==
    ASSUME NEW s \in Seq(EventTypes), NEW e \in EventTypes, NEW good, NEW bad
    PROVE  /\ e \in good => Has(Append(s, e), good) /\ (e \notin bad => Mended(Append(s, e), good, bad))
           /\ Has(s, good) => Has(Append(s, e), good)
           /\ Mended(s, good, bad) /\ e \notin bad => Mended(Append(s, e), good, bad)
<1> DEFINE t == Append(s, e)
<1>1. /\ Len(s) \in Nat /\ Len(t) = Len(s) + 1 /\ t[Len(s) + 1] = e
      /\ \A i \in 1..Len(s) : t[i] = s[i]
  BY AppendEvent
<1> HIDE DEF t
<1>2. ASSUME e \in good PROVE Has(t, good)
  <2>1. Len(s) + 1 \in 1..Len(t) BY <1>1
  <2> QED BY <1>1, <1>2, <2>1 DEF Has
<1>3. ASSUME Has(s, good) PROVE Has(t, good)
  <2>1. PICK i \in 1..Len(s) : s[i] \in good BY <1>3 DEF Has
  <2>2. i \in 1..Len(t) /\ t[i] = s[i] BY <1>1, <2>1
  <2> QED BY <2>1, <2>2 DEF Has
<1>4. ASSUME e \notin bad, e \in good \/ Mended(s, good, bad) PROVE Mended(t, good, bad)
  <2> SUFFICES ASSUME NEW i \in 1..Len(t), t[i] \in bad PROVE \E j \in i + 1..Len(t) : t[j] \in good
    BY DEF Mended
  <2>1. i \in 1..Len(s) /\ t[i] = s[i]
    <3>1. i # Len(s) + 1 BY <1>1, <1>4
    <3> QED BY <1>1, <3>1
  <2>2. CASE e \in good
    <3>1. Len(s) + 1 \in i + 1..Len(t) BY <1>1, <2>1
    <3> QED BY <1>1, <2>2, <3>1
  <2>3. CASE Mended(s, good, bad)
    <3>1. PICK j \in i + 1..Len(s) : s[j] \in good BY <2>1, <2>3 DEF Mended
    <3>2. j \in i + 1..Len(t) /\ t[j] = s[j] BY <1>1, <2>1, <3>1
    <3> QED BY <3>1, <3>2
  <2> QED BY <1>4, <2>2, <2>3
<1> QED BY <1>2, <1>3, <1>4 DEF t

LEMMA TailMends ==
    ASSUME NEW s \in Seq(EventTypes), s # <<>>, NEW good, NEW bad
    PROVE  /\ Has(s, good) => Head(s) \in good \/ Has(Tail(s), good)
           /\ Mended(s, good, bad) => Mended(Tail(s), good, bad)
           /\ Mended(s, good, bad) /\ Head(s) \in bad => Has(Tail(s), good)
<1> DEFINE t == Tail(s)
<1>1. /\ Len(s) \in Nat /\ Len(s) >= 1 /\ Len(t) = Len(s) - 1 /\ Head(s) = s[1]
      /\ \A i \in 1..Len(t) : t[i] = s[i + 1]
  BY TailEvents
<1> HIDE DEF t
<1>2. ASSUME NEW i \in 2..Len(s) PROVE i - 1 \in 1..Len(t) /\ t[i - 1] = s[i]
  <2>1. i - 1 \in 1..Len(t) /\ (i - 1) + 1 = i BY <1>1
  <2> QED BY <1>1, <2>1
<1>3. ASSUME Has(s, good) PROVE Head(s) \in good \/ Has(t, good)
  <2>1. PICK i \in 1..Len(s) : s[i] \in good BY <1>3 DEF Has
  <2>2. CASE i = 1 BY <1>1, <2>1, <2>2
  <2>3. CASE i # 1
    <3>1. i \in 2..Len(s) BY <1>1, <2>3
    <3> QED BY <1>2, <2>1, <3>1 DEF Has
  <2> QED BY <2>2, <2>3
<1>4. ASSUME Mended(s, good, bad) PROVE Mended(t, good, bad)
  <2> SUFFICES ASSUME NEW i \in 1..Len(t), t[i] \in bad PROVE \E j \in i + 1..Len(t) : t[j] \in good
    BY DEF Mended
  <2>1. i + 1 \in 1..Len(s) /\ s[i + 1] \in bad BY <1>1
  <2>2. PICK j \in (i + 1) + 1..Len(s) : s[j] \in good BY <1>4, <2>1 DEF Mended
  <2>3. j \in 2..Len(s) /\ j - 1 \in i + 1..Len(t) BY <1>1, <2>2
  <2> QED BY <1>2, <2>2, <2>3
<1>5. ASSUME Mended(s, good, bad), Head(s) \in bad PROVE Has(t, good)
  <2>1. 1 \in 1..Len(s) BY <1>1
  <2>2. PICK j \in 1 + 1..Len(s) : s[j] \in good BY <1>1, <1>5, <2>1 DEF Mended
  <2>3. j \in 2..Len(s) BY <2>2
  <2> QED BY <1>2, <2>2, <2>3 DEF Has
<1> QED BY <1>3, <1>4, <1>5 DEF t

LEMMA EmptyMends == \A good, bad : Mended(<<>>, good, bad) /\ ~Has(<<>>, good) /\ Never(<<>>, good, bad)
BY DEF Mended, Has, Never

LEMMA AppendNever ==
    ASSUME NEW s \in Seq(EventTypes), NEW e \in EventTypes, NEW first, NEW later
    PROVE  /\ Has(Append(s, e), first) <=> Has(s, first) \/ e \in first
           /\ Never(s, first, later) /\ (e \in later => ~Has(s, first)) => Never(Append(s, e), first, later)
<1> DEFINE t == Append(s, e)
<1>1. /\ Len(s) \in Nat /\ Len(t) = Len(s) + 1 /\ t[Len(s) + 1] = e
      /\ \A i \in 1..Len(s) : t[i] = s[i]
  BY AppendEvent
<1> HIDE DEF t
<1>2. Has(s, first) \/ e \in first => Has(t, first)
  <2>1. Len(s) + 1 \in 1..Len(t) /\ \A i \in 1..Len(s) : i \in 1..Len(t) BY <1>1
  <2> QED BY <1>1, <2>1 DEF Has
<1>3. ASSUME Has(t, first), e \notin first PROVE Has(s, first)
  <2>1. PICK i \in 1..Len(t) : t[i] \in first BY <1>3 DEF Has
  <2>2. i # Len(s) + 1 BY <1>1, <1>3, <2>1
  <2>3. i \in 1..Len(s) BY <1>1, <2>2
  <2> QED BY <1>1, <2>1, <2>3 DEF Has
<1>4. ASSUME Never(s, first, later), e \in later => ~Has(s, first) PROVE Never(t, first, later)
  <2> SUFFICES ASSUME NEW i \in 1..Len(t), t[i] \in first, NEW j \in i + 1..Len(t), t[j] \in later PROVE FALSE
    BY DEF Never
  <2>1. i \in 1..Len(s) /\ t[i] = s[i] BY <1>1
  <2>2. Has(s, first) BY <2>1 DEF Has
  <2>3. j # Len(s) + 1 BY <1>1, <1>4, <2>2
  <2>4. j \in i + 1..Len(s) /\ j \in 1..Len(s) BY <1>1, <2>3
  <2>5. s[j] \in later BY <1>1, <2>4
  <2> QED BY <1>4, <2>1, <2>4, <2>5 DEF Never
<1> QED BY <1>2, <1>3, <1>4 DEF t

LEMMA TailNever ==
    ASSUME NEW s \in Seq(EventTypes), s # <<>>, NEW first, NEW later
    PROVE  /\ Has(Tail(s), first) => Has(s, first)
           /\ Head(s) \in first => Has(s, first)
           /\ Never(s, first, later) => Never(Tail(s), first, later)
           /\ Never(s, first, later) /\ Head(s) \in first => ~Has(Tail(s), later)
<1> DEFINE t == Tail(s)
<1>1. /\ Len(s) \in Nat /\ Len(s) >= 1 /\ Len(t) = Len(s) - 1 /\ Head(s) = s[1]
      /\ \A i \in 1..Len(t) : t[i] = s[i + 1]
  BY TailEvents
<1> HIDE DEF t
<1>2. \A i \in 1..Len(t) : i + 1 \in 1..Len(s) /\ i + 1 \in 1 + 1..Len(s) BY <1>1
<1>3. Has(t, first) => Has(s, first) BY <1>1, <1>2 DEF Has
<1>4. 1 \in 1..Len(s) BY <1>1
<1>5. Head(s) \in first => Has(s, first) BY <1>1, <1>4 DEF Has
<1>6. ASSUME Never(s, first, later) PROVE Never(t, first, later)
  <2> SUFFICES ASSUME NEW i \in 1..Len(t), t[i] \in first, NEW j \in i + 1..Len(t), t[j] \in later PROVE FALSE
    BY DEF Never
  <2>1. /\ i + 1 \in 1..Len(s) /\ s[i + 1] \in first
        /\ j + 1 \in (i + 1) + 1..Len(s) /\ j \in 1..Len(t)
    BY <1>1
  <2>2. s[j + 1] \in later BY <1>1, <2>1
  <2> QED BY <1>6, <2>1, <2>2 DEF Never
<1>7. ASSUME Never(s, first, later), Head(s) \in first, Has(t, later) PROVE FALSE
  <2>1. PICK i \in 1..Len(t) : t[i] \in later BY <1>7 DEF Has
  <2>2. i + 1 \in 1 + 1..Len(s) /\ s[i + 1] \in later BY <1>1, <1>2, <2>1
  <2> QED BY <1>1, <1>4, <1>7, <2>2 DEF Never
<1> QED BY <1>3, <1>5, <1>6, <1>7 DEF t

\* The parts of the two that speak of one set.
LEMMA AppendHas ==
    ASSUME NEW s \in Seq(EventTypes), NEW e \in EventTypes, NEW good
    PROVE  Has(Append(s, e), good) <=> Has(s, good) \/ e \in good
BY AppendNever

LEMMA TailHas ==
    ASSUME NEW s \in Seq(EventTypes), s # <<>>, NEW good
    PROVE  (Has(Tail(s), good) => Has(s, good)) /\ (Head(s) \in good => Has(s, good))
BY TailNever

-----------------------------------------------------------------------------
(* What one action does to what will be shown.                             *)

LEMMA StillWillBe ==
    ASSUME NEW q, NEW cards, NEW good, NEW bad, UNCHANGED <<bus, linked, wire, card>>
    PROVE  WillBe(q, cards, good, bad) => WillBe(q, cards, good, bad)'
BY DEF WillBe

LEMMA PostWillBe ==
    ASSUME ViewTypeOK, NEW q, NEW cards, NEW good, NEW bad, NEW e \in EventTypes,
           bus' = Append(bus, e), UNCHANGED <<linked, wire, card>>, e \notin bad,
           e \in good \/ WillBe(q, cards, good, bad)
    PROVE  WillBe(q, cards, good, bad)'
<1>1. bus \in Seq(EventTypes) BY DEF ViewTypeOK
<1>2. ASSUME e \in good PROVE Has(bus', good) /\ Mended(bus', good, bad) BY <1>1, <1>2, AppendMends
<1>3. CASE e \in good BY <1>2, <1>3 DEF WillBe
<1>4. CASE WillBe(q, cards, good, bad)
  <2>1. Mended(bus', good, bad) /\ (Has(bus, good) => Has(bus', good))
    BY <1>1, <1>4, AppendMends DEF WillBe
  <2> QED BY <1>4, <2>1 DEF WillBe
<1> QED BY <1>3, <1>4

LEMMA ConnectWillBe ==
    ASSUME ViewTypeOK, NEW c \in Clients, Connect(c), NEW q, NEW cards, NEW good, NEW bad,
           Event("init", saved) \in good, Event("init", saved) \notin bad,
           WillBe(q, cards, good, bad)
    PROVE  WillBe(q, cards, good, bad)'
<1> DEFINE s == <<Event("init", saved)>>
<1>1. /\ linked' = linked \union {c} /\ wire' = [wire EXCEPT ![c] = s]
      /\ UNCHANGED <<bus, card>> /\ wire \in [Clients -> Seq(EventTypes)]
  BY DEF Connect, ViewTypeOK
<1>2. Len(s) = 1 /\ s[1] \in good /\ s[1] \notin bad OBVIOUS
<1>3. Has(s, good) /\ Mended(s, good, bad)
  <2> HIDE DEF s
  <2> QED BY <1>2 DEF Has, Mended
<1> HIDE DEF s
<1>4. \A d \in linked' : IF d = c THEN wire'[d] = s ELSE d \in linked /\ wire'[d] = wire[d]
  <2>1. linked \subseteq Clients BY DEF ViewTypeOK
  <2>2. \A d \in Clients : wire'[d] = IF d = c THEN s ELSE wire[d] BY <1>1
  <2> QED BY <1>1, <2>1, <2>2
<1> QED BY <1>1, <1>3, <1>4 DEF WillBe

LEMMA BreakWillBe ==
    ASSUME ViewTypeOK, NEW c \in Clients, Break(c), NEW q, NEW cards, NEW good, NEW bad,
           WillBe(q, cards, good, bad)
    PROVE  WillBe(q, cards, good, bad)'
<1>1. linked \subseteq Clients /\ wire \in [Clients -> Seq(EventTypes)] BY DEF ViewTypeOK
<1>2. linked' = linked \ {c} /\ wire' = [wire EXCEPT ![c] = <<>>] /\ UNCHANGED <<bus, card>> BY DEF Break
<1>3. \A d \in linked' : d \in linked /\ wire'[d] = wire[d] BY <1>1, <1>2
<1> QED BY <1>2, <1>3 DEF WillBe

LEMMA DispatchWillBe ==
    ASSUME ViewTypeOK, Dispatch, NEW q, NEW cards, NEW good, NEW bad,
           WillBe(q, cards, good, bad)
    PROVE  WillBe(q, cards, good, bad)'
<1> DEFINE h == Head(bus)
<1>1. bus \in Seq(EventTypes) /\ linked \subseteq Clients /\ wire \in [Clients -> Seq(EventTypes)] BY DEF ViewTypeOK
<1>2. bus # <<>> /\ bus' = Tail(bus) /\ UNCHANGED <<linked, card>> BY DEF Dispatch
<1>3. \A d \in linked : wire'[d] = Append(wire[d], h) BY <1>1 DEF Dispatch
<1>4. h \in EventTypes BY <1>1, <1>2, TailEvents
<1>5. /\ Has(bus, good) => h \in good \/ Has(bus', good)
      /\ Mended(bus', good, bad)
      /\ h \in bad => Has(bus', good)
  BY <1>1, <1>2, TailMends DEF WillBe
<1> HIDE DEF h
<1>6. ASSUME NEW d \in linked, ~Has(bus', good)
      PROVE  /\ Mended(wire'[d], good, bad) /\ (card[d][q] \in cards \/ Has(wire'[d], good))
  <2>1. wire[d] \in Seq(EventTypes) /\ wire'[d] = Append(wire[d], h) BY <1>1, <1>3
  <2>2. h \notin bad BY <1>5, <1>6
  <2>3. CASE h \in good BY <1>4, <2>1, <2>2, <2>3, AppendMends
  <2>4. CASE h \notin good
    <3>1. ~Has(bus, good) BY <1>5, <1>6, <2>4
    <3>2. Mended(wire[d], good, bad) /\ (card[d][q] \in cards \/ Has(wire[d], good)) BY <3>1 DEF WillBe
    <3> QED BY <1>4, <2>1, <2>2, <3>2, AppendMends
  <2> QED BY <2>3, <2>4
<1> QED BY <1>2, <1>5, <1>6 DEF WillBe

LEMMA HandleWillBe ==
    ASSUME ViewTypeOK, NEW c \in Clients, HandleMessage(c), NEW q \in Answers, NEW cards, NEW good, NEW bad,
           Head(wire[c]) \in good => Shown(Head(wire[c]), q, card[c][q]) \in cards,
           Head(wire[c]) \notin bad /\ card[c][q] \in cards => Shown(Head(wire[c]), q, card[c][q]) \in cards,
           WillBe(q, cards, good, bad)
    PROVE  WillBe(q, cards, good, bad)'
<1> DEFINE h == Head(wire[c])  to == Shown(h, q, card[c][q])
<1>1. /\ wire[c] \in Seq(EventTypes) /\ wire \in [Clients -> Seq(EventTypes)]
      /\ card \in [Clients -> [Answers -> Statuses]] /\ linked \subseteq Clients
  BY DEF ViewTypeOK, Statuses
<1>2. /\ wire[c] # <<>> /\ UNCHANGED <<bus, linked>> /\ wire'[c] = Tail(wire[c]) /\ card'[c][q] = to
      /\ \A d \in Clients \ {c} : wire'[d] = wire[d] /\ card'[d] = card[d]
  BY <1>1 DEF HandleMessage
<1>3. /\ Has(wire[c], good) => h \in good \/ Has(wire'[c], good)
      /\ Mended(wire[c], good, bad) => Mended(wire'[c], good, bad)
      /\ Mended(wire[c], good, bad) /\ h \in bad => Has(wire'[c], good)
  BY <1>1, <1>2, TailMends
<1>4. (h \in good => to \in cards) /\ (h \notin bad /\ card[c][q] \in cards => to \in cards) OBVIOUS
<1> HIDE DEF h, to
<1>5. ASSUME c \in linked, ~Has(bus, good)
      PROVE  Mended(wire'[c], good, bad) /\ (card'[c][q] \in cards \/ Has(wire'[c], good))
  <2>1. Mended(wire[c], good, bad) /\ (card[c][q] \in cards \/ Has(wire[c], good)) BY <1>5 DEF WillBe
  <2> QED BY <1>2, <1>3, <1>4, <2>1
<1>6. \A d \in linked \ {c} : wire'[d] = wire[d] /\ card'[d] = card[d] BY <1>1, <1>2
<1> QED BY <1>2, <1>5, <1>6 DEF WillBe

-----------------------------------------------------------------------------
(* What each kind of step does to the answers.                             *)

Spoken == {<<"none", "cued", "cue">>, <<"cued", "retracted", "retract">>,
           <<"starting", "live", "start">>, <<"live", "live", "chunk">>,
           <<"live", "cancelled", "cancelled">>, <<"live", "failed", "error">>,
           <<"saving", "told", "done">>, <<"saving", "failed", "error">>,
           <<"told", "failed", "error">>}
Hushed == {<<"none", "pending">>, <<"cued", "pending">>, <<"pending", "orphan">>,
           <<"pending", "starting">>, <<"live", "ready">>, <<"ready", "saving">>,
           <<"told", "stored">>}
Storing == {"saving", "told"}

Speaks(q, from, to, kind) ==
    /\ answer[q] = from /\ answer' = [answer EXCEPT ![q] = to]
    /\ Broadcast(Event(kind, {q}))
    /\ saved' = IF from \in Storing /\ to = "failed" THEN saved \ {q} ELSE saved

Hushes(q, from, to) ==
    /\ answer[q] = from /\ answer' = [answer EXCEPT ![q] = to]
    /\ UNCHANGED bus
    /\ saved' = IF to = "saving" THEN saved \union {q} ELSE saved
    /\ excused' = IF to = "saving" /\ ending = "tell" THEN excused \union {q} ELSE excused

LEMMA AdvanceKinds ==
    ASSUME ViewTypeOK, NEW q \in Answers, Advance(q)
    PROVE  /\ UNCHANGED <<clientVars, stale, ending, ends>> /\ chunks' \in [Answers -> 0..MaxChunks]
           /\ \/ \E s \in Spoken : Speaks(q, s[1], s[2], s[3])
              \/ \E s \in Hushed : Hushes(q, s[1], s[2])
<1> USE DEF Says, Silently, Moves
<1>1. chunks \in [Answers -> 0..MaxChunks] /\ MaxChunks \in Nat BY ViewAssumption DEF ViewTypeOK
<1>2. chunks' \in [Answers -> 0..MaxChunks]
  <2>1. CASE Chunk(q)
    <3>1. chunks[q] < MaxChunks /\ chunks' = [chunks EXCEPT ![q] = chunks[q] + 1] BY <2>1 DEF Chunk
    <3>2. chunks[q] + 1 \in 0..MaxChunks BY <1>1, <3>1
    <3> QED BY <1>1, <3>1, <3>2
  <2>2. CASE ~Chunk(q)
    <3>1. UNCHANGED chunks
      BY <2>2 DEF Advance, Cue, Retract, Ask, Admit, Start, Abort, GenerationFails,
         Generated, Save, Announce, Stored, SaveFails
    <3> QED BY <1>1, <3>1
  <2> QED BY <2>1, <2>2
<1>3. UNCHANGED <<clientVars, stale, ending, ends>>
  BY DEF Advance, Cue, Retract, Ask, Admit, Start, Chunk, Abort, GenerationFails,
     Generated, Save, Announce, Stored, SaveFails
<1>5. CASE Cue(q)
  <2>1. Speaks(q, "none", "cued", "cue") BY <1>5 DEF Cue, Speaks, Storing
  <2> QED BY <1>2, <1>3, <2>1 DEF Spoken
<1>6. CASE Retract(q)
  <2>1. Speaks(q, "cued", "retracted", "retract") BY <1>6 DEF Retract, Speaks, Storing
  <2> QED BY <1>2, <1>3, <2>1 DEF Spoken
<1>7. CASE Ask(q)
  <2>1. PICK from \in {"none", "cued"} : Hushes(q, from, "pending") BY <1>7 DEF Ask, Hushes
  <2> QED BY <1>2, <1>3, <2>1 DEF Hushed
<1>8. CASE Admit(q)
  <2>1. \E to \in {"orphan", "starting"} : Hushes(q, "pending", to) BY <1>8 DEF Admit, Hushes
  <2> QED BY <1>2, <1>3, <2>1 DEF Hushed
<1>9. CASE Start(q)
  <2>1. Speaks(q, "starting", "live", "start") BY <1>9 DEF Start, Speaks, Storing
  <2> QED BY <1>2, <1>3, <2>1 DEF Spoken
<1>10. CASE Chunk(q)
  <2>1. Speaks(q, "live", "live", "chunk") BY <1>10 DEF Chunk, Speaks, Storing
  <2> QED BY <1>2, <1>3, <2>1 DEF Spoken
<1>11. CASE Abort(q)
  <2>1. Speaks(q, "live", "cancelled", "cancelled") BY <1>11 DEF Abort, Speaks, Storing
  <2> QED BY <1>2, <1>3, <2>1 DEF Spoken
<1>12. CASE GenerationFails(q)
  <2>1. Speaks(q, "live", "failed", "error") BY <1>12 DEF GenerationFails, Speaks, Storing
  <2> QED BY <1>2, <1>3, <2>1 DEF Spoken
<1>13. CASE Generated(q)
  <2>1. Hushes(q, "live", "ready") BY <1>13 DEF Generated, Hushes
  <2> QED BY <1>2, <1>3, <2>1 DEF Hushed
<1>14. CASE Save(q)
  <2>1. Hushes(q, "ready", "saving") BY <1>14 DEF Save, Hushes
  <2> QED BY <1>2, <1>3, <2>1 DEF Hushed
<1>15. CASE Announce(q)
  <2>1. Speaks(q, "saving", "told", "done") BY <1>15 DEF Announce, Speaks, Storing
  <2> QED BY <1>2, <1>3, <2>1 DEF Spoken
<1>16. CASE SaveFails(q)
  <2>1. \E from \in Storing : Speaks(q, from, "failed", "error") BY <1>16 DEF SaveFails, Speaks, Storing
  <2> QED BY <1>2, <1>3, <2>1 DEF Spoken, Storing
<1>17. CASE Stored(q)
  <2>1. Hushes(q, "told", "stored") BY <1>17 DEF Stored, Hushes
  <2> QED BY <1>2, <1>3, <2>1 DEF Hushed
<1> QED BY <1>5, <1>6, <1>7, <1>8, <1>9, <1>10, <1>11, <1>12, <1>13, <1>14, <1>15, <1>16, <1>17 DEF Advance

\* An event broadcast is queued, or dropped and its answers are written down.
LEMMA BroadcastLeaves ==
    ASSUME ViewTypeOK, NEW e \in EventTypes, Broadcast(e)
    PROVE  /\ bus' \in Seq(EventTypes) /\ Len(bus') <= BusSize /\ excused' \subseteq Answers
           /\ excused \subseteq excused'
           /\ \/ bus' = Append(bus, e)
              \/ bus' = bus /\ e.of \subseteq excused'
<1>1. bus \in Seq(EventTypes) /\ Len(bus) <= BusSize /\ excused \subseteq Answers /\ BusSize \in Nat
  BY ViewAssumption DEF ViewTypeOK
<1>2. e.of \subseteq Answers BY DEF EventTypes
<1>3. CASE Len(bus) < BusSize
  <2>1. bus' = Append(bus, e) /\ excused' = excused BY <1>3 DEF Broadcast
  <2>2. bus' \in Seq(EventTypes) /\ Len(bus') = Len(bus) + 1 /\ Len(bus) \in Nat BY <1>1, <2>1, AppendEvent
  <2> QED BY <1>1, <1>3, <2>1, <2>2
<1>4. CASE ~(Len(bus) < BusSize)
  <2>1. bus' = bus /\ excused' = excused \union e.of BY <1>4 DEF Broadcast
  <2> QED BY <1>1, <1>2, <2>1
<1> QED BY <1>3, <1>4

LEMMA EventTyped ==
    ASSUME NEW kind \in EventKinds, NEW qs \in SUBSET Answers
    PROVE  Event(kind, qs) \in EventTypes /\ Event(kind, qs).kind = kind /\ Event(kind, qs).of = qs
BY DEF Event, EventTypes

LEMMA ForgetLeaves ==
    ASSUME ViewTypeOK, ForgetCommits
    PROVE  /\ \A q \in Answers : answer[q] \notin Storing
           /\ \A q \in Answers : answer'[q] = answer[q] \/ (answer[q] = "ready" /\ answer'[q] = "orphan")
           /\ answer' \in [Answers -> Stages] /\ ending \in {"ask", "clear"} /\ ending' \in {"no", "empty"}
           /\ UNCHANGED <<chunks, stale, saved, bus, excused, clientVars, ends>>
<1>1. answer \in [Answers -> Stages] BY DEF ViewTypeOK, Stages
<1>2. \A q \in Answers : answer[q] \notin Storing BY DEF ForgetCommits, Committing, InCommit, Storing
<1>3. PICK lost \in SUBSET {q \in Answers : answer[q] = "ready"} :
         answer' = [q \in Answers |-> IF q \in lost THEN "orphan" ELSE answer[q]]
  BY DEF ForgetCommits
<1>4. answer' \in [Answers -> Stages] BY <1>1, <1>3 DEF Stages
<1>5. \A q \in Answers : answer'[q] = answer[q] \/ (answer[q] = "ready" /\ answer'[q] = "orphan") BY <1>3
<1>6. /\ ending \in {"ask", "clear"} /\ ending' \in {"no", "empty"}
      /\ UNCHANGED <<chunks, stale, saved, bus, excused, clientVars, ends>>
  BY DEF ForgetCommits
<1> QED BY <1>2, <1>4, <1>5, <1>6

\* What a step of an answer leaves behind.
LEMMA SpeaksLeaves ==
    ASSUME ViewTypeOK, NEW q \in Answers, NEW s \in Spoken, Speaks(q, s[1], s[2], s[3])
    PROVE  /\ answer' \in [Answers -> Stages] /\ saved' \subseteq Answers
           /\ answer[q] = s[1] /\ answer'[q] = s[2] /\ s[3] \in EventKinds
           /\ \A x \in Answers \ {q} : answer'[x] = answer[x] /\ (x \in saved' <=> x \in saved)
           /\ IF s[1] \in Storing /\ s[2] = "failed" THEN q \notin saved' ELSE saved' = saved
           /\ Event(s[3], {q}) \in EventTypes /\ Broadcast(Event(s[3], {q}))
<1>1. answer \in [Answers -> Stages] /\ saved \subseteq Answers BY DEF ViewTypeOK, Stages
<1>2. s[3] \in EventKinds /\ s[2] \in Stages BY DEF Spoken, EventKinds, Stages
<1>3. Event(s[3], {q}) \in EventTypes BY <1>2, EventTyped
<1> QED BY <1>1, <1>2, <1>3 DEF Speaks

LEMMA HushesLeaves ==
    ASSUME ViewTypeOK, NEW q \in Answers, NEW s \in Hushed, Hushes(q, s[1], s[2])
    PROVE  /\ answer' \in [Answers -> Stages] /\ saved' \subseteq Answers
           /\ answer[q] = s[1] /\ answer'[q] = s[2] /\ UNCHANGED bus
           /\ excused' \subseteq Answers /\ excused \subseteq excused' /\ excused' \subseteq excused \union {q}
           /\ s[2] = "saving" /\ ending = "tell" => q \in excused'
           /\ \A x \in Answers \ {q} : answer'[x] = answer[x] /\ (x \in saved' <=> x \in saved)
           /\ IF s[2] = "saving" THEN q \in saved' ELSE saved' = saved
<1>1. answer \in [Answers -> Stages] /\ saved \subseteq Answers /\ excused \subseteq Answers BY DEF ViewTypeOK, Stages
<1>2. s[2] \in Stages BY DEF Hushed, Stages
<1> QED BY <1>1, <1>2 DEF Hushes

\* And what a message handled leaves.
LEMMA HandleLeaves ==
    ASSUME ViewTypeOK, NEW c \in Clients, HandleMessage(c)
    PROVE  /\ wire[c] # <<>> /\ wire[c] \in Seq(EventTypes) /\ Head(wire[c]) \in EventTypes
           /\ wire' \in [Clients -> Seq(EventTypes)] /\ wire'[c] = Tail(wire[c])
           /\ Len(wire'[c]) <= WireSize
           /\ card' \in [Clients -> [Answers -> Statuses]]
           /\ \A q \in Answers : card'[c][q] = Shown(Head(wire[c]), q, card[c][q])
           /\ \A d \in Clients \ {c} : wire'[d] = wire[d] /\ card'[d] = card[d]
           /\ buffer' \in [Clients -> SUBSET Answers]
           /\ UNCHANGED <<answer, chunks, stale, saved, ending, bus, excused, linked, ends>>
<1> DEFINE e == Head(wire[c])
<1>1. /\ wire \in [Clients -> Seq(EventTypes)] /\ \A d \in Clients : Len(wire[d]) <= WireSize
      /\ card \in [Clients -> [Answers -> Statuses]] /\ buffer \in [Clients -> SUBSET Answers]
  BY DEF ViewTypeOK, Statuses
<1>2. /\ wire[c] # <<>> /\ wire' = [wire EXCEPT ![c] = Tail(wire[c])]
      /\ card' = [card EXCEPT ![c] = [q \in Answers |-> Shown(e, q, card[c][q])]]
      /\ buffer' = [buffer EXCEPT ![c] = Buffered(e, buffer[c])]
      /\ UNCHANGED <<answer, chunks, stale, saved, ending, bus, excused, linked, ends>>
  BY DEF HandleMessage, serverVars
<1>3. /\ e \in EventTypes /\ Tail(wire[c]) \in Seq(EventTypes) /\ Len(Tail(wire[c])) = Len(wire[c]) - 1
      /\ Len(wire[c]) \in Nat
  BY <1>1, <1>2, TailEvents
<1>4. Len(Tail(wire[c])) <= WireSize BY <1>1, <1>3, ViewAssumption
<1> HIDE DEF e
<1>5. \A q \in Answers : Shown(e, q, card[c][q]) \in Statuses
  <2> SUFFICES ASSUME NEW q \in Answers PROVE Shown(e, q, card[c][q]) \in Statuses OBVIOUS
  <2>1. card[c][q] \in Statuses /\ e.kind \in EventKinds BY <1>1, <1>3 DEF EventTypes
  <2> QED BY <2>1 DEF Shown, Told, Statuses, Settled, EventKinds
<1>6. Buffered(e, buffer[c]) \in SUBSET Answers
  <2>1. buffer[c] \subseteq Answers /\ e.of \subseteq Answers BY <1>1, <1>3 DEF EventTypes
  <2> QED BY <2>1 DEF Buffered
<1>7. [q \in Answers |-> Shown(e, q, card[c][q])] \in [Answers -> Statuses] BY <1>5
<1>8. card' \in [Clients -> [Answers -> Statuses]] BY <1>1, <1>2, <1>7
<1>9. buffer' \in [Clients -> SUBSET Answers] BY <1>1, <1>2, <1>6
<1>10. wire' \in [Clients -> Seq(EventTypes)] /\ wire'[c] = Tail(wire[c]) BY <1>1, <1>2, <1>3
<1>11. \A d \in Clients \ {c} : wire'[d] = wire[d] /\ card'[d] = card[d] BY <1>1, <1>2
<1>12. \A q \in Answers : card'[c][q] = Shown(e, q, card[c][q]) BY <1>1, <1>2
<1> QED BY <1>1, <1>2, <1>3, <1>4, <1>8, <1>9, <1>10, <1>11, <1>12 DEF e

-----------------------------------------------------------------------------
(* Each part of the invariant holds at first and is kept by every step.    *)

LEMMA ViewStart == ViewInit => ViewIInv
<1> SUFFICES ASSUME ViewInit PROVE ViewIInv OBVIOUS
<1>1. /\ \A q \in Answers : answer[q] = "none" /\ q \notin saved
      /\ bus = <<>> /\ linked = {} /\ \A c \in Clients : wire[c] = <<>>
      /\ \A c \in Clients, q \in Answers : card[c][q] = "none"
  BY DEF ViewInit, NoCards
<1>2. ViewTypeOK
  <2>1. <<>> \in Seq(EventTypes) /\ Len(<<>>) = 0 OBVIOUS
  <2>2. 0 <= BusSize /\ 0 <= WireSize /\ 0 \in 0..MaxChunks /\ 0 \in 0..MaxEnds BY ViewAssumption
  <2>3. wire \in [Clients -> Seq(EventTypes)] /\ buffer \in [Clients -> SUBSET Answers] BY <2>1 DEF ViewInit
  <2>4. answer \in [Answers -> Stages] /\ chunks \in [Answers -> 0..MaxChunks] BY <2>2 DEF ViewInit, Stages
  <2>5. NoCards \in [Answers -> Statuses] BY DEF NoCards, Statuses
  <2>6. card \in [Clients -> [Answers -> Statuses]] BY <2>5 DEF ViewInit
  <2>7. /\ stale = {} /\ saved = {} /\ excused = {} /\ ending = "no" /\ ends = 0 BY DEF ViewInit
  <2> QED BY <1>1, <2>1, <2>2, <2>3, <2>4, <2>6, <2>7 DEF ViewTypeOK, Stages, Statuses
<1>3. NothingFalse
  <2>1. Len(bus) = 0 /\ \A c \in Clients : Len(wire[c]) = 0 BY <1>1
  <2>2. \A c \in Clients, q \in Answers : Likely(card[c][q], answer[q]) BY <1>1 DEF Likely
  <2> QED BY <1>1, <2>1, <2>2 DEF NothingFalse, Accounted
<1>4. ViewsFollow BY <1>1, EmptyMends DEF ViewsFollow, Fulfilled, WillBe
<1>5. NoneRises BY <1>1, EmptyMends DEF NoneRises, StaysFailed
<1> QED BY <1>2, <1>3, <1>4, <1>5 DEF ViewIInv

LEMMA TypesStep == ViewTypeOK /\ ViewNext => ViewTypeOK'
<1> SUFFICES ASSUME ViewTypeOK, ViewNext PROVE ViewTypeOK' OBVIOUS
<1>0. /\ answer \in [Answers -> Stages] /\ chunks \in [Answers -> 0..MaxChunks]
      /\ stale \subseteq Answers /\ saved \subseteq Answers /\ excused \subseteq Answers
      /\ ending \in Endings /\ bus \in Seq(EventTypes) /\ Len(bus) <= BusSize
      /\ linked \subseteq Clients /\ wire \in [Clients -> Seq(EventTypes)]
      /\ \A c \in Clients : Len(wire[c]) <= WireSize
      /\ card \in [Clients -> [Answers -> Statuses]] /\ buffer \in [Clients -> SUBSET Answers]
      /\ ends \in 0..MaxEnds
  BY DEF ViewTypeOK, Stages, Statuses, Endings
<1> DEFINE Kept1 == answer' \in [Answers -> Stages] /\ chunks' \in [Answers -> 0..MaxChunks]
                    /\ stale' \subseteq Answers /\ saved' \subseteq Answers /\ ending' \in Endings
           Kept2 == bus' \in Seq(EventTypes) /\ Len(bus') <= BusSize /\ excused' \subseteq Answers
           Kept3 == linked' \subseteq Clients /\ wire' \in [Clients -> Seq(EventTypes)]
                    /\ (\A c \in Clients : Len(wire'[c]) <= WireSize)
                    /\ card' \in [Clients -> [Answers -> Statuses]] /\ buffer' \in [Clients -> SUBSET Answers]
                    /\ ends' \in 0..MaxEnds
<1> SUFFICES Kept1 /\ Kept2 /\ Kept3 BY DEF ViewTypeOK, Stages, Statuses, Endings
<1>a. UNCHANGED serverVars => Kept1 BY <1>0 DEF serverVars
<1>b. UNCHANGED <<bus, excused>> => Kept2 BY <1>0
<1>c. UNCHANGED <<clientVars, ends>> => Kept3 BY <1>0 DEF clientVars
<1>d. \A e \in EventTypes : Broadcast(e) => Kept2 BY BroadcastLeaves
<1>e. ASSUME End PROVE ends' \in 0..MaxEnds
  <2>1. ends \in Nat /\ ends < MaxEnds /\ ends' = ends + 1 BY <1>0, <1>e, ViewAssumption DEF End
  <2> QED BY <2>1, ViewAssumption
<1>1. ASSUME NEW q \in Answers, Advance(q) PROVE Kept1 /\ Kept2 /\ Kept3
  <2>1. Kept3 /\ stale' = stale /\ ending' = ending /\ chunks' \in [Answers -> 0..MaxChunks] BY <1>1, <1>c, AdvanceKinds
  <2>2. CASE \E s \in Spoken : Speaks(q, s[1], s[2], s[3])
    <3>1. PICK s \in Spoken : Speaks(q, s[1], s[2], s[3]) BY <2>2
    <3>2. /\ answer' \in [Answers -> Stages] /\ saved' \subseteq Answers
          /\ Event(s[3], {q}) \in EventTypes /\ Broadcast(Event(s[3], {q}))
      BY <3>1, SpeaksLeaves
    <3> QED BY <1>0, <1>d, <2>1, <3>2
  <2>3. CASE \E s \in Hushed : Hushes(q, s[1], s[2])
    <3>1. PICK s \in Hushed : Hushes(q, s[1], s[2]) BY <2>3
    <3>2. /\ answer' \in [Answers -> Stages] /\ saved' \subseteq Answers /\ excused' \subseteq Answers
          /\ UNCHANGED bus
      BY <3>1, HushesLeaves
    <3> QED BY <1>0, <2>1, <3>2
  <2> QED BY <1>1, <2>2, <2>3, AdvanceKinds
<1>2. ASSUME NEW kind \in {"ask", "clear"}, CancelWork(kind) PROVE Kept1 /\ Kept2 /\ Kept3
  <2>1. Kept2 BY <1>2, <1>b DEF CancelWork
  <2>2. Kept3 BY <1>0, <1>2, <1>e DEF CancelWork, clientVars
  <2>3. stale' \subseteq Answers BY <1>0, <1>2 DEF CancelWork, Underway, InCommit
  <2> QED BY <1>0, <1>2, <2>1, <2>2, <2>3 DEF CancelWork, Endings
<1>3. ASSUME ForgetCommits PROVE Kept1 /\ Kept2 /\ Kept3
  BY <1>0, <1>3, <1>b, <1>c, ForgetLeaves DEF Endings
<1>9. ASSUME EmptySession PROVE Kept1 /\ Kept2 /\ Kept3
  <2>1. Kept1 BY <1>0, <1>9 DEF EmptySession, Endings
  <2>2. Kept2 BY <1>0, <1>9 DEF EmptySession, InCommit
  <2>3. Kept3 BY <1>9, <1>c DEF EmptySession
  <2> QED BY <2>1, <2>2, <2>3
<1>10. ASSUME TellCleared PROVE Kept1 /\ Kept2 /\ Kept3
  <2>1. Answers \in SUBSET Answers /\ "cleared" \in EventKinds BY DEF EventKinds
  <2>2. Event("cleared", Answers) \in EventTypes BY <2>1, EventTyped
  <2>3. Kept2 BY <1>10, <1>d, <2>2 DEF TellCleared
  <2>4. Kept3 BY <1>10, <1>c DEF TellCleared
  <2>5. Kept1 BY <1>0, <1>10 DEF TellCleared, Endings
  <2> QED BY <2>3, <2>4, <2>5
<1>4. ASSUME Dispatch PROVE Kept1 /\ Kept2 /\ Kept3
  <2>1. /\ bus # <<>> /\ bus' = Tail(bus) /\ \A c \in linked : Len(wire[c]) < WireSize
        /\ wire' = [c \in Clients |-> IF c \in linked THEN Append(wire[c], Head(bus)) ELSE wire[c]]
        /\ UNCHANGED <<serverVars, excused, linked, card, buffer, ends>>
    BY <1>4 DEF Dispatch
  <2>2. Tail(bus) \in Seq(EventTypes) /\ Head(bus) \in EventTypes /\ Len(bus) \in Nat /\ Len(Tail(bus)) = Len(bus) - 1
    BY <1>0, <2>1, TailEvents
  <2>3. Kept2 BY <1>0, <2>1, <2>2, ViewAssumption
  <2>4. ASSUME NEW c \in Clients PROVE wire'[c] \in Seq(EventTypes) /\ Len(wire'[c]) <= WireSize
    <3>1. wire[c] \in Seq(EventTypes) /\ Len(wire[c]) \in Nat /\ Len(wire[c]) <= WireSize BY <1>0
    <3>2. CASE c \in linked
      <4>1. wire'[c] = Append(wire[c], Head(bus)) BY <2>1, <3>2
      <4>2. wire'[c] \in Seq(EventTypes) /\ Len(wire'[c]) = Len(wire[c]) + 1 BY <2>2, <3>1, <4>1, AppendEvent
      <4> QED BY <2>1, <3>1, <3>2, <4>2, ViewAssumption
    <3>3. CASE c \notin linked BY <2>1, <3>1, <3>3
    <3> QED BY <3>2, <3>3
  <2>5. wire' \in [Clients -> Seq(EventTypes)] BY <2>1, <2>4
  <2> QED BY <1>0, <1>a, <2>1, <2>3, <2>4, <2>5
<1>5. ASSUME NEW c \in Clients, Connect(c) PROVE Kept1 /\ Kept2 /\ Kept3
  <2>1. Event("init", saved) \in EventTypes BY <1>0, EventTyped DEF EventKinds
  <2>2. <<Event("init", saved)>> \in Seq(EventTypes) /\ Len(<<Event("init", saved)>>) = 1 BY <2>1
  <2>3. /\ linked' = linked \union {c} /\ wire' = [wire EXCEPT ![c] = <<Event("init", saved)>>]
        /\ UNCHANGED <<serverVars, bus, excused, card, buffer, ends>>
    BY <1>5 DEF Connect
  <2>4. wire' \in [Clients -> Seq(EventTypes)] BY <1>0, <2>2, <2>3
  <2>5. \A d \in Clients : Len(wire'[d]) <= WireSize BY <1>0, <2>2, <2>3, ViewAssumption
  <2> QED BY <1>0, <1>a, <1>b, <2>3, <2>4, <2>5
<1>6. ASSUME NEW c \in Clients, Break(c) PROVE Kept1 /\ Kept2 /\ Kept3
  <2>1. /\ linked' = linked \ {c} /\ wire' = [wire EXCEPT ![c] = <<>>]
        /\ UNCHANGED <<serverVars, bus, excused, card, buffer>> /\ ends' \in 0..MaxEnds
    BY <1>6, <1>e DEF Break
  <2>2. <<>> \in Seq(EventTypes) /\ Len(<<>>) = 0 OBVIOUS
  <2>3. wire' \in [Clients -> Seq(EventTypes)] /\ \A d \in Clients : Len(wire'[d]) <= WireSize
    BY <1>0, <2>1, <2>2, ViewAssumption
  <2> QED BY <1>0, <1>a, <1>b, <2>1, <2>3
<1>7. ASSUME NEW c \in Clients, HandleMessage(c) PROVE Kept1 /\ Kept2 /\ Kept3
  <2>1. \A d \in Clients : Len(wire'[d]) <= WireSize BY <1>0, <1>7, HandleLeaves
  <2>2. /\ UNCHANGED <<answer, chunks, stale, saved, ending, bus, excused, linked, ends>>
        /\ wire' \in [Clients -> Seq(EventTypes)] /\ card' \in [Clients -> [Answers -> Statuses]]
        /\ buffer' \in [Clients -> SUBSET Answers]
    BY <1>7, HandleLeaves
  <2> QED BY <1>0, <2>1, <2>2
<1>8. ASSUME NEW c \in Clients, FlushChunks(c) PROVE Kept1 /\ Kept2 /\ Kept3
  <2>1. buffer' \in [Clients -> SUBSET Answers] BY <1>0, <1>8 DEF FlushChunks
  <2> QED BY <1>0, <1>8, <1>a, <1>b, <2>1 DEF FlushChunks
<1> QED BY <1>1, <1>2, <1>3, <1>4, <1>5, <1>6, <1>7, <1>8, <1>9, <1>10 DEF ViewNext

-----------------------------------------------------------------------------
(* The stages an answer goes through end nothing that was told of it.      *)

Follows(was, is) ==
    \/ was = is
    \/ <<was, is>> \in {<<"none", "cued">>, <<"none", "pending">>, <<"cued", "pending">>,
                        <<"cued", "retracted">>, <<"pending", "orphan">>, <<"pending", "starting">>,
                        <<"starting", "live">>, <<"live", "ready">>, <<"live", "cancelled">>,
                        <<"live", "failed">>, <<"ready", "saving">>, <<"ready", "orphan">>,
                        <<"saving", "told">>, <<"saving", "failed">>, <<"told", "stored">>,
                        <<"told", "failed">>}

LEMMA ToldLasts ==
    ASSUME NEW was \in Stages, NEW is \in Stages, Follows(was, is)
    PROVE  /\ \A kind \in EventKinds : Tells(kind, was) => Tells(kind, is)
           /\ \A status \in Statuses : Likely(status, was) => Likely(status, is)
<1>1. /\ was # "none" => is # "none"
      /\ was \in Begun => is \in Begun
      /\ was \in Kept => is \in Kept
      /\ was \in {"retracted", "cancelled", "failed"} => is = was
      /\ was \in {"told", "stored", "failed"} => is \in {"told", "stored", "failed"}
  BY DEF Follows, Stages, Begun, Kept
<1>2. ASSUME NEW kind \in EventKinds, Tells(kind, was) PROVE Tells(kind, is)
  BY <1>1, <1>2 DEF Tells, EventKinds
<1>3. ASSUME NEW status \in Statuses, Likely(status, was) PROVE Likely(status, is)
  BY <1>1, <1>3 DEF Likely, Statuses, Settled
<1> QED BY <1>2, <1>3

\* An event not of the answers that moved, and every old one, stays true.
LEMMA TrueLasts ==
    ASSUME ViewTypeOK, answer' \in [Answers -> Stages],
           \A q \in Answers : Follows(answer[q], answer'[q])
    PROVE  /\ \A e \in EventTypes : True(e, answer) => True(e, answer')
           /\ \A status \in Statuses, q \in Answers : Likely(status, answer[q]) => Likely(status, answer'[q])
<1>1. answer \in [Answers -> Stages] BY DEF ViewTypeOK, Stages
<1>2. \A q \in Answers : /\ \A kind \in EventKinds : Tells(kind, answer[q]) => Tells(kind, answer'[q])
                         /\ \A status \in Statuses : Likely(status, answer[q]) => Likely(status, answer'[q])
  BY <1>1, ToldLasts
<1>3. ASSUME NEW e \in EventTypes, True(e, answer) PROVE True(e, answer')
  <2>1. e.kind \in EventKinds /\ e.of \subseteq Answers BY DEF EventTypes
  <2> QED BY <1>2, <1>3, <2>1 DEF True
<1> QED BY <1>2, <1>3

\* Every step but that of an answer moves none, but those that a cancel takes.
LEMMA OthersFollow ==
    ASSUME ViewTypeOK, ViewNext, ViewTypeOK'
    PROVE  \A q \in Answers : Follows(answer[q], answer'[q])
<1>1. ASSUME UNCHANGED answer PROVE \A q \in Answers : Follows(answer[q], answer'[q]) BY <1>1 DEF Follows
<1>2. ASSUME NEW q \in Answers, Advance(q) PROVE \A x \in Answers : Follows(answer[x], answer'[x])
  <2>1. CASE \E s \in Spoken : Speaks(q, s[1], s[2], s[3])
    <3>1. PICK s \in Spoken : Speaks(q, s[1], s[2], s[3]) BY <2>1
    <3>2. answer[q] = s[1] /\ answer'[q] = s[2] /\ \A x \in Answers \ {q} : answer'[x] = answer[x]
      BY <3>1, SpeaksLeaves
    <3>3. Follows(s[1], s[2]) BY DEF Spoken, Follows
    <3> QED BY <3>2, <3>3 DEF Follows
  <2>2. CASE \E s \in Hushed : Hushes(q, s[1], s[2])
    <3>1. PICK s \in Hushed : Hushes(q, s[1], s[2]) BY <2>2
    <3>2. answer[q] = s[1] /\ answer'[q] = s[2] /\ \A x \in Answers \ {q} : answer'[x] = answer[x]
      BY <3>1, HushesLeaves
    <3>3. Follows(s[1], s[2]) BY DEF Hushed, Follows
    <3> QED BY <3>2, <3>3 DEF Follows
  <2> QED BY <1>2, <2>1, <2>2, AdvanceKinds
<1>3. CASE ForgetCommits BY <1>3, ForgetLeaves DEF Follows
<1>7. CASE EmptySession \/ TellCleared BY <1>1, <1>7 DEF EmptySession, TellCleared
<1>4. CASE CancelWork("ask") \/ CancelWork("clear") BY <1>1, <1>4 DEF CancelWork
<1>5. CASE Dispatch BY <1>1, <1>5 DEF Dispatch, serverVars
<1>6. ASSUME NEW c \in Clients, Connect(c) \/ Break(c) \/ HandleMessage(c) \/ FlushChunks(c)
      PROVE  UNCHANGED answer
  BY <1>6 DEF Connect, Break, HandleMessage, FlushChunks, serverVars
<1> QED BY <1>1, <1>2, <1>3, <1>4, <1>5, <1>6, <1>7 DEF ViewNext

\* What a card shows once a true event arrived is likely.
LEMMA ShownLikely ==
    ASSUME NEW e \in EventTypes, True(e, answer), NEW q \in Answers, NEW was \in Statuses, Likely(was, answer[q])
    PROVE  Likely(Shown(e, q, was), answer[q])
<1>1. e.kind \in EventKinds /\ (q \in e.of => Tells(e.kind, answer[q])) BY DEF EventTypes, True
<1>2. CASE e.kind = "init"
  <2>1. Shown(e, q, was) = IF q \in e.of THEN "done" ELSE "none" BY <1>2 DEF Shown
  <2> QED BY <1>1, <1>2, <2>1 DEF Tells, Likely
<1>3. CASE e.kind = "cleared"
  <2>1. Shown(e, q, was) = "none" BY <1>3 DEF Shown
  <2> QED BY <2>1 DEF Likely
<1>4. CASE e.kind \notin {"init", "cleared"}
  <2>1. Shown(e, q, was) = IF q \in e.of THEN Told(e.kind, was) ELSE was BY <1>4 DEF Shown
  <2>2. CASE q \notin e.of BY <2>1, <2>2
  <2>3. CASE q \in e.of
    <3>1. Shown(e, q, was) = Told(e.kind, was) /\ Tells(e.kind, answer[q]) BY <1>1, <2>1, <2>3
    <3>2. Told(e.kind, was) \in {was, "none", "cue", "live", "done", "cancelled", "error"}
      BY <1>1, <1>4 DEF Told, EventKinds
    <3>3. CASE Told(e.kind, was) \in {was, "none"} BY <3>1, <3>3 DEF Likely
    <3>4. CASE Told(e.kind, was) \notin {was, "none"}
      <4>1. /\ Told(e.kind, was) = "cue" => e.kind = "cue"
            /\ Told(e.kind, was) = "live" => e.kind = "start"
            /\ Told(e.kind, was) = "done" => e.kind = "done"
            /\ Told(e.kind, was) = "cancelled" => e.kind = "cancelled"
            /\ Told(e.kind, was) = "error" => e.kind = "error"
        BY <1>1, <1>4, <3>4 DEF Told, EventKinds
      <4> QED BY <3>1, <3>2, <3>4, <4>1 DEF Tells, Likely, Kept
    <3> QED BY <3>3, <3>4
  <2> QED BY <2>2, <2>3
<1> QED BY <1>2, <1>3, <1>4

LEMMA SpokenTells == \A s \in Spoken : Tells(s[3], s[2])
<1> SUFFICES ASSUME NEW s \in Spoken PROVE Tells(s[3], s[2]) OBVIOUS
<1>1. \/ s[3] = "cue" /\ s[2] = "cued"
      \/ s[3] = "retract" /\ s[2] = "retracted"
      \/ s[3] \in {"start", "chunk"} /\ s[2] = "live"
      \/ s[3] = "cancelled" /\ s[2] = "cancelled"
      \/ s[3] = "error" /\ s[2] = "failed"
      \/ s[3] = "done" /\ s[2] = "told"
  BY DEF Spoken
<1> QED BY <1>1 DEF Tells, Begun

LEMMA NothingFalseStep == ViewTypeOK /\ NothingFalse /\ ViewNext /\ ViewTypeOK' => NothingFalse'
<1> SUFFICES ASSUME ViewTypeOK, NothingFalse, ViewNext, ViewTypeOK' PROVE NothingFalse' OBVIOUS
<1>0. /\ answer \in [Answers -> Stages] /\ answer' \in [Answers -> Stages]
      /\ bus \in Seq(EventTypes) /\ wire \in [Clients -> Seq(EventTypes)]
      /\ saved \subseteq Answers
      /\ card \in [Clients -> [Answers -> Statuses]]
  BY DEF ViewTypeOK, Stages, Statuses
<1>00. /\ \A i \in 1..Len(bus) : bus[i] \in EventTypes /\ True(bus[i], answer)
       /\ \A c \in Clients : \A i \in 1..Len(wire[c]) : wire[c][i] \in EventTypes /\ True(wire[c][i], answer)
       /\ \A c \in Clients, q \in Answers : card[c][q] \in Statuses /\ Likely(card[c][q], answer[q])
       /\ \A q \in Answers : Accounted(q)
  <2>1. \A q \in Answers : Accounted(q) BY DEF NothingFalse
  <2>2. \A i \in 1..Len(bus) : bus[i] \in EventTypes /\ True(bus[i], answer) BY <1>0 DEF NothingFalse
  <2>3. \A c \in Clients : \A i \in 1..Len(wire[c]) : wire[c][i] \in EventTypes /\ True(wire[c][i], answer)
    <3> SUFFICES ASSUME NEW c \in Clients, NEW i \in 1..Len(wire[c])
                 PROVE  wire[c][i] \in EventTypes /\ True(wire[c][i], answer)
      OBVIOUS
    <3>1. wire[c] \in Seq(EventTypes) BY <1>0
    <3> QED BY <3>1 DEF NothingFalse
  <2>4. \A c \in Clients, q \in Answers : card[c][q] \in Statuses /\ Likely(card[c][q], answer[q])
    BY <1>0 DEF NothingFalse
  <2> QED BY <2>1, <2>2, <2>3, <2>4
<1>t. /\ \A e \in EventTypes : True(e, answer) => True(e, answer')
      /\ \A status \in Statuses, q \in Answers : Likely(status, answer[q]) => Likely(status, answer'[q])
  BY <1>0, OthersFollow, TrueLasts
<1> DEFINE BusTrue == \A i \in 1..Len(bus') : True(bus'[i], answer')
           WiresTrue == \A c \in Clients : \A i \in 1..Len(wire'[c]) : True(wire'[c][i], answer')
           CardsLikely == \A c \in Clients, q \in Answers : Likely(card'[c][q], answer'[q])
           SavedKept == \A q \in Answers : Accounted(q)'
<1> SUFFICES BusTrue /\ WiresTrue /\ CardsLikely /\ SavedKept BY DEF NothingFalse
<1>b. UNCHANGED bus => BusTrue BY <1>00, <1>t
<1>w. UNCHANGED wire => WiresTrue BY <1>00, <1>t
<1>c. UNCHANGED card => CardsLikely BY <1>00, <1>t
<1>s. UNCHANGED <<answer, saved>> /\ excused \subseteq excused' /\ (ending' = "tell" => ending = "tell") => SavedKept
  BY <1>00 DEF Accounted
<1>e. ASSUME NEW e \in EventTypes, Broadcast(e), True(e, answer') PROVE BusTrue
  <2>1. bus' = bus \/ bus' = Append(bus, e) BY <1>e, BroadcastLeaves
  <2>2. CASE bus' = Append(bus, e)
    <3>1. /\ Len(bus) \in Nat /\ Len(bus') = Len(bus) + 1 /\ bus'[Len(bus) + 1] = e
          /\ \A i \in 1..Len(bus) : bus'[i] = bus[i]
      BY <1>0, <2>2, AppendEvent
    <3> SUFFICES ASSUME NEW i \in 1..Len(bus') PROVE True(bus'[i], answer') OBVIOUS
    <3>2. CASE i = Len(bus) + 1
      <4>1. bus'[i] = e BY <3>1, <3>2
      <4> QED BY <1>e, <4>1 DEF True
    <3>3. CASE i # Len(bus) + 1
      <4>1. i \in 1..Len(bus) BY <3>1, <3>3
      <4>2. bus'[i] = bus[i] /\ True(bus[i], answer') BY <1>00, <1>t, <3>1, <4>1
      <4> QED BY <4>2 DEF True
    <3> QED BY <3>2, <3>3
  <2> QED BY <1>b, <2>1, <2>2
<1>1. ASSUME NEW q \in Answers, Advance(q) PROVE BusTrue /\ WiresTrue /\ CardsLikely /\ SavedKept
  <2>1. WiresTrue /\ CardsLikely BY <1>1, <1>c, <1>w, AdvanceKinds DEF clientVars
  <2>2. CASE \E s \in Spoken : Speaks(q, s[1], s[2], s[3])
    <3>1. PICK s \in Spoken : Speaks(q, s[1], s[2], s[3]) BY <2>2
    <3> DEFINE e == Event(s[3], {q})
    <3>2. /\ answer[q] = s[1] /\ answer'[q] = s[2] /\ s[3] \in EventKinds
          /\ \A x \in Answers \ {q} : answer'[x] = answer[x] /\ (x \in saved' <=> x \in saved)
          /\ IF s[1] \in Storing /\ s[2] = "failed" THEN q \notin saved' ELSE saved' = saved
          /\ e \in EventTypes /\ Broadcast(e)
      BY <3>1, SpeaksLeaves
    <3>3. Tells(s[3], s[2]) BY SpokenTells
    <3>4. e.kind = s[3] /\ e.of = {q} BY <3>2, EventTyped
    <3> HIDE DEF e
    <3>5. True(e, answer') BY <3>2, <3>3, <3>4 DEF True
    <3>6. BusTrue BY <1>e, <3>2, <3>5
    <3>7. /\ q \in saved' => s[2] = "told" /\ q \in saved
          /\ s[2] = "told" => s[1] = "saving" /\ saved' = saved
          /\ s[2] # "saving"
      BY <1>00, <3>2 DEF Spoken, Accounted, Storing
    <3>9. excused \subseteq excused' /\ ending' = ending BY <1>1, <3>2, AdvanceKinds, BroadcastLeaves
    <3>10. Accounted(q)' BY <1>00, <3>2, <3>7, <3>9 DEF Accounted
    <3>11. \A x \in Answers \ {q} : Accounted(x)' BY <1>00, <3>2, <3>9 DEF Accounted
    <3>8. SavedKept BY <3>10, <3>11
    <3> QED BY <2>1, <3>6, <3>8
  <2>3. CASE \E s \in Hushed : Hushes(q, s[1], s[2])
    <3>1. PICK s \in Hushed : Hushes(q, s[1], s[2]) BY <2>3
    <3>2. /\ answer[q] = s[1] /\ answer'[q] = s[2] /\ UNCHANGED bus
          /\ excused \subseteq excused' /\ (s[2] = "saving" /\ ending = "tell" => q \in excused')
          /\ \A x \in Answers \ {q} : answer'[x] = answer[x] /\ (x \in saved' <=> x \in saved)
          /\ IF s[2] = "saving" THEN q \in saved' ELSE saved' = saved
      BY <3>1, HushesLeaves
    <3>3. /\ s[1] \in {"saving", "told", "stored"} => s[1] = "told" /\ s[2] = "stored"
          /\ s[2] \in Storing => s[2] = "saving"
      BY DEF Hushed, Storing
    <3>5. ending' = ending BY <1>1, AdvanceKinds
    <3>6. Accounted(q)' BY <1>00, <3>2, <3>3, <3>5 DEF Accounted, Storing
    <3>7. \A x \in Answers \ {q} : Accounted(x)' BY <1>00, <3>2, <3>5 DEF Accounted
    <3>4. SavedKept BY <3>6, <3>7
    <3> QED BY <1>b, <2>1, <3>2, <3>4
  <2> QED BY <1>1, <2>2, <2>3, AdvanceKinds
<1>2. ASSUME NEW kind \in {"ask", "clear"}, CancelWork(kind) PROVE BusTrue /\ WiresTrue /\ CardsLikely /\ SavedKept
  BY <1>2, <1>b, <1>w, <1>c, <1>s DEF CancelWork, clientVars
<1>3. ASSUME ForgetCommits PROVE BusTrue /\ WiresTrue /\ CardsLikely /\ SavedKept
  <2>1. BusTrue /\ WiresTrue /\ CardsLikely BY <1>3, <1>b, <1>w, <1>c, ForgetLeaves DEF clientVars
  <2>2. SavedKept BY <1>00, <1>3, ForgetLeaves DEF Accounted
  <2> QED BY <2>1, <2>2
<1>9. ASSUME EmptySession PROVE BusTrue /\ WiresTrue /\ CardsLikely /\ SavedKept
  <2>1. BusTrue /\ WiresTrue /\ CardsLikely BY <1>9, <1>b, <1>w, <1>c DEF EmptySession, clientVars
  <2>2. saved' = {} /\ excused' = excused \union InCommit /\ answer' = answer BY <1>9 DEF EmptySession
  <2>3. SavedKept BY <2>2 DEF Accounted, InCommit
  <2> QED BY <2>1, <2>3
<1>10. ASSUME TellCleared PROVE BusTrue /\ WiresTrue /\ CardsLikely /\ SavedKept
  <2>1. WiresTrue /\ CardsLikely BY <1>10, <1>w, <1>c DEF TellCleared, clientVars
  <2>4. Broadcast(Event("cleared", Answers)) BY <1>10 DEF TellCleared
  <2>5. BusTrue /\ excused \subseteq excused'
    <3>1. Answers \in SUBSET Answers /\ "cleared" \in EventKinds BY DEF EventKinds
    <3>2. Event("cleared", Answers) \in EventTypes /\ Event("cleared", Answers).kind = "cleared" BY <3>1, EventTyped
    <3>3. True(Event("cleared", Answers), answer') BY <3>2 DEF True, Tells
    <3> QED BY <1>e, <2>4, <3>2, <3>3, BroadcastLeaves
  <2>6. SavedKept BY <1>10, <1>s, <2>5 DEF TellCleared
  <2> QED BY <2>1, <2>5, <2>6
<1>4. ASSUME Dispatch PROVE BusTrue /\ WiresTrue /\ CardsLikely /\ SavedKept
  <2>1. /\ bus # <<>> /\ bus' = Tail(bus) /\ UNCHANGED <<answer, saved, excused, ending, card>>
        /\ wire' = [c \in Clients |-> IF c \in linked THEN Append(wire[c], Head(bus)) ELSE wire[c]]
    BY <1>4 DEF Dispatch, serverVars
  <2>2. /\ Len(bus) \in Nat /\ Len(bus) >= 1 /\ Len(bus') = Len(bus) - 1 /\ Head(bus) = bus[1]
        /\ Head(bus) \in EventTypes /\ \A i \in 1..Len(bus') : bus'[i] = bus[i + 1]
    BY <1>0, <2>1, TailEvents
  <2>3. True(Head(bus), answer')
    <3>1. 1 \in 1..Len(bus) BY <2>2
    <3> QED BY <1>00, <1>t, <2>2, <3>1
  <2>4. BusTrue
    <3> SUFFICES ASSUME NEW i \in 1..Len(bus') PROVE True(bus'[i], answer') OBVIOUS
    <3>1. i + 1 \in 1..Len(bus) BY <2>2
    <3>2. bus'[i] = bus[i + 1] /\ True(bus[i + 1], answer') BY <1>00, <1>t, <2>2, <3>1
    <3> QED BY <3>2 DEF True
  <2>5. WiresTrue
    <3> SUFFICES ASSUME NEW c \in Clients, NEW i \in 1..Len(wire'[c]) PROVE True(wire'[c][i], answer') OBVIOUS
    <3>1. wire[c] \in Seq(EventTypes) BY <1>0
    <3>2. CASE c \notin linked
      <4>1. wire'[c] = wire[c] BY <2>1, <3>2
      <4>2. True(wire[c][i], answer') BY <1>00, <1>t, <4>1
      <4> QED BY <4>1, <4>2 DEF True
    <3>3. CASE c \in linked
      <4>1. wire'[c] = Append(wire[c], Head(bus)) BY <2>1, <3>3
      <4>2. /\ Len(wire[c]) \in Nat /\ Len(wire'[c]) = Len(wire[c]) + 1 /\ wire'[c][Len(wire[c]) + 1] = Head(bus)
            /\ \A j \in 1..Len(wire[c]) : wire'[c][j] = wire[c][j]
        BY <2>2, <3>1, <4>1, AppendEvent
      <4>3. CASE i = Len(wire[c]) + 1
        <5>1. wire'[c][i] = Head(bus) BY <4>2, <4>3
        <5> QED BY <2>3, <5>1 DEF True
      <4>4. CASE i # Len(wire[c]) + 1
        <5>1. i \in 1..Len(wire[c]) BY <4>2, <4>4
        <5>2. wire'[c][i] = wire[c][i] /\ True(wire[c][i], answer') BY <1>00, <1>t, <4>2, <5>1
        <5> QED BY <5>2 DEF True
      <4> QED BY <4>3, <4>4
    <3> QED BY <3>2, <3>3
  <2> QED BY <1>c, <1>s, <2>1, <2>4, <2>5
<1>5. ASSUME NEW c \in Clients, Connect(c) PROVE BusTrue /\ WiresTrue /\ CardsLikely /\ SavedKept
  <2> DEFINE e == Event("init", saved)
  <2>1. e \in EventTypes /\ e.kind = "init" /\ e.of = saved BY <1>0, EventTyped DEF EventKinds
  <2>2. UNCHANGED <<answer, saved, excused, ending, bus, card>> /\ wire' = [wire EXCEPT ![c] = <<e>>] BY <1>5 DEF Connect, serverVars
  <2>3. Len(<<e>>) = 1 /\ <<e>>[1] = e OBVIOUS
  <2> HIDE DEF e
  <2>4. True(e, answer')
    <3> SUFFICES ASSUME NEW q \in e.of PROVE Tells(e.kind, answer'[q]) BY <2>1, <2>2 DEF True
    <3>1. answer'[q] \in {"saving", "told", "stored"} BY <1>0, <1>00, <2>1, <2>2 DEF Accounted
    <3> QED BY <2>1, <3>1 DEF Tells, Kept
  <2>5. WiresTrue
    <3> SUFFICES ASSUME NEW d \in Clients, NEW i \in 1..Len(wire'[d]) PROVE True(wire'[d][i], answer') OBVIOUS
    <3>1. CASE d = c
      <4>1. wire'[d] = <<e>> BY <1>0, <2>2, <3>1
      <4>2. i = 1 BY <2>3, <4>1
      <4>3. wire'[d][i] = e BY <2>3, <4>1, <4>2
      <4> QED BY <2>4, <4>3 DEF True
    <3>2. CASE d # c
      <4>1. wire'[d] = wire[d] BY <1>0, <2>2, <3>2
      <4>2. True(wire[d][i], answer') BY <1>00, <1>t, <4>1
      <4> QED BY <4>1, <4>2 DEF True
    <3> QED BY <3>1, <3>2
  <2> QED BY <1>b, <1>c, <1>s, <2>2, <2>5
<1>6. ASSUME NEW c \in Clients, Break(c) PROVE BusTrue /\ WiresTrue /\ CardsLikely /\ SavedKept
  <2>1. UNCHANGED <<answer, saved, excused, ending, bus, card>> /\ wire' = [wire EXCEPT ![c] = <<>>] BY <1>6 DEF Break, serverVars
  <2>2. WiresTrue
    <3> SUFFICES ASSUME NEW d \in Clients, NEW i \in 1..Len(wire'[d]) PROVE True(wire'[d][i], answer') OBVIOUS
    <3>1. d # c
      <4>1. ASSUME d = c PROVE Len(wire'[d]) = 0 BY <1>0, <2>1, <4>1
      <4> QED BY <4>1
    <3>2. wire'[d] = wire[d] BY <1>0, <2>1, <3>1
    <3>3. True(wire[d][i], answer') BY <1>00, <1>t, <3>2
    <3> QED BY <3>2, <3>3 DEF True
  <2> QED BY <1>b, <1>c, <1>s, <2>1, <2>2
<1>7. ASSUME NEW c \in Clients, HandleMessage(c) PROVE BusTrue /\ WiresTrue /\ CardsLikely /\ SavedKept
  <2>1. /\ wire[c] # <<>> /\ wire[c] \in Seq(EventTypes) /\ wire'[c] = Tail(wire[c])
        /\ \A q \in Answers : card'[c][q] = Shown(Head(wire[c]), q, card[c][q])
        /\ \A d \in Clients \ {c} : wire'[d] = wire[d] /\ card'[d] = card[d]
        /\ UNCHANGED <<answer, saved, excused, ending, bus>>
    BY <1>7, HandleLeaves
  <2>2. /\ Len(wire[c]) \in Nat /\ Len(wire[c]) >= 1 /\ Len(wire'[c]) = Len(wire[c]) - 1
        /\ Head(wire[c]) = wire[c][1] /\ Head(wire[c]) \in EventTypes
        /\ \A i \in 1..Len(wire'[c]) : wire'[c][i] = wire[c][i + 1]
    BY <2>1, TailEvents
  <2>3. True(Head(wire[c]), answer)
    <3>1. 1 \in 1..Len(wire[c]) BY <2>2
    <3> QED BY <1>00, <2>2, <3>1
  <2>4. WiresTrue
    <3> SUFFICES ASSUME NEW d \in Clients, NEW i \in 1..Len(wire'[d]) PROVE True(wire'[d][i], answer') OBVIOUS
    <3>1. CASE d = c
      <4>1. i + 1 \in 1..Len(wire[c]) BY <2>2, <3>1
      <4>2. wire'[d][i] = wire[c][i + 1] /\ True(wire[c][i + 1], answer') BY <1>00, <1>t, <2>2, <3>1, <4>1
      <4> QED BY <4>2 DEF True
    <3>2. CASE d # c
      <4>1. wire'[d] = wire[d] BY <2>1, <3>2
      <4>2. True(wire[d][i], answer') BY <1>00, <1>t, <4>1
      <4> QED BY <4>1, <4>2 DEF True
    <3> QED BY <3>1, <3>2
  <2>5. CardsLikely
    <3> SUFFICES ASSUME NEW d \in Clients, NEW q \in Answers PROVE Likely(card'[d][q], answer[q])
      BY <2>1
    <3>1. CASE d = c BY <1>00, <2>1, <2>2, <2>3, <3>1, ShownLikely
    <3>2. CASE d # c BY <1>00, <2>1, <3>2
    <3> QED BY <3>1, <3>2
  <2> QED BY <1>b, <1>s, <2>1, <2>4, <2>5
<1>8. ASSUME NEW c \in Clients, FlushChunks(c) PROVE BusTrue /\ WiresTrue /\ CardsLikely /\ SavedKept
  BY <1>8, <1>b, <1>w, <1>c, <1>s DEF FlushChunks, serverVars
<1> QED BY <1>1, <1>2, <1>3, <1>4, <1>5, <1>6, <1>7, <1>8, <1>9, <1>10 DEF ViewNext

-----------------------------------------------------------------------------
(* What an event makes of a card, for each of the three properties.        *)

LEMMA ShownDone ==
    ASSUME NEW e \in EventTypes, NEW q \in Answers, NEW was \in Statuses
    PROVE  /\ e \in Of(q, {"done", "init"}) => Shown(e, q, was) \in {"done"}
           /\ e \notin Of(q, {"retract", "cancelled", "error"}) \union Whole({"cleared"}) \union Omits(q)
              /\ was \in {"done"} => Shown(e, q, was) \in {"done"}
<1>1. e.kind \in EventKinds BY DEF EventTypes
<1>2. CASE e.kind = "init" BY <1>2 DEF Shown, Of, Whole, Omits
<1>3. CASE e.kind = "cleared" BY <1>3 DEF Shown, Of, Whole, Omits
<1>4. CASE e.kind \notin {"init", "cleared"}
  <2>1. Shown(e, q, was) = IF q \in e.of THEN Told(e.kind, was) ELSE was BY <1>4 DEF Shown
  <2>2. CASE q \notin e.of BY <2>1, <2>2 DEF Of
  <2>3. CASE q \in e.of
    <3>1. Told("done", was) = "done" BY DEF Told
    <3>2. e.kind \in {"cue", "start", "chunk"} => Told(e.kind, "done") = "done" BY DEF Told, Settled
    <3> QED BY <1>1, <1>4, <2>1, <2>3, <3>1, <3>2 DEF Of, EventKinds
  <2> QED BY <2>2, <2>3
<1> QED BY <1>2, <1>3, <1>4

LEMMA ShownNotDone ==
    ASSUME NEW e \in EventTypes, NEW q \in Answers, NEW was \in Statuses
    PROVE  /\ e \in Of(q, {"error"}) \union Whole({"cleared"}) \union Omits(q)
              => Shown(e, q, was) \in Statuses \ {"done"}
           /\ e \notin Of(q, {"done", "init"}) /\ was \in Statuses \ {"done"}
              => Shown(e, q, was) \in Statuses \ {"done"}
<1>1. e.kind \in EventKinds BY DEF EventTypes
<1>2. CASE e.kind = "init" BY <1>2 DEF Shown, Of, Whole, Omits, Statuses
<1>3. CASE e.kind = "cleared" BY <1>3 DEF Shown, Of, Whole, Omits, Statuses
<1>4. CASE e.kind \notin {"init", "cleared"}
  <2>1. Shown(e, q, was) = IF q \in e.of THEN Told(e.kind, was) ELSE was BY <1>4 DEF Shown
  <2>2. CASE q \notin e.of BY <1>4, <2>1, <2>2 DEF Of, Whole, Omits
  <2>3. CASE q \in e.of
    <3>1. Told("error", was) \in Statuses \ {"done"} BY DEF Told, Statuses, Settled
    <3>2. e.kind # "done" /\ was # "done" => Told(e.kind, was) \in Statuses \ {"done"}
      BY <1>1, <1>4 DEF Told, Statuses, Settled, EventKinds
    <3> QED BY <1>1, <1>4, <2>1, <2>3, <3>1, <3>2 DEF Of, Whole, Omits
  <2> QED BY <2>2, <2>3
<1> QED BY <1>2, <1>3, <1>4

\* What was retracted never streamed.
LEMMA ShownOver ==
    ASSUME NEW e \in EventTypes, NEW q \in Answers, NEW was \in Statuses,
           True(e, answer), Likely(was, answer[q])
    PROVE  /\ e \in Of(q, {"retract", "done", "cancelled", "error"}) \union Whole({"cleared", "init"})
              => Shown(e, q, was) \in Statuses \ {"cue", "live"}
           /\ e \notin Of(q, {"cue", "start"}) /\ was \in Statuses \ {"cue", "live"}
              => Shown(e, q, was) \in Statuses \ {"cue", "live"}
<1>1. e.kind \in EventKinds BY DEF EventTypes
<1>2. CASE e.kind = "init" BY <1>2 DEF Shown, Of, Whole, Statuses, Settled
<1>3. CASE e.kind = "cleared" BY <1>3 DEF Shown, Of, Whole, Statuses
<1>4. CASE e.kind \notin {"init", "cleared"}
  <2>1. Shown(e, q, was) = IF q \in e.of THEN Told(e.kind, was) ELSE was BY <1>4 DEF Shown
  <2>2. CASE q \notin e.of BY <1>4, <2>1, <2>2 DEF Of, Whole
  <2>3. CASE q \in e.of
    <3>1. Tells(e.kind, answer[q]) BY <2>3 DEF True
    <3>2. e.kind = "retract" => was # "live" BY <3>1 DEF Tells, Likely, Begun
    <3>3. was # "live" => Told("retract", was) \in Statuses \ {"cue", "live"} BY DEF Told, Statuses, Settled
    <3>4. Told("done", was) \in Statuses \ {"cue", "live"} BY DEF Told, Statuses, Settled
    <3>5. \A kind \in {"cancelled", "error"} : Told(kind, was) \in Statuses \ {"cue", "live"}
      BY DEF Told, Statuses, Settled
    <3>6. Told("chunk", was) = was BY DEF Told
    <3> QED BY <1>1, <1>4, <2>1, <2>3, <3>2, <3>3, <3>4, <3>5, <3>6 DEF Of, Whole, EventKinds
  <2> QED BY <2>2, <2>3
<1> QED BY <1>2, <1>3, <1>4

\* The same, of any of the three.
LEMMA ShownPromised ==
    ASSUME NEW e \in EventTypes, NEW q \in Answers, NEW was \in Statuses, NEW p \in Promises,
           True(e, answer), Likely(was, answer[q])
    PROVE  /\ e \in Good(p, q) => Shown(e, q, was) \in Cards(p)
           /\ e \notin Bad(p, q) /\ was \in Cards(p) => Shown(e, q, was) \in Cards(p)
<1>1. CASE p = "done"
  <2>1. /\ Cards(p) = {"done"} /\ Good(p, q) = Of(q, {"done", "init"})
        /\ Bad(p, q) = Of(q, {"retract", "cancelled", "error"}) \union Whole({"cleared"}) \union Omits(q)
    BY <1>1 DEF Cards, Good, Bad
  <2> QED BY <2>1, ShownDone
<1>2. CASE p = "not done"
  <2>1. /\ Cards(p) = Statuses \ {"done"} /\ Bad(p, q) = Of(q, {"done", "init"})
        /\ Good(p, q) = Of(q, {"error"}) \union Whole({"cleared"}) \union Omits(q)
    BY <1>2 DEF Cards, Good, Bad
  <2> QED BY <2>1, ShownNotDone
<1>3. CASE p = "over"
  <2>1. /\ Cards(p) = Statuses \ {"cue", "live"} /\ Bad(p, q) = Of(q, {"cue", "start"})
        /\ Good(p, q) = Of(q, {"retract", "done", "cancelled", "error"}) \union Whole({"cleared", "init"})
    BY <1>3 DEF Cards, Good, Bad
  <2> QED BY <2>1, ShownOver
<1> QED BY <1>1, <1>2, <1>3 DEF Promises

\* An event that tells of one answer is no harm to another, ...
LEMMA OthersUnharmed ==
    ASSUME NEW e \in EventTypes, e.kind \notin {"init", "cleared"}, NEW q \in Answers, q \notin e.of,
           NEW p \in Promises
    PROVE  e \notin Bad(p, q)
<1>1. Bad(p, q) \in {Of(q, {"retract", "cancelled", "error"}) \union Whole({"cleared"}) \union Omits(q),
                     Of(q, {"done", "init"}), Of(q, {"cue", "start"})}
  BY DEF Bad, Promises
<1> QED BY <1>1 DEF Of, Whole, Omits

\* ... and of its own answer it makes good each promise that its step is the first to
\* make, and breaks none that still holds.
LEMMA SpokenGood ==
    ASSUME NEW q \in Answers, NEW s \in Spoken, NEW p \in Promises, NEW kept \in BOOLEAN,
           NEW kept1 \in BOOLEAN, s[1] \in Storing => kept,
           IF s[1] \in Storing /\ s[2] = "failed" THEN ~kept1 ELSE kept1 = kept,
           Promised(p, s[2], kept1)
    PROVE  /\ Event(s[3], {q}) \notin Bad(p, q)
           /\ Event(s[3], {q}) \in Good(p, q) \/ Promised(p, s[1], kept)
<1> DEFINE e == Event(s[3], {q})
<1>1. /\ s[3] \in EventKinds /\ s[3] \notin {"init", "cleared"}
      /\ s[2] \in {"told", "stored"} => s[3] = "done"
      /\ s[3] = "error" => s[2] = "failed"
      /\ s[3] = "cancelled" => s[2] = "cancelled"
      /\ s[3] = "retract" => s[2] = "retracted"
      /\ s[3] = "done" => s[1] = "saving" /\ s[2] = "told"
      /\ s[3] \in {"cue", "start"} => s[2] \notin Over
      /\ s[2] \in Over => s[3] \in {"retract", "done", "cancelled", "error"}
      /\ s[1] \in Storing /\ s[2] = "failed" => s[3] = "error"
  BY DEF Spoken, EventKinds, Over, Storing
<1>2. e \in EventTypes /\ e.kind = s[3] /\ e.of = {q} BY <1>1, EventTyped
<1> HIDE DEF e
<1>3. CASE p = "done"
  <2>1. kept1 /\ s[2] \in {"told", "stored"} BY <1>3 DEF Promised
  <2>2. /\ Good(p, q) = Of(q, {"done", "init"})
        /\ Bad(p, q) = Of(q, {"retract", "cancelled", "error"}) \union Whole({"cleared"}) \union Omits(q)
    BY <1>3 DEF Good, Bad
  <2> QED BY <1>1, <1>2, <2>1, <2>2 DEF Of, Whole, Omits, e
<1>4. CASE p = "not done"
  <2>1. ~kept1 /\ (~kept => Promised(p, s[1], kept)) BY <1>4 DEF Promised
  <2>2. /\ Bad(p, q) = Of(q, {"done", "init"})
        /\ Good(p, q) = Of(q, {"error"}) \union Whole({"cleared"}) \union Omits(q)
    BY <1>4 DEF Good, Bad
  <2>3. s[3] # "done" BY <1>1, <2>1 DEF Storing
  <2>4. e \notin Bad(p, q) BY <1>1, <1>2, <2>2, <2>3 DEF Of
  <2>5. kept => s[3] = "error" BY <1>1, <2>1
  <2>6. e \in Good(p, q) \/ Promised(p, s[1], kept) BY <1>2, <2>1, <2>2, <2>5 DEF Of
  <2> QED BY <1>1, <1>2, <2>4, <2>6 DEF e
<1>5. CASE p = "over"
  <2>1. s[2] \in Over BY <1>5 DEF Promised
  <2>2. /\ Bad(p, q) = Of(q, {"cue", "start"})
        /\ Good(p, q) = Of(q, {"retract", "done", "cancelled", "error"}) \union Whole({"cleared", "init"})
    BY <1>5 DEF Good, Bad
  <2> QED BY <1>1, <1>2, <2>1, <2>2 DEF Of, e
<1> QED BY <1>3, <1>4, <1>5 DEF Promises

\* A step that says nothing makes no new promise.
LEMMA HushedGood ==
    ASSUME NEW s \in Hushed, NEW p \in Promises, NEW kept \in BOOLEAN, NEW kept1 \in BOOLEAN,
           IF s[2] = "saving" THEN kept1 ELSE kept1 = kept, Promised(p, s[2], kept1)
    PROVE  Promised(p, s[1], kept)
<1>1. CASE s[1] = "told"
  <2>1. s[2] = "stored" /\ kept1 = kept BY <1>1 DEF Hushed
  <2> QED BY <1>1, <2>1 DEF Promised, Promises, Over
<1>2. CASE s[1] # "told"
  <2>1. s[2] \notin {"told", "stored"} /\ s[2] \notin Over BY <1>2 DEF Hushed, Over
  <2>2. p = "not done" BY <2>1 DEF Promised, Promises
  <2>3. ~kept1 BY <2>2 DEF Promised
  <2> QED BY <2>2, <2>3 DEF Promised
<1> QED BY <1>1, <1>2

\* A snapshot makes every promise good, and so does the event that all was cleared.
LEMMA SnapshotGood ==
    ASSUME ViewTypeOK, NEW q \in Answers, NEW p \in Promises, Promised(p, answer[q], q \in saved)
    PROVE  Event("init", saved) \in Good(p, q) /\ Event("init", saved) \notin Bad(p, q)
<1> DEFINE e == Event("init", saved)
<1>1. e \in EventTypes /\ e.kind = "init" /\ e.of = saved
  <2>1. saved \in SUBSET Answers /\ "init" \in EventKinds BY DEF ViewTypeOK, EventKinds
  <2> QED BY <2>1, EventTyped
<1> HIDE DEF e
<1>2. CASE p = "done"
  <2>1. q \in saved BY <1>2 DEF Promised
  <2>2. /\ Good(p, q) = Of(q, {"done", "init"})
        /\ Bad(p, q) = Of(q, {"retract", "cancelled", "error"}) \union Whole({"cleared"}) \union Omits(q)
    BY <1>2 DEF Good, Bad
  <2> QED BY <1>1, <2>1, <2>2 DEF Of, Whole, Omits, e
<1>3. CASE p = "not done"
  <2>1. q \notin saved BY <1>3 DEF Promised
  <2>2. /\ Bad(p, q) = Of(q, {"done", "init"})
        /\ Good(p, q) = Of(q, {"error"}) \union Whole({"cleared"}) \union Omits(q)
    BY <1>3 DEF Good, Bad
  <2> QED BY <1>1, <2>1, <2>2 DEF Of, Omits, e
<1>4. CASE p = "over"
  <2>1. /\ Bad(p, q) = Of(q, {"cue", "start"})
        /\ Good(p, q) = Of(q, {"retract", "done", "cancelled", "error"}) \union Whole({"cleared", "init"})
    BY <1>4 DEF Good, Bad
  <2> QED BY <1>1, <2>1 DEF Of, Whole, e
<1> QED BY <1>2, <1>3, <1>4 DEF Promises

LEMMA ClearedGood ==
    ASSUME NEW q \in Answers, NEW p \in Promises, NEW stage, Promised(p, stage, FALSE)
    PROVE  Event("cleared", Answers) \in Good(p, q) /\ Event("cleared", Answers) \notin Bad(p, q)
<1> DEFINE e == Event("cleared", Answers)
<1>1. e \in EventTypes /\ e.kind = "cleared"
  <2>1. Answers \in SUBSET Answers /\ "cleared" \in EventKinds BY DEF EventKinds
  <2> QED BY <2>1, EventTyped
<1> HIDE DEF e
<1>2. p # "done" BY DEF Promised
<1>3. CASE p = "not done"
  <2>1. /\ Bad(p, q) = Of(q, {"done", "init"})
        /\ Good(p, q) = Of(q, {"error"}) \union Whole({"cleared"}) \union Omits(q)
    BY <1>3 DEF Good, Bad
  <2> QED BY <1>1, <2>1 DEF Of, Whole, e
<1>4. CASE p = "over"
  <2>1. /\ Bad(p, q) = Of(q, {"cue", "start"})
        /\ Good(p, q) = Of(q, {"retract", "done", "cancelled", "error"}) \union Whole({"cleared", "init"})
    BY <1>4 DEF Good, Bad
  <2> QED BY <1>1, <2>1 DEF Of, Whole, e
<1> QED BY <1>2, <1>3, <1>4 DEF Promises

\* A promise that held holds on.
LEMMA KeepFollow ==
    ASSUME NEW q \in Answers, NEW p \in Promises, Fulfilled(p, q),
           ending' = ending, Promised(p, answer'[q], q \in saved') => Promised(p, answer[q], q \in saved),
           WillBe(q, Cards(p), Good(p, q), Bad(p, q)) => WillBe(q, Cards(p), Good(p, q), Bad(p, q))'
    PROVE  Fulfilled(p, q)'
BY DEF Fulfilled, Due

LEMMA ViewsFollowStep == ViewIInv /\ ViewNext => ViewsFollow'
<1> SUFFICES ASSUME ViewIInv, ViewNext, NEW q \in Answers, q \notin excused', NEW p \in Promises PROVE Fulfilled(p, q)'
  BY DEF ViewsFollow
<1>0. ViewTypeOK /\ NothingFalse BY DEF ViewIInv
<1>00. answer \in [Answers -> Stages] /\ card \in [Clients -> [Answers -> Statuses]] BY <1>0 DEF ViewTypeOK, Stages, Statuses
<1>f. excused \subseteq excused' => Fulfilled(p, q) BY DEF ViewIInv, ViewsFollow
<1>u. ASSUME UNCHANGED <<answer, saved, excused, ending>>,
             WillBe(q, Cards(p), Good(p, q), Bad(p, q)) => WillBe(q, Cards(p), Good(p, q), Bad(p, q))'
      PROVE  Fulfilled(p, q)'
  BY <1>f, <1>u, KeepFollow
<1>1. ASSUME NEW x \in Answers, Advance(x) PROVE Fulfilled(p, q)'
  <2>1. UNCHANGED <<linked, wire, card, ending>> BY <1>0, <1>1, AdvanceKinds DEF clientVars
  <2>2. CASE \E s \in Spoken : Speaks(x, s[1], s[2], s[3])
    <3>1. PICK s \in Spoken : Speaks(x, s[1], s[2], s[3]) BY <2>2
    <3> DEFINE e == Event(s[3], {x})
    <3>2. /\ answer[x] = s[1] /\ answer'[x] = s[2] /\ s[3] \in EventKinds
          /\ \A y \in Answers \ {x} : answer'[y] = answer[y] /\ (y \in saved' <=> y \in saved)
          /\ IF s[1] \in Storing /\ s[2] = "failed" THEN x \notin saved' ELSE saved' = saved
          /\ e \in EventTypes /\ Broadcast(e)
      BY <1>0, <3>1, SpeaksLeaves
    <3>3. e.kind = s[3] /\ e.of = {x} /\ e.kind \notin {"init", "cleared"}
      BY <3>2, EventTyped DEF Spoken
    <3>4. excused \subseteq excused' /\ (bus' = Append(bus, e) \/ (bus' = bus /\ e.of \subseteq excused'))
      BY <1>0, <3>2, BroadcastLeaves
    <3>5. Fulfilled(p, q) BY <1>f, <3>4
    <3>6. answer[x] \in Storing /\ x \notin excused => x \in saved BY <1>0 DEF NothingFalse, Accounted, Storing
    <3>7. CASE q # x
      <4>1. answer'[q] = answer[q] /\ (q \in saved' <=> q \in saved) BY <3>2, <3>7
      <4>2. e \notin Bad(p, q) BY <3>2, <3>3, <3>7, OthersUnharmed
      <4>3. WillBe(q, Cards(p), Good(p, q), Bad(p, q)) => WillBe(q, Cards(p), Good(p, q), Bad(p, q))'
        <5>1. CASE bus' = Append(bus, e)
          <6> HIDE DEF e
          <6> QED BY <1>0, <2>1, <3>2, <4>2, <5>1, PostWillBe
        <5>2. CASE bus' = bus BY <2>1, <5>2, StillWillBe
        <5> QED BY <3>4, <5>1, <5>2
      <4>4. Promised(p, answer'[q], q \in saved') => Promised(p, answer[q], q \in saved)
        <5>1. (q \in saved') = (q \in saved) BY <4>1
        <5> QED BY <4>1, <5>1
      <4> QED BY <2>1, <3>5, <4>3, <4>4, KeepFollow
    <3>8. CASE q = x
      <4>1. bus' = Append(bus, e) BY <3>3, <3>4, <3>8
      <4>2. ASSUME Due(p), Promised(p, answer'[q], q \in saved') PROVE WillBe(q, Cards(p), Good(p, q), Bad(p, q))'
        <5> DEFINE kept == q \in saved  kept1 == q \in saved'
        <5>1. kept \in BOOLEAN /\ kept1 \in BOOLEAN /\ (s[1] \in Storing => kept)
          BY <3>2, <3>4, <3>6, <3>8
        <5>2. IF s[1] \in Storing /\ s[2] = "failed" THEN ~kept1 ELSE kept1 = kept BY <3>2, <3>8
        <5>3. Promised(p, s[2], kept1) BY <3>2, <3>8, <4>2
        <5> HIDE DEF kept, kept1
        <5>6. /\ Event(s[3], {q}) \notin Bad(p, q)
              /\ Event(s[3], {q}) \in Good(p, q) \/ Promised(p, s[1], kept)
          BY <3>1, <5>1, <5>2, <5>3, SpokenGood
        <5>4. e \notin Bad(p, q) /\ (e \in Good(p, q) \/ Promised(p, s[1], kept))
          BY <3>8, <5>6
        <5>5. e \in Good(p, q) \/ WillBe(q, Cards(p), Good(p, q), Bad(p, q))
          BY <3>2, <3>5, <3>8, <4>2, <5>4 DEF Fulfilled, kept
        <5> HIDE DEF e
        <5> QED BY <1>0, <2>1, <3>2, <4>1, <5>4, <5>5, PostWillBe
      <4> QED BY <2>1, <4>2 DEF Fulfilled, Due
    <3> QED BY <3>7, <3>8
  <2>3. CASE \E s \in Hushed : Hushes(x, s[1], s[2])
    <3>1. PICK s \in Hushed : Hushes(x, s[1], s[2]) BY <2>3
    <3>2. /\ answer[x] = s[1] /\ answer'[x] = s[2] /\ UNCHANGED bus /\ excused \subseteq excused'
          /\ \A y \in Answers \ {x} : answer'[y] = answer[y] /\ (y \in saved' <=> y \in saved)
          /\ IF s[2] = "saving" THEN x \in saved' ELSE saved' = saved
      BY <1>0, <3>1, HushesLeaves
    <3>3. WillBe(q, Cards(p), Good(p, q), Bad(p, q)) => WillBe(q, Cards(p), Good(p, q), Bad(p, q))'
      BY <2>1, <3>2, StillWillBe
    <3>4. Promised(p, answer'[q], q \in saved') => Promised(p, answer[q], q \in saved)
      <4> DEFINE kept == q \in saved  kept1 == q \in saved'
      <4>1. CASE q = x
        <5>1. kept \in BOOLEAN /\ kept1 \in BOOLEAN OBVIOUS
        <5>2. IF s[2] = "saving" THEN kept1 ELSE kept1 = kept BY <3>2, <4>1
        <5>3. answer[q] = s[1] /\ answer'[q] = s[2] BY <3>2, <4>1
        <5> HIDE DEF kept, kept1
        <5>4. Promised(p, s[2], kept1) => Promised(p, s[1], kept) BY <5>1, <5>2, HushedGood
        <5> QED BY <5>3, <5>4 DEF kept, kept1
      <4>2. CASE q # x
        <5>1. answer'[q] = answer[q] /\ (q \in saved') = (q \in saved) BY <3>2, <4>2
        <5> QED BY <5>1
      <4> QED BY <4>1, <4>2
    <3> QED BY <1>f, <2>1, <3>2, <3>3, <3>4, KeepFollow
  <2> QED BY <1>0, <1>1, <2>2, <2>3, AdvanceKinds
<1>2. ASSUME NEW kind \in {"ask", "clear"}, CancelWork(kind) PROVE Fulfilled(p, q)'
  <2>1. UNCHANGED <<answer, saved, excused, bus, linked, wire, card>> /\ ending = "no" /\ Due(p)
    BY <1>2 DEF CancelWork, clientVars, Due
  <2>2. Fulfilled(p, q) BY <1>f, <2>1
  <2> QED BY <2>1, <2>2, StillWillBe DEF Fulfilled
<1>3. ASSUME ForgetCommits PROVE Fulfilled(p, q)'
  <2>1. /\ answer'[q] = answer[q] \/ answer'[q] = "orphan"
        /\ ending \in {"ask", "clear"} /\ UNCHANGED <<saved, bus, excused, linked, wire, card>>
    BY <1>0, <1>3, ForgetLeaves DEF clientVars
  <2>2. Promised(p, answer'[q], q \in saved') => Promised(p, answer[q], q \in saved)
    <3>1. (q \in saved') = (q \in saved) BY <2>1
    <3>2. CASE answer'[q] = answer[q] BY <3>1, <3>2
    <3>3. CASE answer'[q] = "orphan"
      <4>1. answer'[q] \notin {"told", "stored"} /\ answer'[q] \notin Over BY <3>3 DEF Over
      <4> QED BY <3>1, <4>1 DEF Promised, Promises
    <3> QED BY <2>1, <3>2, <3>3
  <2>3. Fulfilled(p, q) /\ Due(p) BY <1>f, <2>1 DEF Due
  <2> QED BY <2>1, <2>2, <2>3, StillWillBe DEF Fulfilled
<1>9. ASSUME EmptySession PROVE Fulfilled(p, q)'
  <2>1. /\ saved' = {} /\ ending' = "tell" /\ ending = "empty" /\ excused \subseteq excused'
        /\ UNCHANGED <<answer, bus, linked, wire, card>>
    BY <1>9 DEF EmptySession, clientVars
  <2>2. Fulfilled(p, q) /\ Due(p) BY <1>f, <2>1 DEF Due
  <2>3. ASSUME Due(p)', Promised(p, answer'[q], q \in saved') PROVE Promised(p, answer[q], q \in saved)
    <3>1. p # "not done" /\ ~(q \in saved') BY <2>1, <2>3 DEF Due
    <3>2. p = "over" BY <2>3, <3>1 DEF Promised, Promises
    <3> QED BY <2>1, <2>3, <3>2 DEF Promised
  <2> QED BY <2>1, <2>2, <2>3, StillWillBe DEF Fulfilled
<1>10. ASSUME TellCleared PROVE Fulfilled(p, q)'
  <2>1. /\ ending = "tell" /\ Broadcast(Event("cleared", Answers))
        /\ UNCHANGED <<answer, saved, linked, wire, card>>
    BY <1>10 DEF TellCleared, clientVars
  <2> DEFINE e == Event("cleared", Answers)
  <2>2. Answers \in SUBSET Answers /\ "cleared" \in EventKinds BY DEF EventKinds
  <2>3. e \in EventTypes /\ e.of = Answers BY <2>2, EventTyped
  <2>4. excused \subseteq excused' /\ bus' = Append(bus, e)
    <3>1. /\ excused \subseteq excused'
          /\ bus' = Append(bus, e) \/ (bus' = bus /\ e.of \subseteq excused')
      BY <1>0, <2>1, <2>3, BroadcastLeaves
    <3> QED BY <2>3, <3>1
  <2>5. (q \in saved) = FALSE BY <1>0, <2>1, <2>4 DEF NothingFalse, Accounted
  <2>6. ASSUME Promised(p, answer'[q], q \in saved') PROVE WillBe(q, Cards(p), Good(p, q), Bad(p, q))'
    <3>1. Promised(p, answer[q], FALSE)
      <4>1. (q \in saved') = FALSE /\ answer'[q] = answer[q] BY <2>1, <2>5
      <4> QED BY <2>6, <4>1
    <3>2. e \in Good(p, q) /\ e \notin Bad(p, q) BY <3>1, ClearedGood
    <3> HIDE DEF e
    <3> QED BY <1>0, <2>1, <2>3, <2>4, <3>2, PostWillBe
  <2> QED BY <2>6 DEF Fulfilled
<1>4. ASSUME Dispatch PROVE Fulfilled(p, q)'
  BY <1>0, <1>4, <1>u, DispatchWillBe DEF Dispatch, serverVars
<1>5. ASSUME NEW c \in Clients, Connect(c) PROVE Fulfilled(p, q)'
  <2>1. UNCHANGED <<answer, saved, excused, ending>> BY <1>5 DEF Connect, serverVars
  <2>2. Fulfilled(p, q) BY <1>f, <2>1
  <2>3. ASSUME Due(p), Promised(p, answer[q], q \in saved) PROVE WillBe(q, Cards(p), Good(p, q), Bad(p, q))'
    <3>1. Event("init", saved) \in Good(p, q) /\ Event("init", saved) \notin Bad(p, q)
      BY <1>0, <2>3, SnapshotGood
    <3>2. WillBe(q, Cards(p), Good(p, q), Bad(p, q)) BY <2>2, <2>3 DEF Fulfilled
    <3> QED BY <1>0, <1>5, <3>1, <3>2, ConnectWillBe
  <2> QED BY <2>1, <2>3 DEF Fulfilled, Due
<1>6. ASSUME NEW c \in Clients, Break(c) PROVE Fulfilled(p, q)'
  BY <1>0, <1>6, <1>u, BreakWillBe DEF Break, serverVars
<1>7. ASSUME NEW c \in Clients, HandleMessage(c) PROVE Fulfilled(p, q)'
  <2> DEFINE e == Head(wire[c])  was == card[c][q]
  <2>1. /\ wire[c] # <<>> /\ wire[c] \in Seq(EventTypes) /\ e \in EventTypes
        /\ UNCHANGED <<answer, saved, excused, ending>>
    BY <1>0, <1>7, HandleLeaves
  <2>2. True(e, answer)
    <3>1. Len(wire[c]) \in Nat /\ Len(wire[c]) >= 1 /\ e = wire[c][1] BY <2>1, TailEvents
    <3>2. 1 \in 1..Len(wire[c]) BY <3>1
    <3> QED BY <1>0, <3>1, <3>2 DEF NothingFalse
  <2>3. was \in Statuses /\ Likely(was, answer[q]) BY <1>0, <1>00 DEF NothingFalse
  <2>4. /\ e \in Good(p, q) => Shown(e, q, was) \in Cards(p)
        /\ e \notin Bad(p, q) /\ was \in Cards(p) => Shown(e, q, was) \in Cards(p)
    <3> HIDE DEF e, was
    <3> QED BY <2>1, <2>2, <2>3, ShownPromised
  <2>5. WillBe(q, Cards(p), Good(p, q), Bad(p, q)) => WillBe(q, Cards(p), Good(p, q), Bad(p, q))'
    BY <1>0, <1>7, <2>4, HandleWillBe
  <2> QED BY <1>u, <2>1, <2>5
<1>8. ASSUME NEW c \in Clients, FlushChunks(c) PROVE Fulfilled(p, q)'
  BY <1>8, <1>u, StillWillBe DEF FlushChunks, serverVars
<1> QED BY <1>1, <1>2, <1>3, <1>4, <1>5, <1>6, <1>7, <1>8, <1>9, <1>10 DEF ViewNext

\* An event appended to the queue, if it announces the answer, finds it not failed.
LEMMA PostStays ==
    ASSUME ViewTypeOK, NEW q \in Answers, StaysFailed(q), UNCHANGED <<wire, card>>,
           NEW e \in EventTypes, bus' = bus \/ bus' = Append(bus, e),
           e \in Risen(q) => NothingFalse /\ answer[q] # "failed"
    PROVE  StaysFailed(q)'
<1>1. bus \in Seq(EventTypes) /\ wire \in [Clients -> Seq(EventTypes)] BY DEF ViewTypeOK
<1>2. CASE bus' = bus BY <1>2 DEF StaysFailed
<1>3. CASE bus' = Append(bus, e)
  <2>1. /\ Has(bus', Risen(q)) <=> Has(bus, Risen(q)) \/ e \in Risen(q)
        /\ (e \in Risen(q) => ~Has(bus, Fallen(q))) => Never(bus', Fallen(q), Risen(q))
    BY <1>1, <1>3, AppendNever DEF StaysFailed
  <2>2. ASSUME e \in Risen(q)
        PROVE  /\ ~Has(bus, Fallen(q))
               /\ \A c \in Clients : card[c][q] # "error" /\ ~Has(wire[c], Fallen(q))
    <3>1. NothingFalse /\ answer[q] # "failed" BY <2>2
    <3>2. \A f \in Fallen(q) : ~True(f, answer) BY <3>1 DEF Fallen, Of, True, Tells
    <3>3. ~Has(bus, Fallen(q)) BY <3>1, <3>2 DEF Has, NothingFalse
    <3>4. ASSUME NEW c \in Clients PROVE ~Has(wire[c], Fallen(q))
      <4>1. \A i \in 1..Len(wire[c]) : True(wire[c][i], answer) BY <3>1 DEF NothingFalse
      <4> QED BY <3>2, <4>1 DEF Has
    <3>5. \A c \in Clients : card[c][q] # "error" BY <3>1 DEF NothingFalse, Likely
    <3> QED BY <3>3, <3>4, <3>5
  <2> QED BY <2>1, <2>2 DEF StaysFailed
<1> QED BY <1>2, <1>3

LEMMA NoneRisesStep == ViewTypeOK /\ NothingFalse /\ NoneRises /\ ViewNext => NoneRises'
<1> SUFFICES ASSUME ViewTypeOK, NothingFalse, NoneRises, ViewNext, NEW q \in Answers PROVE StaysFailed(q)'
  BY DEF NoneRises
<1>0. /\ bus \in Seq(EventTypes) /\ wire \in [Clients -> Seq(EventTypes)] /\ linked \subseteq Clients
      /\ card \in [Clients -> [Answers -> Statuses]] /\ saved \subseteq Answers /\ StaysFailed(q)
  BY DEF ViewTypeOK, Statuses, NoneRises
<1> DEFINE f == Fallen(q)  d == Risen(q)
<1>u. UNCHANGED <<bus, wire, card>> => StaysFailed(q)' BY <1>0 DEF StaysFailed
<1>1. ASSUME NEW x \in Answers, Advance(x) PROVE StaysFailed(q)'
  <2>1. UNCHANGED <<wire, card>> BY <1>1, AdvanceKinds DEF clientVars
  <2>2. CASE \E s \in Spoken : Speaks(x, s[1], s[2], s[3])
    <3>1. PICK s \in Spoken : Speaks(x, s[1], s[2], s[3]) BY <2>2
    <3> DEFINE e == Event(s[3], {x})
    <3>2. answer[x] = s[1] /\ s[3] \in EventKinds /\ e \in EventTypes /\ Broadcast(e) BY <3>1, SpeaksLeaves
    <3>3. e.kind = s[3] /\ e.of = {x} BY <3>2, EventTyped
    <3>4. s[3] = "done" => s[1] = "saving" BY DEF Spoken
    <3> HIDE DEF e
    <3>5. e \in Risen(q) => answer[q] # "failed" BY <3>2, <3>3, <3>4 DEF Risen, Of
    <3>6. bus' = bus \/ bus' = Append(bus, e) BY <3>2, BroadcastLeaves
    <3> QED BY <1>0, <2>1, <3>2, <3>5, <3>6, PostStays
  <2>3. CASE \E s \in Hushed : Hushes(x, s[1], s[2]) BY <1>u, <2>1, <2>3, HushesLeaves
  <2> QED BY <1>1, <2>2, <2>3, AdvanceKinds
<1>2. CASE CancelWork("ask") \/ CancelWork("clear") BY <1>u, <1>2 DEF CancelWork, clientVars
<1>3. CASE ForgetCommits \/ EmptySession BY <1>u, <1>3 DEF ForgetCommits, EmptySession, clientVars
<1>4. CASE TellCleared
  <2>1. Answers \in SUBSET Answers /\ "cleared" \in EventKinds BY DEF EventKinds
  <2> DEFINE e == Event("cleared", Answers)
  <2>2. e \in EventTypes /\ e.kind = "cleared" BY <2>1, EventTyped
  <2>3. Broadcast(e) /\ UNCHANGED <<wire, card>> BY <1>4 DEF TellCleared, clientVars
  <2> HIDE DEF e
  <2>4. e \notin Risen(q) BY <2>2 DEF Risen, Of
  <2>5. bus' = bus \/ bus' = Append(bus, e) BY <2>2, <2>3, BroadcastLeaves
  <2> QED BY <1>0, <2>2, <2>3, <2>4, <2>5, PostStays
<1>5. CASE Dispatch
  <2> DEFINE h == Head(bus)
  <2>1. /\ bus # <<>> /\ bus' = Tail(bus) /\ UNCHANGED card
        /\ \A c \in Clients : wire'[c] = IF c \in linked THEN Append(wire[c], h) ELSE wire[c]
    BY <1>5 DEF Dispatch
  <2>2. h \in EventTypes BY <1>0, <2>1, TailEvents
  <2>3. /\ Has(bus', d) => Has(bus, d)
        /\ h \in d => Has(bus, d)
        /\ Never(bus', f, d) /\ (h \in f => ~Has(bus', d))
    <3>1. Never(bus, f, d) BY <1>0 DEF StaysFailed
    <3>2. (Has(bus', d) => Has(bus, d)) /\ (h \in d => Has(bus, d)) BY <1>0, <2>1, TailHas
    <3>3. Never(bus', f, d) BY <1>0, <2>1, <3>1, TailNever
    <3>4. h \in f => ~Has(bus', d) BY <1>0, <2>1, <3>1, TailNever
    <3> QED BY <3>2, <3>3, <3>4
  <2> HIDE DEF h
  <2>4. ASSUME NEW c \in Clients
        PROVE  /\ Never(wire'[c], f, d) /\ (card'[c][q] = "error" \/ Has(wire'[c], f) => ~Has(bus', d))
               /\ card'[c][q] = "error" => ~Has(wire'[c], d)
    <3>1. /\ Never(wire[c], f, d) /\ (card[c][q] = "error" \/ Has(wire[c], f) => ~Has(bus, d))
          /\ card[c][q] = "error" => ~Has(wire[c], d)
          /\ wire[c] \in Seq(EventTypes)
      BY <1>0 DEF StaysFailed
    <3>2. CASE c \notin linked BY <2>1, <2>3, <3>1, <3>2
    <3>3. CASE c \in linked
      <4>1. wire'[c] = Append(wire[c], h) BY <2>1, <3>3
      <4>2. Has(wire'[c], f) <=> Has(wire[c], f) \/ h \in f
        BY <2>2, <3>1, <4>1, AppendHas
      <4>3. Has(wire'[c], d) <=> Has(wire[c], d) \/ h \in d
        BY <2>2, <3>1, <4>1, AppendHas
      <4>4. Never(wire[c], f, d) /\ (h \in d => ~Has(wire[c], f)) => Never(wire'[c], f, d)
        BY <2>2, <3>1, <4>1, AppendNever
      <4> QED BY <2>1, <2>3, <3>1, <4>2, <4>3, <4>4
    <3> QED BY <3>2, <3>3
  <2> QED BY <2>3, <2>4 DEF StaysFailed
<1>6. ASSUME NEW c \in Clients, Connect(c) \/ Break(c) PROVE StaysFailed(q)'
  <2>1. /\ UNCHANGED <<bus, card>>
        /\ \A x \in Clients : wire'[x] = wire[x] \/ wire'[x] \in {<<>>, Append(<<>>, Event("init", saved))}
    BY <1>0, <1>6 DEF Connect, Break
  <2> DEFINE e == Event("init", saved)
  <2>2. e \in EventTypes /\ e.kind = "init"
    <3>1. saved \in SUBSET Answers /\ "init" \in EventKinds BY <1>0 DEF EventKinds
    <3> QED BY <3>1, EventTyped
  <2> HIDE DEF e
  <2>3. e \notin f /\ e \notin d BY <2>2 DEF Fallen, Risen, Of
  <2>4. <<>> \in Seq(EventTypes) OBVIOUS
  <2>5. \A s \in {<<>>, Append(<<>>, e)} : Never(s, f, d) /\ ~Has(s, f) /\ ~Has(s, d)
    <3>1. Never(<<>>, f, d) /\ ~Has(<<>>, f) /\ ~Has(<<>>, d) BY EmptyMends
    <3>2. ~Has(Append(<<>>, e), f) BY <2>2, <2>3, <2>4, <3>1, AppendHas
    <3>3. ~Has(Append(<<>>, e), d) BY <2>2, <2>3, <2>4, <3>1, AppendHas
    <3>4. Never(Append(<<>>, e), f, d) BY <2>2, <2>3, <2>4, <3>1, AppendNever
    <3> QED BY <3>1, <3>2, <3>3, <3>4
  <2>6. \A x \in Clients : wire'[x] = wire[x] \/ (Never(wire'[x], f, d) /\ ~Has(wire'[x], f) /\ ~Has(wire'[x], d))
    BY <2>1, <2>5 DEF e
  <2> QED BY <1>0, <2>1, <2>6 DEF StaysFailed
<1>7. ASSUME NEW c \in Clients, HandleMessage(c) PROVE StaysFailed(q)'
  <2> DEFINE h == Head(wire[c])  was == card[c][q]
  <2>1. /\ wire[c] # <<>> /\ wire[c] \in Seq(EventTypes) /\ h \in EventTypes /\ wire'[c] = Tail(wire[c])
        /\ card'[c][q] = Shown(h, q, was) /\ bus' = bus
        /\ \A x \in Clients \ {c} : wire'[x] = wire[x] /\ card'[x] = card[x]
    BY <1>7, HandleLeaves
  <2>2. /\ Has(wire'[c], f) => Has(wire[c], f)
        /\ Has(wire'[c], d) => Has(wire[c], d)
        /\ Never(wire'[c], f, d) /\ (h \in f => ~Has(wire'[c], d) /\ Has(wire[c], f))
    <3>1. Never(wire[c], f, d) BY <1>0 DEF StaysFailed
    <3>2. Has(wire'[c], f) => Has(wire[c], f) BY <2>1, TailHas
    <3>3. Has(wire'[c], d) => Has(wire[c], d) BY <2>1, TailHas
    <3>4. Never(wire'[c], f, d) BY <2>1, <3>1, TailNever
    <3>5. h \in f => ~Has(wire'[c], d) BY <2>1, <3>1, TailNever
    <3>6. h \in f => Has(wire[c], f) BY <2>1, TailHas
    <3> QED BY <3>2, <3>3, <3>4, <3>5, <3>6
  <2>3. was \in Statuses /\ h.kind \in EventKinds BY <1>0, <2>1 DEF EventTypes
  <2> HIDE DEF h, was
  <2>4. Shown(h, q, was) = "error" => h \in f \/ was = "error"
    BY <2>1, <2>3 DEF Shown, Told, Fallen, Of, EventKinds, Statuses, Settled
  <2>5. /\ was = "error" \/ Has(wire[c], f) => ~Has(bus, d)
        /\ was = "error" => ~Has(wire[c], d)
    BY <1>0 DEF StaysFailed, was
  <2>6. /\ Never(wire'[c], f, d) /\ (card'[c][q] = "error" \/ Has(wire'[c], f) => ~Has(bus', d))
        /\ card'[c][q] = "error" => ~Has(wire'[c], d)
    BY <2>1, <2>2, <2>4, <2>5
  <2>7. \A x \in Clients \ {c} :
          /\ Never(wire'[x], f, d) /\ (card'[x][q] = "error" \/ Has(wire'[x], f) => ~Has(bus', d))
          /\ card'[x][q] = "error" => ~Has(wire'[x], d)
    BY <1>0, <2>1 DEF StaysFailed
  <2> QED BY <1>0, <2>1, <2>6, <2>7 DEF StaysFailed
<1>8. ASSUME NEW c \in Clients, FlushChunks(c) PROVE StaysFailed(q)'
  BY <1>8, <1>u DEF FlushChunks
<1> QED BY <1>1, <1>2, <1>3, <1>4, <1>5, <1>6, <1>7, <1>8 DEF ViewNext

LEMMA ViewStep == ViewIInv /\ ViewNext => ViewIInv'
<1> SUFFICES ASSUME ViewIInv, ViewNext PROVE ViewIInv' OBVIOUS
<1>1. ViewTypeOK' BY TypesStep DEF ViewIInv
<1>2. NothingFalse' BY <1>1, NothingFalseStep DEF ViewIInv
<1>3. ViewsFollow' BY ViewsFollowStep
<1>4. NoneRises' BY NoneRisesStep DEF ViewIInv
<1> QED BY <1>1, <1>2, <1>3, <1>4 DEF ViewIInv

LEMMA ViewStutter == ViewIInv /\ UNCHANGED viewVars => ViewIInv'
<1> SUFFICES ASSUME ViewIInv, UNCHANGED viewVars PROVE ViewIInv' OBVIOUS
<1>0. UNCHANGED <<answer, chunks, stale, saved, ending, bus, excused, linked, wire, card, buffer, ends>> BY DEF viewVars
<1>1. ViewTypeOK' BY <1>0 DEF ViewIInv, ViewTypeOK
<1>2. NothingFalse' BY <1>0 DEF ViewIInv, NothingFalse, Accounted
<1>3. ViewsFollow' BY <1>0 DEF ViewIInv, ViewsFollow, Fulfilled, Due, WillBe
<1>4. NoneRises' BY <1>0 DEF ViewIInv, NoneRises, StaysFailed
<1> QED BY <1>1, <1>2, <1>3, <1>4 DEF ViewIInv

LEMMA FollowShows == ViewIInv => ViewInv
<1> SUFFICES ASSUME ViewIInv PROVE ViewInv OBVIOUS
<1>0. ViewTypeOK /\ NothingFalse BY DEF ViewIInv
<1>1. QuietViewsAgree
  <2> SUFFICES ASSUME NEW c \in linked, bus = <<>>, wire[c] = <<>>, ~Committing, ending # "tell",
                      NEW q \in Answers \ excused
               PROVE  Agrees(c, q)
    BY DEF QuietViewsAgree
  <2>1. ASSUME NEW p \in Promises, Promised(p, answer[q], q \in saved) PROVE card[c][q] \in Cards(p)
    <3>1. WillBe(q, Cards(p), Good(p, q), Bad(p, q)) BY <2>1 DEF ViewIInv, ViewsFollow, Fulfilled, Due
    <3>2. ~Has(bus, Good(p, q)) /\ ~Has(wire[c], Good(p, q)) BY EmptyMends
    <3> QED BY <3>1, <3>2 DEF WillBe
  <2>2. ASSUME q \in saved PROVE card[c][q] = "done"
    <3>1. answer[q] = "stored" BY <1>0, <2>2 DEF NothingFalse, Accounted, Committing, InCommit
    <3>2. Promised("done", answer[q], q \in saved) BY <2>2, <3>1 DEF Promised
    <3>3. card[c][q] \in Cards("done") BY <2>1, <3>2 DEF Promises
    <3> QED BY <3>3 DEF Cards
  <2>3. ASSUME q \notin saved PROVE card[c][q] # "done"
    <3>1. Promised("not done", answer[q], q \in saved) BY <2>3 DEF Promised
    <3>2. card[c][q] \in Cards("not done") BY <2>1, <3>1 DEF Promises
    <3>3. Cards("not done") = Statuses \ {"done"} BY DEF Cards
    <3> QED BY <3>2, <3>3
  <2>4. ASSUME card[c][q] \in {"cue", "live"} PROVE Unfinished(q)
    <3>1. answer[q] \notin Over
      <4> SUFFICES ASSUME answer[q] \in Over PROVE FALSE OBVIOUS
      <4>1. Promised("over", answer[q], q \in saved) BY DEF Promised
      <4>2. card[c][q] \in Cards("over") BY <2>1, <4>1 DEF Promises
      <4>3. Cards("over") = Statuses \ {"cue", "live"} BY DEF Cards
      <4> QED BY <2>4, <4>2, <4>3
    <3>2. answer[q] \in Stages BY <1>0 DEF ViewTypeOK, Stages
    <3> QED BY <3>1, <3>2 DEF Unfinished, Underway, InCommit, Stages, Over
  <2> QED BY <2>2, <2>3, <2>4 DEF Agrees
<1> QED BY <1>0, <1>1 DEF ViewInv

\* The cards and the session.  A client that has received all that is under way shows
\* as done what the session holds and nothing else, and as streaming only what may
\* still end, however often it was cut off and however the snapshot sent to it on its
\* return raced the queue, while no answer is being stored and no clear about to be
\* told.  Excused are the answers of which the full queue dropped an event, and those
\* stored while a clear emptied the session.
THEOREM ViewInvariance == ViewSpec => []ViewInv
<1>1. ViewInit => ViewIInv BY ViewStart
<1>2. ViewIInv /\ [ViewNext]_viewVars => ViewIInv' BY ViewStep, ViewStutter
<1>3. ViewIInv => ViewInv BY FollowShows
<1> QED BY <1>1, <1>2, <1>3, PTL DEF ViewSpec

FinalKept ==
    \A c \in Clients, q \in Answers :
        card[c][q] \in Settled /\ card'[c][q] # card[c][q] =>
            \/ wire[c] # <<>> /\ Head(wire[c]).kind \in {"init", "cleared"}
            \/ card'[c][q] = "error" /\ answer[q] = "failed"

LEMMA FinalStep == ViewIInv /\ [ViewNext]_viewVars => FinalKept
<1> SUFFICES ASSUME ViewIInv, [ViewNext]_viewVars, NEW c \in Clients, NEW q \in Answers,
                    card[c][q] \in Settled, card'[c][q] # card[c][q],
                    ~(wire[c] # <<>> /\ Head(wire[c]).kind \in {"init", "cleared"})
             PROVE  card'[c][q] = "error" /\ answer[q] = "failed"
  BY DEF FinalKept
<1>0. ViewTypeOK /\ NothingFalse BY DEF ViewIInv
<1>1. HandleMessage(c)
  <2>1. ViewNext BY DEF viewVars
  <2>2. card' # card OBVIOUS
  <2>3. \A x \in Answers : ~Advance(x) BY <1>0, <2>2, AdvanceKinds DEF clientVars
  <2>4. ~CancelWork("ask") /\ ~CancelWork("clear") BY <2>2 DEF CancelWork, clientVars
  <2>5. ~ForgetCommits /\ ~EmptySession /\ ~TellCleared /\ ~Dispatch
    BY <2>2 DEF ForgetCommits, EmptySession, TellCleared, Dispatch, clientVars
  <2>6. \A d \in Clients : ~Connect(d) /\ ~Break(d) /\ ~FlushChunks(d)
    BY <2>2 DEF Connect, Break, FlushChunks
  <2>7. PICK d \in Clients : HandleMessage(d) BY <2>1, <2>3, <2>4, <2>5, <2>6 DEF ViewNext
  <2>8. d = c BY <1>0, <2>7, HandleLeaves
  <2> QED BY <2>7, <2>8
<1> DEFINE e == Head(wire[c])  was == card[c][q]
<1>2. /\ wire[c] # <<>> /\ wire[c] \in Seq(EventTypes) /\ e \in EventTypes
      /\ card'[c][q] = Shown(e, q, was)
  BY <1>0, <1>1, HandleLeaves
<1>3. e.kind \notin {"init", "cleared"} /\ e.kind \in EventKinds BY <1>2 DEF EventTypes
<1>4. Len(wire[c]) \in Nat /\ Len(wire[c]) >= 1 /\ e = wire[c][1] BY <1>2, TailEvents
<1>5. 1 \in 1..Len(wire[c]) BY <1>4
<1>6. True(e, answer) /\ Likely(was, answer[q]) BY <1>0, <1>4, <1>5 DEF NothingFalse
<1>7. was \in Settled /\ Shown(e, q, was) # was BY <1>2
<1> HIDE DEF e, was
<1>8. Shown(e, q, was) = IF q \in e.of THEN Told(e.kind, was) ELSE was BY <1>3 DEF Shown
<1>9. q \in e.of /\ Told(e.kind, was) # was BY <1>7, <1>8
<1>10. Tells(e.kind, answer[q]) BY <1>6, <1>9 DEF True
<1>11. was \in {"done", "cancelled", "error"} /\ answer[q] \in Kept \union {"cancelled"}
  BY <1>6, <1>7 DEF Likely, Settled, Kept
<1>12. e.kind \notin {"cue", "start", "chunk"}
  <2>1. \A k \in {"cue", "start", "chunk"} : Told(k, was) = was BY <1>7, <1>11 DEF Told, Settled
  <2> QED BY <1>9, <2>1
<1>13. e.kind # "retract" BY <1>10, <1>11 DEF Tells, Kept
<1>14. e.kind # "done"
  <2> SUFFICES ASSUME e.kind = "done" PROVE FALSE OBVIOUS
  <2>1. answer[q] # "cancelled" BY <1>10 DEF Tells
  <2>2. was # "error"
    <3>1. e \in Risen(q) BY <1>2, <1>9 DEF Risen, Of
    <3>2. Has(wire[c], Risen(q)) BY <1>4, <1>5, <3>1 DEF Has
    <3> QED BY <3>2 DEF ViewIInv, NoneRises, StaysFailed, was
  <2>3. was = "done" BY <1>6, <1>11, <2>1, <2>2 DEF Likely
  <2> QED BY <1>9, <2>3 DEF Told
<1>15. e.kind # "cancelled"
  <2> SUFFICES ASSUME e.kind = "cancelled" PROVE FALSE OBVIOUS
  <2>1. answer[q] = "cancelled" BY <1>10 DEF Tells
  <2>2. was = "cancelled" BY <1>6, <1>11, <2>1 DEF Likely, Kept
  <2> QED BY <1>9, <2>2 DEF Told
<1>16. e.kind = "error" BY <1>3, <1>12, <1>13, <1>14, <1>15 DEF EventKinds
<1>17. answer[q] = "failed" BY <1>10, <1>16 DEF Tells
<1>18. Told(e.kind, was) = "error" BY <1>11, <1>16 DEF Told
<1> QED BY <1>2, <1>8, <1>9, <1>17, <1>18 DEF e, was

\* A card that has ended is not reopened or changed by an event that comes late: only
\* when the session is shown anew, or when an answer shown as done, by a snapshot or by
\* its own announcement, could not be stored after all.
THEOREM FinalInvariance == ViewSpec => FinalStays
<1>1. ViewInit => ViewIInv BY ViewStart
<1>2. ViewIInv /\ [ViewNext]_viewVars => ViewIInv' BY ViewStep, ViewStutter
<1>3. ViewIInv /\ [ViewNext]_viewVars => FinalKept BY FinalStep
<1> QED BY <1>1, <1>2, <1>3, PTL DEF ViewSpec, FinalStays, FinalKept
=============================================================================

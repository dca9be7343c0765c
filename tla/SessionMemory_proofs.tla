------------------------- MODULE SessionMemory_proofs -------------------------
(***************************************************************************)
(* Proofs about SessionMemory for every number of questions and sessions   *)
(* and all sizes the assumption allows: the history is in order, one       *)
(* compactor works for a session, and the memo and the history are apart.  *)
(*                                                                         *)
(* A write-back cuts as many messages as were summarised.  That they are   *)
(* the messages summarised is the heart of it: beyond the length of the    *)
(* snapshot the history holds none of them (Beyond), whatever trimmed or   *)
(* extended it, and the history is never shorter than the snapshot, even   *)
(* when a commit is undone (Covered).                                      *)
(***************************************************************************)
EXTENDS SessionMemory, FiniteSetTheorems, TLAPS

Increasing(h) == \A i, j \in 1 .. Len(h) : i < j => h[i] < h[j]

Beyond(h, snap) == \A i \in 1 .. Len(h) : i > Len(snap) => h[i] \notin Elems(snap)

\* The questions whose messages may still be written, and the messages before them.
Future == outstanding \union {q \in {commit.q} : commit.pc = "write"}
Past == {m \in Nat : m < 2 * asked /\ \A q \in Future : m < 2 * q}

Shape ==
    /\ activeSession \in 0 .. created - 1 /\ created \in 1 .. MaxSessions
    /\ asked \in 0 .. MaxAsks /\ askedIn \in [Questions -> Sessions]
    /\ outstanding \subseteq 0 .. asked - 1
    /\ history \in [Sessions -> Seq(Nat)] /\ qa \in [Sessions -> Seq(Questions)]
    /\ summary \in [Sessions -> SUBSET Nat] /\ compacting \in [Sessions -> BOOLEAN]
    /\ compactors \subseteq [sess : Sessions, snap : Seq(Nat), prior : SUBSET Nat]
    /\ commit \in [pc : {"idle", "write", "wrote"}, q : Nat, sess : Sessions,
                   preHist : Nat, preQa : Nat]
    /\ cancel \in {"idle", "commit", "data"} /\ disturbed \subseteq Sessions

Capped ==
    /\ \A x \in Sessions : Len(history[x]) <= MaxHistory /\ Len(qa[x]) <= QaCap
    /\ \A c \in compactors : c.snap # <<>>

\* What is written is past, and the questions to come are after the one committed.
Ahead ==
    /\ \A x \in Sessions : Elems(history[x]) \subseteq Past /\ summary[x] \subseteq Past
    /\ \A c \in compactors : Elems(c.snap) \subseteq Past /\ c.prior \subseteq Past
    /\ commit.pc # "idle" => commit.q < asked /\ \A q \in outstanding : commit.q < q

\* What a compactor of an undisturbed session will cut is what it summarised.
Covered ==
    \A c \in compactors : c.sess \notin disturbed =>
        /\ c.prior = summary[c.sess]
        /\ Len(c.snap) <= Len(history[c.sess])
        /\ commit.pc # "idle" /\ commit.sess = c.sess => Len(c.snap) <= commit.preHist
        /\ Beyond(history[c.sess], c.snap)

\* What a commit has added is what lies beyond the lengths it read.
Added ==
    /\ commit.pc = "write" => Len(history[commit.sess]) <= commit.preHist
    /\ commit.pc = "wrote" =>
          /\ \A i \in 1 .. Len(history[commit.sess]) :
                i > commit.preHist =>
                    history[commit.sess][i] \in {UserMsg(commit.q), AssistantMsg(commit.q)}
          /\ qa[commit.sess] # <<>> => qa[commit.sess][Len(qa[commit.sess])] = commit.q

\* OneCompactor without counting.
Single ==
    \A x \in Sessions \ disturbed :
        /\ \A c, d \in CompactorsOf(x) : c = d
        /\ compacting[x] <=> CompactorsOf(x) # {}

MemoryIInv ==
    /\ Shape /\ Capped /\ Ahead /\ Covered /\ Added
    /\ HistoryInOrder /\ Single /\ NotTwice
-----------------------------------------------------------------------------
(* Pieces of a history.                                                    *)

\* A piece of a history is a history in order, and the snapshot is still in front.
LEMMA PieceFacts ==
    ASSUME NEW p \in Seq(Nat), NEW h \in Seq(Nat), NEW d \in Nat, d + Len(p) <= Len(h),
           \A i \in 1 .. Len(p) : p[i] = h[d + i]
    PROVE  /\ Increasing(h) => Increasing(p)
           /\ Elems(p) \subseteq Elems(h)
           /\ \A snap \in Seq(Nat) : Beyond(h, snap) => Beyond(p, snap)
<1>1. Len(p) \in Nat /\ Len(h) \in Nat
  OBVIOUS
<1>2. \A i \in 1 .. Len(p) : d + i \in 1 .. Len(h) /\ d + i >= i
  BY <1>1
<1>3. Increasing(h) => Increasing(p)
  BY <1>1, <1>2 DEF Increasing
<1>4. Elems(p) \subseteq Elems(h)
  BY <1>2 DEF Elems
<1>5. ASSUME NEW snap \in Seq(Nat), Beyond(h, snap) PROVE Beyond(p, snap)
  <2>1. Len(snap) \in Nat
    OBVIOUS
  <2>2. SUFFICES ASSUME NEW i \in 1 .. Len(p), i > Len(snap) PROVE p[i] \notin Elems(snap)
    BY DEF Beyond
  <2>3. d + i \in 1 .. Len(h) /\ d + i > Len(snap)
    BY <1>1, <1>2, <2>1, <2>2
  <2>4. h[d + i] \notin Elems(snap)
    BY <1>5, <2>3 DEF Beyond
  <2>5. QED
    BY <2>4
<1>6. QED
  BY <1>3, <1>4, <1>5

\* A part of a sequence is a piece of it.
LEMMA SubSeqPiece ==
    ASSUME NEW S, NEW h \in Seq(S), NEW m \in 1 .. Len(h) + 1, NEW n \in 0 .. Len(h), m <= n + 1
    PROVE  /\ SubSeq(h, m, n) \in Seq(S)
           /\ Len(SubSeq(h, m, n)) = n - m + 1
           /\ \A i \in 1 .. Len(SubSeq(h, m, n)) :
                /\ m + i - 1 \in 1 .. Len(h)
                /\ SubSeq(h, m, n)[i] = h[m + i - 1]
OBVIOUS

\* What is kept is the end of the sequence.
LEMMA KeepLastFacts ==
    ASSUME NEW S, NEW s \in Seq(S), NEW n \in Nat
    PROVE  /\ KeepLast(s, n) \in Seq(S)
           /\ Len(KeepLast(s, n)) = IF Len(s) > n THEN n ELSE Len(s)
           /\ \E d \in Nat : /\ d + Len(KeepLast(s, n)) = Len(s)
                             /\ \A i \in 1 .. Len(KeepLast(s, n)) : KeepLast(s, n)[i] = s[d + i]
<1>1. CASE Len(s) > n
  <2> DEFINE d == Len(s) - n
             k == SubSeq(s, d + 1, Len(s))
  <2>1. /\ d \in Nat /\ d + 1 \in 1 .. Len(s) + 1 /\ Len(s) \in 0 .. Len(s)
        /\ d + 1 <= Len(s) + 1 /\ Len(s) \in Nat
    BY <1>1
  <2>2. KeepLast(s, n) = k
    BY <1>1 DEF KeepLast
  <2>3. /\ k \in Seq(S) /\ Len(k) = Len(s) - (d + 1) + 1
        /\ \A i \in 1 .. Len(k) : k[i] = s[(d + 1) + i - 1]
    BY <2>1, SubSeqPiece
  <2> HIDE DEF k
  <2>4. Len(k) = n /\ d + Len(k) = Len(s) /\ \A i \in 1 .. Len(k) : k[i] = s[d + i]
    BY <2>1, <2>3
  <2> HIDE DEF d
  <2>5. QED
    BY <1>1, <2>1, <2>2, <2>3, <2>4
<1>2. CASE ~(Len(s) > n)
  <2>1. KeepLast(s, n) = s
    BY <1>2 DEF KeepLast
  <2>2. 0 + Len(s) = Len(s) /\ \A i \in 1 .. Len(s) : s[i] = s[0 + i]
    OBVIOUS
  <2>3. QED
    BY <1>2, <2>1, <2>2
<1>3. QED
  BY <1>1, <1>2

\* A message that is later than the history is added at its end.
LEMMA AddMessageFacts ==
    ASSUME NEW h \in Seq(Nat), NEW m \in Nat, Len(h) <= MaxHistory
    PROVE  /\ AddMessage(h, m) \in Seq(Nat) /\ Len(AddMessage(h, m)) <= MaxHistory
           /\ Len(AddMessage(h, m)) >= Len(h) /\ Len(AddMessage(h, m)) <= Len(h) + 1
           /\ Elems(AddMessage(h, m)) \subseteq Elems(h) \union {m}
           /\ Increasing(h) /\ (\A n \in Elems(h) : n < m) => Increasing(AddMessage(h, m))
           /\ \A snap \in Seq(Nat) : Beyond(h, snap) /\ m \notin Elems(snap)
                 => Beyond(AddMessage(h, m), snap)
           /\ \A n \in Nat : \A own : (\A i \in 1 .. Len(h) : i > n => h[i] \in own) /\ Len(h) <= n + 1
                 /\ m \in own => \A i \in 1 .. Len(AddMessage(h, m)) : i > n => AddMessage(h, m)[i] \in own
<1> DEFINE g == Append(h, m)
           a == AddMessage(h, m)
<1>1. /\ g \in Seq(Nat) /\ Len(g) = Len(h) + 1 /\ g[Len(h) + 1] = m
      /\ \A i \in 1 .. Len(h) : g[i] = h[i]
      /\ Len(h) \in Nat /\ MaxHistory \in Nat
  BY SizeAssumption
<1> HIDE DEF g
<1>2. /\ a \in Seq(Nat) /\ Len(a) = IF Len(g) > MaxHistory THEN MaxHistory ELSE Len(g)
      /\ \E d \in Nat : d + Len(a) = Len(g) /\ \A i \in 1 .. Len(a) : a[i] = g[d + i]
  BY <1>1, KeepLastFacts DEF AddMessage, g
<1> HIDE DEF a
<1>3. PICK d \in Nat : d + Len(a) = Len(g) /\ \A i \in 1 .. Len(a) : a[i] = g[d + i]
  BY <1>2
<1>4. Len(a) \in Nat /\ d + Len(a) <= Len(g)
  BY <1>1, <1>2, <1>3
<1>5. /\ Increasing(g) => Increasing(a)
      /\ Elems(a) \subseteq Elems(g)
      /\ \A snap \in Seq(Nat) : Beyond(g, snap) => Beyond(a, snap)
  BY <1>1, <1>2, <1>3, <1>4, PieceFacts
<1>6. Elems(g) \subseteq Elems(h) \union {m}
  <2>1. SUFFICES ASSUME NEW i \in 1 .. Len(g) PROVE g[i] \in Elems(h) \union {m}
    BY DEF Elems
  <2>2. CASE i \in 1 .. Len(h)
    BY <1>1, <2>2 DEF Elems
  <2>3. CASE i = Len(h) + 1
    BY <1>1, <2>3
  <2>4. QED
    BY <1>1, <2>1, <2>2, <2>3
<1>7. ASSUME Increasing(h), \A n \in Elems(h) : n < m PROVE Increasing(g)
  <2>1. \A i \in 1 .. Len(h) : h[i] < m
    BY <1>7 DEF Elems
  <2>2. SUFFICES ASSUME NEW i \in 1 .. Len(g), NEW j \in 1 .. Len(g), i < j
                 PROVE  g[i] < g[j]
    BY DEF Increasing
  <2>3. i \in 1 .. Len(h) /\ g[i] = h[i]
    BY <1>1, <2>2
  <2>4. CASE j \in 1 .. Len(h)
    <3>1. h[i] < h[j]
      BY <1>7, <2>2, <2>3, <2>4 DEF Increasing
    <3>2. g[j] = h[j]
      BY <1>1, <2>4
    <3>3. QED
      BY <2>3, <3>1, <3>2
  <2>5. CASE j = Len(h) + 1
    BY <1>1, <2>1, <2>3, <2>5
  <2>6. j \in 1 .. Len(h) \/ j = Len(h) + 1
    BY <1>1
  <2>7. QED
    BY <2>4, <2>5, <2>6
<1>8. ASSUME NEW snap \in Seq(Nat), Beyond(h, snap), m \notin Elems(snap)
      PROVE  Beyond(g, snap)
  <2>1. SUFFICES ASSUME NEW i \in 1 .. Len(g), i > Len(snap) PROVE g[i] \notin Elems(snap)
    BY DEF Beyond
  <2>2. CASE i \in 1 .. Len(h)
    BY <1>1, <1>8, <2>1, <2>2 DEF Beyond
  <2>3. CASE i = Len(h) + 1
    BY <1>1, <1>8, <2>3
  <2>4. QED
    BY <1>1, <2>1, <2>2, <2>3
<1>9. ASSUME NEW n \in Nat, NEW own, \A i \in 1 .. Len(h) : i > n => h[i] \in own, m \in own
      PROVE  \A i \in 1 .. Len(a) : i > n => a[i] \in own
  <2>1. ASSUME NEW i \in 1 .. Len(g), i > n PROVE g[i] \in own
    <3>1. CASE i = Len(h) + 1 BY <1>1, <1>9, <3>1
    <3>2. CASE i # Len(h) + 1
      <4>1. i \in 1 .. Len(h) /\ g[i] = h[i] BY <1>1, <3>2
      <4> QED BY <1>9, <2>1, <4>1
    <3> QED BY <3>1, <3>2
  <2>2. \A i \in 1 .. Len(a) : d + i \in 1 .. Len(g) /\ d + i >= i
    BY <1>3, <1>4
  <2>3. QED
    BY <1>3, <1>4, <2>1, <2>2
<1>10. Len(a) <= MaxHistory /\ Len(a) >= Len(h) /\ Len(a) <= Len(h) + 1
  BY <1>1, <1>2
<1>11. QED
  BY <1>2, <1>5, <1>6, <1>7, <1>8, <1>9, <1>10 DEF a

\* A snapshot taken now is in front of the history it was taken of.
LEMMA SnapshotFacts ==
    ASSUME NEW h \in Seq(Nat), Len(h) > Trigger, Increasing(h)
    PROVE  LET snap == SubSeq(h, 1, Len(h) - Keep) IN
           /\ snap \in Seq(Nat) /\ Len(snap) = Len(h) - Keep /\ snap # <<>>
           /\ Elems(snap) \subseteq Elems(h) /\ Beyond(h, snap)
<1> DEFINE n == Len(h) - Keep
           snap == SubSeq(h, 1, n)
<1>1. n \in 0 .. Len(h) /\ n > 0 /\ 1 \in 1 .. Len(h) + 1 /\ 1 <= n + 1 /\ Len(h) \in Nat
  BY SizeAssumption
<1>2. /\ snap \in Seq(Nat) /\ Len(snap) = n - 1 + 1
      /\ \A i \in 1 .. Len(snap) : snap[i] = h[1 + i - 1]
  BY <1>1, SubSeqPiece
<1>3. Len(snap) = n /\ \A i \in 1 .. n : snap[i] = h[i]
  BY <1>1, <1>2
<1> HIDE DEF snap
<1>4. snap # <<>>
  BY <1>1, <1>3
<1>5. Elems(snap) \subseteq Elems(h)
  BY <1>1, <1>3 DEF Elems
<1>6. Beyond(h, snap)
  <2>1. SUFFICES ASSUME NEW i \in 1 .. Len(h), i > n, NEW j \in 1 .. n, h[i] = h[j]
                 PROVE  FALSE
    BY <1>3 DEF Beyond, Elems
  <2>2. j \in 1 .. Len(h) /\ j < i
    BY <1>1, <2>1
  <2>3. h[j] < h[i] /\ h[i] \in Nat
    BY <2>1, <2>2 DEF Increasing
  <2>4. QED
    BY <2>1, <2>3
<1>7. QED
  BY <1>2, <1>3, <1>4, <1>5, <1>6 DEF snap

-----------------------------------------------------------------------------
(* The invariant, action by action.                                        *)

\* The invariant gives what the runs check.
LEMMA MemoryBounds == MemoryIInv => MemoryInv
<1>1. SUFFICES ASSUME MemoryIInv PROVE MemoryTypeOK /\ OneCompactor
  BY DEF MemoryIInv, MemoryInv
<1>2. Shape /\ Capped
  BY <1>1 DEF MemoryIInv
<1>3. outstanding \subseteq Questions
  BY <1>2, SizeAssumption DEF Shape, Questions
<1>4. \A x \in Sessions :
          /\ history[x] \in Seq(Nat) /\ Len(history[x]) <= MaxHistory
          /\ qa[x] \in Seq(Questions) /\ Len(qa[x]) <= QaCap
          /\ summary[x] \subseteq Nat
  BY <1>2 DEF Shape, Capped
<1>5. \A c \in compactors : c.sess \in Sessions /\ c.snap \in Seq(Nat) /\ c.snap # <<>>
  BY <1>2 DEF Shape, Capped
<1>6. MemoryTypeOK
  BY <1>2, <1>3, <1>4, <1>5 DEF MemoryTypeOK, Shape
<1>7. OneCompactor
  <2>1. SUFFICES ASSUME NEW x \in Sessions \ disturbed
                 PROVE  Cardinality(CompactorsOf(x)) <= 1
    BY <1>1 DEF OneCompactor, MemoryIInv, Single
  <2>2. \A c, d \in CompactorsOf(x) : c = d
    BY <1>1 DEF MemoryIInv, Single
  <2>3. CASE CompactorsOf(x) = {}
    BY <2>3, FS_EmptySet
  <2>4. ASSUME NEW c \in CompactorsOf(x) PROVE Cardinality(CompactorsOf(x)) <= 1
    <3>1. CompactorsOf(x) = {c}
      BY <2>2, <2>4
    <3>2. QED
      BY <3>1, FS_Singleton
  <2>5. QED
    BY <2>3, <2>4
<1>8. QED
  BY <1>6, <1>7

\* Nothing was asked.
LEMMA MemoryInitInv == MemoryInit => MemoryIInv
<1>1. SUFFICES ASSUME MemoryInit PROVE MemoryIInv
  OBVIOUS
<1>2. Len(<<>>) = 0 /\ Elems(<<>>) = {} /\ 1 .. 0 = {} /\ <<>> \in Seq(Nat) /\ <<>> \in Seq(Questions)
  BY DEF Elems
<1>3. 0 \in Sessions
  BY SizeAssumption DEF Sessions
<1>4. Shape
  BY <1>1, <1>2, <1>3, SizeAssumption DEF MemoryInit, Shape, NoCommit
<1>5. Capped
  BY <1>1, <1>2, SizeAssumption DEF MemoryInit, Capped
<1>6. Ahead
  BY <1>1, <1>2 DEF MemoryInit, Ahead, NoCommit
<1>7. Covered /\ Added
  BY <1>1 DEF MemoryInit, Covered, Added, NoCommit
<1>8. HistoryInOrder /\ NotTwice
  BY <1>1, <1>2 DEF MemoryInit, HistoryInOrder, NotTwice
<1>9. Single
  <2>1. \A x \in Sessions : CompactorsOf(x) = {} /\ compacting[x] = FALSE
    BY <1>1 DEF MemoryInit, CompactorsOf
  <2>2. QED
    BY <2>1 DEF Single
<1>10. QED
  BY <1>4, <1>5, <1>6, <1>7, <1>8, <1>9 DEF MemoryIInv

\* What a step leaves alone in the sessions stays true of them.
LEMMA DataKept ==
    ASSUME MemoryIInv, UNCHANGED <<dataVars, disturbed>>, Past \subseteq Past',
           commit'.pc # "idle" => commit'.q < asked' /\ \A q \in outstanding' : commit'.q < q
    PROVE  Capped' /\ Ahead' /\ HistoryInOrder' /\ Single' /\ NotTwice'
<1>1. Capped /\ Ahead /\ HistoryInOrder /\ Single /\ NotTwice
  BY DEF MemoryIInv
<1>2. UNCHANGED <<history, qa, summary, compacting, compactors, disturbed>>
  BY DEF dataVars
<1>3. Capped'
  BY <1>1, <1>2 DEF Capped
<1>4. Ahead'
  <2>1. \A x \in Sessions : Elems(history[x]) \subseteq Past' /\ summary[x] \subseteq Past'
    BY <1>1 DEF Ahead
  <2>2. \A c \in compactors : Elems(c.snap) \subseteq Past' /\ c.prior \subseteq Past'
    BY <1>1 DEF Ahead
  <2>3. QED
    BY <1>2, <2>1, <2>2 DEF Ahead
<1>5. HistoryInOrder'
  BY <1>1, <1>2 DEF HistoryInOrder
<1>6. Single'
  <2>1. \A x \in Sessions : CompactorsOf(x)' = CompactorsOf(x)
    BY <1>2 DEF CompactorsOf
  <2>2. QED
    BY <1>1, <1>2, <2>1 DEF Single
<1>7. NotTwice'
  BY <1>1, <1>2 DEF NotTwice
<1>8. QED
  BY <1>3, <1>4, <1>5, <1>6, <1>7

\* As long as the commit is as it was, so are the lengths it relies on.
LEMMA CommitKept ==
    ASSUME MemoryIInv, UNCHANGED <<dataVars, disturbed, commit>>
    PROVE  Covered' /\ Added'
<1>1. Covered /\ Added
  BY DEF MemoryIInv
<1>2. UNCHANGED <<history, qa, summary, compacting, compactors, disturbed, commit>>
  BY DEF dataVars
<1>3. QED
  BY <1>1, <1>2 DEF Covered, Added

\* Questions, sessions and the beginnings of a cancellation touch no history.
LEMMA AskKeeps == MemoryIInv /\ AskQuestion => MemoryIInv'
<1>1. SUFFICES ASSUME MemoryIInv, AskQuestion PROVE MemoryIInv'
  OBVIOUS
<1>2. Shape /\ Ahead
  BY <1>1 DEF MemoryIInv
<1>3. /\ asked < MaxAsks /\ asked' = asked + 1 /\ outstanding' = outstanding \union {asked}
      /\ askedIn' = [askedIn EXCEPT ![asked] = activeSession]
      /\ UNCHANGED <<activeSession, created, dataVars, commit, cancel, disturbed>>
  BY <1>1 DEF AskQuestion
<1>4. asked \in Nat /\ MaxAsks \in Nat /\ asked \in Questions /\ activeSession \in Sessions
  BY <1>2, <1>3, SizeAssumption DEF Shape, Questions, Sessions
<1>5. Shape'
  <2>1. outstanding' \subseteq 0 .. asked' - 1 /\ asked' \in 0 .. MaxAsks
    BY <1>2, <1>3, <1>4 DEF Shape
  <2>2. askedIn' \in [Questions -> Sessions]
    BY <1>2, <1>3, <1>4 DEF Shape
  <2>3. QED
    BY <1>2, <1>3, <2>1, <2>2 DEF Shape, dataVars
<1>6. Past \subseteq Past'
  <2>1. Future' = Future \union {asked}
    BY <1>3 DEF Future
  <2>2. QED
    BY <1>3, <1>4, <2>1 DEF Past
<1>7. commit'.pc # "idle" => commit'.q < asked' /\ \A q \in outstanding' : commit'.q < q
  BY <1>2, <1>3, <1>4 DEF Ahead, Shape
<1>8. QED
  BY <1>1, <1>3, <1>5, <1>6, <1>7, DataKept, CommitKept DEF MemoryIInv

\* Another session becomes active, or is created.
LEMMA SessionKeeps ==
    ASSUME MemoryIInv, CreateSession \/ \E x \in Sessions : ActivateSession(x)
    PROVE  MemoryIInv'
<1>1. Shape /\ Ahead
  BY DEF MemoryIInv
<1>2. UNCHANGED <<asked, askedIn, outstanding, dataVars, commit, cancel, disturbed>>
  BY DEF CreateSession, ActivateSession
<1>3. activeSession' \in 0 .. created' - 1 /\ created' \in 1 .. MaxSessions
  <2>1. activeSession \in 0 .. created - 1 /\ created \in 1 .. MaxSessions /\ MaxSessions \in Nat
    BY <1>1, SizeAssumption DEF Shape
  <2>2. CASE CreateSession
    <3>1. created < MaxSessions /\ created' = created + 1 /\ activeSession' = created
      BY <2>2 DEF CreateSession
    <3>2. QED
      BY <2>1, <3>1
  <2>3. ASSUME NEW x \in Sessions, ActivateSession(x)
        PROVE  activeSession' \in 0 .. created' - 1 /\ created' \in 1 .. MaxSessions
    <3>1. x \in 0 .. MaxSessions - 1 /\ x < created /\ activeSession' = x /\ created' = created
      BY <2>3 DEF ActivateSession, Sessions
    <3>2. QED
      BY <2>1, <3>1
  <2>4. QED
    BY <2>2, <2>3
<1>4. Shape'
  BY <1>1, <1>2, <1>3 DEF Shape, dataVars
<1>5. Past' = Past
  BY <1>2 DEF Past, Future
<1>6. commit'.pc # "idle" => commit'.q < asked' /\ \A q \in outstanding' : commit'.q < q
  BY <1>1, <1>2 DEF Ahead
<1>7. QED
  BY <1>2, <1>4, <1>5, <1>6, DataKept, CommitKept DEF MemoryIInv

\* A cancellation outdates the answers outstanding, and waits for the commit.
LEMMA CancelKeeps ==
    ASSUME MemoryIInv, CancelBegin \/ CancelCommit
    PROVE  MemoryIInv'
<1>1. Shape /\ Ahead
  BY DEF MemoryIInv
<1>2. /\ UNCHANGED <<activeSession, created, asked, askedIn, dataVars, commit, disturbed>>
      /\ outstanding' \subseteq outstanding /\ cancel' \in {"commit", "data"}
  BY DEF CancelBegin, CancelCommit
<1>3. Shape'
  BY <1>1, <1>2 DEF Shape, dataVars
<1>4. Past \subseteq Past'
  BY <1>2 DEF Past, Future
<1>5. commit'.pc # "idle" => commit'.q < asked' /\ \A q \in outstanding' : commit'.q < q
  BY <1>1, <1>2 DEF Ahead
<1>6. QED
  BY <1>2, <1>3, <1>4, <1>5, DataKept, CommitKept DEF MemoryIInv

\* A closure reads the lengths: no snapshot is longer than the history it sees.
LEMMA BeginKeeps ==
    ASSUME MemoryIInv, NEW q \in Questions, CommitBegin(q)
    PROVE  MemoryIInv'
<1>1. Shape /\ Ahead /\ Covered
  BY DEF MemoryIInv
<1>2. /\ commit.pc = "idle" /\ q \in outstanding
      /\ outstanding' = {p \in outstanding : p > q}
      /\ commit' = [pc |-> "write", q |-> q, sess |-> activeSession,
                    preHist |-> Len(history[activeSession]), preQa |-> Len(qa[activeSession])]
      /\ UNCHANGED <<activeSession, created, asked, askedIn, dataVars, cancel, disturbed>>
  BY DEF CommitBegin
<1>3. activeSession \in Sessions
  <2>1. activeSession \in 0 .. created - 1 /\ created \in 1 .. MaxSessions /\ MaxSessions \in Nat
    BY <1>1, SizeAssumption DEF Shape
  <2>2. QED
    BY <2>1 DEF Sessions
<1>4. history[activeSession] \in Seq(Nat) /\ qa[activeSession] \in Seq(Questions)
  BY <1>1, <1>3 DEF Shape
<1>5. Len(history[activeSession]) \in Nat /\ Len(qa[activeSession]) \in Nat
  BY <1>4
<1>6. q \in 0 .. asked - 1 /\ asked \in Nat
  BY <1>1, <1>2, SizeAssumption DEF Shape
<1>7. Shape'
  <2>1. commit' \in [pc : {"idle", "write", "wrote"}, q : Nat, sess : Sessions,
                     preHist : Nat, preQa : Nat]
    BY <1>2, <1>3, <1>5, <1>6
  <2>2. QED
    BY <1>1, <1>2, <2>1 DEF Shape, dataVars
<1>8. /\ commit'.pc = "write" /\ commit'.q = q /\ commit'.sess = activeSession
      /\ commit'.preHist = Len(history[activeSession])
  BY <1>2
<1>9. Future' \subseteq Future
  BY <1>2, <1>8 DEF Future
<1>10. Past \subseteq Past'
  BY <1>2, <1>9 DEF Past
<1>11. commit'.q < asked' /\ \A p \in outstanding' : commit'.q < p
  BY <1>1, <1>2, <1>6, <1>8 DEF Shape
<1>12. UNCHANGED <<history, qa, summary, compacting, compactors, disturbed>>
  BY <1>2 DEF dataVars
<1>13. Covered'
  BY <1>1, <1>8, <1>12 DEF Covered
<1>14. Added'
  BY <1>5, <1>8, <1>12 DEF Added
<1>15. QED
  BY <1>2, <1>7, <1>10, <1>11, <1>13, <1>14, DataKept DEF MemoryIInv

\* A commit that is done leaves what it wrote.
LEMMA DoneKeeps == MemoryIInv /\ CommitDone => MemoryIInv'
<1>1. SUFFICES ASSUME MemoryIInv, CommitDone PROVE MemoryIInv'
  OBVIOUS
<1>2. Shape /\ Ahead /\ Covered
  BY <1>1 DEF MemoryIInv
<1>3. /\ commit.pc = "wrote" /\ commit' = NoCommit
      /\ UNCHANGED <<activeSession, created, asked, askedIn, outstanding, dataVars, cancel, disturbed>>
  BY <1>1 DEF CommitDone
<1>4. 0 \in Sessions /\ commit'.pc = "idle"
  BY <1>3, SizeAssumption DEF Sessions, NoCommit
<1>5. Shape'
  <2>1. commit' \in [pc : {"idle", "write", "wrote"}, q : Nat, sess : Sessions,
                     preHist : Nat, preQa : Nat]
    BY <1>3, <1>4 DEF NoCommit
  <2>2. QED
    BY <1>2, <1>3, <2>1 DEF Shape, dataVars
<1>6. Past \subseteq Past'
  BY <1>3, <1>4 DEF Past, Future
<1>7. UNCHANGED <<history, qa, summary, compacting, compactors, disturbed>>
  BY <1>3 DEF dataVars
<1>8. Covered' /\ Added'
  BY <1>2, <1>4, <1>7 DEF Covered, Added
<1>9. QED
  BY <1>1, <1>3, <1>4, <1>5, <1>6, <1>8, DataKept DEF MemoryIInv

-----------------------------------------------------------------------------
(* The steps that change a history.                                        *)

\* What the two messages of a turn do to the history of its session.
LEMMA TurnFacts ==
    ASSUME MemoryIInv, commit.pc = "write"
    PROVE  LET x == commit.sess
               u == UserMsg(commit.q)
               a == AssistantMsg(commit.q)
               h == history[x]
               h1 == AddMessage(h, u)
               h2 == AddMessage(h1, a) IN
           /\ x \in Sessions /\ h \in Seq(Nat) /\ h1 \in Seq(Nat) /\ h2 \in Seq(Nat)
           /\ u \in Nat /\ a \in Nat /\ commit.q \in Questions
           /\ Len(h) <= Len(h1) /\ Len(h1) <= Len(h) + 1 /\ Len(h1) <= Len(h2)
           /\ Len(h2) <= Len(h1) + 1 /\ Len(h2) <= MaxHistory
           /\ Increasing(h1) /\ Increasing(h2)
           /\ Elems(h1) \subseteq Elems(h) \union {u} /\ Elems(h2) \subseteq Elems(h1) \union {a}
           /\ \A snap \in Seq(Nat) : Beyond(h, snap) /\ u \notin Elems(snap) => Beyond(h1, snap)
           /\ \A snap \in Seq(Nat) : Beyond(h1, snap) /\ a \notin Elems(snap) => Beyond(h2, snap)
           /\ \A i \in 1 .. Len(h2) : i > commit.preHist => h2[i] \in {u, a}
           /\ u \notin Past /\ a \notin Past
<1> DEFINE x == commit.sess
           u == UserMsg(commit.q)
           a == AssistantMsg(commit.q)
           h == history[x]
           h1 == AddMessage(h, u)
           h2 == AddMessage(h1, a)
<1>1. Shape /\ Capped /\ Ahead /\ Added /\ HistoryInOrder
  BY DEF MemoryIInv
<1>2. x \in Sessions /\ h \in Seq(Nat) /\ Len(h) <= MaxHistory
  BY <1>1 DEF Shape, Capped
<1>3. /\ commit.q \in Nat /\ commit.q < asked /\ asked \in 0 .. MaxAsks /\ MaxAsks \in Nat
      /\ commit.preHist \in Nat /\ Len(h) <= commit.preHist
  BY <1>1, SizeAssumption DEF Shape, Ahead, Added
<1>4. commit.q \in Questions
  BY <1>3 DEF Questions
<1>5. u \in Nat /\ a \in Nat /\ u = 2 * commit.q /\ u < a
  BY <1>3 DEF UserMsg, AssistantMsg
<1>6. commit.q \in Future
  BY DEF Future
<1>7. \A m \in Past : m \in Nat /\ m < u
  BY <1>5, <1>6 DEF Past
<1>8. u \notin Past /\ a \notin Past
  BY <1>5, <1>7
<1>9. \A m \in Elems(h) : m < u /\ m \in Nat
  BY <1>1, <1>2, <1>7 DEF Ahead
<1>10. Increasing(h)
  BY <1>1, <1>2 DEF HistoryInOrder, Increasing
<1> HIDE DEF x, u, a, h
<1>11. /\ h1 \in Seq(Nat) /\ Len(h1) <= MaxHistory /\ Len(h1) >= Len(h) /\ Len(h1) <= Len(h) + 1
       /\ Elems(h1) \subseteq Elems(h) \union {u} /\ Increasing(h1)
       /\ \A snap \in Seq(Nat) : Beyond(h, snap) /\ u \notin Elems(snap) => Beyond(h1, snap)
  BY <1>2, <1>5, <1>9, <1>10, AddMessageFacts
<1>12. \A i \in 1 .. Len(h1) : i > commit.preHist => h1[i] \in {u, a}
  <2>1. \A i \in 1 .. Len(h) : i > commit.preHist => h[i] \in {u, a}
    BY <1>2, <1>3
  <2>2. Len(h) <= commit.preHist + 1
    BY <1>2, <1>3
  <2>3. QED
    BY <1>2, <1>3, <1>5, <2>1, <2>2, AddMessageFacts
<1> HIDE DEF h1
<1>13. \A m \in Elems(h1) : m < a
  BY <1>5, <1>9, <1>11
<1>14. /\ h2 \in Seq(Nat) /\ Len(h2) <= MaxHistory /\ Len(h2) >= Len(h1) /\ Len(h2) <= Len(h1) + 1
       /\ Elems(h2) \subseteq Elems(h1) \union {a} /\ Increasing(h2)
       /\ \A snap \in Seq(Nat) : Beyond(h1, snap) /\ a \notin Elems(snap) => Beyond(h2, snap)
  BY <1>5, <1>11, <1>13, AddMessageFacts
<1>15. \A i \in 1 .. Len(h2) : i > commit.preHist => h2[i] \in {u, a}
  <2>1. Len(h1) <= commit.preHist + 1
    <3>1. Len(h1) \in Nat /\ Len(h) \in Nat
      BY <1>2, <1>11
    <3>2. QED
      BY <1>3, <1>11, <3>1
  <2>2. QED
    BY <1>3, <1>5, <1>11, <1>12, <2>1, AddMessageFacts
<1> HIDE DEF h2
<1>16. QED
  BY <1>2, <1>4, <1>5, <1>8, <1>11, <1>14, <1>15 DEF x, u, a, h, h1, h2

\* A turn is written: it is beyond every snapshot taken, and a compactor started
\* now has taken its snapshot of what is there.
LEMMA WriteKeeps ==
    ASSUME MemoryIInv, CommitWrite
    PROVE  MemoryIInv'
<1> DEFINE x == commit.sess
           u == UserMsg(commit.q)
           a == AssistantMsg(commit.q)
           h == history[x]
           h1 == AddMessage(h, u)
           h2 == AddMessage(h1, a)
           new == Scheduled(x, h1, h2)
<1>1. Shape /\ Capped /\ Ahead /\ Covered /\ HistoryInOrder /\ Single /\ NotTwice /\ Added
  BY DEF MemoryIInv
<1>2. commit.pc = "write"
  BY DEF CommitWrite
<1>3. /\ history' = [history EXCEPT ![x] = h2]
      /\ qa' = [qa EXCEPT ![x] = KeepLast(Append(qa[x], commit.q), QaCap)]
      /\ compactors' = compactors \union new
      /\ compacting' = [compacting EXCEPT ![x] = compacting[x] \/ new # {}]
      /\ commit' = [commit EXCEPT !.pc = "wrote"]
      /\ UNCHANGED <<activeSession, created, asked, askedIn, outstanding, summary, cancel, disturbed>>
  BY DEF CommitWrite
<1>4. /\ x \in Sessions /\ h \in Seq(Nat) /\ h1 \in Seq(Nat) /\ h2 \in Seq(Nat)
      /\ u \in Nat /\ a \in Nat /\ commit.q \in Questions
      /\ Len(h) <= Len(h1) /\ Len(h1) <= Len(h) + 1 /\ Len(h1) <= Len(h2)
      /\ Len(h2) <= Len(h1) + 1 /\ Len(h2) <= MaxHistory
      /\ Increasing(h1) /\ Increasing(h2)
      /\ Elems(h1) \subseteq Elems(h) \union {u} /\ Elems(h2) \subseteq Elems(h1) \union {a}
      /\ \A snap \in Seq(Nat) : Beyond(h, snap) /\ u \notin Elems(snap) => Beyond(h1, snap)
      /\ \A snap \in Seq(Nat) : Beyond(h1, snap) /\ a \notin Elems(snap) => Beyond(h2, snap)
      /\ \A i \in 1 .. Len(h2) : i > commit.preHist => h2[i] \in {u, a}
      /\ u \notin Past /\ a \notin Past
  BY <1>2, TurnFacts
<1>5. Len(h) \in Nat /\ Len(h1) \in Nat /\ Len(h2) \in Nat
  BY <1>4
<1>6. commit.q \in Nat /\ commit.preHist \in Nat /\ Len(h) <= commit.preHist
  BY <1>1, <1>2 DEF Shape, Added
<1>7. u # a
  BY <1>6 DEF UserMsg, AssistantMsg
<1>8. Elems(h) \subseteq Past /\ summary[x] \subseteq Past
  BY <1>1, <1>4 DEF Ahead
<1>9. a \notin Elems(h1)
  BY <1>4, <1>7, <1>8
<1>10. u \in Past' /\ a \in Past' /\ Past \subseteq Past'
  <2>1. commit'.pc = "wrote"
    BY <1>1, <1>3 DEF Shape
  <2>2. Future' = outstanding
    BY <1>3, <2>1 DEF Future
  <2>3. \A q \in outstanding : q \in Int /\ commit.q < q
    BY <1>1, <1>2 DEF Ahead, Shape
  <2>4. commit.q < asked /\ asked \in Nat
    BY <1>1, <1>2, SizeAssumption DEF Ahead, Shape
  <2>5. outstanding \subseteq Future
    BY DEF Future
  <2>6. Past \subseteq Past'
    BY <1>3, <2>2, <2>5 DEF Past
  <2>7. ASSUME NEW m \in Nat, m <= 2 * commit.q + 1 PROVE m \in Past'
    <3>1. \A q, p \in Int : m <= 2 * q + 1 /\ q < p => m < 2 * p
      BY <2>7
    <3>2. m < 2 * asked'
      BY <1>3, <1>6, <2>4, <2>7, <3>1
    <3>3. \A q \in outstanding : m < 2 * q
      BY <1>6, <2>3, <2>7, <3>1
    <3>4. QED
      BY <2>2, <2>7, <3>2, <3>3 DEF Past
  <2>8. u <= 2 * commit.q + 1 /\ a <= 2 * commit.q + 1
    BY <1>6 DEF UserMsg, AssistantMsg
  <2>9. QED
    BY <1>4, <2>6, <2>7, <2>8
<1>11. Elems(h2) \subseteq Past' /\ Elems(h1) \subseteq Past'
  BY <1>4, <1>8, <1>10
<1>12. \A c \in new :
          /\ c \in [sess : Sessions, snap : Seq(Nat), prior : SUBSET Nat]
          /\ c.sess = x /\ c.prior = summary[x] /\ c.snap # <<>>
          /\ Len(c.snap) <= Len(h2) /\ Len(c.snap) <= commit.preHist
          /\ Elems(c.snap) \subseteq Past' /\ Beyond(h2, c.snap)
  <2>1. ASSUME NEW g, g = h1 \/ g = h2, Len(g) > Trigger
        PROVE  LET c == Compactor(x, g) IN
          /\ c \in [sess : Sessions, snap : Seq(Nat), prior : SUBSET Nat]
          /\ c.sess = x /\ c.prior = summary[x] /\ c.snap # <<>>
          /\ Len(c.snap) <= Len(h2) /\ Len(c.snap) <= commit.preHist
          /\ Elems(c.snap) \subseteq Past' /\ Beyond(h2, c.snap)
    <3> DEFINE s == SubSeq(g, 1, Len(g) - Keep)
    <3>1. g \in Seq(Nat) /\ Increasing(g) /\ Elems(g) \subseteq Past' /\ Len(g) \in Nat
      BY <1>4, <1>11, <2>1
    <3>2. /\ s \in Seq(Nat) /\ Len(s) = Len(g) - Keep /\ s # <<>>
          /\ Elems(s) \subseteq Elems(g) /\ Beyond(g, s)
      BY <2>1, <3>1, SnapshotFacts
    <3> HIDE DEF s
    <3>3. Compactor(x, g) = [sess |-> x, snap |-> s, prior |-> summary[x]]
      BY DEF Compactor, s
    <3>4. Len(g) <= Len(h) + 2 /\ Len(g) <= Len(h2)
      BY <1>4, <1>5, <2>1
    <3>5. Keep \in Nat /\ Keep >= 2
      BY SizeAssumption
    <3>6. Len(s) <= Len(h2) /\ Len(s) <= commit.preHist
      <4> HIDE DEF h, h1, h2
      <4>1. /\ Len(s) = Len(g) - Keep /\ Len(g) <= Len(h) + 2 /\ Len(g) <= Len(h2)
            /\ Len(h) <= commit.preHist
        BY <1>6, <3>2, <3>4
      <4>2. /\ Len(g) \in Nat /\ Len(h) \in Nat /\ Len(h2) \in Nat /\ Keep \in Nat /\ Keep >= 2
            /\ commit.preHist \in Nat
        BY <1>5, <1>6, <3>1, <3>5
      <4>3. QED
        BY <4>1, <4>2
    <3>7. Beyond(h2, s)
      <4>1. CASE g = h2
        BY <3>2, <4>1
      <4>2. CASE g = h1
        BY <1>4, <1>9, <3>2, <4>2
      <4>3. QED
        BY <2>1, <4>1, <4>2
    <3>8. summary[x] \in SUBSET Nat
      BY <1>1, <1>4 DEF Shape
    <3>9. QED
      BY <1>4, <3>1, <3>2, <3>3, <3>6, <3>7, <3>8
  <2>2. ASSUME NEW c \in new
        PROVE  \E g : (g = h1 \/ g = h2) /\ Len(g) > Trigger /\ c = Compactor(x, g)
    BY <2>2 DEF Scheduled
  <2>3. QED
    BY <2>1, <2>2
<1>13. /\ compacting[x] => new = {}
       /\ \A c, d \in new : c = d
  BY DEF Scheduled
<1> DEFINE oldQa == Append(qa[x], commit.q)
           newQa == KeepLast(oldQa, QaCap)
<1>14. /\ newQa \in Seq(Questions) /\ Len(newQa) <= QaCap
       /\ newQa # <<>> /\ newQa[Len(newQa)] = commit.q
  <2>1. /\ oldQa \in Seq(Questions) /\ Len(oldQa) = Len(qa[x]) + 1 /\ Len(qa[x]) \in Nat
        /\ oldQa[Len(qa[x]) + 1] = commit.q
    BY <1>1, <1>4 DEF Shape
  <2>2. QaCap \in Nat /\ QaCap > 0
    BY SizeAssumption
  <2> HIDE DEF oldQa
  <2>3. /\ newQa \in Seq(Questions)
        /\ Len(newQa) = IF Len(oldQa) > QaCap THEN QaCap ELSE Len(oldQa)
        /\ \E d \in Nat : d + Len(newQa) = Len(oldQa)
                          /\ \A i \in 1 .. Len(newQa) : newQa[i] = oldQa[d + i]
    BY <2>1, <2>2, KeepLastFacts
  <2> HIDE DEF newQa
  <2>4. Len(newQa) \in Nat /\ Len(newQa) > 0 /\ Len(newQa) <= QaCap
    BY <2>1, <2>2, <2>3
  <2>5. newQa[Len(newQa)] = oldQa[Len(oldQa)]
    BY <2>3, <2>4
  <2>6. newQa # <<>>
    BY <2>4
  <2>7. QED
    BY <2>1, <2>3, <2>4, <2>5, <2>6
<1> HIDE DEF newQa, oldQa, h2, h1, h, u, a
<1>15. qa' = [qa EXCEPT ![x] = newQa]
  BY <1>3 DEF newQa, oldQa
<1> HIDE DEF new
<1>16. /\ commit'.pc = "wrote" /\ commit'.q = commit.q /\ commit'.sess = x
       /\ commit'.preHist = commit.preHist
       /\ commit' \in [pc : {"idle", "write", "wrote"}, q : Nat, sess : Sessions,
                       preHist : Nat, preQa : Nat]
  BY <1>1, <1>3 DEF Shape
<1> HIDE DEF x
<1>17. /\ history'[x] = h2 /\ qa'[x] = newQa /\ compacting'[x] = (compacting[x] \/ new # {})
       /\ \A y \in Sessions : y # x => /\ history'[y] = history[y] /\ qa'[y] = qa[y]
                                       /\ compacting'[y] = compacting[y]
  BY <1>1, <1>3, <1>4, <1>15 DEF Shape
<1>18. Shape'
  <2>1. history' \in [Sessions -> Seq(Nat)] /\ qa' \in [Sessions -> Seq(Questions)]
    <3>1. history' \in [Sessions -> Seq(Nat)] BY <1>1, <1>3, <1>4 DEF Shape
    <3>2. qa' \in [Sessions -> Seq(Questions)] BY <1>1, <1>14, <1>15 DEF Shape
    <3> QED BY <3>1, <3>2
  <2>2. compacting' \in [Sessions -> BOOLEAN]
    BY <1>1, <1>3, <1>4 DEF Shape
  <2>3. compactors' \subseteq [sess : Sessions, snap : Seq(Nat), prior : SUBSET Nat]
    BY <1>1, <1>3, <1>12 DEF Shape
  <2>4. QED
    BY <1>1, <1>3, <1>16, <2>1, <2>2, <2>3 DEF Shape
<1>19. Capped'
  BY <1>1, <1>3, <1>4, <1>12, <1>14, <1>17 DEF Capped
<1>20. Ahead'
  <2>1. \A y \in Sessions : Elems(history'[y]) \subseteq Past' /\ summary'[y] \subseteq Past'
    BY <1>1, <1>3, <1>8, <1>10, <1>11, <1>17 DEF Ahead
  <2>2. \A c \in compactors' : Elems(c.snap) \subseteq Past' /\ c.prior \subseteq Past'
    BY <1>1, <1>3, <1>8, <1>10, <1>12 DEF Ahead
  <2>3. commit'.q < asked' /\ \A q \in outstanding' : commit'.q < q
    BY <1>1, <1>2, <1>3, <1>16 DEF Ahead
  <2>4. QED
    BY <2>1, <2>2, <2>3 DEF Ahead
<1>21. Covered'
  <2>1. ASSUME NEW c \in compactors', c.sess \notin disturbed'
        PROVE  /\ c.prior = summary'[c.sess]
               /\ Len(c.snap) <= Len(history'[c.sess])
               /\ commit'.sess = c.sess => Len(c.snap) <= commit'.preHist
               /\ Beyond(history'[c.sess], c.snap)
    <3>1. CASE c \in new
      BY <1>3, <1>12, <1>16, <1>17, <3>1
    <3>2. CASE c \in compactors /\ c.sess # x
      <4>1. c.sess \in Sessions
        BY <1>1, <3>2 DEF Shape
      <4>2. QED
        BY <1>1, <1>3, <1>16, <1>17, <2>1, <3>2, <4>1 DEF Covered
    <3>3. CASE c \in compactors /\ c.sess = x
      <4>1. /\ c.prior = summary[x] /\ Len(c.snap) <= Len(h) /\ Len(c.snap) <= commit.preHist
            /\ Beyond(h, c.snap)
        BY <1>1, <1>2, <1>3, <2>1, <3>3 DEF Covered, h, x
      <4>2. c.snap \in Seq(Nat) /\ Elems(c.snap) \subseteq Past
        BY <1>1, <3>3 DEF Shape, Ahead
      <4>3. u \notin Elems(c.snap) /\ a \notin Elems(c.snap) /\ Len(c.snap) \in Nat
        BY <1>4, <4>2
      <4>4. Beyond(h2, c.snap) /\ Len(c.snap) <= Len(h2)
        BY <1>4, <1>5, <4>1, <4>2, <4>3
      <4>5. QED
        BY <1>3, <1>16, <1>17, <3>3, <4>1, <4>4
    <3>4. QED
      BY <1>3, <3>1, <3>2, <3>3
  <2>2. QED
    BY <2>1 DEF Covered
<1>22. Added'
  BY <1>4, <1>14, <1>16, <1>17 DEF Added, u, a
<1>23. HistoryInOrder'
  BY <1>1, <1>4, <1>17 DEF HistoryInOrder, Increasing
<1>24. Single'
  <2>1. SUFFICES ASSUME NEW y \in Sessions, y \notin disturbed'
                 PROVE  /\ \A c, d \in CompactorsOf(y)' : c = d
                        /\ compacting'[y] <=> CompactorsOf(y)' # {}
    BY DEF Single
  <2>2. /\ \A c, d \in CompactorsOf(y) : c = d
        /\ (compacting[y] <=> CompactorsOf(y) # {})
        /\ compacting[y] \in BOOLEAN
    BY <1>1, <1>3, <2>1 DEF Single, Shape
  <2>3. CASE y # x \/ new = {}
    <3>1. CompactorsOf(y)' = CompactorsOf(y)
      BY <1>3, <1>12, <2>3 DEF CompactorsOf
    <3>2. compacting'[y] = compacting[y]
      BY <1>17, <2>1, <2>2, <2>3
    <3>3. QED
      BY <2>2, <3>1, <3>2
  <2>4. CASE y = x /\ new # {}
    <3>1. ~compacting[x]
      BY <1>13, <2>4
    <3>2. PICK c \in new : TRUE
      BY <2>4
    <3>3. CompactorsOf(y)' = {c}
      BY <1>3, <1>12, <1>13, <2>2, <2>4, <3>1 DEF CompactorsOf
    <3>4. compacting'[y] = TRUE
      BY <1>17, <2>4
    <3>5. QED
      BY <3>3, <3>4
  <2>5. QED
    BY <2>3, <2>4
<1>25. NotTwice'
  <2>1. summary[x] \intersect Elems(h2) = {} \/ x \in disturbed
    BY <1>1, <1>4, <1>8 DEF NotTwice, h
  <2>2. QED
    BY <1>1, <1>3, <1>17, <2>1 DEF NotTwice
<1>26. QED
  BY <1>18, <1>19, <1>20, <1>21, <1>22, <1>23, <1>24, <1>25 DEF MemoryIInv

\* Undoing a commit leaves the front of the history, no shorter than a snapshot.
LEMMA FailsKeeps ==
    ASSUME MemoryIInv, CommitFails
    PROVE  MemoryIInv'
<1> DEFINE x == commit.sess
           h == history[x]
           g == IF Len(h) > commit.preHist THEN SubSeq(h, 1, commit.preHist) ELSE h
           b == IF Len(qa[x]) > commit.preQa THEN SubSeq(qa[x], 1, Len(qa[x]) - 1) ELSE qa[x]
<1>1. Shape /\ Capped /\ Ahead /\ Covered /\ HistoryInOrder /\ Single /\ NotTwice
  BY DEF MemoryIInv
<1>2. /\ commit.pc = "wrote" /\ commit' = NoCommit
      /\ qa' = [qa EXCEPT ![x] = b] /\ history' = [history EXCEPT ![x] = g]
      /\ UNCHANGED <<activeSession, created, asked, askedIn, outstanding, summary, compacting,
                     compactors, cancel, disturbed>>
  BY DEF CommitFails
<1>3. x \in Sessions /\ h \in Seq(Nat) /\ qa[x] \in Seq(Questions) /\ Len(h) <= MaxHistory
      /\ Len(qa[x]) <= QaCap /\ commit.preHist \in Nat /\ commit.preQa \in Nat
  BY <1>1 DEF Shape, Capped
<1>4. Len(h) \in Nat /\ Len(qa[x]) \in Nat
  BY <1>3
<1>5. /\ g \in Seq(Nat) /\ Len(g) \in Nat /\ Len(g) <= Len(h)
      /\ Len(g) = Len(h) \/ Len(g) = commit.preHist
      /\ \A i \in 1 .. Len(g) : g[i] = h[0 + i]
  <2>1. CASE Len(h) > commit.preHist
    <3> DEFINE s == SubSeq(h, 1, commit.preHist)
    <3>1. /\ s \in Seq(Nat) /\ Len(s) = commit.preHist - 1 + 1
          /\ \A i \in 1 .. Len(s) : s[i] = h[1 + i - 1]
      <4> HIDE DEF h
      <4>1. /\ 1 \in 1 .. Len(h) + 1 /\ commit.preHist \in 0 .. Len(h) /\ 1 <= commit.preHist + 1
        BY <1>3, <1>4, <2>1
      <4>2. QED
        BY <1>3, <4>1, SubSeqPiece
    <3>2. g = s
      BY <2>1
    <3> HIDE DEF s, g
    <3>3. QED
      BY <1>3, <1>4, <2>1, <3>1, <3>2
  <2>2. CASE ~(Len(h) > commit.preHist)
    <3>1. g = h
      BY <2>2
    <3> HIDE DEF g, h
    <3>2. QED
      BY <1>3, <1>4, <3>1
  <2>3. QED
    BY <2>1, <2>2
<1>6. b \in Seq(Questions) /\ Len(b) <= QaCap
  <2>1. CASE Len(qa[x]) > commit.preQa
    <3> DEFINE s == SubSeq(qa[x], 1, Len(qa[x]) - 1)
    <3>1. s \in Seq(Questions) /\ Len(s) = (Len(qa[x]) - 1) - 1 + 1
      <4>1. /\ 1 \in 1 .. Len(qa[x]) + 1 /\ Len(qa[x]) - 1 \in 0 .. Len(qa[x])
            /\ 1 <= (Len(qa[x]) - 1) + 1
        BY <1>3, <1>4, <2>1
      <4>2. QED
        BY <1>3, <4>1, SubSeqPiece
    <3>2. b = s
      BY <2>1
    <3> HIDE DEF s, b
    <3>3. QED
      BY <1>3, <1>4, <3>1, <3>2, SizeAssumption
  <2>2. CASE ~(Len(qa[x]) > commit.preQa)
    BY <1>3, <2>2
  <2>3. QED
    BY <2>1, <2>2
<1> HIDE DEF g, b
<1>7. /\ Increasing(h) => Increasing(g)
      /\ Elems(g) \subseteq Elems(h)
      /\ \A snap \in Seq(Nat) : Beyond(h, snap) => Beyond(g, snap)
  <2>1. 0 \in Nat /\ 0 + Len(g) <= Len(h)
    BY <1>4, <1>5
  <2>2. QED
    BY <1>3, <1>5, <2>1, PieceFacts
<1>8. /\ history'[x] = g /\ qa'[x] = b
      /\ \A y \in Sessions : y # x => history'[y] = history[y] /\ qa'[y] = qa[y]
  BY <1>1, <1>2, <1>3 DEF Shape
<1>9. commit'.pc = "idle"
  BY <1>2 DEF NoCommit
<1>10. Past \subseteq Past'
  BY <1>2, <1>9 DEF Past, Future
<1>11. Shape'
  <2>1. history' \in [Sessions -> Seq(Nat)] /\ qa' \in [Sessions -> Seq(Questions)]
    BY <1>1, <1>2, <1>3, <1>5, <1>6 DEF Shape
  <2>2. 0 \in Sessions
    BY SizeAssumption DEF Sessions
  <2>3. commit' \in [pc : {"idle", "write", "wrote"}, q : Nat, sess : Sessions,
                     preHist : Nat, preQa : Nat]
    BY <1>2, <2>2 DEF NoCommit
  <2>4. QED
    BY <1>1, <1>2, <2>1, <2>3 DEF Shape
<1> HIDE DEF h
<1>12. Capped'
  <2>1. Len(g) <= MaxHistory
    BY <1>3, <1>4, <1>5, SizeAssumption
  <2>2. QED
    BY <1>1, <1>2, <1>6, <1>8, <2>1 DEF Capped
<1>13. Ahead'
  <2>1. Elems(h) \subseteq Past
    BY <1>1, <1>3 DEF Ahead, h
  <2>2. \A y \in Sessions : Elems(history'[y]) \subseteq Past' /\ summary'[y] \subseteq Past'
    BY <1>1, <1>2, <1>7, <1>8, <1>10, <2>1 DEF Ahead
  <2>3. \A c \in compactors' : Elems(c.snap) \subseteq Past' /\ c.prior \subseteq Past'
    BY <1>1, <1>2, <1>10 DEF Ahead
  <2>4. QED
    BY <1>9, <2>2, <2>3 DEF Ahead
<1>14. Covered'
  <2>1. ASSUME NEW c \in compactors', c.sess \notin disturbed'
        PROVE  /\ c.prior = summary'[c.sess]
               /\ Len(c.snap) <= Len(history'[c.sess])
               /\ Beyond(history'[c.sess], c.snap)
    <3>1. c.sess \in Sessions /\ c.snap \in Seq(Nat)
      BY <1>1, <1>2, <2>1 DEF Shape
    <3>2. /\ c.prior = summary[c.sess] /\ Len(c.snap) <= Len(history[c.sess])
          /\ c.sess = x => Len(c.snap) <= commit.preHist
          /\ Beyond(history[c.sess], c.snap)
      BY <1>1, <1>2, <2>1 DEF Covered
    <3>3. CASE c.sess # x
      BY <1>2, <1>8, <3>1, <3>2, <3>3
    <3>4. CASE c.sess = x
      <4>1. Len(c.snap) <= Len(h) /\ Beyond(h, c.snap)
        BY <3>2, <3>4 DEF h
      <4>2. QED
        BY <1>2, <1>5, <1>7, <1>8, <3>1, <3>2, <3>4, <4>1
    <3>5. QED
      BY <3>3, <3>4
  <2>2. QED
    BY <1>9, <2>1 DEF Covered
<1>15. Added'
  BY <1>9 DEF Added
<1>16. HistoryInOrder'
  <2>1. Increasing(h)
    BY <1>1, <1>3 DEF HistoryInOrder, Increasing, h
  <2>2. QED
    BY <1>1, <1>7, <1>8, <2>1 DEF HistoryInOrder, Increasing
<1>17. Single'
  <2>1. \A y \in Sessions : CompactorsOf(y)' = CompactorsOf(y)
    BY <1>2 DEF CompactorsOf
  <2>2. QED
    BY <1>1, <1>2, <2>1 DEF Single
<1>18. NotTwice'
  <2>1. x \notin disturbed => summary[x] \intersect Elems(g) = {}
    BY <1>1, <1>3, <1>7 DEF NotTwice, h
  <2>2. QED
    BY <1>1, <1>2, <1>8, <2>1 DEF NotTwice
<1>19. QED
  BY <1>11, <1>12, <1>13, <1>14, <1>15, <1>16, <1>17, <1>18 DEF MemoryIInv

\* A write-back cuts off the messages it summarised, or as many of a cleared session.
LEMMA WriteBackKeeps ==
    ASSUME MemoryIInv, NEW c \in compactors, CompactionDone(c) \/ CompactionFails(c)
    PROVE  MemoryIInv'
<1> DEFINE x == c.sess
           h == history[x]
           n == Len(c.snap)
           g == IF Len(h) >= n THEN SubSeq(h, n + 1, Len(h)) ELSE h
<1>1. Shape /\ Capped /\ Ahead /\ Covered /\ HistoryInOrder /\ Single /\ NotTwice /\ Added
  BY DEF MemoryIInv
<1>2. PICK memo : /\ memo = c.prior \/ memo = c.prior \union Elems(c.snap)
                  /\ WriteBack(c, memo)
  BY DEF CompactionDone, CompactionFails
<1>3. /\ compactors' = compactors \ {c} /\ history' = [history EXCEPT ![x] = g]
      /\ summary' = [summary EXCEPT ![x] = memo] /\ compacting' = [compacting EXCEPT ![x] = FALSE]
      /\ UNCHANGED <<activeSession, created, asked, askedIn, outstanding, qa, commit, cancel,
                     disturbed>>
  BY <1>2 DEF WriteBack
<1>4. /\ c \in [sess : Sessions, snap : Seq(Nat), prior : SUBSET Nat]
      /\ x \in Sessions /\ h \in Seq(Nat) /\ Len(h) <= MaxHistory /\ c.snap \in Seq(Nat)
  BY <1>1 DEF Shape, Capped
<1>5. Len(h) \in Nat /\ n \in Nat
  BY <1>4
<1>6. /\ g \in Seq(Nat) /\ Len(g) \in Nat
      /\ \E d \in Nat : d + Len(g) = Len(h) /\ \A i \in 1 .. Len(g) : g[i] = h[d + i]
      /\ Len(h) >= n => \A i \in 1 .. Len(g) : n + i \in 1 .. Len(h) /\ g[i] = h[n + i]
  <2>1. CASE Len(h) >= n
    <3> DEFINE s == SubSeq(h, n + 1, Len(h))
    <3>1. /\ s \in Seq(Nat) /\ Len(s) = Len(h) - (n + 1) + 1
          /\ \A i \in 1 .. Len(s) : s[i] = h[(n + 1) + i - 1]
      <4>1. n + 1 \in 1 .. Len(h) + 1 /\ Len(h) \in 0 .. Len(h) /\ n + 1 <= Len(h) + 1
        BY <1>5, <2>1
      <4>2. QED
        BY <1>4, <4>1, SubSeqPiece
    <3>2. g = s
      BY <2>1
    <3> HIDE DEF s, g, n, h
    <3>3. n + Len(g) = Len(h) /\ \A i \in 1 .. Len(g) : n + i \in 1 .. Len(h) /\ g[i] = h[n + i]
      BY <1>5, <3>1, <3>2
    <3>4. \E d \in Nat : d + Len(g) = Len(h) /\ \A i \in 1 .. Len(g) : g[i] = h[d + i]
      BY <1>5, <3>3, Zenon
    <3>5. g \in Seq(Nat) /\ Len(g) \in Nat
      BY <3>1, <3>2
    <3>6. QED
      BY <3>3, <3>4, <3>5, Zenon
  <2>2. CASE ~(Len(h) >= n)
    <3>1. g = h
      BY <2>2
    <3> HIDE DEF g, h, n
    <3>2. 0 \in Nat /\ 0 + Len(g) = Len(h) /\ \A i \in 1 .. Len(g) : g[i] = h[0 + i]
      BY <1>5, <3>1
    <3>3. \E d \in Nat : d + Len(g) = Len(h) /\ \A i \in 1 .. Len(g) : g[i] = h[d + i]
      BY <3>2
    <3>4. g \in Seq(Nat) /\ Len(g) \in Nat
      BY <1>4, <1>5, <3>1
    <3>5. QED
      BY <1>4, <1>5, <2>2, <3>3, <3>4
  <2>3. QED
    BY <2>1, <2>2
<1> HIDE DEF g
<1>7. /\ Increasing(h) => Increasing(g)
      /\ Elems(g) \subseteq Elems(h)
      /\ Len(g) <= Len(h)
  <2>1. PICK d \in Nat : d + Len(g) = Len(h) /\ \A i \in 1 .. Len(g) : g[i] = h[d + i]
    BY <1>6
  <2>2. d + Len(g) <= Len(h) /\ Len(g) <= Len(h)
    BY <1>5, <1>6, <2>1
  <2>3. QED
    BY <1>4, <1>6, <2>1, <2>2, PieceFacts
<1>8. /\ history'[x] = g /\ summary'[x] = memo /\ compacting'[x] = FALSE
      /\ \A y \in Sessions : y # x => /\ history'[y] = history[y] /\ summary'[y] = summary[y]
                                      /\ compacting'[y] = compacting[y]
  BY <1>1, <1>3, <1>4 DEF Shape
<1>9. Past' = Past
  BY <1>3 DEF Past, Future
<1>10. memo \subseteq Past /\ memo \in SUBSET Nat
  BY <1>1, <1>2 DEF Ahead, Past
<1>11. Shape'
  <2>1. history' \in [Sessions -> Seq(Nat)]
    BY <1>1, <1>3, <1>4, <1>6 DEF Shape
  <2>2. summary' \in [Sessions -> SUBSET Nat] /\ compacting' \in [Sessions -> BOOLEAN]
    BY <1>1, <1>3, <1>4, <1>10 DEF Shape
  <2>3. QED
    BY <1>1, <1>3, <2>1, <2>2 DEF Shape
<1>12. x \notin disturbed => /\ Len(h) >= n /\ Beyond(h, c.snap) /\ c.prior = summary[x]
                             /\ \A e \in compactors : e.sess = x => e = c
  BY <1>1, <1>4, <1>5 DEF Covered, Single, CompactorsOf
<1>13. x \notin disturbed => memo \intersect Elems(g) = {}
  <2>1. SUFFICES ASSUME x \notin disturbed, NEW i \in 1 .. Len(g) PROVE g[i] \notin memo
    BY DEF Elems
  <2>2. n + i \in 1 .. Len(h) /\ g[i] = h[n + i] /\ n + i > n
    BY <1>5, <1>6, <1>12, <2>1
  <2>3. h[n + i] \notin Elems(c.snap)
    BY <1>12, <2>1, <2>2 DEF Beyond
  <2>4. h[n + i] \notin c.prior
    <3>1. h[n + i] \in Elems(h)
      BY <2>2 DEF Elems
    <3>2. summary[x] \intersect Elems(h) = {}
      BY <1>1, <1>4, <2>1 DEF NotTwice
    <3>3. QED
      BY <1>12, <2>1, <3>1, <3>2
  <2>5. QED
    BY <1>2, <2>2, <2>3, <2>4
<1> HIDE DEF h, n
<1>14. Capped'
  BY <1>1, <1>3, <1>4, <1>5, <1>6, <1>7, <1>8, SizeAssumption DEF Capped
<1>15. Ahead'
  <2>1. Elems(h) \subseteq Past
    BY <1>1, <1>4 DEF Ahead, h
  <2>2. \A y \in Sessions : Elems(history'[y]) \subseteq Past' /\ summary'[y] \subseteq Past'
    BY <1>1, <1>7, <1>8, <1>9, <1>10, <2>1 DEF Ahead
  <2>3. \A e \in compactors' : Elems(e.snap) \subseteq Past' /\ e.prior \subseteq Past'
    BY <1>1, <1>3, <1>9 DEF Ahead
  <2>4. QED
    BY <1>1, <1>3, <2>2, <2>3 DEF Ahead
<1>16. Covered'
  <2>1. ASSUME NEW e \in compactors', e.sess \notin disturbed' PROVE e.sess # x
    BY <1>3, <1>12, <2>1
  <2>2. \A e \in compactors' : e.sess \in Sessions
    BY <1>1, <1>3 DEF Shape
  <2>3. QED
    BY <1>1, <1>3, <1>8, <2>1, <2>2 DEF Covered
<1>17. Added'
  <2>1. commit.sess \in Sessions /\ commit.preHist \in Nat /\ history[commit.sess] \in Seq(Nat)
    BY <1>1 DEF Shape
  <2>2. CASE commit.sess # x
    BY <1>1, <1>3, <1>8, <2>1, <2>2 DEF Added
  <2>3. CASE commit.sess = x
    <3>1. history[commit.sess] = h /\ history'[commit'.sess] = g
      BY <1>3, <1>8, <2>3 DEF h
    <3>2. commit.pc = "write" => Len(g) <= commit.preHist
      BY <1>1, <1>5, <1>6, <1>7, <2>1, <3>1 DEF Added
    <3>3. ASSUME commit.pc = "wrote", NEW i \in 1 .. Len(g), i > commit.preHist
          PROVE  g[i] \in {UserMsg(commit.q), AssistantMsg(commit.q)}
      <4>1. PICK d \in Nat : d + Len(g) = Len(h) /\ \A j \in 1 .. Len(g) : g[j] = h[d + j]
        BY <1>6
      <4>2. d + i \in 1 .. Len(h) /\ d + i > commit.preHist
        BY <1>5, <1>6, <2>1, <3>3, <4>1
      <4>3. QED
        BY <1>1, <3>1, <3>3, <4>1, <4>2 DEF Added
    <3>4. QED
      BY <1>1, <1>3, <2>3, <3>1, <3>2, <3>3 DEF Added
  <2>4. QED
    BY <2>2, <2>3
<1>18. HistoryInOrder'
  <2>1. Increasing(h)
    BY <1>1, <1>4 DEF HistoryInOrder, Increasing, h
  <2>2. QED
    BY <1>1, <1>7, <1>8, <2>1 DEF HistoryInOrder, Increasing
<1>19. Single'
  <2>1. SUFFICES ASSUME NEW y \in Sessions, y \notin disturbed'
                 PROVE  /\ \A e, d \in CompactorsOf(y)' : e = d
                        /\ compacting'[y] <=> CompactorsOf(y)' # {}
    BY DEF Single
  <2>2. CASE y # x
    <3>1. CompactorsOf(y)' = CompactorsOf(y)
      BY <1>3, <2>2 DEF CompactorsOf
    <3>2. QED
      BY <1>1, <1>3, <1>8, <2>1, <2>2, <3>1 DEF Single
  <2>3. CASE y = x
    <3>1. CompactorsOf(y)' = {}
      BY <1>3, <1>12, <2>1, <2>3 DEF CompactorsOf
    <3>2. QED
      BY <1>8, <2>3, <3>1
  <2>4. QED
    BY <2>2, <2>3
<1>20. NotTwice'
  BY <1>1, <1>3, <1>8, <1>13 DEF NotTwice
<1>21. QED
  BY <1>11, <1>14, <1>15, <1>16, <1>17, <1>18, <1>19, <1>20 DEF MemoryIInv

\* A clear empties the active session; a compactor of it is no longer trusted.
LEMMA ClearKeeps == MemoryIInv /\ ClearSession => MemoryIInv'
<1>1. SUFFICES ASSUME MemoryIInv, ClearSession PROVE MemoryIInv'
  OBVIOUS
<1> DEFINE x == activeSession
<1>2. Shape /\ Capped /\ Ahead /\ Covered /\ HistoryInOrder /\ Single /\ NotTwice /\ Added
  BY <1>1 DEF MemoryIInv
<1>3. /\ cancel' = "idle"
      /\ history' = [history EXCEPT ![x] = <<>>] /\ qa' = [qa EXCEPT ![x] = <<>>]
      /\ summary' = [summary EXCEPT ![x] = {}] /\ compacting' = [compacting EXCEPT ![x] = FALSE]
      /\ disturbed' = IF \E c \in compactors : c.sess = x THEN disturbed \union {x} ELSE disturbed
      /\ UNCHANGED <<activeSession, created, asked, askedIn, outstanding, compactors, commit>>
  BY <1>1 DEF ClearSession
<1>4. x \in Sessions
  <2>1. activeSession \in 0 .. created - 1 /\ created \in 1 .. MaxSessions /\ MaxSessions \in Nat
    BY <1>2, SizeAssumption DEF Shape
  <2>2. QED
    BY <2>1 DEF Sessions
<1>5. Len(<<>>) = 0 /\ Elems(<<>>) = {} /\ 1 .. 0 = {} /\ <<>> \in Seq(Nat) /\ <<>> \in Seq(Questions)
  BY DEF Elems
<1>6. /\ history'[x] = <<>> /\ qa'[x] = <<>> /\ summary'[x] = {} /\ compacting'[x] = FALSE
      /\ \A y \in Sessions : y # x => /\ history'[y] = history[y] /\ qa'[y] = qa[y]
                                      /\ summary'[y] = summary[y] /\ compacting'[y] = compacting[y]
  BY <1>2, <1>3, <1>4 DEF Shape
<1> HIDE DEF x
<1>7. disturbed \subseteq disturbed' /\ \A c \in compactors : c.sess \notin disturbed' => c.sess # x
  BY <1>3
<1>8. Past' = Past
  BY <1>3 DEF Past, Future
<1>9. Shape'
  <2>1. history' \in [Sessions -> Seq(Nat)] /\ qa' \in [Sessions -> Seq(Questions)]
    BY <1>2, <1>3, <1>4, <1>5 DEF Shape
  <2>2. summary' \in [Sessions -> SUBSET Nat] /\ compacting' \in [Sessions -> BOOLEAN]
    BY <1>2, <1>3, <1>4 DEF Shape
  <2>3. disturbed' \subseteq Sessions
    BY <1>2, <1>3, <1>4 DEF Shape
  <2>4. QED
    BY <1>2, <1>3, <2>1, <2>2, <2>3 DEF Shape
<1>10. Capped'
  BY <1>2, <1>3, <1>5, <1>6, SizeAssumption DEF Capped
<1>11. Ahead'
  <2>1. \A y \in Sessions : Elems(history'[y]) \subseteq Past' /\ summary'[y] \subseteq Past'
    BY <1>2, <1>5, <1>6, <1>8 DEF Ahead
  <2>2. QED
    BY <1>2, <1>3, <1>8, <2>1 DEF Ahead
<1>12. Covered'
  <2>1. \A c \in compactors : c.sess \in Sessions
    BY <1>2 DEF Shape
  <2>2. QED
    BY <1>2, <1>3, <1>6, <1>7, <2>1 DEF Covered
<1>13. Added'
  <2>1. commit.sess \in Sessions /\ commit.preHist \in Nat
    BY <1>2 DEF Shape
  <2>2. CASE commit.sess # x
    BY <1>2, <1>3, <1>6, <2>1, <2>2 DEF Added
  <2>3. CASE commit.sess = x
    BY <1>3, <1>5, <1>6, <2>1, <2>3 DEF Added
  <2>4. QED
    BY <2>2, <2>3
<1>14. HistoryInOrder'
  BY <1>2, <1>5, <1>6 DEF HistoryInOrder
<1>15. Single'
  <2>1. \A y \in Sessions : CompactorsOf(y)' = CompactorsOf(y)
    BY <1>3 DEF CompactorsOf
  <2>2. x \notin disturbed' => CompactorsOf(x) = {}
    BY <1>7 DEF CompactorsOf
  <2>3. QED
    BY <1>2, <1>6, <1>7, <2>1, <2>2 DEF Single
<1>16. NotTwice'
  BY <1>2, <1>6, <1>7 DEF NotTwice
<1>17. QED
  BY <1>9, <1>10, <1>11, <1>12, <1>13, <1>14, <1>15, <1>16 DEF MemoryIInv
-----------------------------------------------------------------------------
(* The results.                                                            *)

\* Every step keeps the invariant.
LEMMA MemoryStep == MemoryIInv /\ [MemoryNext]_mvars => MemoryIInv'
<1>1. SUFFICES ASSUME MemoryIInv, [MemoryNext]_mvars PROVE MemoryIInv'
  OBVIOUS
<1>2. CASE AskQuestion
  BY <1>1, <1>2, AskKeeps
<1>3. CASE CreateSession \/ \E x \in Sessions : ActivateSession(x)
  BY <1>1, <1>3, SessionKeeps
<1>4. CASE \E q \in Questions : CommitBegin(q)
  BY <1>1, <1>4, BeginKeeps
<1>5. CASE CommitWrite
  BY <1>1, <1>5, WriteKeeps
<1>6. CASE CommitDone
  BY <1>1, <1>6, DoneKeeps
<1>7. CASE CommitFails
  BY <1>1, <1>7, FailsKeeps
<1>8. CASE \E c \in compactors : CompactionDone(c) \/ CompactionFails(c)
  BY <1>1, <1>8, WriteBackKeeps
<1>9. CASE CancelBegin \/ CancelCommit
  BY <1>1, <1>9, CancelKeeps
<1>10. CASE ClearSession
  BY <1>1, <1>10, ClearKeeps
<1>11. CASE UNCHANGED mvars
  <2>1. /\ UNCHANGED <<activeSession, created, asked, askedIn, outstanding, commit, cancel>>
        /\ UNCHANGED <<dataVars, disturbed>>
    BY <1>11 DEF mvars
  <2>2. Shape'
    BY <1>1, <2>1 DEF MemoryIInv, Shape, dataVars
  <2>3. Past' = Past
    BY <2>1 DEF Past, Future
  <2>4. commit'.pc # "idle" => commit'.q < asked' /\ \A q \in outstanding' : commit'.q < q
    BY <1>1, <2>1 DEF MemoryIInv, Ahead
  <2>5. QED
    BY <1>1, <2>1, <2>2, <2>3, <2>4, DataKept, CommitKept DEF MemoryIInv
<1>12. QED
  BY <1>1, <1>2, <1>3, <1>4, <1>5, <1>6, <1>7, <1>8, <1>9, <1>10, <1>11 DEF MemoryNext

\* In every session, for every number of questions and every size: the history is in
\* conversation order, one compactor at most works for it, and nothing the memo
\* covers is still in the history.
THEOREM MemoryInvariance == MemorySpec => []MemoryInv
<1>1. MemoryInit => MemoryIInv
  BY MemoryInitInv
<1>2. MemoryIInv /\ [MemoryNext]_mvars => MemoryIInv'
  BY MemoryStep
<1>3. MemoryIInv => MemoryInv
  BY MemoryBounds
<1>4. QED
  BY <1>1, <1>2, <1>3, PTL DEF MemorySpec

\* A memo is only replaced by one that started from it.
LEMMA MemoStep ==
    ASSUME MemoryIInv, [MemoryNext]_mvars, NEW x \in Sessions \ disturbed
    PROVE  summary[x] \subseteq summary'[x] \/ (ClearSession /\ x = activeSession)
<1>1. Shape /\ Covered
  BY DEF MemoryIInv
<1>2. CASE UNCHANGED summary
  BY <1>2
<1>3. ASSUME NEW c \in compactors, CompactionDone(c) \/ CompactionFails(c)
      PROVE  summary[x] \subseteq summary'[x]
  <2>1. PICK memo : c.prior \subseteq memo /\ WriteBack(c, memo)
    BY <1>3 DEF CompactionDone, CompactionFails
  <2>2. summary' = [summary EXCEPT ![c.sess] = memo]
    BY <2>1 DEF WriteBack
  <2>3. c.sess \in Sessions /\ (c.sess = x => c.prior = summary[x])
    BY <1>1, <1>3 DEF Shape, Covered
  <2>4. QED
    BY <1>1, <2>1, <2>2, <2>3 DEF Shape
<1>4. CASE ClearSession
  <2>1. summary' = [summary EXCEPT ![activeSession] = {}]
    BY <1>4 DEF ClearSession
  <2>2. QED
    BY <1>1, <1>4, <2>1 DEF Shape
<1>5. QED
  <2>1. \/ UNCHANGED summary
        \/ \E c \in compactors : CompactionDone(c) \/ CompactionFails(c)
        \/ ClearSession
    BY DEF MemoryNext, mvars, dataVars, AskQuestion, CreateSession, ActivateSession, CommitBegin,
       CommitWrite, CommitDone, CommitFails, CancelBegin, CancelCommit
  <2>2. QED
    BY <1>2, <1>3, <1>4, <2>1

\* The memo of an undisturbed session loses nothing until the session is cleared,
\* however many compactions, failed ones among them, take turns.
THEOREM MemoryGrowth == MemorySpec => MemoGrows
<1>1. MemoryInit => MemoryIInv
  BY MemoryInitInv
<1>2. MemoryIInv /\ [MemoryNext]_mvars => MemoryIInv'
  BY MemoryStep
<1>3. MemoryIInv /\ [MemoryNext]_mvars
        => [\A x \in Sessions \ disturbed :
              summary[x] \subseteq summary'[x] \/ (ClearSession /\ x = activeSession)]_mvars
  BY MemoStep
<1>4. QED
  BY <1>1, <1>2, <1>3, PTL DEF MemorySpec, MemoGrows

\* Everything an undo removes is beyond the lengths read before the write, and so its own.
LEMMA RollbackStep ==
    ASSUME MemoryIInv, CommitFails
    PROVE  /\ Elems(qa[commit.sess]) \ Elems(qa'[commit.sess]) \subseteq {commit.q}
           /\ Elems(history[commit.sess]) \ Elems(history'[commit.sess])
                 \subseteq {UserMsg(commit.q), AssistantMsg(commit.q)}
<1> DEFINE x == commit.sess
           h == history[x]
           p == qa[x]
           n == commit.preHist
<1>1. Shape /\ Added
  BY DEF MemoryIInv
<1>2. /\ commit.pc = "wrote"
      /\ qa' = [qa EXCEPT ![x] = IF Len(p) > commit.preQa THEN SubSeq(p, 1, Len(p) - 1) ELSE p]
      /\ history' = [history EXCEPT ![x] = IF Len(h) > n THEN SubSeq(h, 1, n) ELSE h]
  BY DEF CommitFails
<1>3. x \in Sessions /\ h \in Seq(Nat) /\ p \in Seq(Questions) /\ n \in Nat /\ commit.preQa \in Nat
  BY <1>1 DEF Shape
<1>4. Len(h) \in Nat /\ Len(p) \in Nat
  BY <1>3
<1>5. /\ qa'[x] = IF Len(p) > commit.preQa THEN SubSeq(p, 1, Len(p) - 1) ELSE p
      /\ history'[x] = IF Len(h) > n THEN SubSeq(h, 1, n) ELSE h
  BY <1>1, <1>2, <1>3 DEF Shape
<1>6. /\ \A i \in 1 .. Len(h) : i > n => h[i] \in {UserMsg(commit.q), AssistantMsg(commit.q)}
      /\ p # <<>> => p[Len(p)] = commit.q
  BY <1>1, <1>2 DEF Added
<1> HIDE DEF x, h, p, n
<1>7. Elems(p) \ Elems(qa'[x]) \subseteq {commit.q}
  <2>1. CASE Len(p) > commit.preQa
    <3> DEFINE s == SubSeq(p, 1, Len(p) - 1)
    <3>1. /\ 1 \in 1 .. Len(p) + 1 /\ Len(p) - 1 \in 0 .. Len(p) /\ 1 <= (Len(p) - 1) + 1
          /\ Len(p) > 0
      BY <1>3, <1>4, <2>1
    <3>2. Len(s) = (Len(p) - 1) - 1 + 1 /\ \A i \in 1 .. Len(s) : s[i] = p[1 + i - 1]
      BY <1>3, <3>1, SubSeqPiece
    <3> HIDE DEF s
    <3>3. Len(s) = Len(p) - 1 /\ \A i \in 1 .. Len(s) : s[i] = p[i]
      BY <1>4, <3>2
    <3>4. p # <<>>
      BY <3>1
    <3>5. \A i \in 1 .. Len(p) : i \in 1 .. Len(s) \/ i = Len(p)
      BY <1>4, <3>3
    <3>6. \A i \in 1 .. Len(p) : p[i] \in Elems(s) \/ p[i] = commit.q
      BY <1>6, <3>3, <3>4, <3>5 DEF Elems
    <3>7. qa'[x] = s
      BY <1>5, <2>1 DEF s
    <3>8. QED
      BY <3>6, <3>7 DEF Elems
  <2>2. CASE ~(Len(p) > commit.preQa)
    BY <1>5, <2>2
  <2>3. QED
    BY <2>1, <2>2
<1>8. Elems(h) \ Elems(history'[x]) \subseteq {UserMsg(commit.q), AssistantMsg(commit.q)}
  <2>1. CASE Len(h) > n
    <3> DEFINE s == SubSeq(h, 1, n)
    <3>1. 1 \in 1 .. Len(h) + 1 /\ n \in 0 .. Len(h) /\ 1 <= n + 1
      BY <1>3, <1>4, <2>1
    <3>2. Len(s) = n - 1 + 1 /\ \A i \in 1 .. Len(s) : s[i] = h[1 + i - 1]
      BY <1>3, <3>1, SubSeqPiece
    <3> HIDE DEF s
    <3>3. Len(s) = n /\ \A i \in 1 .. Len(s) : s[i] = h[i]
      BY <1>3, <3>2
    <3>4. \A i \in 1 .. Len(h) : i \in 1 .. Len(s) \/ i > n
      BY <1>3, <1>4, <3>3
    <3>5. \A i \in 1 .. Len(h) :
             h[i] \in Elems(s) \/ h[i] \in {UserMsg(commit.q), AssistantMsg(commit.q)}
      BY <1>6, <3>3, <3>4 DEF Elems
    <3>6. history'[x] = s
      BY <1>5, <2>1 DEF s
    <3>7. QED
      BY <3>5, <3>6 DEF Elems
  <2>2. CASE ~(Len(h) > n)
    BY <1>5, <2>2
  <2>3. QED
    BY <2>1, <2>2
<1>9. QED
  BY <1>7, <1>8 DEF x, h, p

\* Undoing a commit that failed takes back its own turn at most, whatever a
\* compactor cut or a clear emptied between the write and the undo.
THEOREM RollbackIsOwn == MemorySpec => RollbackOnlyOwn
<1>1. MemoryInit => MemoryIInv
  BY MemoryInitInv
<1>2. MemoryIInv /\ [MemoryNext]_mvars => MemoryIInv'
  BY MemoryStep
<1>3. MemoryIInv /\ [MemoryNext]_mvars
        => [CommitFails =>
             /\ Elems(qa[commit.sess]) \ Elems(qa'[commit.sess]) \subseteq {commit.q}
             /\ Elems(history[commit.sess]) \ Elems(history'[commit.sess])
                   \subseteq {UserMsg(commit.q), AssistantMsg(commit.q)}]_mvars
  BY RollbackStep
<1>4. QED
  BY <1>1, <1>2, <1>3, PTL DEF MemorySpec, RollbackOnlyOwn
-----------------------------------------------------------------------------
(* Each session implements OrderedAnswers.                                 *)

\* A step after which a reader of session x sees the same, and no more can follow.
LEMMA OrderedGiveUp ==
    ASSUME NEW x, EligibleIn(x)' \subseteq EligibleIn(x), asked' = asked, qa'[x] = qa[x]
    PROVE  [OrderedIn(x)!Next]_(OrderedIn(x)!vars)
BY DEF OrderedIn!Next, OrderedIn!GiveUp

\* Every step is, for each session, a step of OrderedAnswers or changes nothing there.
LEMMA OrderedStep ==
    ASSUME MemoryIInv, [MemoryNext]_mvars, NEW x \in Sessions
    PROVE  [OrderedIn(x)!Next]_(OrderedIn(x)!vars)
<1>1. Shape /\ Ahead
  BY DEF MemoryIInv
<1>2. CASE AskQuestion
  <2>1. EligibleIn(x)' = EligibleIn(x) \union {asked}
    BY <1>2 DEF AskQuestion, EligibleIn
  <2>2. asked < MaxAsks /\ asked' = asked + 1 /\ qa'[x] = qa[x]
    BY <1>2 DEF AskQuestion, dataVars
  <2>3. OrderedIn(x)!Submit
    BY <2>1, <2>2 DEF OrderedIn!Submit
  <2>4. QED
    BY <2>3 DEF OrderedIn!Next
<1>3. CASE CreateSession \/ (\E y \in Sessions : ActivateSession(y)) \/ CancelCommit
  <2>1. UNCHANGED <<asked, outstanding, qa, commit>>
    BY <1>3 DEF CreateSession, ActivateSession, CancelCommit, dataVars
  <2>2. EligibleIn(x)' \subseteq EligibleIn(x)
    BY <2>1 DEF EligibleIn
  <2>3. QED
    BY <2>1, <2>2, OrderedGiveUp
<1>4. ASSUME NEW q \in Questions, CommitBegin(q)
      PROVE  [OrderedIn(x)!Next]_(OrderedIn(x)!vars)
  <2>1. /\ commit.pc = "idle" /\ q \in outstanding /\ commit'.q = q
        /\ outstanding' \subseteq outstanding /\ UNCHANGED <<asked, qa>>
    BY <1>4 DEF CommitBegin, dataVars
  <2>2. EligibleIn(x)' \subseteq EligibleIn(x)
    BY <2>1 DEF EligibleIn
  <2>3. QED
    BY <2>1, <2>2, OrderedGiveUp
<1>5. CASE CommitWrite
  <2>1. /\ commit.pc = "write" /\ commit' = [commit EXCEPT !.pc = "wrote"]
        /\ qa' = [qa EXCEPT ![commit.sess] = KeepLast(Append(qa[commit.sess], commit.q), QaCap)]
        /\ asked' = asked /\ outstanding' = outstanding
    BY <1>5 DEF CommitWrite
  <2>2. commit'.pc = "wrote" /\ commit.sess \in Sessions /\ commit.q \in Nat
    BY <1>1, <2>1 DEF Shape
  <2>3. EligibleIn(x)' = outstanding
    BY <2>1, <2>2 DEF EligibleIn
  <2>4. CASE x = commit.sess
    <3>1. EligibleIn(x) = outstanding \union {commit.q}
      BY <2>1, <2>4 DEF EligibleIn
    <3>2. outstanding = {p \in EligibleIn(x) : p > commit.q}
      <4>1. \A p \in outstanding : p \in Int /\ commit.q < p
        BY <1>1, <2>1 DEF Shape, Ahead
      <4>2. QED
        BY <2>2, <3>1, <4>1
    <3>3. qa'[x] = KeepLast(Append(qa[x], commit.q), QaCap)
      BY <1>1, <2>1, <2>2, <2>4 DEF Shape
    <3>4. KeepLast(Append(qa[x], commit.q), QaCap) = OrderedIn(x)!Newest(Append(qa[x], commit.q))
      BY DEF KeepLast, OrderedIn!Newest
    <3>5. OrderedIn(x)!Deliver(commit.q)
      BY <2>1, <2>3, <3>1, <3>2, <3>3, <3>4 DEF OrderedIn!Deliver
    <3>6. QED
      BY <3>1, <3>5 DEF OrderedIn!Next
  <2>5. CASE x # commit.sess
    <3>1. qa'[x] = qa[x] /\ EligibleIn(x)' \subseteq EligibleIn(x)
      BY <1>1, <2>1, <2>2, <2>3, <2>5 DEF Shape, EligibleIn
    <3>2. QED
      BY <2>1, <3>1, OrderedGiveUp
  <2>6. QED
    BY <2>4, <2>5
<1>6. CASE CommitDone
  <2>1. UNCHANGED <<asked, outstanding, qa>> /\ commit'.pc = "idle"
    BY <1>6 DEF CommitDone, dataVars, NoCommit
  <2>2. EligibleIn(x)' \subseteq EligibleIn(x)
    BY <2>1 DEF EligibleIn
  <2>3. QED
    BY <2>1, <2>2, OrderedGiveUp
<1>7. CASE CommitFails
  <2> DEFINE p == qa[commit.sess]
  <2>1. /\ commit.pc = "wrote" /\ commit'.pc = "idle" /\ asked' = asked /\ outstanding' = outstanding
        /\ qa' = [qa EXCEPT ![commit.sess] =
                     IF Len(p) > commit.preQa THEN SubSeq(p, 1, Len(p) - 1) ELSE p]
    BY <1>7 DEF CommitFails, NoCommit
  <2>2. commit.sess \in Sessions /\ p \in Seq(Questions) /\ commit.preQa \in Nat
    BY <1>1 DEF Shape
  <2>3. EligibleIn(x)' = EligibleIn(x)
    BY <2>1 DEF EligibleIn
  <2>4. CASE x = commit.sess /\ Len(p) > commit.preQa
    <3>1. qa'[x] = SubSeq(qa[x], 1, Len(qa[x]) - 1)
      BY <1>1, <2>1, <2>2, <2>4 DEF Shape
    <3>2. qa[x] # <<>>
      BY <2>2, <2>4
    <3>3. OrderedIn(x)!TakeBack
      BY <2>1, <2>3, <3>1, <3>2 DEF OrderedIn!TakeBack
    <3>4. QED
      BY <3>3 DEF OrderedIn!Next
  <2>5. CASE ~(x = commit.sess /\ Len(p) > commit.preQa)
    <3>1. qa'[x] = qa[x]
      BY <1>1, <2>1, <2>2, <2>5 DEF Shape
    <3>2. QED
      BY <2>1, <2>3, <3>1, OrderedGiveUp
  <2>6. QED
    BY <2>4, <2>5
<1>8. ASSUME NEW c \in compactors, CompactionDone(c) \/ CompactionFails(c)
      PROVE  [OrderedIn(x)!Next]_(OrderedIn(x)!vars)
  <2>1. UNCHANGED <<asked, outstanding, qa, commit>>
    BY <1>8 DEF CompactionDone, CompactionFails, WriteBack
  <2>2. EligibleIn(x)' \subseteq EligibleIn(x)
    BY <2>1 DEF EligibleIn
  <2>3. QED
    BY <2>1, <2>2, OrderedGiveUp
<1>9. CASE CancelBegin
  <2>1. UNCHANGED <<asked, qa, commit>> /\ outstanding' = {}
    BY <1>9 DEF CancelBegin, dataVars
  <2>2. EligibleIn(x)' \subseteq EligibleIn(x)
    BY <2>1 DEF EligibleIn
  <2>3. QED
    BY <2>1, <2>2, OrderedGiveUp
<1>10. CASE ClearSession
  <2>1. UNCHANGED <<asked, outstanding, commit>> /\ qa' = [qa EXCEPT ![activeSession] = <<>>]
    BY <1>10 DEF ClearSession
  <2>2. EligibleIn(x)' = EligibleIn(x)
    BY <2>1 DEF EligibleIn
  <2>3. CASE x = activeSession
    <3>1. qa'[x] = <<>>
      BY <1>1, <2>1, <2>3 DEF Shape
    <3>2. OrderedIn(x)!Clear
      BY <2>1, <2>2, <3>1 DEF OrderedIn!Clear
    <3>3. QED
      BY <3>2 DEF OrderedIn!Next
  <2>4. CASE x # activeSession
    <3>1. qa'[x] = qa[x]
      BY <1>1, <2>1, <2>4 DEF Shape
    <3>2. QED
      BY <2>1, <2>2, <3>1, OrderedGiveUp
  <2>5. QED
    BY <2>3, <2>4
<1>11. CASE UNCHANGED mvars
  <2>1. UNCHANGED <<asked, outstanding, qa, commit>>
    BY <1>11 DEF mvars, dataVars
  <2>2. EligibleIn(x)' \subseteq EligibleIn(x)
    BY <2>1 DEF EligibleIn
  <2>3. QED
    BY <2>1, <2>2, OrderedGiveUp
<1>12. QED
  BY <1>2, <1>3, <1>4, <1>5, <1>6, <1>7, <1>8, <1>9, <1>10, <1>11 DEF MemoryNext

\* However sessions are switched while answers are on their way, each session by
\* itself shows a legal history of OrderedAnswers.
THEOREM SessionsOrdered == MemorySpec => EverySessionOrdered
<1>1. MemoryInit => MemoryIInv
  BY MemoryInitInv
<1>2. MemoryIInv /\ [MemoryNext]_mvars => MemoryIInv'
  BY MemoryStep
<1>3. MemoryInit => \A x \in Sessions : OrderedIn(x)!Init
  BY DEF MemoryInit, OrderedIn!Init, EligibleIn, NoCommit
<1>4. MemoryIInv /\ [MemoryNext]_mvars
        => [\A x \in Sessions : [OrderedIn(x)!Next]_(OrderedIn(x)!vars)]_mvars
  BY OrderedStep
<1>5. QED
  BY <1>1, <1>2, <1>3, <1>4, PTL DEF MemorySpec, EverySessionOrdered
=============================================================================

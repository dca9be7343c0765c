----------------------- MODULE AnswerPipeline_proofs -----------------------
(***************************************************************************)
(* Proofs about AnswerPipeline for every number of questions, turns,       *)
(* models, dispatch loops and cancelling threads.                          *)
(*                                                                         *)
(* The pipeline uses the commit queue by its actions alone, so it inherits *)
(* what CommitQueue_proofs shows of them.  Its own invariant says where    *)
(* every number is (OwnersOf), that the queue names each once (Distinct)   *)
(* and in which position a dispatch loop holds dropped numbers (Loops).    *)
(***************************************************************************)
EXTENDS AnswerPipeline, CommitQueue_proofs, FiniteSetTheorems

-----------------------------------------------------------------------------
(* The inductive invariant.                                                *)

Items ==
    {item \in [seq : Nat, asr : BOOLEAN, image : BOOLEAN, turn : Nat, sure : BOOLEAN,
               wait : BOOLEAN, tail : Nat] : item.image => VisionModels # {}}

Working == {"start", "run", "commit", "skip"}
WorkerPoints == Working \union {"none", "reported", "over"}

\* Where a loop holds numbers it has dropped and not yet marked, and where none.
Dropping == {"reject", "skip"}
Empty == {"idle", "top", "judge", "claim", "rejecting", "skipping"}
LoopPoints == Dropping \union Empty \union {"turn"}

LoopStates ==
    [pc : LoopPoints, at : Nat, item : Items, skips : SUBSET Seqs, left : Int]
WorkerStates == [pc : WorkerPoints, task : Items, gen : Nat]

Shapes ==
    /\ pending \in Seq(Items)
    /\ DOMAIN inFlight \subseteq Seqs /\ inFlight \in [DOMAIN inFlight -> Models]
    /\ turns \in 0 .. MaxTurns /\ latestTurn \in 0 .. turns
    /\ worker \in [Seqs -> WorkerStates]
    /\ disp \in [Dispatchers -> LoopStates]
    /\ calls \in Nat
    /\ holder \in Seqs \union Dispatchers \union {Nobody}
    /\ healthy \subseteq Models

\* The generation is ahead of the version by the cancellations between the two.
Generations ==
    /\ bumped \subseteq Resetters /\ IsFiniteSet(bumped)
    /\ generation = sessionVersion + Cardinality(bumped)
    /\ generation <= MaxResets

\* A loop has dropped one number where it is about to mark it, and none elsewhere.
LoopGood(l) ==
    /\ l.pc = "judge" => l.at # 0
    /\ l.pc \in Empty => l.skips = {}
    /\ l.pc \in Dropping => \E s \in Seqs : l.skips = {s}

Loops == \A d \in Dispatchers : LoopGood(disp[d])

SeqsOf(q) == {q[i].seq : i \in 1 .. Len(q)}
Distinct(q) == \A i, j \in 1 .. Len(q) : i # j => q[i].seq # q[j].seq

Skips == [d \in Dispatchers |-> disp[d].skips]

\* The numbers O that owe their outcome are divided among the queue Q, the workers
\* W and what each loop d holds in D[d].
OwnersOf(Q, W, D, O) ==
    /\ O = Q \union W \union UNION {D[d] : d \in Dispatchers}
    /\ Q \intersect W = {}
    /\ \A d \in Dispatchers :
          /\ D[d] \intersect (Q \union W) = {}
          /\ \A e \in Dispatchers \ {d} : D[d] \intersect D[e] = {}

Owners == Distinct(pending) /\ OwnersOf(SeqsOf(pending), InWorker, Skips, owed)

PipelineIInv ==
    /\ Shapes
    /\ Loops
    /\ Generations
    /\ Owners
    /\ ModelsExclusive
    /\ NoForgottenQuestion

-----------------------------------------------------------------------------
(* Queues: what appending, removing, relabelling and filtering leave.      *)

LEMMA AppendQueue ==
    ASSUME NEW q \in Seq(Items), NEW item \in Items, Distinct(q), item.seq \notin SeqsOf(q)
    PROVE  /\ Append(q, item) \in Seq(Items)
           /\ Distinct(Append(q, item))
           /\ SeqsOf(Append(q, item)) = SeqsOf(q) \union {item.seq}
<1> DEFINE r == Append(q, item)
<1>1. /\ r \in Seq(Items)
      /\ Len(r) = Len(q) + 1
      /\ \A i \in 1 .. Len(q) : r[i] = q[i]
      /\ r[Len(q) + 1] = item
  BY AppendProperties
<1> HIDE DEF r
<1>2. \A i \in 1 .. Len(q) : q[i].seq # item.seq
  BY DEF SeqsOf
<1>3. Distinct(r)
  BY <1>1, <1>2 DEF Distinct
<1>4. SeqsOf(r) = SeqsOf(q) \union {item.seq}
  <2>1. ASSUME NEW i \in 1 .. Len(r)
        PROVE  r[i].seq \in SeqsOf(q) \union {item.seq}
    <3>1. CASE i \in 1 .. Len(q)
      BY <1>1, <3>1 DEF SeqsOf
    <3>2. CASE i = Len(q) + 1
      BY <1>1, <3>2
    <3>3. QED
      BY <1>1, <3>1, <3>2
  <2>2. ASSUME NEW i \in 1 .. Len(q)
        PROVE  q[i].seq \in SeqsOf(r)
    <3>1. i \in 1 .. Len(r) /\ r[i] = q[i]
      BY <1>1
    <3>2. QED
      BY <3>1 DEF SeqsOf
  <2>3. item.seq \in SeqsOf(r)
    <3>1. Len(q) + 1 \in 1 .. Len(r)
      BY <1>1
    <3>2. QED
      BY <1>1, <3>1 DEF SeqsOf
  <2>4. SeqsOf(r) \subseteq SeqsOf(q) \union {item.seq}
    BY <2>1 DEF SeqsOf
  <2>5. SeqsOf(q) \subseteq SeqsOf(r)
    BY <2>2 DEF SeqsOf
  <2>6. QED
    BY <2>3, <2>4, <2>5
<1>5. QED
  BY <1>1, <1>3, <1>4 DEF r

LEMMA RemoveFacts ==
    ASSUME NEW S, NEW q \in Seq(S), NEW i \in 1 .. Len(q)
    PROVE  /\ Remove(q, i) \in Seq(S)
           /\ Len(Remove(q, i)) = Len(q) - 1
           /\ \A j \in 1 .. Len(q) - 1 : Remove(q, i)[j] = IF j < i THEN q[j] ELSE q[j + 1]
<1> DEFINE a == SubSeq(q, 1, i - 1)
           b == SubSeq(q, i + 1, Len(q))
<1>0. Len(q) \in Nat
  BY LenProperties
<1>1. a \in Seq(S) /\ Len(a) = i - 1 /\ \A j \in 1 .. Len(a) : a[j] = q[j]
  <2>1. 1 \in 1 .. Len(q) + 1 /\ i - 1 \in 0 .. Len(q) /\ 1 <= (i - 1) + 1
    BY <1>0
  <2>2. a \in Seq(S) /\ Len(a) = (i - 1) - 1 + 1 /\ \A j \in 1 .. Len(a) : a[j] = q[1 + j - 1]
    BY <2>1, SubSeqFacts
  <2>3. QED
    BY <1>0, <2>2
<1>2. b \in Seq(S) /\ Len(b) = Len(q) - i /\ \A j \in 1 .. Len(b) : b[j] = q[i + j]
  <2>1. i + 1 \in 1 .. Len(q) + 1 /\ Len(q) \in 0 .. Len(q) /\ i + 1 <= Len(q) + 1
    BY <1>0
  <2>2. b \in Seq(S) /\ Len(b) = Len(q) - (i + 1) + 1
        /\ \A j \in 1 .. Len(b) : b[j] = q[(i + 1) + j - 1]
    BY <2>1, SubSeqFacts
  <2>3. QED
    BY <1>0, <2>2
<1> HIDE DEF a, b
<1>3. /\ a \o b \in Seq(S)
      /\ Len(a \o b) = Len(a) + Len(b)
      /\ \A j \in 1 .. Len(a) + Len(b) :
            (a \o b)[j] = IF j <= Len(a) THEN a[j] ELSE b[j - Len(a)]
  BY <1>1, <1>2, ConcatProperties
<1>4. ASSUME NEW j \in 1 .. Len(q) - 1
      PROVE  (a \o b)[j] = IF j < i THEN q[j] ELSE q[j + 1]
  <2>1. CASE j < i
    BY <1>0, <1>1, <1>2, <1>3, <2>1
  <2>2. CASE ~(j < i)
    <3>1. /\ j \in 1 .. Len(a) + Len(b) /\ ~(j <= Len(a))
          /\ j - Len(a) \in 1 .. Len(b) /\ i + (j - Len(a)) = j + 1
      BY <1>0, <1>1, <1>2, <2>2
    <3>2. QED
      BY <1>2, <1>3, <2>2, <3>1
  <2>3. QED
    BY <2>1, <2>2
<1>5. Remove(q, i) = a \o b
  BY DEF Remove, a, b
<1>6. Len(a) + Len(b) = Len(q) - 1
  BY <1>0, <1>1, <1>2
<1>7. QED
  BY <1>3, <1>4, <1>5, <1>6

LEMMA RemoveQueue ==
    ASSUME NEW q \in Seq(Items), NEW i \in 1 .. Len(q), Distinct(q)
    PROVE  /\ Remove(q, i) \in Seq(Items)
           /\ Distinct(Remove(q, i))
           /\ q[i].seq \in SeqsOf(q)
           /\ SeqsOf(Remove(q, i)) = SeqsOf(q) \ {q[i].seq}
<1> DEFINE r == Remove(q, i)
           from(j) == IF j < i THEN j ELSE j + 1
<1>0. Len(q) \in Nat
  BY LenProperties
<1>1. /\ r \in Seq(Items) /\ Len(r) = Len(q) - 1
      /\ \A j \in 1 .. Len(r) : r[j] = q[from(j)]
  BY <1>0, RemoveFacts
<1> HIDE DEF r
<1>2. \A j \in 1 .. Len(r) : from(j) \in 1 .. Len(q) /\ from(j) # i
  BY <1>0, <1>1
<1>3. \A j, k \in 1 .. Len(r) : j # k => from(j) # from(k)
  BY <1>0, <1>1
<1>4. ASSUME NEW j \in 1 .. Len(q), j # i
      PROVE  \E k \in 1 .. Len(r) : from(k) = j
  <2>1. CASE j < i
    BY <1>0, <1>1, <2>1
  <2>2. CASE ~(j < i)
    <3>1. j - 1 \in 1 .. Len(r) /\ from(j - 1) = j
      BY <1>0, <1>1, <1>4, <2>2
    <3>2. QED
      BY <3>1
  <2>3. QED
    BY <2>1, <2>2
<1> HIDE DEF from
<1>5. Distinct(r)
  BY <1>1, <1>2, <1>3 DEF Distinct
<1>6. ASSUME NEW j \in 1 .. Len(r)
      PROVE  r[j].seq \in SeqsOf(q) \ {q[i].seq}
  BY <1>1, <1>2 DEF SeqsOf, Distinct
<1>7. ASSUME NEW j \in 1 .. Len(q), q[j].seq # q[i].seq
      PROVE  q[j].seq \in SeqsOf(r)
  <2>1. PICK k \in 1 .. Len(r) : from(k) = j
    BY <1>4, <1>7
  <2>2. r[k] = q[j]
    BY <1>1, <2>1
  <2>3. QED
    BY <2>2 DEF SeqsOf
<1>8. SeqsOf(r) = SeqsOf(q) \ {q[i].seq}
  BY <1>6, <1>7 DEF SeqsOf
<1>9. QED
  BY <1>1, <1>5, <1>8 DEF SeqsOf, r

\* A question that changes but keeps its number.
LEMMA RelabelQueue ==
    ASSUME NEW q \in Seq(Items), NEW i \in 1 .. Len(q), NEW item \in Items,
           item.seq = q[i].seq, Distinct(q)
    PROVE  /\ [q EXCEPT ![i] = item] \in Seq(Items)
           /\ Distinct([q EXCEPT ![i] = item])
           /\ SeqsOf([q EXCEPT ![i] = item]) = SeqsOf(q)
<1> DEFINE r == [q EXCEPT ![i] = item]
<1>1. r \in Seq(Items) /\ Len(r) = Len(q) /\ \A j \in 1 .. Len(q) : r[j].seq = q[j].seq
  BY ExceptSeq, LenProperties
<1> HIDE DEF r
<1>2. Distinct(r) /\ SeqsOf(r) = SeqsOf(q)
  BY <1>1 DEF Distinct, SeqsOf
<1>3. QED
  BY <1>1, <1>2 DEF r

-----------------------------------------------------------------------------
(* Naturals in order: a least element, and a finite set listed upwards.    *)

LEMMA Least ==
    ASSUME NEW T, T \subseteq Nat, T # {}
    PROVE  \E x \in T : \A y \in T : x <= y
<1>1. \E x \in T : \A y \in T : ~ (<<y, x>> \in OpToRel(<, Nat))
  BY NatLessThanWellFounded, WFMin
<1>2. PICK x \in T : \A y \in T : ~ (<<y, x>> \in OpToRel(<, Nat))
  BY <1>1
<1>3. \A y \in T : ~(y < x)
  BY <1>2 DEF OpToRel
<1>4. QED
  BY <1>3

Upward(f, n) == \A j, k \in 1 .. n : j < k => f[j] < f[k]

Listed(S) == \E f \in [1 .. Cardinality(S) -> S] : Upward(f, Cardinality(S))

\* By a least counterexample, since an induction theorem cannot be instantiated.
LEMMA EverySetListed ==
    ASSUME NEW n \in Nat, NEW S \in SUBSET (1 .. n)
    PROVE  Listed(S)
<1> DEFINE Bad == {m \in Nat : \E T \in SUBSET (1 .. m) : ~Listed(T)}
<1>1. SUFFICES ASSUME Bad # {}
               PROVE  FALSE
  OBVIOUS
<1>2. PICK m \in Bad : \A k \in Bad : m <= k
  BY <1>1, Least
<1>3. PICK T \in SUBSET (1 .. m) : ~Listed(T)
  BY <1>2
<1>4. m \in Nat /\ IsFiniteSet(T)
  <2>1. m \in Nat
    BY <1>2
  <2>2. IsFiniteSet(1 .. m)
    BY <2>1, FS_Interval
  <2>3. QED
    BY <2>1, <2>2, FS_Subset
<1>5. m # 0
  <2>1. SUFFICES ASSUME m = 0
                 PROVE  FALSE
    OBVIOUS
  <2>a. T = {}
    BY <2>1
  <2>2. T = {} /\ Cardinality(T) = 0
    BY <2>a, FS_EmptySet
  <2>3. [j \in 1 .. 0 |-> 0] \in [1 .. Cardinality(T) -> T]
    BY <2>2
  <2>4. \A g : Upward(g, 0)
    BY DEF Upward
  <2>5. QED
    BY <1>3, <2>2, <2>3, <2>4 DEF Listed
<1>6. m - 1 \in Nat /\ m - 1 \notin Bad
  BY <1>2, <1>4, <1>5
<1>7. m \in T
  <2>1. SUFFICES ASSUME m \notin T
                 PROVE  FALSE
    OBVIOUS
  <2>2. T \in SUBSET (1 .. m - 1)
    BY <1>4, <2>1
  <2>3. QED
    BY <1>3, <1>6, <2>2
<1> DEFINE R == T \ {m}
           c == Cardinality(T)
<1>8. R \in SUBSET (1 .. m - 1) /\ Listed(R)
  <2>1. R \in SUBSET (1 .. m - 1)
    BY <1>4
  <2>2. QED
    BY <1>6, <2>1
<1>9. c \in Nat /\ Cardinality(R) = c - 1 /\ c - 1 \in Nat
  <2>1. c \in Nat
    BY <1>4, FS_CardinalityType
  <2>2. IsFiniteSet(R) /\ Cardinality(R) = c - 1
    BY <1>4, <1>7, FS_RemoveElement
  <2>3. Cardinality(R) \in Nat
    BY <2>2, FS_CardinalityType
  <2>4. QED
    BY <2>1, <2>2, <2>3
<1>10. PICK f \in [1 .. c - 1 -> R] : Upward(f, c - 1)
  BY <1>8, <1>9 DEF Listed
<1> DEFINE g == [j \in 1 .. c |-> IF j = c THEN m ELSE f[j]]
<1>11. g \in [1 .. c -> T]
  <2>1. ASSUME NEW j \in 1 .. c, j # c
        PROVE  f[j] \in T
    BY <1>9, <1>10, <2>1
  <2>2. QED
    BY <1>7, <2>1
<1>12. Upward(g, c)
  <2>1. SUFFICES ASSUME NEW j \in 1 .. c, NEW k \in 1 .. c, j < k
                 PROVE  g[j] < g[k]
    BY DEF Upward
  <2>2. j \in 1 .. c - 1 /\ f[j] \in R
    BY <1>9, <1>10, <2>1
  <2>3. CASE k = c
    <3>1. f[j] \in 1 .. m - 1
      BY <1>8, <2>2
    <3>2. f[j] < m
      BY <1>4, <3>1
    <3>3. g[j] = f[j] /\ g[k] = m
      BY <2>1, <2>3, <1>9
    <3>4. QED
      BY <3>2, <3>3
  <2>4. CASE k # c
    BY <1>9, <1>10, <2>1, <2>2, <2>4 DEF Upward
  <2>5. QED
    BY <2>3, <2>4
<1>13. QED
  BY <1>3, <1>11, <1>12 DEF Listed

LEMMA UpwardReachesAll ==
    ASSUME NEW n \in Nat, NEW S \in SUBSET (1 .. n),
           NEW f \in [1 .. Cardinality(S) -> S], Upward(f, Cardinality(S))
    PROVE  /\ Cardinality(S) \in Nat
           /\ \A j, k \in 1 .. Cardinality(S) : j # k => f[j] # f[k]
           /\ \A s \in S : \E j \in 1 .. Cardinality(S) : f[j] = s
<1> DEFINE c == Cardinality(S)
<1>1. IsFiniteSet(S) /\ c \in Nat
  <2>1. IsFiniteSet(1 .. n)
    BY FS_Interval
  <2>2. IsFiniteSet(S)
    BY <2>1, FS_Subset
  <2>3. QED
    BY <2>2, FS_CardinalityType
<1>2. \A j, k \in 1 .. c : j # k => f[j] # f[k]
  <2>1. SUFFICES ASSUME NEW j \in 1 .. c, NEW k \in 1 .. c, j # k
                 PROVE  f[j] # f[k]
    OBVIOUS
  <2>a. f[j] \in 1 .. n /\ f[k] \in 1 .. n
    OBVIOUS
  <2>2. f[j] \in Nat /\ f[k] \in Nat
    BY <2>a
  <2>3. j < k \/ k < j
    BY <1>1, <2>1
  <2>4. QED
    BY <2>2, <2>3 DEF Upward
<1>3. f \in Injection(1 .. c, S)
  BY <1>2 DEF Injection, IsInjective
<1>4. IsFiniteSet(1 .. c) /\ Cardinality(1 .. c) = c
  BY <1>1, FS_Interval
<1>5. f \in Surjection(1 .. c, S)
  BY <1>1, <1>3, <1>4, FS_Injection
<1>6. QED
  BY <1>1, <1>2, <1>5 DEF Surjection

AsrSeqs == {pending[i].seq : i \in {j \in 1 .. Len(pending) : pending[j].asr}}

\* Dropping the ASR questions keeps the others, each once.
LEMMA FilterQueue ==
    ASSUME pending \in Seq(Items), Distinct(pending)
    PROVE  /\ TypedOnly \in Seq(Items)
           /\ Distinct(TypedOnly)
           /\ SeqsOf(TypedOnly) = SeqsOf(pending) \ AsrSeqs
<1> DEFINE kept == {i \in 1 .. Len(pending) : ~pending[i].asr}
           c == Cardinality(kept)
           at == CHOOSE f \in [1 .. c -> kept] :
                    \A j, k \in 1 .. c : j < k => f[j] < f[k]
           r == [j \in 1 .. c |-> pending[at[j]]]
<1>0. Len(pending) \in Nat /\ \A i \in 1 .. Len(pending) : pending[i] \in Items
  BY LenProperties, ElementOfSeq
<1>1. kept \in SUBSET (1 .. Len(pending))
  OBVIOUS
<1> HIDE DEF kept
<1>2. \E f \in [1 .. c -> kept] : \A j, k \in 1 .. c : j < k => f[j] < f[k]
  <2>1. Listed(kept)
    BY <1>0, <1>1, EverySetListed
  <2>2. QED
    BY <2>1 DEF Listed, Upward
<1>3. at \in [1 .. c -> kept] /\ Upward(at, c)
  BY <1>2 DEF Upward
<1> HIDE DEF at
<1>4. /\ c \in Nat
      /\ \A j, k \in 1 .. c : j # k => at[j] # at[k]
      /\ \A s \in kept : \E j \in 1 .. c : at[j] = s
  BY <1>0, <1>1, <1>3, UpwardReachesAll
<1> HIDE DEF c
<1>5. \A j \in 1 .. c : at[j] \in 1 .. Len(pending) /\ ~pending[at[j]].asr
  BY <1>3 DEF kept
<1>6. r \in Seq(Items) /\ Len(r) = c /\ \A j \in 1 .. c : r[j] = pending[at[j]]
  <2>1. \A j \in 1 .. c : pending[at[j]] \in Items
    BY <1>0, <1>5
  <2>2. QED
    BY <1>4, <2>1, IsASeq
<1>7. TypedOnly = r
  BY DEF TypedOnly, r, at, c, kept
<1> HIDE DEF r
<1>8. Distinct(r)
  <2>1. SUFFICES ASSUME NEW j \in 1 .. c, NEW k \in 1 .. c, j # k
                 PROVE  r[j].seq # r[k].seq
    BY <1>6 DEF Distinct
  <2>2. at[j] # at[k] /\ at[j] \in 1 .. Len(pending) /\ at[k] \in 1 .. Len(pending)
    BY <1>4, <1>5, <2>1
  <2>3. QED
    BY <1>6, <2>2 DEF Distinct
<1>9. ASSUME NEW j \in 1 .. c
      PROVE  r[j].seq \in SeqsOf(pending) \ AsrSeqs
  <2>1. \A i \in 1 .. Len(pending) : pending[i].asr => pending[i].seq # r[j].seq
    BY <1>5, <1>6 DEF Distinct
  <2>2. QED
    BY <1>5, <1>6, <2>1 DEF SeqsOf, AsrSeqs
<1>10. ASSUME NEW i \in 1 .. Len(pending), pending[i].seq \notin AsrSeqs
       PROVE  pending[i].seq \in SeqsOf(r)
  <2>1. i \in kept
    BY <1>10 DEF AsrSeqs, kept
  <2>2. PICK j \in 1 .. c : at[j] = i
    BY <1>4, <2>1
  <2>3. QED
    BY <1>6, <2>2 DEF SeqsOf
<1>11. SeqsOf(r) = SeqsOf(pending) \ AsrSeqs
  <2>1. SeqsOf(r) \subseteq SeqsOf(pending) \ AsrSeqs
    BY <1>6, <1>9 DEF SeqsOf
  <2>2. SeqsOf(pending) \ AsrSeqs \subseteq SeqsOf(r)
    BY <1>10 DEF SeqsOf
  <2>3. QED
    BY <2>1, <2>2
<1>12. QED
  BY <1>6, <1>7, <1>8, <1>11

-----------------------------------------------------------------------------
(* Numbers change hands.                                                   *)

LEMMA NumberQueued ==
    ASSUME NEW Q, NEW W, NEW D, NEW O, NEW n, OwnersOf(Q, W, D, O), n \notin O
    PROVE  OwnersOf(Q \union {n}, W, D, O \union {n})
  BY DEF OwnersOf

LEMMA QueueToWorker ==
    ASSUME NEW Q, NEW W, NEW D, NEW O, NEW s \in Q, OwnersOf(Q, W, D, O)
    PROVE  OwnersOf(Q \ {s}, W \union {s}, D, O)
  BY DEF OwnersOf

LEMMA QueueToLoop ==
    ASSUME NEW Q, NEW W, NEW D, NEW E, NEW O, NEW d \in Dispatchers, NEW X \in SUBSET Q,
           OwnersOf(Q, W, D, O), D[d] = {}, E[d] = X,
           \A e \in Dispatchers \ {d} : E[e] = D[e]
    PROVE  OwnersOf(Q \ X, W, E, O)
<1>1. UNION {E[e] : e \in Dispatchers} = X \union UNION {D[e] : e \in Dispatchers}
  <2>1. ASSUME NEW e \in Dispatchers
        PROVE  D[e] \subseteq E[e] /\ E[e] \subseteq X \union D[e]
    BY <2>1
  <2>2. QED
    BY <2>1
<1>2. \A e \in Dispatchers : E[e] \intersect ((Q \ X) \union W) = {}
  BY DEF OwnersOf
<1>3. \A e \in Dispatchers : \A f \in Dispatchers \ {e} : E[e] \intersect E[f] = {}
  BY DEF OwnersOf
<1>4. QED
  BY <1>1, <1>2, <1>3 DEF OwnersOf

LEMMA LoopReports ==
    ASSUME NEW Q, NEW W, NEW D, NEW E, NEW O, NEW d \in Dispatchers, NEW s \in D[d],
           OwnersOf(Q, W, D, O), E[d] = D[d] \ {s},
           \A e \in Dispatchers \ {d} : E[e] = D[e]
    PROVE  OwnersOf(Q, W, E, O \ {s})
<1>1. UNION {E[e] : e \in Dispatchers} = (UNION {D[e] : e \in Dispatchers}) \ {s}
  <2>1. ASSUME NEW e \in Dispatchers
        PROVE  E[e] = D[e] \ {s}
    BY DEF OwnersOf
  <2>2. QED
    BY <2>1
<1>2. s \notin Q \union W
  BY DEF OwnersOf
<1>3. \A e \in Dispatchers : E[e] \subseteq D[e]
  OBVIOUS
<1>4. QED
  BY <1>1, <1>2, <1>3 DEF OwnersOf

LEMMA WorkerReports ==
    ASSUME NEW Q, NEW W, NEW D, NEW O, NEW s \in W, OwnersOf(Q, W, D, O)
    PROVE  OwnersOf(Q, W \ {s}, D, O \ {s})
  BY DEF OwnersOf

LEMMA QueueWiped ==
    ASSUME NEW Q, NEW W, NEW D, NEW O, OwnersOf(Q, W, D, O)
    PROVE  OwnersOf({}, W, D, O \ Q)
  BY DEF OwnersOf

\* A thread of number s moves to a point of its run.
LEMMA WorkerMoves ==
    ASSUME Shapes, NEW s \in Seqs, NEW r, worker' = [worker EXCEPT ![s] = r]
    PROVE  InWorker' = IF r.pc \in Working THEN InWorker \union {s} ELSE InWorker \ {s}
  BY DEF Shapes, WorkerStates, InWorker, Working

-----------------------------------------------------------------------------
(* The commit queue under the pipeline: every step of the pipeline is one  *)
(* step of the queue or leaves it alone.                                   *)

LEMMA QueueStep ==
    ASSUME TypeOK, [PipelineNext]_pvars
    PROVE  [Next]_vars
<1>s. \A s \in owed : s \in Seqs
  BY DEF TypeOK
<1>1. ASSUME NEW image \in BOOLEAN, ManualSubmit(image)
      PROVE  [Next]_vars
  BY <1>1 DEF ManualSubmit, Enqueue, Next
<1>2. CASE BeginAsrTurn
  BY <1>2 DEF BeginAsrTurn
<1>3. ASSUME NEW s \in Seqs, SkipSuperseded(s)
      PROVE  [Next]_vars
  BY <1>3 DEF SkipSuperseded, Next, Report
<1>4. ASSUME NEW sure \in BOOLEAN, NEW wait \in BOOLEAN, AsrSubmit(sure, wait)
      PROVE  [Next]_vars
  BY <1>4 DEF AsrSubmit, Enqueue, Next
<1>5. CASE AppendLateTail \/ GraceEnds
  BY <1>5 DEF AppendLateTail, GraceEnds
<1>6. ASSUME NEW d \in Dispatchers,
             \/ StartLoop(d) \/ JudgeRead(d) \/ JudgeMoved(d) \/ JudgePromote(d)
             \/ JudgeReject(d) \/ ClaimStale(d) \/ ClaimTask(d) \/ ClaimNothing(d)
             \/ AfterDropped(d)
      PROVE  [Next]_vars
  BY <1>6 DEF StartLoop, JudgeRead, JudgeMoved, JudgePromote, JudgeReject, ClaimStale,
              ClaimTask, ClaimNothing, AfterDropped
<1>7. ASSUME NEW d \in Dispatchers, MarkDropped(d)
      PROVE  [Next]_vars
  <2>1. PICK s \in disp[d].skips : MarkSeqSkipped(s)
    BY <1>7 DEF MarkDropped
  <2>2. s \in Seqs
    BY <1>s, <2>1 DEF MarkSeqSkipped
  <2>3. QED
    BY <2>1, <2>2 DEF Next, Report
<1>8. ASSUME NEW s \in Seqs,
             \/ WorkerStart(s) \/ WorkerFails(s) \/ WorkerAnswers(s) \/ WorkerEnds(s)
      PROVE  [Next]_vars
  BY <1>8 DEF WorkerStart, WorkerFails, WorkerAnswers, WorkerEnds, WorkerOnly
<1>9. ASSUME NEW s \in Seqs, WorkerFlush(s) \/ WorkerMark(s) \/ WorkerRaises(s)
      PROVE  [Next]_vars
  BY <1>9 DEF WorkerFlush, WorkerMark, WorkerRaises, Next, Report
<1>10. CASE DrainStep
  BY <1>10 DEF DrainStep, Next
<1>11. ASSUME NEW r \in Resetters, CancelBump(r) \/ CancelBegin(r) \/ CancelEnd(r)
       PROVE  [Next]_vars
  BY <1>11 DEF CancelBump, CancelBegin, CancelEnd, Next
<1>12. CASE HealthChange \/ UNCHANGED pvars
  BY <1>12 DEF HealthChange, pvars
<1>13. QED
  BY <1>1, <1>2, <1>3, <1>4, <1>5, <1>6, <1>7, <1>8, <1>9, <1>10, <1>11, <1>12
  DEF PipelineNext, AsrStep, LoopStep, WorkerStep

\* The pipeline changes the commit queue by its actions only, so that what is shown of
\* the queue by itself holds in it.
LEMMA QueueRefined == PipelineSpec => Spec
<1>1. PipelineInit => Init
  BY DEF PipelineInit
<1>2. Init => TypeOK
  BY TypeInit
<1>3. TypeOK /\ [PipelineNext]_pvars => [Next]_vars
  BY QueueStep
<1>4. TypeOK /\ [Next]_vars => TypeOK'
  BY TypeStep
<1>5. QED
  BY <1>1, <1>2, <1>3, <1>4, PTL DEF PipelineSpec, Spec

\* So it inherits what the queue promises: answers stand in order, none from
\* before a clear comes back, and the queue waits for nobody in vain.
THEOREM QueueKeeps == PipelineSpec => [](LogOrdered /\ ClearedStaysClear /\ NothingStranded)
<1>1. IInv => LogOrdered /\ ClearedStaysClear /\ NothingStranded
  BY DEF IInv
<1>2. QED
  BY <1>1, QueueRefined, Invariance, PTL

-----------------------------------------------------------------------------
(* Types.                                                                  *)

LEMMA ItemFacts ==
    /\ NoItem \in Items
    /\ \A item \in Items :
          /\ [item EXCEPT !.tail = @ + 1] \in Items
          /\ [item EXCEPT !.wait = FALSE] \in Items
          /\ [item EXCEPT !.sure = TRUE] \in Items
<1>1. NoItem \in Items
  BY DEF Items, NoItem, Item
<1>2. ASSUME NEW item \in Items
      PROVE  /\ [item EXCEPT !.tail = @ + 1] \in Items
             /\ [item EXCEPT !.wait = FALSE] \in Items
             /\ [item EXCEPT !.sure = TRUE] \in Items
  <2>1. item.tail + 1 \in Nat
    BY DEF Items
  <2>2. QED
    BY <2>1 DEF Items
<1>3. QED
  BY <1>1, <1>2

\* A submission puts the next number at the end of the queue.
LEMMA Queued ==
    ASSUME TypeOK, Known, Shapes, Owners,
           NEW asr \in BOOLEAN, NEW image \in BOOLEAN, NEW turn \in Nat,
           NEW sure \in BOOLEAN, NEW wait \in BOOLEAN,
           Enqueue(Item(nextSubmitSeq, asr, image, turn, sure, wait))
    PROVE  /\ pending' \in Seq(Items)
           /\ Distinct(pending')
           /\ SeqsOf(pending') = SeqsOf(pending) \union {nextSubmitSeq}
           /\ nextSubmitSeq \notin owed
           /\ owed' = owed \union {nextSubmitSeq}
<1> DEFINE item == Item(nextSubmitSeq, asr, image, turn, sure, wait)
<1>1. /\ pending' = Append(pending, item) /\ SubmitAnswerTask
      /\ item.image => VisionModels # {}
  BY DEF Enqueue
<1>2. item \in Items /\ item.seq = nextSubmitSeq
  BY <1>1, BoundsAssumption DEF Item, Items, TypeOK
<1> HIDE DEF item
<1>3. nextSubmitSeq \notin owed /\ owed' = owed \union {nextSubmitSeq}
  <2>1. nextSubmitSeq \in Nat
    BY BoundsAssumption DEF TypeOK
  <2>2. QED
    BY <1>1, <2>1 DEF Known, SubmitAnswerTask
<1>4. item.seq \notin SeqsOf(pending)
  BY <1>2, <1>3 DEF Owners, OwnersOf
<1>5. QED
  BY <1>1, <1>2, <1>3, <1>4, AppendQueue DEF Shapes, Owners

\* What the LLM read is still at its index.
LEMMA Judged ==
    ASSUME Shapes, Loops, NEW d \in Dispatchers, disp[d].pc = "judge", StillThere(d)
    PROVE  disp[d].at \in 1 .. Len(pending) /\ pending[disp[d].at].seq = disp[d].item.seq
<1>1. disp[d].at \in Nat /\ disp[d].at # 0 /\ Len(pending) \in Nat
  BY LenProperties DEF Shapes, LoopStates, Loops, LoopGood
<1>2. disp[d].at \in 1 .. Len(pending)
  BY <1>1 DEF StillThere
<1>3. pending[disp[d].at] \in Items /\ disp[d].item \in Items
  BY <1>2, ElementOfSeq DEF Shapes, LoopStates
<1>4. QED
  BY <1>2, <1>3 DEF StillThere, SameTask, Items

\* What a change of one worker or one loop leaves typed.
LEMMA WorkerTyped ==
    ASSUME Shapes, NEW s \in Seqs, NEW r \in WorkerStates,
           worker' = [worker EXCEPT ![s] = r]
    PROVE  worker' \in [Seqs -> WorkerStates]
  BY DEF Shapes, WorkerStates

LEMMA MoveTyped ==
    ASSUME Shapes, NEW s \in Seqs, NEW from, NEW to \in WorkerPoints, Moves(s, from, to)
    PROVE  worker' \in [Seqs -> WorkerStates]
  BY DEF Shapes, WorkerStates, Moves

LEMMA LoopTyped ==
    ASSUME Shapes, NEW d \in Dispatchers,
           NEW l \in LoopStates,
           disp' = [disp EXCEPT ![d] = l]
    PROVE  disp' \in [Dispatchers -> LoopStates]
  BY DEF Shapes

LEMMA HolderTyped ==
    ASSUME Shapes, NEW t \in Seqs \union Dispatchers, ReportBy(t)
    PROVE  holder' \in Seqs \union Dispatchers \union {Nobody}
  BY DEF Shapes, ReportBy

LEMMA ShapesStep ==
    ASSUME TypeOK, Known, PipelineIInv, [PipelineNext]_pvars
    PROVE  Shapes'
<1> USE PipelineAssumption
<1>i. Shapes /\ Loops /\ Owners
  BY DEF PipelineIInv
<1>g. generation \in Nat
  <2>1. sessionVersion \in Nat /\ Cardinality(bumped) \in Nat
    BY FS_CardinalityType, BoundsAssumption DEF PipelineIInv, Generations, TypeOK
  <2>2. QED
    BY <2>1 DEF PipelineIInv, Generations
<1>q. \A i \in 1 .. Len(pending) : pending[i] \in Items
  BY <1>i, ElementOfSeq DEF Shapes
<1>r. \A i \in 1 .. Len(pending) :
         /\ Remove(pending, i) \in Seq(Items)
         /\ pending[i].seq \in SeqsOf(pending) /\ pending[i].seq \in Seqs
  <2>1. SUFFICES ASSUME NEW i \in 1 .. Len(pending)
                 PROVE  /\ Remove(pending, i) \in Seq(Items)
                        /\ pending[i].seq \in SeqsOf(pending) /\ pending[i].seq \in Seqs
    OBVIOUS
  <2>2. pending[i].seq \in SeqsOf(pending)
    BY DEF SeqsOf
  <2>3. pending[i].seq \in owed
    BY <1>i, <2>2 DEF Owners, OwnersOf
  <2>4. QED
    BY <1>i, <2>2, <2>3, RemoveQueue DEF Shapes, Owners, TypeOK
<1>n. NoItem \in Items
  BY ItemFacts
<1>p. /\ "turn" \in LoopPoints /\ "top" \in LoopPoints /\ "judge" \in LoopPoints
      /\ "claim" \in LoopPoints /\ "reject" \in LoopPoints /\ "skip" \in LoopPoints
      /\ "rejecting" \in LoopPoints /\ "skipping" \in LoopPoints /\ "idle" \in LoopPoints
  BY DEF LoopPoints, Empty, Dropping
<1>w. /\ "start" \in WorkerPoints /\ "run" \in WorkerPoints /\ "commit" \in WorkerPoints
      /\ "skip" \in WorkerPoints /\ "reported" \in WorkerPoints /\ "over" \in WorkerPoints
  BY DEF WorkerPoints, Working
<1>1. ASSUME NEW image \in BOOLEAN, ManualSubmit(image)
      PROVE  Shapes'
  <2>1. pending' \in Seq(Items)
    BY <1>1, <1>i, Queued DEF ManualSubmit
  <2>2. QED
    BY <1>1, <1>i, <2>1 DEF ManualSubmit, Shapes
<1>2. CASE BeginAsrTurn
  <2>1. pending' \in Seq(Items)
    BY <1>2, <1>i, FilterQueue DEF BeginAsrTurn, Shapes, Owners
  <2>2. PICK n \in 1 .. MaxClusters :
           disp' = [disp EXCEPT ![AsrThread] = [NoLoop EXCEPT
             !.pc = "turn", !.left = n,
             !.skips = IF InterruptStaleAsr
                       THEN {pending[i].seq : i \in {j \in 1 .. Len(pending) :
                                                       pending[j].asr}}
                       ELSE {}]]
    BY <1>2 DEF BeginAsrTurn
  <2>3. AsrSeqs \subseteq Seqs
    BY <1>r DEF AsrSeqs
  <2>4. disp' \in [Dispatchers -> LoopStates]
    <3>1. \A S \in SUBSET Seqs :
             [NoLoop EXCEPT !.pc = "turn", !.left = n, !.skips = S] \in LoopStates
      <4>1. n \in Int
        OBVIOUS
      <4>2. NoLoop \in LoopStates
        BY <1>n, <1>p DEF LoopStates, NoLoop
      <4>3. QED
        BY <1>p, <4>1, <4>2 DEF LoopStates
    <3>2. (IF InterruptStaleAsr
           THEN {pending[i].seq : i \in {j \in 1 .. Len(pending) : pending[j].asr}}
           ELSE {}) \in SUBSET Seqs
      BY <2>3 DEF AsrSeqs
    <3>3. QED
      BY <1>i, <2>2, <3>1, <3>2 DEF Shapes
  <2>5. turns' \in 0 .. MaxTurns /\ latestTurn' \in 0 .. turns'
    BY <1>2, <1>i DEF BeginAsrTurn, Shapes
  <2>6. QED
    BY <1>2, <1>i, <2>1, <2>4, <2>5 DEF BeginAsrTurn, Shapes
<1>3. ASSUME NEW s \in Seqs, SkipSuperseded(s)
      PROVE  Shapes'
  <2>1. holder' \in Seqs \union Dispatchers \union {Nobody}
    BY <1>3, <1>i, HolderTyped DEF SkipSuperseded
  <2>2. disp' \in [Dispatchers -> LoopStates]
    BY <1>3, <1>i DEF SkipSuperseded, Shapes, LoopStates
  <2>3. QED
    BY <1>3, <1>i, <2>1, <2>2 DEF SkipSuperseded, Shapes
<1>4. ASSUME NEW sure \in BOOLEAN, NEW wait \in BOOLEAN, AsrSubmit(sure, wait)
      PROVE  Shapes'
  <2>1. latestTurn \in Nat
    BY <1>i DEF Shapes
  <2>2. pending' \in Seq(Items)
    BY <1>4, <1>i, <2>1, Queued DEF AsrSubmit
  <2>3. disp' \in [Dispatchers -> LoopStates]
    <3>1. disp[AsrThread] \in LoopStates
      BY <1>i DEF Shapes
    <3>2. disp[AsrThread].left - 1 \in Int
      BY <3>1 DEF LoopStates
    <3>3. \A n \in Int : [disp[AsrThread] EXCEPT !.pc = "top", !.left = n] \in LoopStates
      BY <1>p, <3>1 DEF LoopStates
    <3>4. QED
      BY <1>4, <1>i, <3>2, <3>3 DEF AsrSubmit, Shapes
  <2>4. QED
    BY <1>4, <1>i, <2>2, <2>3 DEF AsrSubmit, Shapes
<1>5. CASE AppendLateTail
  <2>1. PICK i \in 1 .. Len(pending) :
           pending' = [pending EXCEPT ![i] = [pending[i] EXCEPT !.tail = @ + 1]]
    BY <1>5 DEF AppendLateTail
  <2>2. pending' \in Seq(Items)
    BY <1>i, <1>q, <2>1, ItemFacts, ExceptSeq DEF Shapes
  <2>3. QED
    BY <1>5, <1>i, <2>2 DEF AppendLateTail, Shapes
<1>6. CASE GraceEnds
  <2>1. PICK i \in 1 .. Len(pending) :
           pending' = [pending EXCEPT ![i] = [pending[i] EXCEPT !.wait = FALSE]]
    BY <1>6 DEF GraceEnds
  <2>2. pending' \in Seq(Items)
    BY <1>i, <1>q, <2>1, ItemFacts, ExceptSeq DEF Shapes
  <2>3. QED
    BY <1>6, <1>i, <2>2 DEF GraceEnds, Shapes
<1>7. ASSUME NEW d \in Dispatchers, StartLoop(d)
      PROVE  Shapes'
  <2>1. disp' \in [Dispatchers -> LoopStates]
    BY <1>7, <1>i, <1>p DEF StartLoop, Shapes, LoopStates
  <2>2. calls' \in Nat
    BY <1>7, <1>i DEF StartLoop, Shapes
  <2>3. QED
    BY <1>7, <1>i, <2>1, <2>2 DEF StartLoop, Shapes
<1>8. ASSUME NEW d \in Dispatchers, JudgeRead(d)
      PROVE  Shapes'
  <2>1. CASE disp' = [disp EXCEPT ![d].pc = "claim"]
    <3>1. disp' \in [Dispatchers -> LoopStates]
      BY <1>i, <1>p, <2>1 DEF Shapes, LoopStates
    <3>2. QED
      BY <1>8, <1>i, <3>1 DEF JudgeRead, Shapes
  <2>2. CASE \E i \in FirstWhere(LAMBDA item : ~item.sure) :
                disp' = [disp EXCEPT ![d].pc = "judge", ![d].at = i, ![d].item = pending[i]]
    <3>1. PICK i \in 1 .. Len(pending) :
             disp' = [disp EXCEPT ![d].pc = "judge", ![d].at = i, ![d].item = pending[i]]
      BY <2>2 DEF FirstWhere
    <3>2. i \in Nat /\ pending[i] \in Items
      BY <1>q
    <3>3. disp[d] \in LoopStates
      BY <1>i DEF Shapes
    <3>4. [disp[d] EXCEPT !.pc = "judge", !.at = i, !.item = pending[i]] \in LoopStates
      BY <1>p, <3>2, <3>3 DEF LoopStates
    <3>5. disp' \in [Dispatchers -> LoopStates]
      BY <1>i, <3>1, <3>4 DEF Shapes
    <3>6. QED
      BY <1>8, <1>i, <3>5 DEF JudgeRead, Shapes
  <2>3. QED
    BY <1>8, <2>1, <2>2 DEF JudgeRead
<1>9. ASSUME NEW d \in Dispatchers, JudgeMoved(d)
      PROVE  Shapes'
  <2>1. disp' \in [Dispatchers -> LoopStates]
    BY <1>9, <1>i, <1>n, <1>p DEF JudgeMoved, Shapes, LoopStates
  <2>2. QED
    BY <1>9, <1>i, <2>1 DEF JudgeMoved, Shapes
<1>10. ASSUME NEW d \in Dispatchers, JudgePromote(d)
       PROVE  Shapes'
  <2>1. disp[d].at \in 1 .. Len(pending)
    BY <1>10, <1>i, Judged DEF JudgePromote
  <2>2. pending' \in Seq(Items)
    BY <1>10, <1>i, <1>q, <2>1, ItemFacts, ExceptSeq DEF JudgePromote, Shapes
  <2>3. disp' \in [Dispatchers -> LoopStates]
    BY <1>10, <1>i, <1>n, <1>p DEF JudgePromote, Shapes, LoopStates
  <2>4. QED
    BY <1>10, <1>i, <2>2, <2>3 DEF JudgePromote, Shapes
<1>11. ASSUME NEW d \in Dispatchers, JudgeReject(d)
       PROVE  Shapes'
  <2>1. disp[d].at \in 1 .. Len(pending) /\ pending[disp[d].at].seq = disp[d].item.seq
    BY <1>11, <1>i, Judged DEF JudgeReject
  <2>2. pending' \in Seq(Items) /\ {disp[d].item.seq} \in SUBSET Seqs
    BY <1>11, <1>r, <2>1 DEF JudgeReject
  <2>3. disp[d] \in LoopStates
    BY <1>i DEF Shapes
  <2>4. [disp[d] EXCEPT !.pc = "reject", !.at = 0, !.item = NoItem,
                        !.skips = {disp[d].item.seq}] \in LoopStates
    BY <1>n, <1>p, <2>2, <2>3 DEF LoopStates
  <2>5. disp' \in [Dispatchers -> LoopStates]
    BY <1>11, <1>i, <2>4 DEF JudgeReject, Shapes
  <2>6. QED
    BY <1>11, <1>i, <2>2, <2>5 DEF JudgeReject, Shapes
<1>12. ASSUME NEW d \in Dispatchers, ClaimStale(d)
       PROVE  Shapes'
  <2>1. PICK i \in 1 .. Len(pending) :
           /\ pending' = Remove(pending, i)
           /\ disp' = [disp EXCEPT ![d].pc = "skip", ![d].skips = {pending[i].seq}]
    BY <1>12 DEF ClaimStale, FirstWhere
  <2>2. pending' \in Seq(Items) /\ {pending[i].seq} \in SUBSET Seqs
    BY <1>r, <2>1
  <2>3. disp[d] \in LoopStates
    BY <1>i DEF Shapes
  <2>4. [disp[d] EXCEPT !.pc = "skip", !.skips = {pending[i].seq}] \in LoopStates
    BY <1>p, <2>2, <2>3 DEF LoopStates
  <2>5. disp' \in [Dispatchers -> LoopStates]
    BY <1>i, <2>1, <2>4 DEF Shapes
  <2>6. QED
    BY <1>12, <1>i, <2>2, <2>5 DEF ClaimStale, Shapes
<1>13. ASSUME NEW d \in Dispatchers, ClaimTask(d)
       PROVE  Shapes'
  <2>1. PICK i \in 1 .. Len(pending) :
           /\ \E m \in PickModelIndex(pending[i]) :
                 inFlight' = [s \in DOMAIN inFlight \union {pending[i].seq} |->
                                 IF s = pending[i].seq THEN m ELSE inFlight[s]]
           /\ worker' = [worker EXCEPT ![pending[i].seq] =
                            [pc |-> "start", task |-> pending[i], gen |-> 0]]
           /\ pending' = Remove(pending, i)
    BY <1>13 DEF ClaimTask, FirstWhere
  <2>2. PICK m \in PickModelIndex(pending[i]) :
           inFlight' = [s \in DOMAIN inFlight \union {pending[i].seq} |->
                           IF s = pending[i].seq THEN m ELSE inFlight[s]]
    BY <2>1
  <2>3. m \in Models
    BY DEF PickModelIndex
  <2>4. DOMAIN inFlight' \subseteq Seqs /\ inFlight' \in [DOMAIN inFlight' -> Models]
    BY <1>i, <1>r, <2>2, <2>3 DEF Shapes
  <2>5. worker' \in [Seqs -> WorkerStates]
    BY <1>i, <1>q, <1>r, <1>w, <2>1 DEF Shapes, WorkerStates
  <2>6. pending' \in Seq(Items)
    BY <1>r, <2>1
  <2>7. disp' \in [Dispatchers -> LoopStates]
    <3>1. disp' = [disp EXCEPT ![d].pc = "top"]
      BY <1>13 DEF ClaimTask
    <3>2. QED
      BY <1>i, <1>p, <3>1 DEF Shapes, LoopStates
  <2>8. QED
    BY <1>13, <1>i, <2>4, <2>5, <2>6, <2>7 DEF ClaimTask, Shapes
<1>14. ASSUME NEW d \in Dispatchers, ClaimNothing(d)
       PROVE  Shapes'
  <2>1. disp' \in [Dispatchers -> LoopStates]
    BY <1>14, <1>i, <1>n, <1>p DEF ClaimNothing, Shapes, LoopStates, NoLoop
  <2>2. QED
    BY <1>14, <1>i, <2>1 DEF ClaimNothing, Shapes
<1>15. ASSUME NEW d \in Dispatchers, MarkDropped(d)
       PROVE  Shapes'
  <2>1. holder' \in Seqs \union Dispatchers \union {Nobody}
    BY <1>15, <1>i, HolderTyped DEF MarkDropped
  <2>2. disp' \in [Dispatchers -> LoopStates]
    BY <1>15, <1>i, <1>p DEF MarkDropped, Shapes, LoopStates
  <2>3. QED
    BY <1>15, <1>i, <2>1, <2>2 DEF MarkDropped, Shapes
<1>16. ASSUME NEW d \in Dispatchers, AfterDropped(d)
       PROVE  Shapes'
  <2>1. disp' \in [Dispatchers -> LoopStates]
    BY <1>16, <1>i, <1>p DEF AfterDropped, Shapes, LoopStates
  <2>2. QED
    BY <1>16, <1>i, <2>1 DEF AfterDropped, Shapes
<1>17. ASSUME NEW s \in Seqs, WorkerStart(s)
       PROVE  Shapes'
  <2>1. worker' \in [Seqs -> WorkerStates]
    BY <1>17, <1>i, <1>g, <1>w DEF WorkerStart, Shapes, WorkerStates
  <2>2. QED
    BY <1>17, <1>i, <2>1 DEF WorkerStart, WorkerOnly, Shapes
<1>18. ASSUME NEW s \in Seqs, WorkerFails(s) \/ WorkerAnswers(s)
       PROVE  Shapes'
  <2>1. worker' \in [Seqs -> WorkerStates]
    BY <1>18, <1>i, <1>w, MoveTyped DEF WorkerFails, WorkerAnswers
  <2>2. QED
    BY <1>18, <1>i, <2>1 DEF WorkerFails, WorkerAnswers, WorkerOnly, Shapes
<1>19. ASSUME NEW s \in Seqs, WorkerFlush(s) \/ WorkerMark(s)
       PROVE  Shapes'
  <2>1. worker' \in [Seqs -> WorkerStates]
    BY <1>19, <1>i, <1>w, MoveTyped DEF WorkerFlush, WorkerMark
  <2>2. holder' \in Seqs \union Dispatchers \union {Nobody}
    BY <1>19, <1>i, HolderTyped DEF WorkerFlush, WorkerMark
  <2>3. QED
    BY <1>19, <1>i, <2>1, <2>2 DEF WorkerFlush, WorkerMark, Shapes
<1>20. ASSUME NEW s \in Seqs, WorkerRaises(s)
       PROVE  Shapes'
  <2>1. worker' \in [Seqs -> WorkerStates]
    BY <1>20, <1>i, <1>w, MoveTyped DEF WorkerRaises
  <2>2. QED
    BY <1>20, <1>i, <2>1 DEF WorkerRaises, Shapes
<1>21. ASSUME NEW s \in Seqs, WorkerEnds(s)
       PROVE  Shapes'
  <2>1. worker' \in [Seqs -> WorkerStates]
    BY <1>21, <1>i, <1>w, MoveTyped DEF WorkerEnds
  <2>2. QED
    BY <1>21, <1>i, <2>1 DEF WorkerEnds, Shapes
<1>22. CASE DrainStep
  BY <1>22, <1>i DEF DrainStep, Shapes
<1>23. ASSUME NEW r \in Resetters, CancelBump(r) \/ CancelEnd(r)
       PROVE  Shapes'
  BY <1>23, <1>i DEF CancelBump, CancelEnd, pipeVars, Shapes
<1>24. ASSUME NEW r \in Resetters, CancelBegin(r)
       PROVE  Shapes'
  BY <1>24, <1>i DEF CancelBegin, Shapes
<1>25. CASE HealthChange
  BY <1>25, <1>i DEF HealthChange, Shapes
<1>26. CASE UNCHANGED pvars
  BY <1>26, <1>i DEF pvars, pipeVars, Shapes
<1>27. QED
  BY <1>1, <1>2, <1>3, <1>4, <1>5, <1>6, <1>7, <1>8, <1>9, <1>10, <1>11, <1>12, <1>13,
     <1>14, <1>15, <1>16, <1>17, <1>18, <1>19, <1>20, <1>21, <1>22, <1>23, <1>24, <1>25,
     <1>26
  DEF PipelineNext, AsrStep, LoopStep, WorkerStep

-----------------------------------------------------------------------------
(* Cancellations and dispatch loops.                                       *)

LEMMA GenerationsStep ==
    ASSUME TypeOK, PipelineIInv, [PipelineNext]_pvars
    PROVE  Generations'
<1>i. Generations /\ sessionVersion \in Nat /\ Cardinality(bumped) \in Nat
  BY FS_CardinalityType, BoundsAssumption DEF PipelineIInv, Generations, TypeOK
<1>k. ASSUME UNCHANGED <<bumped, generation, sessionVersion>>
      PROVE  Generations'
  BY <1>i, <1>k DEF Generations
<1>1. ASSUME NEW image \in BOOLEAN, ManualSubmit(image)
      PROVE  Generations'
  BY <1>1, <1>k DEF ManualSubmit, Enqueue, SubmitAnswerTask
<1>2. CASE BeginAsrTurn \/ AppendLateTail \/ GraceEnds \/ HealthChange
  BY <1>2, <1>k DEF BeginAsrTurn, AppendLateTail, GraceEnds, HealthChange, vars
<1>3. ASSUME NEW s \in Seqs, SkipSuperseded(s)
      PROVE  Generations'
  BY <1>3, <1>k DEF SkipSuperseded, MarkSeqSkipped
<1>4. ASSUME NEW sure \in BOOLEAN, NEW wait \in BOOLEAN, AsrSubmit(sure, wait)
      PROVE  Generations'
  BY <1>4, <1>k DEF AsrSubmit, Enqueue, SubmitAnswerTask
<1>5. ASSUME NEW d \in Dispatchers,
             \/ StartLoop(d) \/ JudgeRead(d) \/ JudgeMoved(d) \/ JudgePromote(d)
             \/ JudgeReject(d) \/ ClaimStale(d) \/ ClaimTask(d) \/ ClaimNothing(d)
             \/ AfterDropped(d)
      PROVE  Generations'
  BY <1>5, <1>k DEF StartLoop, JudgeRead, JudgeMoved, JudgePromote, JudgeReject,
     ClaimStale, ClaimTask, ClaimNothing, AfterDropped, vars
<1>6. ASSUME NEW d \in Dispatchers, MarkDropped(d)
      PROVE  Generations'
  BY <1>6, <1>k DEF MarkDropped, MarkSeqSkipped
<1>7. ASSUME NEW s \in Seqs,
             \/ WorkerStart(s) \/ WorkerFails(s) \/ WorkerAnswers(s) \/ WorkerEnds(s)
      PROVE  Generations'
  BY <1>7, <1>k DEF WorkerStart, WorkerFails, WorkerAnswers, WorkerEnds, WorkerOnly, vars
<1>8. ASSUME NEW s \in Seqs, WorkerFlush(s) \/ WorkerMark(s) \/ WorkerRaises(s)
      PROVE  Generations'
  BY <1>8, <1>k DEF WorkerFlush, WorkerMark, WorkerRaises, FlushCommit, MarkSeqSkipped,
     WorkerDies
<1>9. CASE DrainStep
  BY <1>9, <1>k DEF DrainStep, Drain, DrainSkip, DrainApply, DrainWrite, DrainNoWrite,
     DrainDone, DrainRollback, DrainExit
<1>10. ASSUME NEW r \in Resetters, CancelBump(r)
       PROVE  Generations'
  <2>1. r \notin bumped /\ bumped' = bumped \union {r} /\ generation' = generation + 1
        /\ sessionVersion' = sessionVersion
        /\ sessionVersion + Cardinality(bumped) < MaxResets
    BY <1>10 DEF CancelBump, vars
  <2>2. IsFiniteSet(bumped') /\ Cardinality(bumped') = Cardinality(bumped) + 1
    BY <1>i, <2>1, FS_AddElement DEF Generations
  <2>3. QED
    BY <1>i, <2>1, <2>2, BoundsAssumption DEF Generations
<1>11. ASSUME NEW r \in Resetters, CancelBegin(r)
       PROVE  Generations'
  <2>1. r \in bumped /\ bumped' = bumped \ {r} /\ generation' = generation
        /\ sessionVersion' = sessionVersion + 1
    BY <1>11 DEF CancelBegin, ResetBegin
  <2>2. IsFiniteSet(bumped') /\ Cardinality(bumped') = Cardinality(bumped) - 1
    BY <1>i, <2>1, FS_RemoveElement DEF Generations
  <2>3. QED
    BY <1>i, <2>1, <2>2, BoundsAssumption DEF Generations
<1>12. ASSUME NEW r \in Resetters, CancelEnd(r)
       PROVE  Generations'
  BY <1>12, <1>k DEF CancelEnd, ResetCommit, ResetEnd, ResetData, ResetKeep, pipeVars
<1>13. CASE UNCHANGED pvars
  BY <1>13, <1>k DEF pvars, vars, pipeVars
<1>14. QED
  BY <1>1, <1>2, <1>3, <1>4, <1>5, <1>6, <1>7, <1>8, <1>9, <1>10, <1>11, <1>12, <1>13
  DEF PipelineNext, AsrStep, LoopStep, WorkerStep

\* One loop at a time changes what it holds.
LEMMA LoopMoves ==
    ASSUME Shapes, Loops, NEW d \in Dispatchers, NEW l \in LoopStates, LoopGood(l),
           disp' = [disp EXCEPT ![d] = l]
    PROVE  /\ Loops'
           /\ Skips'[d] = l.skips
           /\ \A e \in Dispatchers \ {d} : Skips'[e] = Skips[e]
           /\ Skips'[d] = Skips[d] => Skips' = Skips
  BY DEF Shapes, Loops, Skips

\* Its place in the code is all that changes.
LEMMA LoopWalks ==
    ASSUME Shapes, Loops, NEW d \in Dispatchers, NEW to \in LoopPoints,
           to \in Empty => disp[d].skips = {},
           to = "judge" => FALSE,
           to \in Dropping => \E s \in Seqs : disp[d].skips = {s},
           disp' = [disp EXCEPT ![d].pc = to]
    PROVE  Loops' /\ Skips' = Skips
<1> DEFINE l == [disp[d] EXCEPT !.pc = to]
<1>1. disp[d] \in LoopStates
  BY DEF Shapes
<1>2. l \in LoopStates /\ l.pc = to /\ l.skips = disp[d].skips
  BY <1>1 DEF LoopStates
<1>3. LoopGood(l)
  BY <1>2 DEF LoopGood
<1>4. disp' = [disp EXCEPT ![d] = l]
  OBVIOUS
<1> HIDE DEF l
<1>5. Skips'[d] = Skips[d]
  BY <1>2, <1>3, <1>4, LoopMoves DEF Skips
<1>6. QED
  BY <1>2, <1>3, <1>4, <1>5, LoopMoves

-----------------------------------------------------------------------------
(* Every number that owes its outcome keeps exactly one owner.             *)

LEMMA OwnersStep ==
    ASSUME TypeOK, Known, PipelineIInv, [PipelineNext]_pvars
    PROVE  Loops' /\ Owners'
<1>i. Shapes /\ Loops /\ Owners
  BY DEF PipelineIInv
<1>a. OwnersOf(SeqsOf(pending), InWorker, Skips, owed) /\ Distinct(pending)
      /\ pending \in Seq(Items)
  BY <1>i DEF Owners, Shapes
<1>d. \A d \in Dispatchers : disp[d] \in LoopStates /\ LoopGood(disp[d]) /\ Skips[d] = disp[d].skips
  BY <1>i DEF Shapes, Loops, Skips
<1>p. /\ "turn" \in LoopPoints /\ "top" \in LoopPoints /\ "judge" \in LoopPoints
      /\ "claim" \in LoopPoints /\ "reject" \in LoopPoints /\ "skip" \in LoopPoints
      /\ "rejecting" \in LoopPoints /\ "skipping" \in LoopPoints /\ "idle" \in LoopPoints
  BY DEF LoopPoints, Empty, Dropping
<1>n. NoItem \in Items
  BY ItemFacts
<1>o. ASSUME Distinct(pending'), OwnersOf(SeqsOf(pending'), InWorker', Skips', owed')
      PROVE  Owners'
  BY <1>o DEF Owners
<1>w. ASSUME worker' = worker
      PROVE  InWorker' = InWorker
  BY <1>w DEF InWorker
<1>l. ASSUME disp' = disp
      PROVE  Loops' /\ Skips' = Skips
  BY <1>i, <1>l DEF Loops, Skips
\* A step that moves a loop at most and leaves the numbers where they are.
<1>k. ASSUME UNCHANGED <<pending, worker, owed>>, Skips' = Skips
      PROVE  Owners'
  <2>1. InWorker' = InWorker
    BY <1>k, <1>w
  <2>2. QED
    BY <1>a, <1>k, <1>o, <2>1
\* A step that changes a question and not its number.
<1>c. ASSUME NEW i \in 1 .. Len(pending), NEW item \in Items, item.seq = pending[i].seq,
             pending' = [pending EXCEPT ![i] = item],
             UNCHANGED <<worker, owed>>, Skips' = Skips
      PROVE  Owners'
  <2>1. InWorker' = InWorker
    BY <1>c, <1>w
  <2>2. Distinct(pending') /\ SeqsOf(pending') = SeqsOf(pending)
    BY <1>a, <1>c, RelabelQueue
  <2>3. QED
    BY <1>a, <1>c, <1>o, <2>1, <2>2
\* A loop takes question i out of the queue and remembers to mark it.
<1>x. ASSUME NEW d \in Dispatchers, NEW i \in 1 .. Len(pending), disp[d].skips = {},
             pending' = Remove(pending, i), UNCHANGED <<worker, owed>>,
             NEW l \in LoopStates, l.pc \in Dropping, l.skips = {pending[i].seq},
             disp' = [disp EXCEPT ![d] = l]
      PROVE  Loops' /\ Owners'
  <2>1. /\ Distinct(pending') /\ pending[i].seq \in SeqsOf(pending)
        /\ SeqsOf(pending') = SeqsOf(pending) \ {pending[i].seq}
    BY <1>a, <1>x, RemoveQueue
  <2>2. pending[i].seq \in Seqs
    BY <1>a, <2>1 DEF OwnersOf, TypeOK
  <2>3. LoopGood(l)
    BY <1>x, <2>2 DEF LoopGood, Dropping, Empty
  <2>4. /\ Loops' /\ Skips'[d] = {pending[i].seq}
        /\ \A e \in Dispatchers \ {d} : Skips'[e] = Skips[e]
    BY <1>i, <1>x, <2>3, LoopMoves
  <2>5. Skips[d] = {} /\ {pending[i].seq} \in SUBSET SeqsOf(pending)
    BY <1>d, <1>x, <2>1
  <2>6. OwnersOf(SeqsOf(pending) \ {pending[i].seq}, InWorker, Skips', owed)
    BY <1>a, <2>4, <2>5, QueueToLoop
  <2>7. QED
    BY <1>o, <1>w, <1>x, <2>1, <2>4, <2>6
\* A loop reports a number it has dropped.
<1>y. ASSUME NEW d \in Dispatchers, NEW s \in disp[d].skips, owed' = owed \ {s},
             UNCHANGED <<pending, worker>>,
             NEW l \in LoopStates, LoopGood(l), l.skips = disp[d].skips \ {s},
             disp' = [disp EXCEPT ![d] = l]
      PROVE  Loops' /\ Owners'
  <2>1. /\ Loops' /\ Skips'[d] = Skips[d] \ {s} /\ s \in Skips[d]
        /\ \A e \in Dispatchers \ {d} : Skips'[e] = Skips[e]
    BY <1>d, <1>i, <1>y, LoopMoves
  <2>2. OwnersOf(SeqsOf(pending), InWorker, Skips', owed \ {s})
    BY <1>a, <2>1, LoopReports
  <2>3. QED
    BY <1>a, <1>o, <1>w, <1>y, <2>1, <2>2
\* A worker reports its number, or dies with it.
<1>z. ASSUME NEW s \in Seqs, worker[s].pc \in Working, NEW r, r.pc \notin Working,
             worker' = [worker EXCEPT ![s] = r], owed' = owed \ {s},
             UNCHANGED <<pending, disp>>
      PROVE  Loops' /\ Owners'
  <2>1. InWorker' = InWorker \ {s} /\ s \in InWorker
    BY <1>i, <1>z, WorkerMoves DEF InWorker, Working
  <2>2. OwnersOf(SeqsOf(pending), InWorker \ {s}, Skips, owed \ {s})
    BY <1>a, <2>1, WorkerReports
  <2>3. QED
    BY <1>a, <1>l, <1>o, <1>z, <2>1, <2>2
<1>1. ASSUME NEW image \in BOOLEAN, ManualSubmit(image)
      PROVE  Loops' /\ Owners'
  <2>1. /\ Distinct(pending') /\ nextSubmitSeq \notin owed
        /\ SeqsOf(pending') = SeqsOf(pending) \union {nextSubmitSeq}
        /\ owed' = owed \union {nextSubmitSeq}
    BY <1>1, <1>i, Queued DEF ManualSubmit
  <2>2. Loops' /\ Skips' = Skips /\ InWorker' = InWorker
    BY <1>1, <1>l, <1>w DEF ManualSubmit
  <2>3. QED
    BY <1>a, <1>o, <2>1, <2>2, NumberQueued
<1>2. CASE BeginAsrTurn
  <2> DEFINE S == IF InterruptStaleAsr THEN AsrSeqs ELSE {}
  <2>1. PICK n \in 1 .. MaxClusters :
           disp' = [disp EXCEPT ![AsrThread] = [NoLoop EXCEPT
                       !.pc = "turn", !.left = n, !.skips = S]]
    BY <1>2 DEF BeginAsrTurn, AsrSeqs
  <2>2. disp[AsrThread].skips = {} /\ AsrThread \in Dispatchers
    BY <1>2, <1>d, PipelineAssumption DEF BeginAsrTurn, LoopGood, Empty
  <2>3. S \subseteq SeqsOf(pending) /\ Distinct(pending')
        /\ SeqsOf(pending') = SeqsOf(pending) \ S
    <3>1. CASE InterruptStaleAsr
      <4>1. AsrSeqs \subseteq SeqsOf(pending)
        BY DEF AsrSeqs, SeqsOf
      <4>2. QED
        BY <1>2, <1>a, <3>1, <4>1, FilterQueue DEF BeginAsrTurn
    <3>2. CASE ~InterruptStaleAsr
      BY <1>2, <1>a, <3>2 DEF BeginAsrTurn
    <3>3. QED
      BY <3>1, <3>2
  <2>4. S \subseteq Seqs
    BY <1>a, <2>3 DEF OwnersOf, TypeOK
  <2> DEFINE l == [NoLoop EXCEPT !.pc = "turn", !.left = n, !.skips = S]
  <2>5. l \in LoopStates /\ l.skips = S /\ LoopGood(l)
    <3> HIDE DEF S
    <3>1. n \in Int
      BY PipelineAssumption
    <3>2. NoLoop \in LoopStates
      BY <1>n, <1>p DEF LoopStates, NoLoop
    <3>3. l \in LoopStates /\ l.skips = S /\ l.pc = "turn"
      BY <1>p, <2>4, <3>1, <3>2 DEF LoopStates
    <3>4. QED
      BY <3>3 DEF LoopGood, Empty, Dropping
  <2> HIDE DEF l, S
  <2>6. disp' = [disp EXCEPT ![AsrThread] = l]
    BY <2>1 DEF l
  <2>7. /\ Loops' /\ Skips'[AsrThread] = S /\ Skips[AsrThread] = {}
        /\ \A e \in Dispatchers \ {AsrThread} : Skips'[e] = Skips[e]
    BY <1>d, <1>i, <2>2, <2>5, <2>6, LoopMoves
  <2>8. OwnersOf(SeqsOf(pending) \ S, InWorker, Skips', owed)
    BY <1>a, <2>2, <2>3, <2>7, QueueToLoop
  <2>9. worker' = worker /\ owed' = owed
    BY <1>2 DEF BeginAsrTurn, vars
  <2>10. QED
    BY <1>o, <1>w, <2>3, <2>7, <2>8, <2>9
<1>3. ASSUME NEW s \in Seqs, SkipSuperseded(s)
      PROVE  Loops' /\ Owners'
  <2> DEFINE l == [disp[AsrThread] EXCEPT !.skips = disp[AsrThread].skips \ {s}]
  <2>1. /\ AsrThread \in Dispatchers /\ s \in disp[AsrThread].skips
        /\ owed' = owed \ {s} /\ UNCHANGED <<pending, worker>>
        /\ disp' = [disp EXCEPT ![AsrThread] = l] /\ disp[AsrThread].pc = "turn"
    BY <1>3, PipelineAssumption DEF SkipSuperseded, MarkSeqSkipped
  <2>2. l \in LoopStates /\ l.skips = disp[AsrThread].skips \ {s} /\ l.pc = "turn"
    BY <1>d, <2>1 DEF LoopStates
  <2>3. LoopGood(l)
    BY <2>2 DEF LoopGood, Empty, Dropping
  <2> HIDE DEF l
  <2>4. QED
    BY <1>y, <2>1, <2>2, <2>3
<1>4. ASSUME NEW sure \in BOOLEAN, NEW wait \in BOOLEAN, AsrSubmit(sure, wait)
      PROVE  Loops' /\ Owners'
  <2> DEFINE l == [disp[AsrThread] EXCEPT !.pc = "top", !.left = disp[AsrThread].left - 1]
  <2>0. AsrThread \in Dispatchers /\ latestTurn \in Nat
    BY <1>i, PipelineAssumption DEF Shapes
  <2>1. /\ Distinct(pending') /\ nextSubmitSeq \notin owed
        /\ SeqsOf(pending') = SeqsOf(pending) \union {nextSubmitSeq}
        /\ owed' = owed \union {nextSubmitSeq}
    BY <1>4, <1>i, <2>0, Queued DEF AsrSubmit
  <2>2. /\ disp' = [disp EXCEPT ![AsrThread] = l] /\ disp[AsrThread].skips = {}
        /\ worker' = worker
    BY <1>4 DEF AsrSubmit
  <2>3. l \in LoopStates /\ l.skips = {} /\ l.pc = "top"
    <3>1. disp[AsrThread] \in LoopStates /\ disp[AsrThread].left - 1 \in Int
      BY <1>d, <2>0 DEF LoopStates
    <3>2. \A n \in Int :
             LET m == [disp[AsrThread] EXCEPT !.pc = "top", !.left = n]
             IN  m \in LoopStates /\ m.skips = disp[AsrThread].skips /\ m.pc = "top"
      BY <1>p, <3>1 DEF LoopStates
    <3>3. QED
      BY <2>2, <3>1, <3>2
  <2>4. LoopGood(l)
    BY <2>3 DEF LoopGood, Dropping
  <2> HIDE DEF l
  <2>5. Loops' /\ Skips' = Skips /\ InWorker' = InWorker
    BY <1>d, <1>i, <1>w, <2>0, <2>2, <2>3, <2>4, LoopMoves
  <2>6. QED
    BY <1>a, <1>o, <2>1, <2>5, NumberQueued
<1>5. CASE AppendLateTail \/ GraceEnds
  <2>1. UNCHANGED <<worker, owed, disp>>
    BY <1>5 DEF AppendLateTail, GraceEnds, vars
  <2>2. PICK i \in 1 .. Len(pending) :
           \/ pending' = [pending EXCEPT ![i] = [pending[i] EXCEPT !.tail = @ + 1]]
           \/ pending' = [pending EXCEPT ![i] = [pending[i] EXCEPT !.wait = FALSE]]
    BY <1>5 DEF AppendLateTail, GraceEnds
  <2>3. pending[i] \in Items
    BY <1>a, ElementOfSeq
  <2>4. \E item \in Items : item.seq = pending[i].seq /\ pending' = [pending EXCEPT ![i] = item]
    <3> DEFINE tailed == [pending[i] EXCEPT !.tail = @ + 1]
               graced == [pending[i] EXCEPT !.wait = FALSE]
    <3>1. tailed \in Items /\ graced \in Items
      BY <2>3, ItemFacts
    <3>2. tailed.seq = pending[i].seq /\ graced.seq = pending[i].seq
      BY <2>3 DEF Items
    <3>3. pending' = [pending EXCEPT ![i] = tailed] \/ pending' = [pending EXCEPT ![i] = graced]
      BY <2>2
    <3> HIDE DEF tailed, graced
    <3>4. QED
      BY <3>1, <3>2, <3>3
  <2>5. Skips' = Skips /\ Loops'
    BY <1>l, <2>1
  <2>6. QED
    BY <1>c, <2>1, <2>4, <2>5
<1>6. ASSUME NEW d \in Dispatchers, StartLoop(d)
      PROVE  Loops' /\ Owners'
  <2>1. disp[d].skips = {} /\ disp' = [disp EXCEPT ![d].pc = "top"]
        /\ UNCHANGED <<pending, worker, owed>>
    BY <1>6, <1>d DEF StartLoop, LoopGood, Empty, vars
  <2>2. Loops' /\ Skips' = Skips
    BY <1>i, <1>p, <2>1, LoopWalks DEF Dropping
  <2>3. QED
    BY <1>k, <2>1, <2>2
<1>7. ASSUME NEW d \in Dispatchers, JudgeRead(d)
      PROVE  Loops' /\ Owners'
  <2>1. disp[d].skips = {} /\ UNCHANGED <<pending, worker, owed>>
    BY <1>7, <1>d DEF JudgeRead, LoopGood, Empty, vars
  <2>2. CASE disp' = [disp EXCEPT ![d].pc = "claim"]
    <3>1. Loops' /\ Skips' = Skips
      BY <1>i, <1>p, <2>1, <2>2, LoopWalks DEF Dropping
    <3>2. QED
      BY <1>k, <2>1, <3>1
  <2>3. CASE \E i \in FirstWhere(LAMBDA item : ~item.sure) :
                disp' = [disp EXCEPT ![d].pc = "judge", ![d].at = i, ![d].item = pending[i]]
    <3>1. PICK i \in 1 .. Len(pending) :
             disp' = [disp EXCEPT ![d].pc = "judge", ![d].at = i, ![d].item = pending[i]]
      BY <2>3 DEF FirstWhere
    <3> DEFINE l == [disp[d] EXCEPT !.pc = "judge", !.at = i, !.item = pending[i]]
    <3>2. i \in Nat /\ i # 0 /\ pending[i] \in Items
      BY <1>a, ElementOfSeq
    <3>3. l \in LoopStates /\ l.pc = "judge" /\ l.at = i /\ l.skips = disp[d].skips
      BY <1>d, <1>p, <3>2 DEF LoopStates
    <3>4. LoopGood(l)
      BY <2>1, <3>2, <3>3 DEF LoopGood, Dropping
    <3>5. disp' = [disp EXCEPT ![d] = l]
      BY <3>1
    <3> HIDE DEF l
    <3>6. Loops' /\ Skips' = Skips
      BY <1>d, <1>i, <3>3, <3>4, <3>5, LoopMoves
    <3>7. QED
      BY <1>k, <2>1, <3>6
  <2>4. QED
    BY <1>7, <2>2, <2>3 DEF JudgeRead
<1>8. ASSUME NEW d \in Dispatchers, JudgeMoved(d) \/ JudgePromote(d)
      PROVE  Loops' /\ Owners'
  <2> DEFINE l == [disp[d] EXCEPT !.pc = "claim", !.at = 0, !.item = NoItem]
  <2>1. /\ disp[d].skips = {} /\ UNCHANGED <<worker, owed>>
        /\ disp' = [disp EXCEPT ![d] = l] /\ disp[d].pc = "judge"
    BY <1>8, <1>d DEF JudgeMoved, JudgePromote, LoopGood, Empty, vars
  <2>2. l \in LoopStates /\ l.pc = "claim" /\ l.skips = disp[d].skips
    BY <1>d, <1>n, <1>p DEF LoopStates
  <2>3. LoopGood(l)
    BY <2>1, <2>2 DEF LoopGood, Dropping
  <2> HIDE DEF l
  <2>4. Loops' /\ Skips' = Skips
    BY <1>d, <1>i, <2>1, <2>2, <2>3, LoopMoves
  <2>5. CASE JudgeMoved(d)
    BY <1>k, <2>1, <2>4, <2>5 DEF JudgeMoved
  <2>6. CASE JudgePromote(d)
    <3>1. disp[d].at \in 1 .. Len(pending)
      BY <1>i, <2>6, Judged DEF JudgePromote
    <3>2. pending[disp[d].at] \in Items
      BY <1>a, <3>1, ElementOfSeq
    <3>3. /\ [pending[disp[d].at] EXCEPT !.sure = TRUE] \in Items
          /\ [pending[disp[d].at] EXCEPT !.sure = TRUE].seq = pending[disp[d].at].seq
      BY <3>2, ItemFacts DEF Items
    <3>4. pending' = [pending EXCEPT ![disp[d].at] =
                         [pending[disp[d].at] EXCEPT !.sure = TRUE]]
      BY <2>6 DEF JudgePromote
    <3>5. QED
      BY <1>c, <2>1, <2>4, <3>1, <3>3, <3>4
  <2>7. QED
    BY <1>8, <2>5, <2>6
<1>9. ASSUME NEW d \in Dispatchers, JudgeReject(d)
      PROVE  Loops' /\ Owners'
  <2> DEFINE l == [disp[d] EXCEPT !.pc = "reject", !.at = 0, !.item = NoItem,
                                  !.skips = {disp[d].item.seq}]
  <2>1. /\ disp[d].skips = {} /\ UNCHANGED <<worker, owed>>
        /\ pending' = Remove(pending, disp[d].at)
        /\ disp' = [disp EXCEPT ![d] = l]
    BY <1>9, <1>d DEF JudgeReject, LoopGood, Empty, vars
  <2>2. disp[d].at \in 1 .. Len(pending) /\ pending[disp[d].at].seq = disp[d].item.seq
    BY <1>9, <1>i, Judged DEF JudgeReject
  <2>3. pending[disp[d].at].seq \in Seqs
    BY <1>a, <2>2 DEF OwnersOf, SeqsOf, TypeOK
  <2>4. l \in LoopStates /\ l.pc = "reject" /\ l.skips = {pending[disp[d].at].seq}
    BY <1>d, <1>n, <1>p, <2>2, <2>3 DEF LoopStates
  <2> HIDE DEF l
  <2>5. QED
    BY <1>x, <2>1, <2>2, <2>4 DEF Dropping
<1>10. ASSUME NEW d \in Dispatchers, ClaimStale(d)
       PROVE  Loops' /\ Owners'
  <2>1. PICK i \in 1 .. Len(pending) :
           /\ pending' = Remove(pending, i)
           /\ disp' = [disp EXCEPT ![d].pc = "skip", ![d].skips = {pending[i].seq}]
    BY <1>10 DEF ClaimStale, FirstWhere
  <2> DEFINE l == [disp[d] EXCEPT !.pc = "skip", !.skips = {pending[i].seq}]
  <2>2. /\ disp[d].skips = {} /\ UNCHANGED <<worker, owed>>
        /\ disp' = [disp EXCEPT ![d] = l]
    BY <1>10, <1>d, <2>1 DEF ClaimStale, LoopGood, Empty, vars
  <2>3. pending[i].seq \in Seqs
    BY <1>a DEF OwnersOf, SeqsOf, TypeOK
  <2>4. l \in LoopStates /\ l.pc = "skip" /\ l.skips = {pending[i].seq}
    BY <1>d, <1>p, <2>3 DEF LoopStates
  <2> HIDE DEF l
  <2>5. QED
    BY <1>x, <2>1, <2>2, <2>4 DEF Dropping
<1>11. ASSUME NEW d \in Dispatchers, ClaimTask(d)
       PROVE  Loops' /\ Owners'
  <2>1. PICK i \in 1 .. Len(pending) :
           /\ worker' = [worker EXCEPT ![pending[i].seq] =
                            [pc |-> "start", task |-> pending[i], gen |-> 0]]
           /\ pending' = Remove(pending, i)
    BY <1>11 DEF ClaimTask, FirstWhere
  <2>2. /\ disp[d].skips = {} /\ owed' = owed
        /\ disp' = [disp EXCEPT ![d].pc = "top"]
    BY <1>11, <1>d DEF ClaimTask, LoopGood, Empty, vars
  <2>3. /\ Distinct(pending') /\ pending[i].seq \in SeqsOf(pending)
        /\ SeqsOf(pending') = SeqsOf(pending) \ {pending[i].seq}
    BY <1>a, <2>1, RemoveQueue
  <2>4. pending[i].seq \in Seqs
    BY <1>a, <2>3 DEF OwnersOf, TypeOK
  <2>5. InWorker' = InWorker \union {pending[i].seq}
    <3> DEFINE r == [pc |-> "start", task |-> pending[i], gen |-> 0]
               s == pending[i].seq
    <3>1. r.pc \in Working
      BY DEF Working
    <3>2. s \in Seqs /\ worker' = [worker EXCEPT ![s] = r]
      BY <2>1, <2>4
    <3> HIDE DEF r, s
    <3>3. InWorker' = InWorker \union {s}
      BY <1>i, <3>1, <3>2, WorkerMoves
    <3>4. QED
      BY <3>3 DEF s
  <2>6. Loops' /\ Skips' = Skips
    BY <1>i, <1>p, <2>2, LoopWalks DEF Dropping
  <2>7. OwnersOf(SeqsOf(pending) \ {pending[i].seq}, InWorker \union {pending[i].seq},
                 Skips, owed)
    BY <1>a, <2>3, QueueToWorker
  <2>8. QED
    BY <1>o, <2>2, <2>3, <2>5, <2>6, <2>7
<1>12. ASSUME NEW d \in Dispatchers, ClaimNothing(d)
       PROVE  Loops' /\ Owners'
  <2> DEFINE l == [NoLoop EXCEPT !.pc = IF disp[d].left > 0 THEN "turn" ELSE "idle",
                                 !.left = disp[d].left]
  <2>1. /\ disp[d].skips = {} /\ UNCHANGED <<pending, worker, owed>>
        /\ disp' = [disp EXCEPT ![d] = l]
    BY <1>12, <1>d DEF ClaimNothing, LoopGood, Empty, vars
  <2>2. l \in LoopStates /\ l.skips = {} /\ l.pc \in {"turn", "idle"}
    BY <1>d, <1>n, <1>p DEF LoopStates, NoLoop
  <2>3. LoopGood(l)
    BY <2>2 DEF LoopGood, Dropping
  <2> HIDE DEF l
  <2>4. Loops' /\ Skips' = Skips
    BY <1>d, <1>i, <2>1, <2>2, <2>3, LoopMoves
  <2>5. QED
    BY <1>k, <2>1, <2>4
<1>13. ASSUME NEW d \in Dispatchers, MarkDropped(d)
       PROVE  Loops' /\ Owners'
  <2> DEFINE l == [disp[d] EXCEPT !.skips = {}, !.pc = IF disp[d].pc = "reject"
                                                       THEN "rejecting" ELSE "skipping"]
  <2>1. PICK s \in disp[d].skips : MarkSeqSkipped(s)
    BY <1>13 DEF MarkDropped
  <2>2. /\ owed' = owed \ {s} /\ UNCHANGED <<pending, worker>>
        /\ disp' = [disp EXCEPT ![d] = l] /\ disp[d].pc \in Dropping
    BY <1>13, <2>1 DEF MarkDropped, MarkSeqSkipped, Dropping
  <2>3. l \in LoopStates /\ l.skips = {} /\ l.pc \in {"rejecting", "skipping"}
    BY <1>d, <1>p DEF LoopStates
  <2>4. LoopGood(l) /\ disp[d].skips \ {s} = {}
    BY <1>d, <2>2, <2>3 DEF LoopGood, Dropping
  <2> HIDE DEF l
  <2>5. QED
    BY <1>y, <2>1, <2>2, <2>3, <2>4
<1>14. ASSUME NEW d \in Dispatchers, AfterDropped(d)
       PROVE  Loops' /\ Owners'
  <2>1. /\ disp[d].skips = {} /\ UNCHANGED <<pending, worker, owed>>
        /\ \E to \in {"claim", "top"} : disp' = [disp EXCEPT ![d].pc = to]
    BY <1>14, <1>d DEF AfterDropped, LoopGood, Empty, vars
  <2>2. Loops' /\ Skips' = Skips
    BY <1>i, <1>p, <2>1, LoopWalks DEF Dropping
  <2>3. QED
    BY <1>k, <2>1, <2>2
<1>15. ASSUME NEW s \in Seqs, WorkerStart(s) \/ WorkerFails(s) \/ WorkerAnswers(s)
       PROVE  Loops' /\ Owners'
  <2>1. /\ UNCHANGED <<pending, owed, disp>> /\ worker[s].pc \in Working
        /\ \E r : r.pc \in Working /\ worker' = [worker EXCEPT ![s] = r]
    <3>1. worker[s] \in WorkerStates
      BY <1>i DEF Shapes
    <3>2. UNCHANGED <<pending, owed, disp>> /\ worker[s].pc \in Working
      BY <1>15 DEF WorkerStart, WorkerFails, WorkerAnswers, WorkerOnly, Moves, vars, Working
    <3>3. CASE WorkerStart(s)
      <4> DEFINE r == [worker[s] EXCEPT !.gen = generation,
                         !.pc = IF ver[s] # sessionVersion THEN "skip" ELSE "run"]
      <4>1. r.pc \in Working
        BY <3>1 DEF WorkerStates, Working
      <4>2. worker' = [worker EXCEPT ![s] = r]
        BY <3>3 DEF WorkerStart
      <4>3. QED
        BY <3>2, <4>1, <4>2
    <3>4. CASE WorkerFails(s) \/ WorkerAnswers(s)
      <4>1. PICK to \in Working : worker' = [worker EXCEPT ![s] = [worker[s] EXCEPT !.pc = to]]
        BY <3>4 DEF WorkerFails, WorkerAnswers, Moves, Working
      <4>2. [worker[s] EXCEPT !.pc = to].pc \in Working
        BY <3>1 DEF WorkerStates
      <4>3. QED
        BY <3>2, <4>1, <4>2
    <3>5. QED
      BY <1>15, <3>3, <3>4
  <2>2. InWorker' = InWorker
    BY <1>i, <2>1, WorkerMoves DEF InWorker, Working
  <2>3. QED
    BY <1>a, <1>l, <1>o, <2>1, <2>2
<1>16. ASSUME NEW s \in Seqs, WorkerFlush(s) \/ WorkerMark(s) \/ WorkerRaises(s)
       PROVE  Loops' /\ Owners'
  <2> DEFINE r == [worker[s] EXCEPT !.pc = "reported"]
  <2>1. /\ worker[s].pc \in Working /\ worker' = [worker EXCEPT ![s] = r]
        /\ owed' = owed \ {s} /\ UNCHANGED <<pending, disp>>
    BY <1>16 DEF WorkerFlush, WorkerMark, WorkerRaises, Moves, FlushCommit, MarkSeqSkipped,
       WorkerDies, Working
  <2>2. r.pc \notin Working
    BY <1>i DEF Shapes, WorkerStates, Working
  <2> HIDE DEF r
  <2>3. QED
    BY <1>z, <2>1, <2>2
<1>17. ASSUME NEW s \in Seqs, WorkerEnds(s)
       PROVE  Loops' /\ Owners'
  <2> DEFINE r == [worker[s] EXCEPT !.pc = "over"]
  <2>1. /\ worker[s].pc = "reported" /\ worker' = [worker EXCEPT ![s] = r]
        /\ UNCHANGED <<pending, disp, owed>>
    BY <1>17 DEF WorkerEnds, Moves, vars
  <2>2. r.pc = "over"
    BY <1>i DEF Shapes, WorkerStates
  <2> HIDE DEF r
  <2>3. InWorker' = InWorker
    BY <1>i, <2>1, <2>2, WorkerMoves DEF InWorker, Working
  <2>4. QED
    BY <1>a, <1>l, <1>o, <2>1, <2>3
<1>18. CASE DrainStep
  <2>1. UNCHANGED <<pending, worker, owed, disp>>
    BY <1>18 DEF DrainStep, Drain, DrainSkip, DrainApply, DrainWrite, DrainNoWrite,
       DrainDone, DrainRollback, DrainExit
  <2>2. QED
    BY <1>k, <1>l, <2>1
<1>19. ASSUME NEW r \in Resetters, CancelBump(r) \/ CancelEnd(r)
       PROVE  Loops' /\ Owners'
  <2>1. UNCHANGED <<pending, worker, owed, disp>>
    BY <1>19 DEF CancelBump, CancelEnd, ResetCommit, ResetEnd, ResetData, ResetKeep,
       pipeVars, vars
  <2>2. QED
    BY <1>k, <1>l, <2>1
<1>20. ASSUME NEW r \in Resetters, CancelBegin(r)
       PROVE  Loops' /\ Owners'
  <2>1. /\ pending' = <<>> /\ owed' = owed \ PendingSeqs /\ UNCHANGED <<worker, disp>>
    BY <1>20 DEF CancelBegin
  <2>2. Distinct(pending') /\ SeqsOf(pending') = {}
    BY <2>1 DEF Distinct, SeqsOf
  <2>3. OwnersOf({}, InWorker, Skips, owed \ PendingSeqs)
    BY <1>a, QueueWiped DEF PendingSeqs, SeqsOf
  <2>4. QED
    BY <1>l, <1>o, <1>w, <2>1, <2>2, <2>3
<1>21. CASE HealthChange \/ UNCHANGED pvars
  <2>1. UNCHANGED <<pending, worker, owed, disp>>
    BY <1>21 DEF HealthChange, pvars, pipeVars, vars
  <2>2. QED
    BY <1>k, <1>l, <2>1
<1>22. QED
  BY <1>1, <1>2, <1>3, <1>4, <1>5, <1>6, <1>7, <1>8, <1>9, <1>10, <1>11, <1>12, <1>13,
     <1>14, <1>15, <1>16, <1>17, <1>18, <1>19, <1>20, <1>21
  DEF PipelineNext, AsrStep, LoopStep, WorkerStep

-----------------------------------------------------------------------------
(* Models in flight, and who looks at the queue next.                      *)

LEMMA ModelsStep ==
    ASSUME TypeOK, Known, PipelineIInv, [PipelineNext]_pvars
    PROVE  ModelsExclusive'
<1>i. Shapes /\ ModelsExclusive /\ Owners
  BY DEF PipelineIInv
<1>k. ASSUME UNCHANGED <<inFlight, worker>>
      PROVE  ModelsExclusive'
  BY <1>i, <1>k DEF ModelsExclusive
\* A worker that is not over keeps what is said of its model.
<1>m. ASSUME NEW s \in Seqs, NEW to \in WorkerPoints \ {"none", "over"},
             inFlight' = inFlight, \E from : Moves(s, from, to)
      PROVE  ModelsExclusive'
  BY <1>i, <1>m DEF ModelsExclusive, Moves, Shapes, WorkerStates
<1>1. ASSUME NEW image \in BOOLEAN, ManualSubmit(image)
      PROVE  ModelsExclusive'
  BY <1>1, <1>k DEF ManualSubmit
<1>2. CASE BeginAsrTurn \/ AppendLateTail \/ GraceEnds \/ HealthChange \/ DrainStep
  BY <1>2, <1>k DEF BeginAsrTurn, AppendLateTail, GraceEnds, HealthChange, DrainStep
<1>3. CASE AsrStep
  BY <1>3, <1>k DEF AsrStep, SkipSuperseded, AsrSubmit
<1>4. ASSUME NEW d \in Dispatchers,
             \/ StartLoop(d) \/ JudgeRead(d) \/ JudgeMoved(d) \/ JudgePromote(d)
             \/ JudgeReject(d) \/ ClaimStale(d) \/ ClaimNothing(d) \/ MarkDropped(d)
             \/ AfterDropped(d)
      PROVE  ModelsExclusive'
  BY <1>4, <1>k DEF StartLoop, JudgeRead, JudgeMoved, JudgePromote, JudgeReject,
     ClaimStale, ClaimNothing, MarkDropped, AfterDropped
<1>5. ASSUME NEW d \in Dispatchers, ClaimTask(d)
      PROVE  ModelsExclusive'
  <2>1. PICK i \in 1 .. Len(pending) :
           /\ \E m \in PickModelIndex(pending[i]) :
                 inFlight' = [s \in DOMAIN inFlight \union {pending[i].seq} |->
                                 IF s = pending[i].seq THEN m ELSE inFlight[s]]
           /\ worker' = [worker EXCEPT ![pending[i].seq] =
                            [pc |-> "start", task |-> pending[i], gen |-> 0]]
    BY <1>5 DEF ClaimTask, FirstWhere
  <2> DEFINE n == pending[i].seq
             r == [pc |-> "start", task |-> pending[i], gen |-> 0]
  <2>2. PICK m \in PickModelIndex(pending[i]) :
           inFlight' = [s \in DOMAIN inFlight \union {n} |-> IF s = n THEN m ELSE inFlight[s]]
    BY <2>1
  <2>3. r.pc = "start" /\ worker' = [worker EXCEPT ![n] = r]
    BY <2>1
  <2>4. n \in Seqs
    BY <1>i DEF Owners, OwnersOf, SeqsOf, TypeOK
  <2> HIDE DEF n, r
  <2>5. m \notin BusyModels
    BY DEF PickModelIndex
  <2>6. \A s \in DOMAIN inFlight : inFlight[s] # m
    BY <2>5 DEF BusyModels
  <2>7. \A s, t \in DOMAIN inFlight' : s # t => inFlight'[s] # inFlight'[t]
    BY <1>i, <2>2, <2>6 DEF ModelsExclusive
  <2>8. \A s \in DOMAIN inFlight' : worker'[s].pc \notin {"none", "over"}
    BY <1>i, <2>2, <2>3, <2>4 DEF ModelsExclusive, Shapes
  <2>9. QED
    BY <2>7, <2>8 DEF ModelsExclusive
<1>6. ASSUME NEW s \in Seqs, WorkerStart(s)
      PROVE  ModelsExclusive'
  <2>1. inFlight' = inFlight /\ \A t \in Seqs \ {s} : worker'[t] = worker[t]
    BY <1>6, <1>i DEF WorkerStart, WorkerOnly, Shapes
  <2>2. worker'[s].pc \in {"skip", "run"}
    BY <1>6, <1>i DEF WorkerStart, Shapes, WorkerStates
  <2>3. QED
    BY <1>i, <2>1, <2>2 DEF ModelsExclusive, Shapes
<1>7. ASSUME NEW s \in Seqs, WorkerFails(s) \/ WorkerAnswers(s)
      PROVE  ModelsExclusive'
  BY <1>7, <1>m DEF WorkerFails, WorkerAnswers, WorkerOnly, WorkerPoints, Working
<1>8. ASSUME NEW s \in Seqs, WorkerFlush(s) \/ WorkerMark(s) \/ WorkerRaises(s)
      PROVE  ModelsExclusive'
  BY <1>8, <1>m DEF WorkerFlush, WorkerMark, WorkerRaises, WorkerPoints
<1>9. ASSUME NEW s \in Seqs, WorkerEnds(s)
      PROVE  ModelsExclusive'
  <2>1. /\ inFlight' = [t \in DOMAIN inFlight \ {s} |-> inFlight[t]]
        /\ worker' = [worker EXCEPT ![s].pc = "over"]
    BY <1>9 DEF WorkerEnds, Moves
  <2>2. \A t \in Seqs \ {s} : worker'[t] = worker[t]
    BY <1>i, <2>1 DEF Shapes
  <2>3. QED
    BY <1>i, <2>1, <2>2 DEF ModelsExclusive, Shapes
<1>10. ASSUME NEW r \in Resetters, CancelBegin(r)
       PROVE  ModelsExclusive'
  BY <1>10 DEF CancelBegin, ModelsExclusive
<1>11. ASSUME NEW r \in Resetters, CancelBump(r) \/ CancelEnd(r)
       PROVE  ModelsExclusive'
  BY <1>11, <1>k DEF CancelBump, CancelEnd, pipeVars
<1>12. CASE UNCHANGED pvars
  BY <1>12, <1>k DEF pvars, pipeVars
<1>13. QED
  BY <1>1, <1>2, <1>3, <1>4, <1>5, <1>6, <1>7, <1>8, <1>9, <1>10, <1>11, <1>12
  DEF PipelineNext, LoopStep, WorkerStep

\* A scan that stops nowhere has seen nothing to stop at.
LEMMA NothingStops ==
    ASSUME pending \in Seq(Items), FirstWhere(Stops) = {}
    PROVE  \A i \in 1 .. Len(pending) : ~Stops(pending[i])
<1> DEFINE T == {i \in 1 .. Len(pending) : Stops(pending[i])}
<1>1. SUFFICES ASSUME T # {}
               PROVE  FALSE
  OBVIOUS
<1>2. T \subseteq Nat /\ Len(pending) \in Nat
  BY LenProperties
<1>3. PICK i \in T : \A j \in T : i <= j
  BY <1>1, <1>2, Least
<1>4. \A j \in 1 .. i - 1 : ~Stops(pending[j])
  <2>1. SUFFICES ASSUME NEW j \in 1 .. i - 1
                 PROVE  j \notin T
    BY <1>2, <1>3
  <2>2. QED
    BY <1>2, <1>3
<1>5. i \in FirstWhere(Stops)
  BY <1>3, <1>4 DEF FirstWhere
<1>6. QED
  BY <1>5

\* With a slot free and no model busy a question past its grace can be given one.
LEMMA SomethingStops ==
    ASSUME NEW item \in Items, ~item.wait, BusyModels = {}
    PROVE  Stops(item)
<1>1. (IF item.image THEN VisionModels ELSE Models) # {}
  BY PipelineAssumption DEF Items
<1>2. PickModelIndex(item) # {}
  BY <1>1 DEF PickModelIndex
<1>3. QED
  BY <1>2 DEF Stops

LEMMA ForgottenStep ==
    ASSUME PipelineIInv, [PipelineNext]_pvars
    PROVE  NoForgottenQuestion'
<1>i. Shapes /\ Loops /\ NoForgottenQuestion
  BY DEF PipelineIInv
<1>a. pending \in Seq(Items) /\ calls \in Nat
  BY <1>i DEF Shapes
<1>d. \A d \in Dispatchers : disp[d] \in LoopStates
  BY <1>i DEF Shapes
\* Somebody is called for, or a loop runs: nothing more to show.
<1>c. ASSUME calls' > 0
      PROVE  NoForgottenQuestion'
  BY <1>c DEF NoForgottenQuestion
<1>l. ASSUME NEW d \in Dispatchers, disp'[d].pc # "idle"
      PROVE  NoForgottenQuestion'
  BY <1>l DEF NoForgottenQuestion
<1>k. ASSUME UNCHANGED <<pending, calls, disp, inFlight>>
      PROVE  NoForgottenQuestion'
  BY <1>i, <1>k DEF NoForgottenQuestion
<1>1. ASSUME NEW image \in BOOLEAN, ManualSubmit(image)
      PROVE  NoForgottenQuestion'
  BY <1>1, <1>a, <1>c DEF ManualSubmit
<1>2. CASE BeginAsrTurn
  <2>1. PICK n \in 1 .. MaxClusters, S \in {AsrSeqs, {}} :
           disp' = [disp EXCEPT ![AsrThread] = [NoLoop EXCEPT
                       !.pc = "turn", !.left = n, !.skips = S]]
    BY <1>2 DEF BeginAsrTurn, AsrSeqs
  <2>2. disp'[AsrThread].pc = "turn" /\ AsrThread \in Dispatchers
    BY <1>i, <2>1, PipelineAssumption DEF Shapes, NoLoop
  <2>3. QED
    BY <1>l, <2>2
<1>3. ASSUME NEW s \in Seqs, SkipSuperseded(s)
      PROVE  NoForgottenQuestion'
  <2>1. disp'[AsrThread].pc = "turn" /\ AsrThread \in Dispatchers
    BY <1>3, <1>i, PipelineAssumption DEF SkipSuperseded, Shapes, LoopStates
  <2>2. QED
    BY <1>l, <2>1
<1>4. ASSUME NEW sure \in BOOLEAN, NEW wait \in BOOLEAN, AsrSubmit(sure, wait)
      PROVE  NoForgottenQuestion'
  <2>1. disp' = [disp EXCEPT ![AsrThread] = [disp[AsrThread] EXCEPT
                                !.pc = "top", !.left = disp[AsrThread].left - 1]]
        /\ AsrThread \in Dispatchers
    BY <1>4, PipelineAssumption DEF AsrSubmit
  <2>2. [disp[AsrThread] EXCEPT !.pc = "top", !.left = disp[AsrThread].left - 1].pc = "top"
    BY <1>d, <2>1 DEF LoopStates
  <2>3. disp'[AsrThread].pc = "top"
    BY <1>i, <2>1, <2>2 DEF Shapes
  <2>4. QED
    BY <1>l, <2>1, <2>3
<1>5. CASE AppendLateTail
  <2>1. PICK i \in 1 .. Len(pending) :
           pending' = [pending EXCEPT ![i] = [pending[i] EXCEPT !.tail = @ + 1]]
    BY <1>5 DEF AppendLateTail
  <2>2. /\ \A j \in 1 .. Len(pending) : pending'[j].wait = pending[j].wait
        /\ Len(pending') = Len(pending)
    <3>1. \A j \in 1 .. Len(pending) : pending[j] \in Items
      BY <1>a, ElementOfSeq
    <3>2. [pending[i] EXCEPT !.tail = @ + 1].wait = pending[i].wait
      BY <3>1 DEF Items
    <3>3. QED
      BY <1>a, <2>1, <3>2
  <2>3. UNCHANGED <<calls, disp, inFlight>>
    BY <1>5 DEF AppendLateTail
  <2>4. QED
    BY <1>i, <2>2, <2>3 DEF NoForgottenQuestion
<1>6. CASE GraceEnds
  BY <1>6, <1>a, <1>c DEF GraceEnds
<1>7. ASSUME NEW d \in Dispatchers,
             StartLoop(d) \/ JudgeRead(d) \/ ClaimTask(d) \/ MarkDropped(d) \/ AfterDropped(d)
      PROVE  NoForgottenQuestion'
  <2>1. CASE StartLoop(d) \/ ClaimTask(d)
    <3>1. disp' = [disp EXCEPT ![d].pc = "top"]
      BY <2>1 DEF StartLoop, ClaimTask
    <3>2. disp'[d].pc = "top"
      BY <1>i, <3>1 DEF Shapes, LoopStates
    <3>3. QED
      BY <1>l, <3>2
  <2>2. CASE JudgeRead(d)
    <3>1. \/ disp' = [disp EXCEPT ![d].pc = "claim"]
          \/ \E i : disp' = [disp EXCEPT ![d] = [disp[d] EXCEPT
                                !.pc = "judge", !.at = i, !.item = pending[i]]]
      BY <2>2 DEF JudgeRead
    <3>2. disp'[d].pc \in {"claim", "judge"}
      BY <1>i, <3>1 DEF Shapes, LoopStates
    <3>3. QED
      BY <1>l, <3>2
  <2>3. CASE MarkDropped(d)
    <3>1. disp'[d].pc \in {"rejecting", "skipping"}
      BY <1>i, <2>3 DEF MarkDropped, Shapes, LoopStates
    <3>2. QED
      BY <1>l, <3>1
  <2>4. CASE AfterDropped(d)
    <3>1. disp'[d].pc \in {"claim", "top"}
      BY <1>i, <2>4 DEF AfterDropped, Shapes, LoopStates
    <3>2. QED
      BY <1>l, <3>1
  <2>5. QED
    BY <1>7, <2>1, <2>2, <2>3, <2>4
<1>8. ASSUME NEW d \in Dispatchers, JudgeMoved(d) \/ JudgePromote(d)
      PROVE  NoForgottenQuestion'
  <2>1. disp' = [disp EXCEPT ![d] = [disp[d] EXCEPT !.pc = "claim", !.at = 0, !.item = NoItem]]
    BY <1>8 DEF JudgeMoved, JudgePromote
  <2>2. [disp[d] EXCEPT !.pc = "claim", !.at = 0, !.item = NoItem].pc = "claim"
    BY <1>d DEF LoopStates
  <2>3. disp'[d].pc = "claim"
    BY <1>i, <2>1, <2>2 DEF Shapes
  <2>4. QED
    BY <1>l, <2>3
<1>9. ASSUME NEW d \in Dispatchers, JudgeReject(d)
      PROVE  NoForgottenQuestion'
  <2> DEFINE l == [disp[d] EXCEPT !.pc = "reject", !.at = 0, !.item = NoItem,
                                  !.skips = {disp[d].item.seq}]
  <2>1. disp' = [disp EXCEPT ![d] = l]
    BY <1>9 DEF JudgeReject
  <2>2. l.pc = "reject"
    BY <1>d DEF LoopStates
  <2> HIDE DEF l
  <2>3. disp'[d].pc = "reject"
    BY <1>i, <2>1, <2>2 DEF Shapes
  <2>4. QED
    BY <1>l, <2>3
<1>10. ASSUME NEW d \in Dispatchers, ClaimStale(d)
       PROVE  NoForgottenQuestion'
  <2>1. PICK n : disp' = [disp EXCEPT ![d] = [disp[d] EXCEPT !.pc = "skip", !.skips = {n}]]
    BY <1>10 DEF ClaimStale
  <2>2. [disp[d] EXCEPT !.pc = "skip", !.skips = {n}].pc = "skip"
    BY <1>d DEF LoopStates
  <2>3. disp'[d].pc = "skip"
    BY <1>i, <2>1, <2>2 DEF Shapes
  <2>4. QED
    BY <1>l, <2>3
<1>11. ASSUME NEW d \in Dispatchers, ClaimNothing(d)
       PROVE  NoForgottenQuestion'
  <2>1. pending' = pending /\ inFlight' = inFlight
    BY <1>11 DEF ClaimNothing
  <2>2. SUFFICES ASSUME \E i \in 1 .. Len(pending) : ~pending[i].wait
                 PROVE  DOMAIN inFlight # {}
    BY <2>1 DEF NoForgottenQuestion
  <2>3. CASE Cardinality(DOMAIN inFlight) >= MaxParallelSlots
    <3>1. Cardinality(healthy) \in Nat
      BY <1>i, FS_CardinalityType, FS_Subset, PipelineAssumption DEF Shapes
    <3>2. MaxParallelSlots \in Nat /\ MaxParallelSlots >= 1
      BY <3>1, PipelineAssumption DEF MaxParallelSlots, LargerOf, SmallerOf
    <3>3. DOMAIN inFlight = {} => Cardinality(DOMAIN inFlight) = 0
      BY FS_EmptySet
    <3>4. QED
      BY <2>3, <3>2, <3>3
  <2>4. CASE FirstWhere(Stops) = {}
    <3>1. PICK i \in 1 .. Len(pending) : ~pending[i].wait
      BY <2>2
    <3>2. pending[i] \in Items /\ ~Stops(pending[i])
      BY <1>a, <2>4, ElementOfSeq, NothingStops
    <3>3. BusyModels # {}
      BY <3>1, <3>2, SomethingStops
    <3>4. QED
      BY <3>3 DEF BusyModels
  <2>5. QED
    BY <1>11, <2>3, <2>4 DEF ClaimNothing
<1>12. ASSUME NEW s \in Seqs,
             \/ WorkerStart(s) \/ WorkerFails(s) \/ WorkerAnswers(s)
             \/ WorkerFlush(s) \/ WorkerMark(s) \/ WorkerRaises(s)
       PROVE  NoForgottenQuestion'
  BY <1>12, <1>k DEF WorkerStart, WorkerFails, WorkerAnswers, WorkerOnly, WorkerFlush,
     WorkerMark, WorkerRaises
<1>13. ASSUME NEW s \in Seqs, WorkerEnds(s)
       PROVE  NoForgottenQuestion'
  BY <1>13, <1>a, <1>c DEF WorkerEnds
<1>14. CASE DrainStep \/ HealthChange \/ UNCHANGED pvars
  BY <1>14, <1>k DEF DrainStep, HealthChange, pvars, pipeVars
<1>15. ASSUME NEW r \in Resetters, CancelBump(r) \/ CancelEnd(r)
       PROVE  NoForgottenQuestion'
  BY <1>15, <1>k DEF CancelBump, CancelEnd, pipeVars
<1>16. ASSUME NEW r \in Resetters, CancelBegin(r)
       PROVE  NoForgottenQuestion'
  BY <1>16 DEF CancelBegin, NoForgottenQuestion
<1>17. QED
  BY <1>1, <1>2, <1>3, <1>4, <1>5, <1>6, <1>7, <1>8, <1>9, <1>10, <1>11, <1>12, <1>13,
     <1>14, <1>15, <1>16
  DEF PipelineNext, AsrStep, LoopStep, WorkerStep

-----------------------------------------------------------------------------
(* The invariant.                                                          *)

LEMMA PipelineIInit == PipelineInit => PipelineIInv
<1> SUFFICES ASSUME PipelineInit
             PROVE  PipelineIInv
  OBVIOUS
<1> USE BoundsAssumption, PipelineAssumption DEF PipelineInit, Init
<1>1. NoItem \in Items
  BY ItemFacts
<1>2. NoWorker \in WorkerStates
  BY <1>1 DEF NoWorker, WorkerStates, WorkerPoints
<1>3. NoLoop \in LoopStates /\ LoopGood(NoLoop) /\ NoLoop.pc = "idle" /\ NoLoop.skips = {}
  BY <1>1 DEF NoLoop, LoopStates, LoopGood, LoopPoints, Empty, Dropping
<1>4. Len(pending) = 0 /\ pending \in Seq(Items)
  OBVIOUS
<1>5. Shapes
  BY <1>2, <1>3, <1>4 DEF Shapes, Nobody
<1>6. Loops
  BY <1>3 DEF Loops
<1>7. Generations
  BY FS_EmptySet DEF Generations
<1>8. Owners
  <2>1. SeqsOf(pending) = {} /\ Distinct(pending)
    BY <1>4 DEF SeqsOf, Distinct
  <2>2. InWorker = {}
    BY DEF InWorker, NoWorker
  <2>3. \A d \in Dispatchers : Skips[d] = {}
    BY <1>3 DEF Skips
  <2>4. QED
    BY <2>1, <2>2, <2>3 DEF Owners, OwnersOf
<1>9. ModelsExclusive /\ NoForgottenQuestion
  BY <1>4 DEF ModelsExclusive, NoForgottenQuestion
<1>10. QED
  BY <1>5, <1>6, <1>7, <1>8, <1>9 DEF PipelineIInv

LEMMA PipelineIStep ==
    TypeOK /\ Known /\ PipelineIInv /\ [PipelineNext]_pvars => PipelineIInv'
<1> SUFFICES ASSUME TypeOK, Known, PipelineIInv, [PipelineNext]_pvars
             PROVE  PipelineIInv'
  OBVIOUS
<1>1. Shapes'
  BY ShapesStep
<1>2. Loops' /\ Owners'
  BY OwnersStep
<1>3. Generations'
  BY GenerationsStep
<1>4. ModelsExclusive'
  BY ModelsStep
<1>5. NoForgottenQuestion'
  BY ForgottenStep
<1>6. QED
  BY <1>1, <1>2, <1>3, <1>4, <1>5 DEF PipelineIInv

\* A queue that names each number once is as long as the set of its numbers.
LEMMA DistinctCounts ==
    ASSUME NEW q \in Seq(Items), Distinct(q)
    PROVE  Cardinality(SeqsOf(q)) = Len(q)
<1> DEFINE n == Len(q)
           f == [i \in 1 .. n |-> q[i].seq]
<1>1. n \in Nat
  BY LenProperties
<1>2. f \in Surjection(1 .. n, SeqsOf(q))
  BY DEF Surjection, SeqsOf
<1>3. f \in Injection(1 .. n, SeqsOf(q))
  <2>1. IsInjective(f)
    BY DEF IsInjective, Distinct
  <2>2. QED
    BY <1>2, <2>1 DEF Injection, Surjection
<1>4. ExistsBijection(1 .. n, SeqsOf(q))
  BY <1>2, <1>3 DEF ExistsBijection, Bijection
<1>5. QED
  BY <1>1, <1>4, FS_CountingElements

LEMMA PipelineBounds == TypeOK /\ PipelineIInv => PipelineInv
<1> SUFFICES ASSUME TypeOK, PipelineIInv
             PROVE  PipelineInv
  OBVIOUS
<1>1. Shapes /\ Generations /\ Owners
  BY DEF PipelineIInv
<1>2. PendingSeqs = SeqsOf(pending) /\ InQueue = SeqsOf(pending)
  BY DEF PendingSeqs, InQueue, SeqsOf
<1>3. PipelineTypeOK
  <2>1. \A i \in 1 .. Len(pending) : pending[i].seq \in Seqs
    BY <1>1 DEF Owners, OwnersOf, SeqsOf, TypeOK
  <2>2. BusyModels \subseteq Models
    BY <1>1 DEF BusyModels, Shapes
  <2>3. latestTurn \in 0 .. MaxTurns
    BY <1>1, PipelineAssumption DEF Shapes
  <2>4. generation \in 0 .. MaxResets
    BY <1>1, FS_CardinalityType, BoundsAssumption DEF Generations, TypeOK
  <2>5. QED
    BY <1>1, <2>1, <2>2, <2>3, <2>4 DEF PipelineTypeOK, Shapes, Generations
<1>4. OneOwner
  <2>1. Cardinality(InQueue) = Len(pending)
    BY <1>1, <1>2, DistinctCounts DEF Shapes, Owners
  <2>2. \A d \in Dispatchers : InDropped(d) = Skips[d]
    BY DEF InDropped, Skips
  <2>3. UNION {InDropped(d) : d \in Dispatchers} = UNION {Skips[d] : d \in Dispatchers}
    BY <2>2
  <2>4. OwnersOf(InQueue, InWorker, Skips, owed)
    BY <1>1, <1>2 DEF Owners
  <2>5. QED
    BY <2>1, <2>2, <2>3, <2>4 DEF OwnersOf, OneOwner
<1>5. QED
  BY <1>3, <1>4 DEF PipelineInv, PipelineIInv

LEMMA PipelineIAlways == PipelineSpec => []PipelineIInv
<1>1. PipelineInit => PipelineIInv
  BY PipelineIInit
<1>2. TypeOK /\ Known /\ PipelineIInv /\ [PipelineNext]_pvars => PipelineIInv'
  BY PipelineIStep
<1>3. IInv => TypeOK /\ Known
  BY DEF IInv
<1>4. QED
  BY <1>1, <1>2, <1>3, QueueRefined, Invariance, PTL DEF PipelineSpec

\* In every reachable state each number that owes its outcome has exactly one
\* owner, two questions in flight never share a model, and a question past its
\* grace has a dispatch loop or a worker that will look at it.
THEOREM PipelineInvariance == PipelineSpec => []PipelineInv
<1>1. TypeOK /\ PipelineIInv => PipelineInv
  BY PipelineBounds
<1>2. IInv => TypeOK
  BY DEF IInv
<1>3. QED
  BY <1>1, <1>2, PipelineIAlways, QueueRefined, Invariance, PTL

-----------------------------------------------------------------------------
(* The judge.                                                              *)

\* What a rejection may do to the queue.
RejectsOnly(d) ==
    (disp[d].pc = "judge" /\ disp'[d].pc = "reject") =>
        \E i \in 1 .. Len(pending) :
           /\ SameTask(pending[i], disp[d].item)
           /\ pending' = Remove(pending, i)

LEMMA JudgeStep ==
    ASSUME PipelineIInv, [PipelineNext]_pvars, NEW d \in Dispatchers
    PROVE  RejectsOnly(d)
<1>i. Shapes /\ Loops
  BY DEF PipelineIInv
<1>d. \A e \in Dispatchers : disp[e] \in LoopStates
  BY <1>i DEF Shapes
\* Only a loop that is judging can come to a rejection in one step.
<1>k. ASSUME disp' = disp \/ disp'[d].pc # "reject"
      PROVE  RejectsOnly(d)
  BY <1>k DEF RejectsOnly
<1>e. ASSUME NEW e \in Dispatchers, NEW l, l.pc # "reject", disp' = [disp EXCEPT ![e] = l]
      PROVE  RejectsOnly(d)
  BY <1>i, <1>e DEF RejectsOnly, Shapes
<1>1. ASSUME NEW image \in BOOLEAN, ManualSubmit(image)
      PROVE  RejectsOnly(d)
  BY <1>1, <1>k DEF ManualSubmit
<1>2. CASE BeginAsrTurn
  <2>1. PICK n \in 1 .. MaxClusters, S \in {AsrSeqs, {}} :
           disp' = [disp EXCEPT ![AsrThread] = [NoLoop EXCEPT
                       !.pc = "turn", !.left = n, !.skips = S]]
    BY <1>2 DEF BeginAsrTurn, AsrSeqs
  <2>2. [NoLoop EXCEPT !.pc = "turn", !.left = n, !.skips = S].pc # "reject"
    BY DEF NoLoop
  <2>3. QED
    BY <1>e, <2>1, <2>2, PipelineAssumption
<1>3. ASSUME NEW s \in Seqs, SkipSuperseded(s)
      PROVE  RejectsOnly(d)
  <2>1. /\ disp' = [disp EXCEPT ![AsrThread] =
                       [disp[AsrThread] EXCEPT !.skips = disp[AsrThread].skips \ {s}]]
        /\ disp[AsrThread].pc = "turn" /\ AsrThread \in Dispatchers
    BY <1>3, PipelineAssumption DEF SkipSuperseded
  <2>2. [disp[AsrThread] EXCEPT !.skips = disp[AsrThread].skips \ {s}].pc = "turn"
    BY <1>d, <2>1 DEF LoopStates
  <2>3. QED
    BY <1>e, <2>1, <2>2
<1>4. ASSUME NEW sure \in BOOLEAN, NEW wait \in BOOLEAN, AsrSubmit(sure, wait)
      PROVE  RejectsOnly(d)
  <2>1. disp' = [disp EXCEPT ![AsrThread] = [disp[AsrThread] EXCEPT
                                !.pc = "top", !.left = disp[AsrThread].left - 1]]
        /\ AsrThread \in Dispatchers
    BY <1>4, PipelineAssumption DEF AsrSubmit
  <2>2. [disp[AsrThread] EXCEPT !.pc = "top", !.left = disp[AsrThread].left - 1].pc = "top"
    BY <1>d, <2>1 DEF LoopStates
  <2>3. QED
    BY <1>e, <2>1, <2>2
<1>5. CASE AppendLateTail \/ GraceEnds \/ HealthChange \/ DrainStep \/ UNCHANGED pvars
  BY <1>5, <1>k DEF AppendLateTail, GraceEnds, HealthChange, DrainStep, pvars, pipeVars
<1>6. ASSUME NEW e \in Dispatchers, JudgeReject(e)
      PROVE  RejectsOnly(d)
  <2>1. CASE e = d
    <3>1. disp[d].at \in 1 .. Len(pending)
      BY <1>6, <1>i, <2>1, Judged DEF JudgeReject
    <3>2. QED
      BY <1>6, <2>1, <3>1 DEF JudgeReject, StillThere, RejectsOnly
  <2>2. CASE e # d
    <3>1. disp'[d] = disp[d]
      BY <1>6, <1>i, <2>2 DEF JudgeReject, Shapes
    <3>2. QED
      BY <3>1 DEF RejectsOnly
  <2>3. QED
    BY <2>1, <2>2
<1>7. ASSUME NEW e \in Dispatchers, StartLoop(e) \/ ClaimTask(e)
      PROVE  RejectsOnly(d)
  <2>1. disp' = [disp EXCEPT ![e] = [disp[e] EXCEPT !.pc = "top"]]
    BY <1>7 DEF StartLoop, ClaimTask
  <2>2. [disp[e] EXCEPT !.pc = "top"].pc = "top"
    BY <1>d DEF LoopStates
  <2>3. QED
    BY <1>e, <2>1, <2>2
<1>8. ASSUME NEW e \in Dispatchers, JudgeRead(e)
      PROVE  RejectsOnly(d)
  <2>1. \/ disp' = [disp EXCEPT ![e] = [disp[e] EXCEPT !.pc = "claim"]]
        \/ \E i : disp' = [disp EXCEPT ![e] = [disp[e] EXCEPT
                              !.pc = "judge", !.at = i, !.item = pending[i]]]
    BY <1>8 DEF JudgeRead
  <2>2. /\ [disp[e] EXCEPT !.pc = "claim"].pc = "claim"
        /\ \A i : [disp[e] EXCEPT !.pc = "judge", !.at = i, !.item = pending[i]].pc = "judge"
    BY <1>d DEF LoopStates
  <2>3. QED
    BY <1>e, <2>1, <2>2
<1>9. ASSUME NEW e \in Dispatchers, JudgeMoved(e) \/ JudgePromote(e)
      PROVE  RejectsOnly(d)
  <2>1. disp' = [disp EXCEPT ![e] = [disp[e] EXCEPT !.pc = "claim", !.at = 0, !.item = NoItem]]
    BY <1>9 DEF JudgeMoved, JudgePromote
  <2>2. [disp[e] EXCEPT !.pc = "claim", !.at = 0, !.item = NoItem].pc = "claim"
    BY <1>d DEF LoopStates
  <2>3. QED
    BY <1>e, <2>1, <2>2
<1>10. ASSUME NEW e \in Dispatchers, ClaimStale(e)
       PROVE  RejectsOnly(d)
  <2>1. PICK n : disp' = [disp EXCEPT ![e] = [disp[e] EXCEPT !.pc = "skip", !.skips = {n}]]
    BY <1>10 DEF ClaimStale
  <2>2. [disp[e] EXCEPT !.pc = "skip", !.skips = {n}].pc = "skip"
    BY <1>d DEF LoopStates
  <2>3. QED
    BY <1>e, <2>1, <2>2
<1>11. ASSUME NEW e \in Dispatchers, ClaimNothing(e)
       PROVE  RejectsOnly(d)
  <2> DEFINE l == [NoLoop EXCEPT !.pc = IF disp[e].left > 0 THEN "turn" ELSE "idle",
                                 !.left = disp[e].left]
  <2>1. disp' = [disp EXCEPT ![e] = l]
    BY <1>11 DEF ClaimNothing
  <2>2. l.pc # "reject"
    BY DEF NoLoop
  <2> HIDE DEF l
  <2>3. QED
    BY <1>e, <2>1, <2>2
<1>12. ASSUME NEW e \in Dispatchers, MarkDropped(e)
       PROVE  RejectsOnly(d)
  <2> DEFINE l == [disp[e] EXCEPT !.skips = {}, !.pc = IF disp[e].pc = "reject"
                                                       THEN "rejecting" ELSE "skipping"]
  <2>1. disp' = [disp EXCEPT ![e] = l]
    BY <1>12 DEF MarkDropped
  <2>2. l.pc # "reject"
    BY <1>d DEF LoopStates
  <2> HIDE DEF l
  <2>3. QED
    BY <1>e, <2>1, <2>2
<1>13. ASSUME NEW e \in Dispatchers, AfterDropped(e)
       PROVE  RejectsOnly(d)
  <2>1. PICK to \in {"claim", "top"} : disp' = [disp EXCEPT ![e] = [disp[e] EXCEPT !.pc = to]]
    BY <1>13 DEF AfterDropped
  <2>2. [disp[e] EXCEPT !.pc = to].pc # "reject"
    BY <1>d DEF LoopStates
  <2>3. QED
    BY <1>e, <2>1, <2>2
<1>14. ASSUME NEW s \in Seqs, WorkerStep(s)
       PROVE  RejectsOnly(d)
  BY <1>14, <1>k DEF WorkerStep, WorkerStart, WorkerFails, WorkerAnswers, WorkerOnly,
     WorkerFlush, WorkerMark, WorkerRaises, WorkerEnds
<1>15. ASSUME NEW r \in Resetters, CancelBump(r) \/ CancelBegin(r) \/ CancelEnd(r)
       PROVE  RejectsOnly(d)
  BY <1>15, <1>k DEF CancelBump, CancelBegin, CancelEnd, pipeVars
<1>16. QED
  BY <1>1, <1>2, <1>3, <1>4, <1>5, <1>6, <1>7, <1>8, <1>9, <1>10, <1>11, <1>12, <1>13,
     <1>14, <1>15
  DEF PipelineNext, AsrStep, LoopStep

\* A verdict given after an LLM call with no lock held throws out the text that
\* was judged and nothing else, however the queue moved in between.
THEOREM JudgedExactly == PipelineSpec => JudgeExact
<1>1. PipelineIInv /\ [PipelineNext]_pvars => [\A d \in Dispatchers : RejectsOnly(d)]_pvars
  BY JudgeStep
<1>2. QED
  BY <1>1, PipelineIAlways, PTL DEF PipelineSpec, JudgeExact, RejectsOnly
=============================================================================

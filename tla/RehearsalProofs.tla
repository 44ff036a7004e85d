--------------------------- MODULE RehearsalProofs ---------------------------
(***************************************************************************)
(* From the candidates to the plan that is applied.  First who wins, and   *)
(* on what evidence, for any number of candidates, any services and        *)
(* dependencies, and any margin, streak and timeout.  Then the plans on    *)
(* their way: that the ballot is sound, that the inverses undo, and what   *)
(* the patches leave in production, for any number of incidents, any       *)
(* deploys, and any answers of the LLM that have the types of the schema.  *)
(***************************************************************************)
EXTENDS Tournament, PlanApplier, FiniteSetTheorems, WellFoundedInduction, TLAPS

USE TournamentAssumption DEF TournamentAssumption

(* A set of numbers that is not empty has a least element.                 *)
LEMMA HasLeast ==
  ASSUME NEW ks, ks \subseteq Nat, ks # {}
  PROVE  \E m \in ks : \A l \in ks : m <= l
<1> DEFINE Below == {pair \in Nat \X Nat : pair[1] < pair[2]}
<1>1. IsWellFoundedOn(Below, Nat)
  BY NatLessThanWellFounded DEF OpToRel
<1>2. \E m \in ks : \A l \in ks : <<l, m>> \notin Below
  <2> HIDE DEF Below
  <2> QED BY <1>1, WFMin
<1>3. PICK m \in ks : \A l \in ks : <<l, m>> \notin Below
  BY <1>2
<1>4. ASSUME NEW l \in ks
      PROVE  m <= l
  <2>1. ~ (l < m)
    BY <1>3 DEF Below
  <2> QED BY <2>1
<1> QED BY <1>4

(* The least and the greatest number of a set.                             *)
LEMMA MinIs ==
  ASSUME NEW ks, ks \subseteq Nat, ks # {}
  PROVE  Min(ks) \in ks /\ \A l \in ks : Min(ks) <= l
BY HasLeast DEF Min

(* The same for the greatest number of a set with an upper bound.          *)
LEMMA MaxIs ==
  ASSUME NEW n \in Nat, NEW ks, ks \subseteq 1 .. n, ks # {}
  PROVE  Max(ks) \in ks /\ \A l \in ks : Max(ks) >= l
<1> DEFINE gaps == {n - k : k \in ks}
<1>0. \A k \in ks : k \in Nat /\ k <= n /\ n - k \in Nat
  <2>1. \A k \in ks : k \in 1 .. n
    OBVIOUS
  <2>2. \A k \in 1 .. n : k \in Nat /\ k <= n /\ n - k \in Nat
    OBVIOUS
  <2> QED BY <2>1, <2>2
<1>1. gaps \subseteq Nat /\ gaps # {}
  <2>1. PICK k \in ks : TRUE
    OBVIOUS
  <2>2. n - k \in gaps
    OBVIOUS
  <2>3. ASSUME NEW g \in gaps PROVE g \in Nat
    <3>1. PICK l \in ks : g = n - l
      OBVIOUS
    <3> QED BY <1>0, <3>1
  <2> QED BY <2>2, <2>3
<1>2. PICK g \in gaps : \A h \in gaps : g <= h
  <2> HIDE DEF gaps
  <2> QED BY <1>1, HasLeast
<1>3. PICK k \in ks : g = n - k
  OBVIOUS
<1>4. ASSUME NEW l \in ks
      PROVE  k >= l
  <2>1. g <= n - l
    BY <1>2
  <2> QED BY <1>0, <1>3, <2>1
<1> QED BY <1>4 DEF Max

(* The greater and the lesser of two numbers.                              *)
LEMMA MaxOfPair ==
  ASSUME NEW m \in Int, NEW n \in Int
  PROVE  Max({m, n}) = IF m >= n THEN m ELSE n
BY DEF Max

(* The greater of two numbers is one of them.                              *)
LEMMA MaxOfPairIsOne ==
  ASSUME NEW m \in Int, NEW n \in Int
  PROVE  Max({m, n}) \in {m, n}
BY MaxOfPair

(* A number cut off below zero.                                            *)
LEMMA MaxWithZero ==
  ASSUME NEW n \in Int
  PROVE  Max({0, n}) \in Nat
BY MaxOfPair

(* The lesser of two numbers.                                              *)
LEMMA MinOfPair ==
  ASSUME NEW m \in Int, NEW n \in Int
  PROVE  Min({m, n}) = IF m <= n THEN m ELSE n
BY DEF Min
-----------------------------------------------------------------------------
(***************************************************************************)
(* A fold over a finite set is a function that is defined by its own       *)
(* values on smaller sets; here is one, and so the CHOOSE in the           *)
(* definition of the fold chooses one.                                     *)
(***************************************************************************)
FoldedBy(iter, S, first, pick, step) ==
  iter = [s \in SUBSET S |->
            IF s = {} THEN first ELSE step[<<pick[s], iter[s \ {pick[s]}]>>]]

UpTo(S, n) == {s \in SUBSET S : Cardinality(s) <= n}

FoldedUpTo(iter, S, n, first, pick, step) ==
  iter = [s \in UpTo(S, n) |->
            IF s = {} THEN first ELSE step[<<pick[s], iter[s \ {pick[s]}]>>]]

(* The numbers up to n are n.                                              *)
LEMMA IntervalCounts ==
  ASSUME NEW n \in Nat
  PROVE  IsFiniteSet(1 .. n) /\ Cardinality(1 .. n) = n
<1>1. 1 \in Int /\ n \in Int
  OBVIOUS
<1>2. IsFiniteSet(1 .. n) /\ Cardinality(1 .. n) = IF 1 > n THEN 0 ELSE n - 1 + 1
  BY <1>1, FS_Interval, Zenon
<1>3. (IF 1 > n THEN 0 ELSE n - 1 + 1) = n
  OBVIOUS
<1> QED BY <1>2, <1>3

(* A set without one of its elements has one element less.                 *)
LEMMA OneLess ==
  ASSUME NEW S, IsFiniteSet(S), NEW n \in Nat, NEW s \in UpTo(S, n + 1), NEW x \in s
  PROVE  s \ {x} \in UpTo(S, n)
<1>1. s \in SUBSET S /\ Cardinality(s) <= n + 1
  BY DEF UpTo
<1>2. IsFiniteSet(s)
  BY <1>1, FS_Subset
<1>3. Cardinality(s \ {x}) = Cardinality(s) - 1 /\ Cardinality(s) \in Nat
  BY <1>2, FS_RemoveElement, FS_CardinalityType
<1> QED BY <1>1, <1>3 DEF UpTo

(* A fold over a finite set exists, whatever its step does.                *)
LEMMA FoldExists ==
  ASSUME NEW S, IsFiniteSet(S), NEW V, NEW first \in V,
         NEW pick, \A s \in SUBSET S : s # {} => pick[s] \in s,
         NEW step, step \in [S \X V -> V]
  PROVE  \E iter \in [SUBSET S -> V] : FoldedBy(iter, S, first, pick, step)
<1> DEFINE Exists(n) == \E iter \in [UpTo(S, n) -> V] :
                           FoldedUpTo(iter, S, n, first, pick, step)
           bad == {n \in Nat : ~ Exists(n)}
<1>1. Exists(0)
  <2> DEFINE g == [s \in UpTo(S, 0) |-> first]
  <2>1. \A s \in UpTo(S, 0) : s = {}
    BY FS_Subset, FS_EmptySet, FS_CardinalityType DEF UpTo
  <2>2. FoldedUpTo(g, S, 0, first, pick, step)
    BY <2>1 DEF FoldedUpTo
  <2> QED BY <2>2
<1>2. ASSUME NEW n \in Nat, Exists(n)
      PROVE  Exists(n + 1)
  <2>1. PICK g \in [UpTo(S, n) -> V] : FoldedUpTo(g, S, n, first, pick, step)
    BY <1>2
  <2> DEFINE h == [s \in UpTo(S, n + 1) |->
                     IF s = {} THEN first ELSE step[<<pick[s], g[s \ {pick[s]}]>>]]
  <2>2. ASSUME NEW s \in UpTo(S, n + 1), s # {}
        PROVE  s \ {pick[s]} \in UpTo(S, n) /\ pick[s] \in S
    BY <2>2, OneLess DEF UpTo
  <2>3. h \in [UpTo(S, n + 1) -> V]
    BY <2>2
  <2>4. ASSUME NEW s \in UpTo(S, n)
        PROVE  s \in UpTo(S, n + 1) /\ h[s] = g[s]
    <3>1. s \in UpTo(S, n + 1)
      BY FS_Subset, FS_CardinalityType DEF UpTo
    <3> QED BY <2>1, <3>1 DEF FoldedUpTo
  <2>5. FoldedUpTo(h, S, n + 1, first, pick, step)
    <3>1. ASSUME NEW s \in UpTo(S, n + 1)
          PROVE  h[s] = IF s = {} THEN first ELSE step[<<pick[s], h[s \ {pick[s]}]>>]
      BY <2>2, <2>4
    <3> QED BY <3>1 DEF FoldedUpTo
  <2> HIDE DEF h
  <2> QED BY <2>3, <2>5
<1>3. bad = {}
  <2> SUFFICES ASSUME bad # {} PROVE FALSE
    OBVIOUS
  <2> HIDE DEF Exists
  <2>1. PICK n \in bad : \A m \in bad : n <= m
    BY HasLeast
  <2>2. n # 0
    BY <1>1
  <2>3. n - 1 \in Nat /\ n - 1 \notin bad
    BY <2>1, <2>2
  <2>4. Exists((n - 1) + 1)
    BY <1>2, <2>3
  <2> QED BY <2>4
<1>4. Cardinality(S) \in Nat
  BY FS_CardinalityType
<1>5. Exists(Cardinality(S))
  <2> HIDE DEF Exists
  <2> QED BY <1>3, <1>4
<1>6. UpTo(S, Cardinality(S)) = SUBSET S
  BY FS_Subset DEF UpTo
<1>7. PICK iter \in [UpTo(S, Cardinality(S)) -> V] :
        FoldedUpTo(iter, S, Cardinality(S), first, pick, step)
  BY <1>5
<1>8. iter \in [SUBSET S -> V]
  BY <1>6, <1>7
<1>9. FoldedBy(iter, S, first, pick, step)
  BY <1>6, <1>7 DEF FoldedBy, FoldedUpTo
<1> QED BY <1>8, <1>9

(* What holds at the start and is handed on from each number to the next.  *)
LEMMA Climb ==
  ASSUME NEW n \in Nat, NEW good, 0 \in good, \A k \in 1 .. n : k - 1 \in good => k \in good
  PROVE  \A k \in 0 .. n : k \in good
<1> DEFINE bad == {k \in 0 .. n : k \notin good}
<1>1. ASSUME bad # {} PROVE FALSE
  <2>0. bad \subseteq Nat
    OBVIOUS
  <2>1. PICK k \in bad : \A l \in bad : k <= l
    <3> HIDE DEF bad
    <3> QED BY <1>1, <2>0, HasLeast
  <2>2. k \in 1 .. n /\ k - 1 \in 0 .. n /\ k - 1 < k
    OBVIOUS
  <2>3. k - 1 \in good
    BY <2>1, <2>2
  <2> QED BY <2>2, <2>3
<1> QED BY <1>1

(* A fold over a sequence, from the left: the elements below the greatest  *)
(* are those before the last.                                              *)
LEMMA LastOfInterval ==
  ASSUME NEW k \in Nat, k # 0
  PROVE  1 .. k # {} /\ Max(1 .. k) = k /\ (1 .. k) \ {k} = 1 .. (k - 1)
<1>1. 1 .. k # {} /\ k \in 1 .. k
  OBVIOUS
<1>2. Max(1 .. k) \in 1 .. k /\ Max(1 .. k) >= k
  BY <1>1, MaxIs
<1>3. Max(1 .. k) = k
  BY <1>2
<1>4. (1 .. k) \ {k} = 1 .. (k - 1)
  OBVIOUS
<1> QED BY <1>1, <1>3, <1>4
-----------------------------------------------------------------------------
(***************************************************************************)
(* The search for a recovery.                                              *)
(***************************************************************************)
Sample == [at : Nat, healthy : BOOLEAN]

Finding == [run : Nat, start : Int, at : Int]

Begin == [run |-> 0, start |-> None, at |-> None]

Stepped(found, sample, appliedAt, forkedAt) ==
  IF found.at # None \/ sample.at > appliedAt + Timeout THEN found
  ELSE IF sample.at < forkedAt + WarmUp \/ ~sample.healthy
       THEN [run |-> 0, start |-> None, at |-> None]
  ELSE LET start == IF found.run = 0 THEN sample.at ELSE found.start
       IN  [run |-> found.run + 1, start |-> start,
            at |-> IF found.run + 1 >= Streak THEN start ELSE None]

(* What the search knows has its type after every sample.                  *)
LEMMA SteppedIsTyped ==
  ASSUME NEW found \in Finding, NEW sample \in Sample, NEW appliedAt \in Int,
         NEW forkedAt \in Int
  PROVE  Stepped(found, sample, appliedAt, forkedAt) \in Finding
<1>1. None \in Int /\ sample.at \in Int /\ found.start \in Int /\ found.run + 1 \in Nat
  BY DEF None, Sample, Finding
<1> QED BY <1>1 DEF Stepped, Finding

(* The search is a run through the samples, one after the other.           *)
LEMMA DetectionRuns ==
  ASSUME NEW samples \in Seq(Sample), NEW appliedAt \in Int, NEW forkedAt \in Int
  PROVE  \E state :
           /\ state[0] = Begin
           /\ \A k \in 1 .. Len(samples) :
                 state[k] = Stepped(state[k - 1], samples[k], appliedAt, forkedAt)
           /\ \A k \in 0 .. Len(samples) : state[k] \in Finding
           /\ DetectRecovery(samples, appliedAt, forkedAt) =
                 IF state[Len(samples)].at = None THEN None
                 ELSE Max({0, state[Len(samples)].at - appliedAt})
<1> DEFINE D == DOMAIN samples
           n == Len(samples)
           Folds(it) == it = [s \in SUBSET D |->
                                IF s = {} THEN Begin
                                ELSE LET x == Max(s)
                                     IN  Stepped(it[s \ {x}], samples[x], appliedAt, forkedAt)]
           fold == CHOOSE it : Folds(it)
           state == [k \in 0 .. n |-> fold[1 .. k]]
<1>1. n \in Nat /\ D = 1 .. n /\ \A k \in D : samples[k] \in Sample
  OBVIOUS
<1>2. \E it : Folds(it)
  <2> DEFINE pick == [s \in SUBSET D |-> Max(s)]
             step == [q \in D \X Finding |-> Stepped(q[2], samples[q[1]], appliedAt, forkedAt)]
  <2>1. \A s \in SUBSET D : s # {} => pick[s] \in s
    <3> SUFFICES ASSUME NEW s \in SUBSET D, s # {} PROVE Max(s) \in s
      OBVIOUS
    <3> QED BY <1>1, MaxIs
  <2>2. step \in [D \X Finding -> Finding]
    <3> SUFFICES ASSUME NEW q \in D \X Finding
                 PROVE  Stepped(q[2], samples[q[1]], appliedAt, forkedAt) \in Finding
      OBVIOUS
    <3> QED BY <1>1, SteppedIsTyped
  <2>3. Begin \in Finding
    BY DEF Begin, Finding, None
  <2>4. IsFiniteSet(D)
    BY <1>1, FS_Interval
  <2> HIDE DEF D
  <2>5. PICK it \in [SUBSET D -> Finding] : FoldedBy(it, D, Begin, pick, step)
    <3> HIDE DEF pick, step
    <3> QED BY <2>1, <2>2, <2>3, <2>4, FoldExists
  <2>6. ASSUME NEW s \in SUBSET D, s # {}
        PROVE  step[<<pick[s], it[s \ {pick[s]}]>>]
                 = Stepped(it[s \ {Max(s)}], samples[Max(s)], appliedAt, forkedAt)
    <3>1. pick[s] = Max(s) /\ Max(s) \in D
      BY <2>1, <2>6
    <3>2. it[s \ {Max(s)}] \in Finding
      BY <2>5
    <3> QED BY <3>1, <3>2
  <2> HIDE DEF pick, step
  <2>7. \A s \in SUBSET D : it[s] = IF s = {} THEN Begin
                                    ELSE Stepped(it[s \ {Max(s)}], samples[Max(s)], appliedAt, forkedAt)
    BY <2>5, <2>6 DEF FoldedBy
  <2>8. Folds(it)
    BY <2>5, <2>7
  <2> QED BY <2>8
<1>3. Folds(fold)
  BY <1>2
<1>4. DetectRecovery(samples, appliedAt, forkedAt) =
        IF fold[D].at = None THEN None ELSE Max({0, fold[D].at - appliedAt})
  BY DEF DetectRecovery, FoldLeft, MapThenFoldSet, Stepped, Begin
<1> HIDE DEF fold
<1>5. fold[{}] = Begin
  BY <1>3
<1>6. ASSUME NEW k \in 1 .. n
      PROVE  fold[1 .. k] = Stepped(fold[1 .. (k - 1)], samples[k], appliedAt, forkedAt)
  <2>1. 1 .. k \in SUBSET D
    BY <1>1
  <2>2. k \in Nat /\ k # 0
    BY <1>1
  <2>3. 1 .. k # {} /\ Max(1 .. k) = k /\ (1 .. k) \ {k} = 1 .. (k - 1)
    BY <2>2, LastOfInterval
  <2> HIDE DEF D
  <2>4. fold[1 .. k] = LET x == Max(1 .. k)
                       IN  Stepped(fold[(1 .. k) \ {x}], samples[x], appliedAt, forkedAt)
    BY <1>3, <2>1, <2>3
  <2> HIDE DEF Folds
  <2> QED BY <2>3, <2>4
<1> HIDE DEF Folds
<1>7. state[0] = Begin
  <2>1. 1 .. 0 = {} /\ 0 \in 0 .. n
    BY <1>1
  <2> QED BY <1>5, <2>1
<1>8. \A k \in 1 .. n : state[k] = Stepped(state[k - 1], samples[k], appliedAt, forkedAt)
  <2> SUFFICES ASSUME NEW k \in 1 .. n
               PROVE  state[k] = Stepped(state[k - 1], samples[k], appliedAt, forkedAt)
    OBVIOUS
  <2>1. k \in 0 .. n /\ k - 1 \in 0 .. n
    BY <1>1
  <2> QED BY <1>6, <2>1
<1>9. state[n] = fold[D]
  BY <1>1
<1> HIDE DEF state, D
<1>10. \A k \in 0 .. n : state[k] \in Finding
  <2> DEFINE good == {k \in 0 .. n : state[k] \in Finding}
  <2>1. 0 \in good
    BY <1>1, <1>7 DEF Begin, Finding, None
  <2>2. \A k \in 1 .. n : k - 1 \in good => k \in good
    BY <1>1, <1>8, SteppedIsTyped
  <2> HIDE DEF good
  <2>3. \A k \in 0 .. n : k \in good
    BY <1>1, <2>1, <2>2, Climb
  <2> QED BY <2>3 DEF good
<1> QED BY <1>4, <1>7, <1>8, <1>9, <1>10
-----------------------------------------------------------------------------
(* A sample that counts, and a streak of them.                             *)
InOrder(samples) ==
  \A m, n \in DOMAIN samples : m <= n => samples[m].at <= samples[n].at

Good(sample, appliedAt, forkedAt) ==
  sample.healthy /\ sample.at >= forkedAt + WarmUp /\ sample.at <= appliedAt + Timeout

AtLeastOne == IF Streak = 0 THEN 1 ELSE Streak

StreaksUpTo(k, samples, appliedAt, forkedAt) ==
  {n \in 1 .. k : /\ n + AtLeastOne - 1 <= k
                  /\ \A m \in n .. n + AtLeastOne - 1 : Good(samples[m], appliedAt, forkedAt)}

(* What the search knows after k samples: the first streak, or how many    *)
(* good samples it has seen last.                                          *)
Knows(k, found, samples, appliedAt, forkedAt) ==
  LET streaks == StreaksUpTo(k, samples, appliedAt, forkedAt)
      r       == found.run
  IN  /\ streaks # {} => found.at = samples[Min(streaks)].at
      /\ streaks = {} => found.at = None
      /\ streaks = {} /\ (k = 0 \/ samples[k].at <= appliedAt + Timeout) =>
            /\ r <= k /\ r < AtLeastOne
            /\ \A m \in k - r + 1 .. k : Good(samples[m], appliedAt, forkedAt)
            /\ r = k \/ ~ Good(samples[k - r], appliedAt, forkedAt)
            /\ r > 0 => found.start = samples[k - r + 1].at

(* Before the first sample the search knows that there is no streak.       *)
LEMMA KnowsAtFirst ==
  ASSUME NEW samples, NEW appliedAt, NEW forkedAt
  PROVE  Knows(0, Begin, samples, appliedAt, forkedAt)
<1>1. StreaksUpTo(0, samples, appliedAt, forkedAt) = {}
  BY DEF StreaksUpTo
<1> QED BY <1>1 DEF Knows, Begin, AtLeastOne

(* One sample more.                                                        *)
LEMMA KnowsNext ==
  ASSUME NEW samples \in Seq(Sample), InOrder(samples), NEW appliedAt \in Int,
         NEW forkedAt \in Int, NEW k \in 1 .. Len(samples), NEW found \in Finding,
         Knows(k - 1, found, samples, appliedAt, forkedAt)
  PROVE  Knows(k, Stepped(found, samples[k], appliedAt, forkedAt), samples, appliedAt, forkedAt)
<1> DEFINE K == AtLeastOne
           Fine(m) == Good(samples[m], appliedAt, forkedAt)
           old == StreaksUpTo(k - 1, samples, appliedAt, forkedAt)
           new == StreaksUpTo(k, samples, appliedAt, forkedAt)
           next == Stepped(found, samples[k], appliedAt, forkedAt)
           limit == appliedAt + Timeout
           r == found.run
<1>1. K \in Nat /\ K >= 1 /\ limit \in Int /\ r \in Nat
  BY DEF AtLeastOne, Finding
<1>0. k \in Nat /\ k >= 1 /\ k - 1 \in Nat
  OBVIOUS
<1>2. /\ \A m \in 1 .. Len(samples) : samples[m] \in Sample /\ samples[m].at \in Nat
      /\ k > 1 => samples[k - 1].at <= samples[k].at
  <2>1. \A m \in 1 .. Len(samples) : samples[m] \in Sample
    OBVIOUS
  <2>2. \A m \in 1 .. Len(samples) : samples[m].at \in Nat
    BY <2>1 DEF Sample
  <2>3. k > 1 => k - 1 \in DOMAIN samples /\ k \in DOMAIN samples /\ k - 1 <= k
    OBVIOUS
  <2> QED BY <2>1, <2>2, <2>3 DEF InOrder
<1>3. new = old \cup (IF k - K + 1 \in 1 .. k /\ \A m \in k - K + 1 .. k : Fine(m)
                     THEN {k - K + 1} ELSE {})
  <2>1. old = {n \in 1 .. k - 1 : n + K - 1 <= k - 1 /\ \A m \in n .. n + K - 1 : Fine(m)}
    BY DEF StreaksUpTo
  <2>2. new = {n \in 1 .. k : n + K - 1 <= k /\ \A m \in n .. n + K - 1 : Fine(m)}
    BY DEF StreaksUpTo
  <2> HIDE DEF Fine, old, new, K
  <2>3. ASSUME NEW n
        PROVE  n \in new <=> n \in old \/ ( /\ n = k - K + 1 /\ n \in 1 .. k
                                            /\ \A m \in k - K + 1 .. k : Fine(m))
    <3>1. CASE n = k - K + 1
      <4>1. n + K - 1 = k /\ ~ (n + K - 1 <= k - 1)
        BY ONLY <1>0, <1>1, <3>1
      <4> QED BY <2>1, <2>2, <3>1, <4>1
    <3>2. CASE n # k - K + 1 /\ n \in 1 .. k
      <4>1. n + K - 1 <= k <=> n + K - 1 <= k - 1
        BY ONLY <1>0, <1>1, <3>2
      <4>2. n + K - 1 <= k - 1 => n \in 1 .. k - 1
        BY ONLY <1>0, <1>1, <3>2
      <4> QED BY <2>1, <2>2, <3>2, <4>1, <4>2
    <3>3. CASE n # k - K + 1 /\ n \notin 1 .. k
      <4>1. n \notin 1 .. k - 1
        BY ONLY <1>0, <3>3
      <4> QED BY <2>1, <2>2, <3>3, <4>1
    <3> QED BY <3>1, <3>2, <3>3
  <2> QED BY <2>3
<1>4. \A n \in old : n \in Nat /\ n < k - K + 1
  <2>1. \A n \in old : n \in 1 .. k - 1 /\ n + K - 1 <= k - 1
    BY DEF StreaksUpTo
  <2> HIDE DEF old, K
  <2> QED BY ONLY <1>0, <1>1, <2>1
<1>5. /\ old # {} => found.at = samples[Min(old)].at
      /\ old = {} => found.at = None
      /\ old = {} /\ (k - 1 = 0 \/ samples[k - 1].at <= limit) =>
            /\ r <= k - 1 /\ r < K
            /\ \A m \in (k - 1) - r + 1 .. k - 1 : Fine(m)
            /\ r = k - 1 \/ ~ Fine((k - 1) - r)
            /\ r > 0 => found.start = samples[(k - 1) - r + 1].at
  BY DEF Knows
<1> USE DEF None
<1>6. new \subseteq Nat
  <2> HIDE DEF old, new, K, Fine
  <2> QED BY <1>3, <1>4, <1>0
<1>7. ~ Fine(k) => new = old
  <2> HIDE DEF old, new, K, Fine
  <2>1. k \in k - K + 1 .. k
    BY ONLY <1>0, <1>1
  <2> QED BY <1>3, <2>1
<1>8. CASE old # {}
  <2> HIDE DEF old, new, K, Fine
  <2>1. Min(old) \in old /\ \A n \in old : Min(old) <= n
    BY <1>4, <1>8, MinIs
  <2>2. new # {} /\ Min(new) \in new /\ \A n \in new : Min(new) <= n
    BY <1>3, <1>6, <1>8, MinIs
  <2>3. Min(new) = Min(old)
    <3>1. Min(new) \in Nat /\ Min(old) \in Nat /\ Min(new) <= Min(old) /\ Min(old) < k - K + 1
      BY <1>3, <1>4, <1>6, <2>1, <2>2
    <3>2. Min(new) \in old \/ Min(new) = k - K + 1
      BY <1>3, <2>2
    <3>3. CASE Min(new) \in old
      <4>1. Min(old) <= Min(new)
        BY <2>1, <3>3
      <4> QED BY ONLY <3>1, <4>1
    <3>4. CASE Min(new) = k - K + 1
      BY ONLY <3>1, <3>4, <1>0, <1>1
    <3> QED BY <3>2, <3>3, <3>4
  <2>4. found.at = samples[Min(old)].at /\ found.at # None
    <3>1. Min(old) \in 1 .. Len(samples)
      <4>1. Min(old) \in 1 .. k - 1
        BY <2>1 DEF old, StreaksUpTo
      <4> QED BY <4>1
    <3> QED BY <1>2, <1>5, <1>8, <3>1
  <2>5. next = found
    BY <2>4 DEF Stepped
  <2> HIDE DEF next
  <2>6. Knows(k, next, samples, appliedAt, forkedAt)
    BY <2>2, <2>3, <2>4, <2>5 DEF Knows, new
  <2> QED BY <2>6 DEF next
<1>9. CASE old = {} /\ samples[k].at > limit
  <2>1. ~ Fine(k) /\ ~ (samples[k].at <= limit)
    <3>1. samples[k].at \in Nat
      BY <1>2
    <3> QED BY <1>1, <1>9, <3>1 DEF Good
  <2> HIDE DEF old, Fine
  <2>2. new = {}
    BY <1>7, <1>9, <2>1
  <2>3. next = found
    BY <1>9 DEF Stepped
  <2> HIDE DEF next, new
  <2>4. Knows(k, next, samples, appliedAt, forkedAt)
    <3>1. k # 0
      BY <1>0
    <3> QED BY <1>5, <1>9, <2>1, <2>2, <2>3, <3>1 DEF Knows, new
  <2> QED BY <2>4 DEF next
<1>10. CASE old = {} /\ samples[k].at <= limit /\ ~ Fine(k)
  <2>1. ~ (samples[k].at > limit) /\ found.at = None
    <3>1. samples[k].at \in Nat
      BY <1>2
    <3> HIDE DEF old, new, K, Fine, next
    <3>2. found.at = None
      BY <1>5, <1>10
    <3>3. ~ (samples[k].at > limit)
      BY ONLY <1>1, <1>10, <3>1
    <3> QED BY <3>2, <3>3
  <2>2. samples[k].at < forkedAt + WarmUp \/ ~ samples[k].healthy
    <3>1. samples[k].at \in Nat
      BY <1>2
    <3> QED BY <1>10, <3>1 DEF Good
  <2>3. next = Begin
    BY <2>1, <2>2 DEF Stepped, Begin
  <2> HIDE DEF next, new, old
  <2>4. new = {}
    BY <1>7, <1>10
  <2>5. Knows(k, next, samples, appliedAt, forkedAt)
    <3>1. next.run = 0 /\ next.at = None
      BY <2>3 DEF Begin
    <3>2. 0 <= k /\ 0 < AtLeastOne /\ k - 0 = k /\ k - 0 + 1 .. k = {}
      BY <1>0, <1>1
    <3> QED BY <1>10, <2>4, <3>1, <3>2 DEF Knows, new
  <2> QED BY <2>5 DEF next
<1>11. CASE old = {} /\ samples[k].at <= limit /\ Fine(k)
  <2>1. /\ ~ (samples[k].at > limit) /\ found.at = None
        /\ ~ (samples[k].at < forkedAt + WarmUp) /\ samples[k].healthy
    <3>1. samples[k].at \in Nat
      BY <1>2
    <3>2. ~ (samples[k].at < forkedAt + WarmUp) /\ samples[k].healthy
      BY <1>11, <3>1 DEF Good
    <3> HIDE DEF old, new, K, Fine, next
    <3>3. found.at = None
      BY <1>5, <1>11
    <3>4. ~ (samples[k].at > limit)
      BY ONLY <1>1, <1>11, <3>1
    <3> QED BY <3>2, <3>3, <3>4
  <2> DEFINE start == IF found.run = 0 THEN samples[k].at ELSE found.start
  <2>2. next = [run |-> r + 1, start |-> start,
                at |-> IF r + 1 >= Streak THEN start ELSE None]
    BY <2>1 DEF Stepped
  <2>3. r + 1 >= Streak <=> r + 1 >= K
    BY <1>1 DEF AtLeastOne
  <2> HIDE DEF next, new, old, K, Fine
  <2>4. k - 1 = 0 \/ samples[k - 1].at <= limit
    <3>1. k > 1 => k - 1 \in 1 .. Len(samples)
      BY <1>0
    <3>2. CASE k > 1
      <4>1. samples[k - 1].at \in Nat /\ samples[k].at \in Nat /\ samples[k - 1].at <= samples[k].at
        BY <1>2, <3>1, <3>2
      <4>2. samples[k].at <= limit /\ limit \in Int
        BY <1>1, <1>11
      <4> DEFINE last == samples[k - 1].at
                 this == samples[k].at
      <4>3. last \in Nat /\ this \in Nat /\ last <= this /\ this <= limit
        BY <4>1, <4>2
      <4> HIDE DEF limit, last, this
      <4>4. last <= limit
        BY ONLY <4>2, <4>3
      <4> QED BY <4>4 DEF last
    <3>3. CASE ~ (k > 1)
      BY <1>0, <3>3
    <3> QED BY <3>2, <3>3
  <2>5. /\ r <= k - 1 /\ r < K
        /\ \A m \in (k - 1) - r + 1 .. k - 1 : Fine(m)
        /\ r = k - 1 \/ ~ Fine((k - 1) - r)
        /\ r > 0 => found.start = samples[(k - 1) - r + 1].at
    BY <1>5, <1>11, <2>4
  <2>6. start = samples[k - r].at
    <3>1. (k - 1) - r + 1 = k - r /\ k - 0 = k
      BY <1>0, <1>1
    <3>2. r = 0 \/ r > 0
      BY <1>1
    <3> QED BY <2>5, <3>1, <3>2
  <2>7. \A m \in k - r .. k : Fine(m)
    <3> SUFFICES ASSUME NEW m \in k - r .. k PROVE Fine(m)
      OBVIOUS
    <3>1. m = k \/ m \in (k - 1) - r + 1 .. k - 1
      BY ONLY <1>0, <1>1, m \in k - r .. k
    <3> QED BY <1>11, <2>5, <3>1
  <2> HIDE DEF start, limit, r
  <2>8. CASE r + 1 >= K
    <3>1. r + 1 = K /\ k - K + 1 = k - r /\ k - r \in 1 .. k
      BY ONLY <1>0, <1>1, <2>5, <2>8
    <3>2. new = {k - r}
      BY <1>3, <1>11, <2>7, <3>1
    <3>3. Min(new) = k - r
      BY <1>6, <3>2, MinIs
    <3>4. next.at = samples[Min(new)].at /\ new # {}
      BY <2>2, <2>3, <2>6, <2>8, <3>2, <3>3
    <3> QED BY <3>4 DEF Knows, new, next
  <2>9. CASE ~ (r + 1 >= K)
    <3>1. r + 1 \in Nat /\ r + 1 < K /\ r + 1 <= k
      BY ONLY <1>0, <1>1, <2>5, <2>9
    <3>2. new = {}
      <4>1. ASSUME k - K + 1 \in 1 .. k, \A m \in k - K + 1 .. k : Fine(m)
            PROVE  FALSE
        <5>1. (k - 1) - r \in k - K + 1 .. k
          BY ONLY <1>0, <1>1, <3>1, <4>1
        <5>2. r # k - 1
          BY ONLY <1>0, <1>1, <3>1, <4>1
        <5> QED BY <2>5, <4>1, <5>1, <5>2
      <4> QED BY <1>3, <1>11, <4>1
    <3>3. next.at = None /\ next.run = r + 1 /\ next.start = start
      BY <2>2, <2>3, <2>9
    <3>4. \A m \in k - (r + 1) + 1 .. k : Fine(m)
      <4>1. k - (r + 1) + 1 = k - r
        BY ONLY <1>0, <1>1
      <4> QED BY <2>7, <4>1
    <3>5. r + 1 = k \/ ~ Fine(k - (r + 1))
      <4>1. (k - 1) - r = k - (r + 1) /\ (r = k - 1 => r + 1 = k)
        BY ONLY <1>0, <1>1
      <4> QED BY <2>5, <4>1
    <3>6. start = samples[k - (r + 1) + 1].at
      <4>1. k - (r + 1) + 1 = k - r
        BY ONLY <1>0, <1>1
      <4> QED BY <2>6, <4>1
    <3> DEFINE q == r + 1
    <3>7. next.run = q /\ q <= k /\ q < K
      BY <3>1, <3>3
    <3>8. (\A m \in k - q + 1 .. k : Fine(m)) /\ (q = k \/ ~ Fine(k - q))
          /\ next.start = samples[k - q + 1].at
      BY <3>3, <3>4, <3>5, <3>6
    <3> HIDE DEF q
    <3>9. Knows(k, next, samples, appliedAt, forkedAt)
      BY <3>2, <3>3, <3>7, <3>8 DEF Knows, new, K, Fine
    <3> QED BY <3>9 DEF next
  <2> QED BY <2>8, <2>9
<1>12. samples[k].at > limit \/ samples[k].at <= limit
  <2>1. samples[k].at \in Nat
    BY <1>2
  <2> QED BY <1>1, <2>1
<1> QED BY <1>8, <1>9, <1>10, <1>11, <1>12

(* The search finds the first streak.                                      *)
LEMMA DetectionIsFirstStreak ==
  ASSUME NEW samples \in Seq(Sample), InOrder(samples), NEW appliedAt \in Int,
         NEW forkedAt \in Int,
         NEW streaks, streaks = StreaksUpTo(Len(samples), samples, appliedAt, forkedAt)
  PROVE  DetectRecovery(samples, appliedAt, forkedAt) =
           IF streaks = {} THEN None ELSE Max({0, samples[Min(streaks)].at - appliedAt})
<1>1. PICK state :
        /\ state[0] = Begin
        /\ \A k \in 1 .. Len(samples) :
              state[k] = Stepped(state[k - 1], samples[k], appliedAt, forkedAt)
        /\ \A k \in 0 .. Len(samples) : state[k] \in Finding
        /\ DetectRecovery(samples, appliedAt, forkedAt) =
              IF state[Len(samples)].at = None THEN None
              ELSE Max({0, state[Len(samples)].at - appliedAt})
  BY DetectionRuns
<1> DEFINE n == Len(samples)
           good == {k \in 0 .. n : Knows(k, state[k], samples, appliedAt, forkedAt)}
<1>2. n \in Nat
  OBVIOUS
<1>3. 0 \in good
  BY <1>1, <1>2, KnowsAtFirst
<1>4. ASSUME NEW k \in 1 .. n, k - 1 \in good
      PROVE  k \in good
  <2>1. k \in 0 .. n /\ k - 1 \in 0 .. n
    BY <1>2
  <2>2. Knows(k, Stepped(state[k - 1], samples[k], appliedAt, forkedAt), samples, appliedAt, forkedAt)
    BY <1>1, <1>4, <2>1, KnowsNext
  <2> QED BY <1>1, <2>1, <2>2
<1>5. n \in good
  <2> HIDE DEF good, n
  <2>1. \A k \in 0 .. n : k \in good
    BY <1>2, <1>3, <1>4, Climb
  <2> QED BY <1>2, <2>1
<1>6. /\ streaks # {} => state[n].at = samples[Min(streaks)].at
      /\ streaks = {} => state[n].at = None
  BY <1>5 DEF Knows
<1>7. streaks # {} => samples[Min(streaks)].at # None
  <2> SUFFICES ASSUME streaks # {} PROVE samples[Min(streaks)].at # None
    OBVIOUS
  <2>1. streaks \subseteq 1 .. n
    BY DEF StreaksUpTo
  <2>2. Min(streaks) \in 1 .. n
    BY <2>1, MinIs
  <2>3. samples[Min(streaks)] \in Sample
    BY <2>2
  <2> QED BY <2>3 DEF Sample, None
<1> QED BY <1>1, <1>6, <1>7
-----------------------------------------------------------------------------
(***************************************************************************)
(* The dependents of a workload, and sums over them.                       *)
(***************************************************************************)
(* All dependents of a workload are services (reachable_set).              *)
LEMMA ReachableSetIsOfServices ==
  ASSUME NEW service
  PROVE  ReachableSet(service) \subseteq Services
<1> DEFINE N == Cardinality(Services)
           first == Dependents({service})
           D == 1 .. N
           V == SUBSET Services
           Steps(st) == st = [n \in 0 .. N |->
                                IF n = 0 THEN first ELSE st[n - 1] \cup Dependents(st[n - 1])]
           chosen == CHOOSE st : Steps(st)
<1>1. N \in Nat
  BY FS_CardinalityType
<1>2. first \in V /\ \A v \in V : v \cup Dependents(v) \in V
  BY DEF Dependents
<1>3. \E st : Steps(st)
  <2> DEFINE pick == [s \in SUBSET D |-> Max(s)]
             step == [q \in D \X V |-> q[2] \cup Dependents(q[2])]
  <2>1. \A s \in SUBSET D : s # {} => pick[s] \in s
    <3> SUFFICES ASSUME NEW s \in SUBSET D, s # {} PROVE Max(s) \in s
      OBVIOUS
    <3> QED BY <1>1, MaxIs
  <2>2. step \in [D \X V -> V]
    BY <1>2
  <2>3. IsFiniteSet(D)
    <3> HIDE DEF N
    <3> QED BY <1>1, IntervalCounts
  <2>4. PICK it \in [SUBSET D -> V] : FoldedBy(it, D, first, pick, step)
    <3> HIDE DEF pick, step, D, V, first
    <3> QED BY <1>2, <2>1, <2>2, <2>3, FoldExists
  <2> DEFINE st == [n \in 0 .. N |-> it[1 .. n]]
  <2>5. ASSUME NEW n \in 0 .. N
        PROVE  st[n] = IF n = 0 THEN first ELSE st[n - 1] \cup Dependents(st[n - 1])
    <3>1. CASE n = 0
      <4>1. 1 .. n = {} /\ {} \in SUBSET D
        BY <3>1
      <4>2. it[{}] = first
        BY <2>4, <4>1 DEF FoldedBy
      <4> QED BY <3>1, <4>1, <4>2
    <3>2. CASE n # 0
      <4>1. n \in Nat /\ n - 1 \in 0 .. N /\ n \in D
        BY <1>1, <3>2
      <4>2. 1 .. n \in SUBSET D /\ 1 .. (n - 1) \in SUBSET D
        BY <1>1, <4>1
      <4>3. 1 .. n # {} /\ Max(1 .. n) = n /\ (1 .. n) \ {n} = 1 .. (n - 1)
        BY <3>2, <4>1, LastOfInterval
      <4>4. pick[1 .. n] = n
        BY <4>2, <4>3
      <4>5. it[1 .. (n - 1)] \in V
        BY <2>4, <4>2
      <4>6. step[<<n, it[1 .. (n - 1)]>>] = it[1 .. (n - 1)] \cup Dependents(it[1 .. (n - 1)])
        BY <4>1, <4>5
      <4> HIDE DEF pick, step, D, V, first
      <4>7. it[1 .. n] = step[<<n, it[1 .. (n - 1)]>>]
        BY <2>4, <4>2, <4>3, <4>4 DEF FoldedBy
      <4> QED BY <3>2, <4>1, <4>6, <4>7
    <3> QED BY <3>1, <3>2
  <2>6. Steps(st)
    <3>1. st = [n \in 0 .. N |-> st[n]]
      OBVIOUS
    <3> HIDE DEF st, first
    <3> QED BY <2>5, <3>1
  <2> QED BY <2>6
<1>4. Steps(chosen)
  BY <1>3
<1>5. ReachableSet(service) = chosen[N]
  BY DEF ReachableSet
<1> HIDE DEF chosen
<1>6. chosen[N] \in V
  <2> DEFINE good == {n \in 0 .. N : chosen[n] \in V}
  <2>1. 0 \in good
    <3> HIDE DEF first, V, N
    <3>1. 0 \in 0 .. N
      BY <1>1
    <3>2. chosen[0] = first
      BY <1>4, <3>1
    <3> QED BY <1>2, <3>1, <3>2
  <2>2. ASSUME NEW n \in 1 .. N, n - 1 \in good
        PROVE  n \in good
    <3>1. n \in 0 .. N /\ n # 0
      BY <1>1
    <3>2. chosen[n] = chosen[n - 1] \cup Dependents(chosen[n - 1])
      BY <1>4, <3>1
    <3> QED BY <1>2, <2>2, <3>1, <3>2
  <2> HIDE DEF good
  <2>3. N \in good
    <3>1. \A n \in 0 .. N : n \in good
      BY <1>1, <2>1, <2>2, Climb
    <3> QED BY <1>1, <3>1
  <2> QED BY <2>3 DEF good
<1> QED BY <1>5, <1>6

(* The dependents of a plan are services, and finitely many.               *)
LEMMA ReachableIsOfServices ==
  ASSUME NEW p \in Plans
  PROVE  Reachable[p] \subseteq Services /\ IsFiniteSet(Reachable[p])
<1>1. Reachable[p] \subseteq Services
  BY ReachableSetIsOfServices DEF Reachable
<1> QED BY <1>1, FS_Subset

(* A sum over a set, of the values of a function.                          *)
Picked(s) == CHOOSE x \in s : TRUE

SumsBy(it, S, f) ==
  it = [s \in SUBSET S |-> IF s = {} THEN 0 ELSE f[Picked(s)] + it[s \ {Picked(s)}]]

(* A sum over a finite set exists, and is where its summands are, in a set *)
(* of numbers that is closed under addition.                               *)
LEMMA SumIs ==
  ASSUME NEW S, IsFiniteSet(S), NEW V, V \subseteq Int, 0 \in V,
         \A m, n \in V : m + n \in V, NEW f \in [S -> V]
  PROVE  (\E it : SumsBy(it, S, f)) /\ (\A it : SumsBy(it, S, f) => it[S] \in V)
<1>1. \E it : SumsBy(it, S, f)
  <2> DEFINE pick == [s \in SUBSET S |-> Picked(s)]
             step == [q \in S \X V |-> f[q[1]] + q[2]]
  <2>1. \A s \in SUBSET S : s # {} => pick[s] \in s
    BY DEF Picked
  <2>2. step \in [S \X V -> V]
    OBVIOUS
  <2>3. PICK it \in [SUBSET S -> V] : FoldedBy(it, S, 0, pick, step)
    <3> HIDE DEF pick, step
    <3> QED BY <2>1, <2>2, FoldExists
  <2>4. ASSUME NEW s \in SUBSET S, s # {}
        PROVE  step[<<pick[s], it[s \ {pick[s]}]>>] = f[Picked(s)] + it[s \ {Picked(s)}]
    <3>1. pick[s] = Picked(s) /\ Picked(s) \in S
      BY <2>1, <2>4
    <3>2. it[s \ {Picked(s)}] \in V
      BY <2>3
    <3> QED BY <3>1, <3>2
  <2> HIDE DEF pick, step
  <2>5. it = [s \in SUBSET S |-> IF s = {} THEN 0 ELSE step[<<pick[s], it[s \ {pick[s]}]>>]]
    BY <2>3 DEF FoldedBy
  <2>6. \A s \in SUBSET S : it[s] = IF s = {} THEN 0 ELSE f[Picked(s)] + it[s \ {Picked(s)}]
    BY <2>4, <2>5
  <2>7. it = [s \in SUBSET S |-> it[s]]
    BY <2>3
  <2>8. SumsBy(it, S, f)
    BY <2>6, <2>7 DEF SumsBy
  <2> QED BY <2>8
<1>2. ASSUME NEW it, SumsBy(it, S, f)
      PROVE  it[S] \in V
  <2> DEFINE good == {k \in Nat : \A s \in SUBSET S : Cardinality(s) = k => it[s] \in V}
  <2>1. 0 \in good
    <3> SUFFICES ASSUME NEW s \in SUBSET S, Cardinality(s) = 0 PROVE it[s] \in V
      OBVIOUS
    <3>1. s = {}
      BY FS_Subset, FS_EmptySet
    <3> QED BY <1>2, <3>1 DEF SumsBy
  <2>2. Cardinality(S) \in Nat
    BY FS_CardinalityType
  <2>3. ASSUME NEW k \in 1 .. Cardinality(S), k - 1 \in good
        PROVE  k \in good
    <3> SUFFICES ASSUME NEW s \in SUBSET S, Cardinality(s) = k PROVE it[s] \in V
      BY <2>2
    <3>1. s # {} /\ IsFiniteSet(s)
      BY <2>2, FS_Subset, FS_EmptySet
    <3>2. Picked(s) \in s
      BY <3>1 DEF Picked
    <3>3. Cardinality(s \ {Picked(s)}) = k - 1
      BY <3>1, <3>2, FS_RemoveElement
    <3>4. it[s \ {Picked(s)}] \in V
      BY <2>3, <3>3
    <3>5. f[Picked(s)] \in V
      BY <3>2
    <3>6. it[s] = f[Picked(s)] + it[s \ {Picked(s)}]
      BY <1>2, <3>1 DEF SumsBy
    <3> QED BY <3>4, <3>5, <3>6
  <2> HIDE DEF good
  <2>4. Cardinality(S) \in good
    <3>1. \A k \in 0 .. Cardinality(S) : k \in good
      BY <2>1, <2>2, <2>3, Climb
    <3> QED BY <2>2, <3>1
  <2> QED BY <2>4 DEF good
<1> QED BY <1>1, <1>2

(* The share of some services.                                             *)
LEMMA TotalShareIsNat ==
  ASSUME NEW S, S \subseteq Services
  PROVE  TotalShare(S) \in Nat
<1> DEFINE f == [s \in S |-> Share[s]]
           Folds(it) == it = [s \in SUBSET S |-> IF s = {} THEN 0
                                ELSE LET x == CHOOSE x \in s : TRUE IN Share[x] + it[s \ {x}]]
           fold == CHOOSE it : Folds(it)
<1>1. IsFiniteSet(S) /\ f \in [S -> Nat]
  BY FS_Subset
<1>2. TotalShare(S) = fold[S]
  BY DEF TotalShare, MapThenSumSet, MapThenFoldSet
<1>3. ASSUME NEW it
      PROVE  Folds(it) <=> SumsBy(it, S, f)
  <2>1. \A s \in SUBSET S : s # {} => f[Picked(s)] = Share[Picked(s)]
    BY DEF Picked
  <2> HIDE DEF f
  <2> QED BY <2>1 DEF SumsBy, Picked
<1>4. (\E it : SumsBy(it, S, f)) /\ (\A it : SumsBy(it, S, f) => it[S] \in Nat)
  <2>1. Nat \subseteq Int /\ 0 \in Nat /\ \A m, n \in Nat : m + n \in Nat
    OBVIOUS
  <2> HIDE DEF f
  <2> QED BY <1>1, <2>1, SumIs
<1> HIDE DEF Folds
<1> QED BY <1>2, <1>3, <1>4

(* The change of the errors of the dependents is a number.                 *)
LEMMA DownstreamIsInt ==
  ASSUME NEW p \in Plans, NEW pre \in Windows(p), NEW post \in Windows(p)
  PROVE  DownstreamErrorDelta(p, pre, post) \in Int
<1> DEFINE S == Reachable[p]
           W(x) == Share[x] * (ErrorRate(post[x]) - ErrorRate(pre[x]))
           f == [s \in S |-> W(s)]
           Folds(it) == it = [s \in SUBSET S |-> IF s = {} THEN 0
                                ELSE LET x == CHOOSE x \in s : TRUE IN W(x) + it[s \ {x}]]
           fold == CHOOSE it : Folds(it)
<1>1. S \subseteq Services /\ IsFiniteSet(S)
  BY ReachableIsOfServices
<1>2. f \in [S -> Int]
  <2> SUFFICES ASSUME NEW x \in S PROVE W(x) \in Int
    OBVIOUS
  <2>1. Share[x] \in Int
    BY <1>1
  <2>2. ErrorRate(post[x]) - ErrorRate(pre[x]) \in Int
    BY DEF ErrorRate
  <2> QED BY <2>1, <2>2
<1>3. DownstreamErrorDelta(p, pre, post) =
        IF TotalShare(S) = 0 THEN 0 ELSE fold[S] \div TotalShare(S)
  BY DEF DownstreamErrorDelta, MapThenSumSet, MapThenFoldSet
<1>4. ASSUME NEW it
      PROVE  Folds(it) <=> SumsBy(it, S, f)
  <2>1. \A s \in SUBSET S : s # {} => f[Picked(s)] = W(Picked(s))
    BY DEF Picked
  <2> HIDE DEF f, W
  <2> QED BY <2>1 DEF SumsBy, Picked
<1>5. (\E it : SumsBy(it, S, f)) /\ (\A it : SumsBy(it, S, f) => it[S] \in Int)
  <2>1. Int \subseteq Int /\ 0 \in Int /\ \A m, n \in Int : m + n \in Int
    OBVIOUS
  <2> HIDE DEF f, S
  <2> QED BY <1>1, <1>2, <2>1, SumIs
<1> HIDE DEF Folds, S, f
<1>6. fold[S] \in Int
  BY <1>4, <1>5
<1>7. TotalShare(S) \in Nat
  BY <1>1, TotalShareIsNat
<1> HIDE DEF fold
<1> QED BY <1>3, <1>6, <1>7
-----------------------------------------------------------------------------
(***************************************************************************)
(* Scores.                                                                 *)
(***************************************************************************)
Evidence == [recovery : Nat \cup {None}, samples : Nat, blast : SUBSET Services,
             downstream : Int, drops : BOOLEAN]

(* The worst score is a number; its value does not matter.                 *)
LEMMA WorstIs == Worst \in Nat
BY SMT DEF Worst

(* A clamped number is between the bounds.                                 *)
LEMMA ClampIs ==
  ASSUME NEW n \in Int
  PROVE  Clamp(n, 0, Worst) \in 0 .. Worst
<1> USE WorstIs
<1>1. Max({n, 0}) = IF n >= 0 THEN n ELSE 0
  BY MaxOfPair
<1>2. Max({n, 0}) \in Nat
  BY <1>1
<1>3. Min({Max({n, 0}), Worst}) = IF Max({n, 0}) <= Worst THEN Max({n, 0}) ELSE Worst
  BY <1>2, MinOfPair
<1> QED BY <1>2, <1>3 DEF Clamp

(* A plan that is disqualified has the worst score there is.               *)
LEMMA CompositeIs ==
  ASSUME NEW e \in Evidence
  PROVE  /\ Composite(e) \in 0 .. Worst
         /\ Disqualified(e) <=> ~ Faithful(e)
         /\ ~ Faithful(e) => Composite(e) = Worst
<1> USE WorstIs
<1>1. Disqualified(e) <=> ~ Faithful(e)
  <2>1. RuntimeViolations(e) = 0 /\ e.samples \in Nat
    BY DEF RuntimeViolations, Evidence
  <2> QED BY <2>1 DEF Disqualified, Faithful, EvidenceComplete
<1>2. RecoverySubscore(e) \in 0 .. Worst
  <2>1. CASE e.recovery = None
    BY <2>1 DEF RecoverySubscore
  <2>2. CASE e.recovery # None
    <3>1. e.recovery \in Nat
      BY <2>2 DEF Evidence
    <3>2. (Worst * e.recovery) \div Timeout \in Int
      BY <3>1
    <3> QED BY <2>2, <3>2, ClampIs DEF RecoverySubscore
  <2> QED BY <2>1, <2>2
<1>3. BlastSubscore(e) \in 0 .. Worst
  <2>1. TotalShare(e.blast) \in Nat
    BY TotalShareIsNat DEF Evidence
  <2>2. 100 * TotalShare(e.blast) \in Int
    BY <2>1
  <2> QED BY <2>2, ClampIs DEF BlastSubscore
<1>4. DownstreamSubscore(e) \in 0 .. Worst
  <2>1. e.downstream \in Int
    BY DEF Evidence
  <2>2. (Worst * e.downstream) \div 10 \in Int
    BY <2>1
  <2> QED BY <2>2, ClampIs DEF DownstreamSubscore
<1>5. ViolationsSubscore(e) \in 0 .. Worst
  <2>1. (Worst * RuntimeViolations(e)) \div 5 = 0
    BY DEF RuntimeViolations
  <2>2. Min({0, Worst}) = 0
    BY MinOfPair
  <2>3. ViolationsSubscore(e) = 0
    BY <2>1, <2>2 DEF ViolationsSubscore
  <2> QED BY <2>3
<1>6. Composite(e) \in 0 .. Worst
  <2> DEFINE a == RecoverySubscore(e)
             b == BlastSubscore(e)
             c == DownstreamSubscore(e)
             d == ViolationsSubscore(e)
  <2>1. a \in 0 .. Worst /\ b \in 0 .. Worst /\ c \in 0 .. Worst /\ d \in 0 .. Worst
    BY <1>2, <1>3, <1>4, <1>5
  <2>2. Composite(e) = IF Disqualified(e) THEN Worst
                       ELSE (40 * a + 25 * b + 20 * c + 15 * d) \div 100
    BY DEF Composite
  <2> HIDE DEF a, b, c, d
  <2> DEFINE total == 40 * a + 25 * b + 20 * c + 15 * d
  <2>3. total \in 0 .. 100 * Worst
    BY <2>1
  <2> HIDE DEF total
  <2>4. total \div 100 \in 0 .. Worst
    BY <2>3
  <2> QED BY <2>2, <2>4 DEF total
<1> QED BY <1>1, <1>6 DEF Composite

(***************************************************************************)
(* The arbiter.                                                            *)
(***************************************************************************)
LEMMA ScoresAre ==
  ASSUME evidence \in [Plans -> Evidence], NEW p \in Plans
  PROVE  /\ Scores[p].composite = Composite(evidence[p])
         /\ Composite(evidence[p]) \in 0 .. Worst
         /\ Composite(evidence[p]) \in Nat
         /\ p \in Viable(Scores) <=> Faithful(evidence[p])
         /\ ~ Faithful(evidence[p]) => Composite(evidence[p]) = Worst
<1>1. /\ Composite(evidence[p]) \in 0 .. Worst
      /\ Disqualified(evidence[p]) <=> ~ Faithful(evidence[p])
      /\ ~ Faithful(evidence[p]) => Composite(evidence[p]) = Worst
  BY CompositeIs
<1>2. /\ Scores[p].composite = Composite(evidence[p])
      /\ Scores[p].disqualified = Disqualified(evidence[p])
  BY DEF Scores
<1>3. p \in Viable(Scores) <=> ~ Scores[p].disqualified
  BY DEF Viable
<1> QED BY <1>1, <1>2, <1>3, WorstIs

(* Some plans have a first one: it beats the others.                       *)
LEMMA FirstIs ==
  ASSUME evidence \in [Plans -> Evidence], NEW S, S \subseteq Plans, S # {}
  PROVE  /\ First(Scores, S) \in S
         /\ \A q \in S \ {First(Scores, S)} : Beats(Scores, First(Scores, S), q)
<1> DEFINE c(p) == Composite(evidence[p])
           costs == {c(p) : p \in S}
<1>1. \A p \in S : c(p) \in Nat /\ Scores[p].composite = c(p) /\ p \in Nat
  BY ScoresAre DEF Plans
<1> HIDE DEF c
<1>2. costs \subseteq Nat /\ costs # {}
  BY <1>1
<1>3. PICK m \in costs : \A n \in costs : m <= n
  <2> HIDE DEF costs
  <2> QED BY <1>2, HasLeast
<1> DEFINE cheapest == {p \in S : c(p) = m}
<1>4. cheapest \subseteq Nat /\ cheapest # {}
  BY <1>1, <1>3
<1>5. PICK p \in cheapest : \A q \in cheapest : p <= q
  <2> HIDE DEF cheapest
  <2> QED BY <1>4, HasLeast
<1>6. ASSUME NEW q \in S \ {p}
      PROVE  Beats(Scores, p, q)
  <2>1. c(p) \in Nat /\ c(q) \in Nat /\ p \in Nat /\ q \in Nat
    BY <1>1
  <2>2. c(p) <= c(q) /\ (c(q) = c(p) => p <= q)
    BY <1>3, <1>5
  <2>3. Scores[p].composite = c(p) /\ Scores[q].composite = c(q)
    BY <1>1
  <2> QED BY <2>1, <2>2, <2>3 DEF Beats
<1>7. \E f \in S : \A q \in S \ {f} : Beats(Scores, f, q)
  <2>1. p \in S
    OBVIOUS
  <2> QED BY <1>6, <2>1
<1> QED BY <1>7 DEF First

(* What the arbiter makes of the scores.                                   *)
LEMMA ArbitrationIsBest ==
  ASSUME evidence \in [Plans -> Evidence]
  PROVE  /\ \A p \in Plans : Arbitrate(Scores).winner = p <=> Better(p)
         /\ Arbitrate(Scores).outcome = "no_viable_candidate"
              <=> \A p \in Plans : ~ Faithful(evidence[p])
         /\ Arbitrate(Scores).winner \in Plans \cup {None}
         /\ Arbitrate(Scores).outcome \in {"no_viable_candidate", "ambiguous", "decided"}
<1> DEFINE c(p) == Composite(evidence[p])
           F(p) == Faithful(evidence[p])
           viable == Viable(Scores)
           top == First(Scores, viable)
           margin == Margin(Scores, viable, top)
<1>1. \A p \in Plans : /\ c(p) \in Nat /\ c(p) <= Worst
                       /\ Scores[p].composite = c(p)
                       /\ p \in viable <=> F(p)
                       /\ ~ F(p) => c(p) = Worst
  BY ScoresAre, WorstIs
<1>2. viable \subseteq Plans
  BY DEF Viable
<1>3. \A p \in Plans :
        Better(p) <=>
          /\ F(p)
          /\ \A q \in Plans \ {p} : F(q) => c(q) - c(p) >= AmbiguityMargin /\ (c(q) = c(p) => p < q)
          /\ Worst - c(p) >= AmbiguityMargin
  BY DEF Better
<1>4. /\ Arbitrate(Scores).winner = IF viable = {} \/ margin < AmbiguityMargin THEN None ELSE top
      /\ Arbitrate(Scores).outcome = IF viable = {} THEN "no_viable_candidate"
                                     ELSE IF Arbitrate(Scores).winner = None THEN "ambiguous" ELSE "decided"
  BY DEF Arbitrate, DeriveWinner
<1>5. \A p \in Plans : p \in Nat /\ p # None
  BY DEF Plans, None
<1> HIDE DEF c, F, viable
<1>6. CASE viable = {}
  <2>1. \A p \in Plans : ~ F(p)
    BY <1>1, <1>6
  <2>2. \A p \in Plans : ~ Better(p)
    BY <1>3, <2>1
  <2>3. /\ Arbitrate(Scores).winner = None
        /\ Arbitrate(Scores).outcome = "no_viable_candidate"
    BY <1>4, <1>6
  <2> QED BY <1>5, <2>1, <2>2, <2>3 DEF F
<1>7. CASE viable # {}
  <2>1. top \in viable /\ \A q \in viable \ {top} : Beats(Scores, top, q)
    BY <1>2, <1>7, FirstIs
  <2> HIDE DEF top
  <2>2. top \in Plans /\ F(top)
    BY <1>1, <1>2, <2>1
  <2>3. \A q \in viable \ {top} : c(top) <= c(q) /\ (c(q) = c(top) => top < q)
    <3> SUFFICES ASSUME NEW q \in viable \ {top}
                 PROVE  c(top) <= c(q) /\ (c(q) = c(top) => top < q)
      OBVIOUS
    <3>1. q \in Plans /\ c(q) \in Nat /\ c(top) \in Nat
      BY <1>1, <1>2, <2>2
    <3>2. c(top) < c(q) \/ (c(top) = c(q) /\ top < q)
      BY <1>1, <2>1, <2>2, <3>1 DEF Beats
    <3> QED BY <3>1, <3>2
  <2>4. ASSUME NEW p \in Plans, Better(p)
        PROVE  p = top
    <3> SUFFICES ASSUME p # top PROVE FALSE
      OBVIOUS
    <3>1. p \in viable \ {top} /\ F(top) /\ top \in Plans \ {p}
      BY <1>1, <1>3, <2>2, <2>4
    <3>2. c(top) - c(p) >= AmbiguityMargin /\ (c(top) = c(p) => p < top)
      BY <1>3, <2>4, <3>1
    <3>3. c(top) <= c(p) /\ (c(p) = c(top) => top < p)
      BY <2>3, <3>1
    <3>4. c(top) \in Nat /\ c(p) \in Nat /\ p \in Nat /\ top \in Nat /\ AmbiguityMargin \in Nat
      BY <1>1, <1>5, <2>2
    <3> QED BY ONLY <3>2, <3>3, <3>4
  <2>5. margin >= AmbiguityMargin <=> Better(top)
    <3> DEFINE others == IF viable = {top} THEN Plans \ {top} ELSE viable \ {top}
               second == First(Scores, others)
    <3>1. margin = IF others = {} THEN Worst - Scores[top].composite
                   ELSE Scores[second].composite - Scores[top].composite
      BY DEF Margin
    <3>2. c(top) \in Nat /\ c(top) <= Worst /\ Worst \in Nat /\ AmbiguityMargin \in Nat
          /\ Scores[top].composite = c(top)
      BY <1>1, <2>2, WorstIs
    <3>3. others # {} => /\ second \in others /\ second \in Plans
                         /\ \A q \in others \ {second} : Beats(Scores, second, q)
      <4>1. others \subseteq Plans
        BY <1>2
      <4> HIDE DEF others
      <4> QED BY <4>1, FirstIs
    <3> HIDE DEF margin, second
    <3>4. CASE viable = {top}
      <4>1. \A q \in Plans \ {top} : ~ F(q)
        BY <1>1, <3>4
      <4>2. Better(top) <=> Worst - c(top) >= AmbiguityMargin
        BY <1>3, <2>2, <4>1
      <4>3. margin = Worst - c(top)
        <5>1. CASE others = {}
          BY <3>1, <3>2, <5>1
        <5>2. CASE others # {}
          <6>1. second \in Plans \ {top}
            BY <3>3, <3>4, <5>2
          <6>2. Scores[second].composite = Worst
            BY <1>1, <4>1, <6>1
          <6> QED BY <3>1, <3>2, <5>2, <6>2
        <5> QED BY <5>1, <5>2
      <4> QED BY <4>2, <4>3
    <3>5. CASE viable # {top}
      <4>1. others = viable \ {top} /\ others # {}
        BY <2>1, <3>5
      <4>2. second \in viable \ {top} /\ second \in Plans
        BY <3>3, <4>1
      <4>3. c(second) \in Nat /\ c(second) <= Worst /\ Scores[second].composite = c(second)
        BY <1>1, <4>2
      <4>4. margin = c(second) - c(top)
        BY <3>1, <3>2, <4>1, <4>3
      <4>5. \A q \in viable \ {top} : c(q) \in Nat /\ c(second) <= c(q)
        <5> SUFFICES ASSUME NEW q \in viable \ {top} PROVE c(q) \in Nat /\ c(second) <= c(q)
          OBVIOUS
        <5>1. q \in Plans /\ c(q) \in Nat /\ Scores[q].composite = c(q)
          BY <1>1, <1>2
        <5>2. CASE q = second
          BY <4>3, <5>2
        <5>3. CASE q # second
          <6>1. Beats(Scores, second, q)
            BY <3>3, <4>1, <5>3
          <6> QED BY <4>3, <5>1, <6>1 DEF Beats
        <5> QED BY <5>1, <5>2, <5>3
      <4> HIDE DEF others
      <4>6. ASSUME margin >= AmbiguityMargin
            PROVE  Better(top)
        <5>1. \A q \in Plans \ {top} : F(q) => q \in viable \ {top}
          BY <1>1
        <5>2. ASSUME NEW q \in viable \ {top}
              PROVE  c(q) - c(top) >= AmbiguityMargin /\ (c(q) = c(top) => top < q)
          <6>1. c(q) \in Nat /\ c(second) <= c(q)
            BY <4>5
          <6>2. c(q) - c(top) >= AmbiguityMargin
            BY ONLY <3>2, <4>3, <4>4, <4>6, <6>1
          <6> QED BY <2>3, <6>2
        <5>3. Worst - c(top) >= AmbiguityMargin
          BY ONLY <3>2, <4>3, <4>4, <4>6
        <5> QED BY <1>3, <2>2, <5>1, <5>2, <5>3
      <4>7. ASSUME Better(top)
            PROVE  margin >= AmbiguityMargin
        <5>1. second \in Plans \ {top} /\ F(second)
          BY <1>1, <4>2
        <5> QED BY <1>3, <2>2, <4>4, <4>7, <5>1
      <4> QED BY <4>6, <4>7
    <3> QED BY <3>4, <3>5
  <2>6. margin < AmbiguityMargin <=> ~ (margin >= AmbiguityMargin)
    <3>1. margin \in Int
      <4> DEFINE others == IF viable = {top} THEN Plans \ {top} ELSE viable \ {top}
      <4>1. margin = IF others = {} THEN Worst - Scores[top].composite
                     ELSE Scores[First(Scores, others)].composite - Scores[top].composite
        BY DEF Margin
      <4>2. others # {} => First(Scores, others) \in Plans
        <5>1. others \subseteq Plans
          BY <1>2
        <5> HIDE DEF others
        <5> QED BY <5>1, FirstIs
      <4> HIDE DEF others, margin
      <4>3. Scores[top].composite \in Nat
        BY <1>1, <2>2
      <4>4. others # {} => Scores[First(Scores, others)].composite \in Nat
        BY <1>1, <4>2
      <4> QED BY <4>1, <4>3, <4>4, WorstIs
    <3> HIDE DEF margin
    <3>2. AmbiguityMargin \in Nat
      OBVIOUS
    <3> QED BY ONLY <3>1, <3>2
  <2> HIDE DEF margin
  <2>7. Arbitrate(Scores).winner = IF Better(top) THEN top ELSE None
    BY <1>4, <1>7, <2>5, <2>6
  <2>8. \A p \in Plans : Arbitrate(Scores).winner = p <=> Better(p)
    BY <1>5, <2>2, <2>4, <2>7
  <2>9. ~ \A p \in Plans : ~ F(p)
    BY <2>2
  <2> QED BY <1>4, <1>7, <2>2, <2>7, <2>8, <2>9 DEF F
<1> QED BY <1>6, <1>7
-----------------------------------------------------------------------------
(***************************************************************************)
(* Types.                                                                  *)
(***************************************************************************)
(* The levels are numbers.                                                 *)
LEMMA LevelsAre == Levels \subseteq Nat /\ NoData \in Levels /\ Quick \in Levels
BY DEF Levels, NoData, Quick, Slow, Failing

(* A window in which reads failed is still a window.                       *)
LEMMA WindowIsTyped ==
  ASSUME NEW p \in Plans, NEW levels \in Windows(p), NEW unread
  PROVE  Window(levels, unread) \in Windows(p)
BY LevelsAre DEF Window, Windows

(* A twin that showed nothing yet has its levels.                          *)
LEMMA NothingIsTyped ==
  ASSUME NEW p \in Plans
  PROVE  Nothing(p) \in Windows(p) /\ Silent(p) \in [Watched(p) -> Levels]
BY LevelsAre DEF Nothing, Silent, Windows

(* A recovery time is a number, or there is none.                          *)
LEMMA DetectionIsTyped ==
  ASSUME NEW samples \in Seq(Sample), NEW appliedAt \in Int, NEW forkedAt \in Int
  PROVE  DetectRecovery(samples, appliedAt, forkedAt) \in Nat \cup {None}
<1>1. PICK state :
        /\ \A k \in 0 .. Len(samples) : state[k] \in Finding
        /\ DetectRecovery(samples, appliedAt, forkedAt) =
              IF state[Len(samples)].at = None THEN None
              ELSE Max({0, state[Len(samples)].at - appliedAt})
  BY DetectionRuns
<1>2. state[Len(samples)] \in Finding
  <2>1. Len(samples) \in 0 .. Len(samples)
    OBVIOUS
  <2> QED BY <1>1, <2>1
<1>3. state[Len(samples)].at - appliedAt \in Int
  BY <1>2 DEF Finding
<1>4. Max({0, state[Len(samples)].at - appliedAt}) \in Nat
  BY <1>3, MaxWithZero
<1> QED BY <1>1, <1>4

(* The types without the ranking of the judge.                             *)
Times == now \in 0 .. Horizon
Stages == {"register", "apply", "observe", "judge", "decided", "failed"}
Twins == twin \in [Plans -> [ready : Nat, snapshot : Int]]
WindowsOf(i) == /\ before[i] \in Windows(i) /\ since[i] \in Windows(i) /\ base[i] \in Windows(i)
                /\ current[i] \in [Watched(i) -> Levels]
Loops == loop \in [Plans -> {"idle", "probing", "probed", "done"}]
Probing == /\ probes \in [Plans -> Seq(Sample)]
           /\ recovery \in [Plans -> Nat \cup {None}]
Results == /\ result.outcome \in {"none", "no_viable_candidate", "ambiguous", "decided"}
           /\ result.winner \in Plans \cup {None}

Typed ==
  /\ Times /\ stage \in Stages /\ Twins /\ \A i \in Plans : WindowsOf(i)
  /\ Loops /\ Probing /\ evidence \in [Plans -> Evidence] /\ Results

(* The first state has its types.                                          *)
LEMMA TypedAtFirst ==
  ASSUME Init
  PROVE  Typed
<1>1. Times /\ stage \in Stages /\ Loops /\ Probing /\ Results
  BY DEF Init, Times, Stages, Loops, Probing, Results, NoResult, None
<1>2. Twins
  <2>1. PICK age \in SnapshotAges :
          twin \in [Plans -> {[ready |-> r, snapshot |-> r - age] : r \in {0, 1}}]
    BY DEF Init
  <2>2. \A r \in {0, 1} : [ready |-> r, snapshot |-> r - age] \in [ready : Nat, snapshot : Int]
    <3>1. age \in Nat
      OBVIOUS
    <3> QED BY <3>1
  <2> QED BY <2>1, <2>2 DEF Twins
<1>3. ASSUME NEW i \in Plans
      PROVE  WindowsOf(i)
  <2>1. before[i] \in Windows(i)
    <3>1. PICK level \in [Plans -> {NoData, Quick}] :
            before = [j \in Plans |-> [s \in Reachable[j] |-> level[j]]]
      BY DEF Init
    <3>2. level[i] \in Levels
      BY LevelsAre
    <3> QED BY <3>1, <3>2 DEF Windows
  <2>2. since[i] = Nothing(i) /\ base[i] = Nothing(i) /\ current[i] = Silent(i)
    BY DEF Init
  <2> QED BY <2>1, <2>2, NothingIsTyped DEF WindowsOf
<1>4. evidence \in [Plans -> Evidence]
  BY DEF Init, NoEvidence, Evidence
<1> QED BY <1>1, <1>2, <1>3, <1>4 DEF Typed

(* Applying the plans keeps the types (apply_candidates).                  *)
LEMMA ApplyCandidatesIsTyped ==
  ASSUME Typed, NEW unread \in Unread, ApplyCandidates(unread)
  PROVE  Typed'
<1>1. Times' /\ stage' \in Stages /\ Loops' /\ Probing' /\ Results' /\ Twins'
  BY DEF Typed, ApplyCandidates, Times, Stages, Loops, Probing, Results, Twins, TwinsVars
<1>2. ASSUME NEW i \in Plans
      PROVE  WindowsOf(i)'
  <2>1. Window(before[i], unread[i]) \in Windows(i)
    BY WindowIsTyped DEF Typed, WindowsOf
  <2>2. /\ base'[i] = Window(before[i], unread[i]) /\ before' = before /\ since' = since
        /\ current' = current
    BY DEF ApplyCandidates, TwinsVars
  <2>3. WindowsOf(i)
    BY DEF Typed
  <2> QED BY <2>1, <2>2, <2>3 DEF WindowsOf, Windows
<1>3. evidence' \in [Plans -> Evidence]
  BY DEF ApplyCandidates, Typed
<1> QED BY <1>1, <1>2, <1>3 DEF Typed

(* A probe keeps the types (probe_environment).                            *)
LEMMA ProbeOnceIsTyped ==
  ASSUME Typed, NEW i \in Plans, NEW fetched \in BOOLEAN, ProbeOnce(i, fetched)
  PROVE  /\ Typed'
         /\ probes'[i] = Append(probes[i], SampleOnce(i, fetched))
         /\ recovery'[i] = IF recovery[i] # None THEN recovery[i]
                           ELSE DetectRecovery(probes'[i], TwinAppliedAt(i), twin[i].snapshot)
         /\ \A j \in Plans \ {i} : /\ probes'[j] = probes[j] /\ recovery'[j] = recovery[j]
                                   /\ loop'[j] = loop[j]
         /\ loop'[i] \in {"probing", "probed"}
<1> DEFINE samples == Append(probes[i], SampleOnce(i, fetched))
           found == IF recovery[i] # None THEN recovery[i]
                    ELSE DetectRecovery(samples, TwinAppliedAt(i), twin[i].snapshot)
<1>1. samples \in Seq(Sample)
  <2>1. SampleOnce(i, fetched) \in Sample
    BY DEF SampleOnce, Sample, Typed, Times
  <2> QED BY <2>1 DEF Typed, Probing
<1>2. found \in Nat \cup {None}
  <2>1. twin[i].ready \in Int /\ twin[i].snapshot \in Int /\ recovery[i] \in Nat \cup {None}
    BY DEF Typed, Twins, Probing
  <2> QED BY <1>1, <2>1, DetectionIsTyped DEF TwinAppliedAt
<1>3. /\ probes' = [probes EXCEPT ![i] = samples]
      /\ recovery' = [recovery EXCEPT ![i] = found]
      /\ \E to \in {"probing", "probed"} : loop' = [loop EXCEPT ![i] = to]
      /\ UNCHANGED <<now, stage, TwinsVars, base, evidence, ranking, result>>
  BY DEF ProbeOnce
<1> HIDE DEF samples, found
<1>4. Probing' /\ Loops'
  BY <1>1, <1>2, <1>3 DEF Typed, Probing, Loops
<1>5. Typed'
  BY <1>3, <1>4 DEF Typed, Times, Stages, Results, Twins, WindowsOf, TwinsVars
<1>6. /\ probes'[i] = samples /\ recovery'[i] = found /\ loop'[i] \in {"probing", "probed"}
      /\ \A j \in Plans \ {i} : /\ probes'[j] = probes[j] /\ recovery'[j] = recovery[j]
                                /\ loop'[j] = loop[j]
  BY <1>3 DEF Typed, Probing, Loops
<1> QED BY <1>5, <1>6 DEF samples, found

(* The evidence of a twin has its type (_rehearse_one).                    *)
LEMMA GatherIsTyped ==
  ASSUME Typed, NEW i \in Plans, NEW unread \in SUBSET Reachable[i], NEW drops \in BOOLEAN,
         Gather(i, unread, drops)
  PROVE  Typed'
<1> DEFINE post == Window(since[i], unread)
           gathered == [recovery |-> recovery[i], samples |-> Len(probes[i]),
                        blast |-> ObservedBlastSet(i, base[i], post),
                        downstream |-> DownstreamErrorDelta(i, base[i], post),
                        drops |-> drops]
<1>1. WindowsOf(i) /\ evidence[i] \in Evidence /\ recovery[i] \in Nat \cup {None}
      /\ probes[i] \in Seq(Sample)
  BY DEF Typed, Probing
<1>2. post \in Windows(i)
  BY <1>1, WindowIsTyped DEF WindowsOf
<1>3. gathered \in Evidence
  <2>1. ObservedBlastSet(i, base[i], post) \subseteq Services
    BY ReachableIsOfServices DEF ObservedBlastSet
  <2>2. DownstreamErrorDelta(i, base[i], post) \in Int
    BY <1>1, <1>2, DownstreamIsInt DEF WindowsOf
  <2>3. Len(probes[i]) \in Nat
    BY <1>1
  <2> HIDE DEF post
  <2> QED BY <1>1, <2>1, <2>2, <2>3 DEF Evidence
<1>4. evidence' = [evidence EXCEPT ![i] = gathered]
  BY DEF Gather, EvaluateEnvironment
<1> HIDE DEF gathered
<1>5. evidence' \in [Plans -> Evidence]
  BY <1>3, <1>4 DEF Typed
<1>6. Probing' /\ Loops'
  BY DEF Typed, Probing, Loops, Gather
<1>7. ASSUME NEW j \in Plans
      PROVE  WindowsOf(j)'
  <2>1. WindowsOf(j) /\ Nothing(j) \in Windows(j) /\ Silent(j) \in [Watched(j) -> Levels]
    BY NothingIsTyped DEF Typed
  <2>2. /\ before' = before
        /\ since' = [since EXCEPT ![i] = Nothing(i)] /\ base' = [base EXCEPT ![i] = Nothing(i)]
        /\ current' = [current EXCEPT ![i] = Silent(i)]
    BY DEF Gather
  <2>3. /\ since'[j] \in {since[j], Nothing(j)} /\ base'[j] \in {base[j], Nothing(j)}
        /\ current'[j] \in {current[j], Silent(j)}
    BY <2>2
  <2> QED BY <2>1, <2>2, <2>3 DEF WindowsOf
<1> QED BY <1>5, <1>6, <1>7 DEF Typed, Times, Stages, Results, Twins, Gather

(* The metrics have their types as time passes.                            *)
LEMMA TickIsTyped ==
  ASSUME Typed, Tick
  PROVE  Typed'
<1>1. Times'
  BY DEF Typed, Times, Tick
<1>2. ASSUME NEW i \in Plans
      PROVE  WindowsOf(i)'
  <2>1. WindowsOf(i) /\ Silent(i) \in [Watched(i) -> Levels]
    BY NothingIsTyped DEF Typed
  <2>2. current'[i] \in [Watched(i) -> Levels]
    <3> DEFINE levels == [Services -> IF stage = "register" THEN {NoData, Quick} ELSE Traffic]
    <3>1. PICK showing \in [Plans -> levels] :
            current' = [j \in Plans |-> IF loop[j] = "done" THEN Silent(j)
                                       ELSE [s \in Watched(j) |-> showing[j][s]]]
      BY DEF Tick
    <3>2. showing[i] \in levels /\ Watched(i) \subseteq Services
      BY ReachableIsOfServices DEF Watched
    <3>3. \A s \in Watched(i) : showing[i][s] \in Levels
      BY <3>2, LevelsAre
    <3> QED BY <2>1, <3>1, <3>3
  <2>3. since'[i] \in Windows(i)
    <3>1. since'[i] = [s \in Reachable[i] |-> Max({since[i][s], current'[i][s]})]
      BY DEF Tick
    <3>2. ASSUME NEW s \in Reachable[i]
          PROVE  Max({since[i][s], current'[i][s]}) \in Levels
      <4>1. since[i][s] \in Levels /\ current'[i][s] \in Levels
        BY <2>1, <2>2 DEF WindowsOf, Windows, Watched
      <4>2. Max({since[i][s], current'[i][s]}) \in {since[i][s], current'[i][s]}
        <5>1. since[i][s] \in Int /\ current'[i][s] \in Int
          <6>1. \A l \in Levels : l \in Int
            BY LevelsAre
          <6> QED BY <4>1, <6>1
        <5> QED BY <5>1, MaxOfPairIsOne
      <4> QED BY <4>1, <4>2
    <3> QED BY <3>1, <3>2 DEF Windows
  <2> QED BY <2>1, <2>2, <2>3 DEF WindowsOf, Tick, LoopVars
<1> QED BY <1>1, <1>2 DEF Typed, Stages, Results, Twins, Probing, Loops, Tick, LoopVars

(* Every step keeps the types.                                             *)
LEMMA TypedNext ==
  ASSUME Typed, [Next]_vars
  PROVE  Typed'
<1>1. CASE RegisterMirrors
  BY <1>1 DEF RegisterMirrors, TwinsVars, LoopVars,
     Typed, Times, Stages, Results, Twins, Probing, Loops, WindowsOf
<1>2. CASE Score
  BY <1>2 DEF Score, TwinsVars, LoopVars,
     Typed, Times, Stages, Results, Twins, Probing, Loops, WindowsOf
<1>3. ASSUME NEW advice, Decide(advice)
      PROVE  Typed'
  <2>1. Results'
    BY <1>3, ArbitrationIsBest DEF Decide, Typed, Results
  <2> QED BY <1>3, <2>1 DEF Decide, TwinsVars, LoopVars,
         Typed, Times, Stages, Twins, Probing, Loops, WindowsOf
<1>4. ASSUME NEW unread \in Unread, ApplyCandidates(unread)
      PROVE  Typed'
  BY <1>4, ApplyCandidatesIsTyped
<1>5. ASSUME NEW i \in Plans, NEW fetched \in BOOLEAN, ProbeOnce(i, fetched)
      PROVE  Typed'
  BY <1>5, ProbeOnceIsTyped
<1>6. ASSUME NEW i \in Plans, NEW unread \in SUBSET Reachable[i], NEW drops \in BOOLEAN,
             Gather(i, unread, drops)
      PROVE  Typed'
  BY <1>6, GatherIsTyped
<1>7. ASSUME NEW i \in Plans, StatsFail(i)
      PROVE  Typed'
  BY <1>7 DEF StatsFail, TwinsVars, LoopVars,
     Typed, Times, Stages, Results, Twins, Probing, Loops, WindowsOf
<1>8. CASE Tick
  BY <1>8, TickIsTyped
<1>9. CASE UNCHANGED vars
  BY <1>9 DEF vars, Typed, Times, Stages, Results, Twins, Probing, Loops, WindowsOf
<1>10. CASE \E i \in Plans :
             \/ \E fetched \in BOOLEAN : ProbeOnce(i, fetched)
             \/ \E unread \in SUBSET Reachable[i], drops \in BOOLEAN : Gather(i, unread, drops)
             \/ StatsFail(i)
  BY <1>5, <1>6, <1>7, <1>10
<1>11. CASE NoJudgement \/ \E answer \in Answers : JudgeAnswers(answer)
  BY <1>3, <1>11 DEF NoJudgement, JudgeAnswers
<1> QED
  BY <1>1, <1>2, <1>4, <1>8, <1>9, <1>10, <1>11 DEF Next
-----------------------------------------------------------------------------
(***************************************************************************)
(* The ranking of the judge.                                               *)
(***************************************************************************)
Added(kept, p) == IF p \in Plans /\ ~Contains(kept, p) THEN Append(kept, p) ELSE kept

NoTwice(kept) == \A m, n \in 1 .. Len(kept) : kept[m] = kept[n] => m = n

(* A name more keeps a ranking free of doubles.                            *)
LEMMA AddedIs ==
  ASSUME NEW kept \in Seq(Plans), NEW p
  PROVE  /\ Added(kept, p) \in Seq(Plans)
         /\ NoTwice(kept) => NoTwice(Added(kept, p))
         /\ p \in Plans => Contains(Added(kept, p), p)
         /\ \A q : Contains(kept, q) => Contains(Added(kept, p), q)
<1>1. CASE p \in Plans /\ ~ Contains(kept, p)
  <2> DEFINE new == Append(kept, p)
  <2>1. /\ new \in Seq(Plans) /\ Len(new) = Len(kept) + 1 /\ Len(kept) \in Nat
        /\ new[Len(kept) + 1] = p /\ \A k \in 1 .. Len(kept) : new[k] = kept[k]
    BY <1>1
  <2>2. \A k \in 1 .. Len(kept) : kept[k] # p
    BY <1>1 DEF Contains
  <2> HIDE DEF new
  <2>3. 1 .. Len(new) = (1 .. Len(kept)) \cup {Len(kept) + 1} /\ Len(kept) + 1 \notin 1 .. Len(kept)
    BY <2>1
  <2>4. NoTwice(kept) => NoTwice(new)
    BY <2>1, <2>2, <2>3 DEF NoTwice
  <2>5. Contains(new, p) /\ \A q : Contains(kept, q) => Contains(new, q)
    BY <2>1, <2>3 DEF Contains
  <2>6. Added(kept, p) = new
    BY <1>1 DEF Added, new
  <2> QED BY <2>1, <2>4, <2>5, <2>6
<1>2. CASE ~ (p \in Plans /\ ~ Contains(kept, p))
  BY <1>2 DEF Added
<1> QED BY <1>1, <1>2

(* The parser goes through the answer and then through all candidates.     *)
LEMMA ParsingRuns ==
  ASSUME NEW word, NEW n \in Nat, DOMAIN word = 1 .. n,
         NEW kept, kept = FoldLeft(Added, <<>>, word)
  PROVE  /\ kept \in Seq(Plans) /\ NoTwice(kept)
         /\ \A k \in 1 .. n : word[k] \in Plans => Contains(kept, word[k])
<1> DEFINE D == 1 .. n
           V == Seq(Plans)
           Folds(it) == it = [s \in SUBSET D |->
                                IF s = {} THEN <<>>
                                ELSE LET x == Max(s) IN Added(it[s \ {x}], word[x])]
           fold == CHOOSE it : Folds(it)
<1>1. \E it : Folds(it)
  <2> DEFINE pick == [s \in SUBSET D |-> Max(s)]
             step == [q \in D \X V |-> Added(q[2], word[q[1]])]
  <2>1. \A s \in SUBSET D : s # {} => pick[s] \in s
    <3> SUFFICES ASSUME NEW s \in SUBSET D, s # {} PROVE Max(s) \in s
      OBVIOUS
    <3> QED BY MaxIs
  <2>2. step \in [D \X V -> V]
    <3> SUFFICES ASSUME NEW q \in D \X V PROVE Added(q[2], word[q[1]]) \in V
      OBVIOUS
    <3> QED BY AddedIs
  <2>3. <<>> \in V /\ IsFiniteSet(D)
    BY FS_Interval
  <2> HIDE DEF D, V
  <2>4. PICK it \in [SUBSET D -> V] : FoldedBy(it, D, <<>>, pick, step)
    <3> HIDE DEF pick, step
    <3> QED BY <2>1, <2>2, <2>3, FoldExists
  <2>5. ASSUME NEW s \in SUBSET D, s # {}
        PROVE  step[<<pick[s], it[s \ {pick[s]}]>>] = Added(it[s \ {Max(s)}], word[Max(s)])
    <3>1. pick[s] = Max(s) /\ Max(s) \in D
      BY <2>1, <2>5
    <3>2. it[s \ {Max(s)}] \in V
      BY <2>4
    <3> QED BY <3>1, <3>2
  <2> HIDE DEF pick, step
  <2>6. \A s \in SUBSET D : it[s] = IF s = {} THEN <<>> ELSE Added(it[s \ {Max(s)}], word[Max(s)])
    BY <2>4, <2>5 DEF FoldedBy
  <2>7. Folds(it)
    BY <2>4, <2>6
  <2> QED BY <2>7
<1>2. Folds(fold)
  BY <1>1
<1>3. kept = fold[D]
  BY DEF FoldLeft, MapThenFoldSet
<1> HIDE DEF fold
<1>4. fold[{}] = <<>>
  BY <1>2
<1>5. ASSUME NEW k \in 1 .. n
      PROVE  fold[1 .. k] = Added(fold[1 .. (k - 1)], word[k])
  <2>1. 1 .. k \in SUBSET D /\ k \in Nat /\ k # 0
    OBVIOUS
  <2>2. 1 .. k # {} /\ Max(1 .. k) = k /\ (1 .. k) \ {k} = 1 .. (k - 1)
    BY <2>1, LastOfInterval
  <2> HIDE DEF D
  <2>3. fold[1 .. k] = LET x == Max(1 .. k) IN Added(fold[(1 .. k) \ {x}], word[x])
    BY <1>2, <2>1, <2>2
  <2> HIDE DEF Folds
  <2> QED BY <2>2, <2>3
<1> HIDE DEF Folds
<1> DEFINE good == {k \in 0 .. n :
                      /\ fold[1 .. k] \in Seq(Plans) /\ NoTwice(fold[1 .. k])
                      /\ \A m \in 1 .. k : word[m] \in Plans => Contains(fold[1 .. k], word[m])}
<1>6. 0 \in good
  <2>1. 1 .. 0 = {} /\ 0 \in 0 .. n
    OBVIOUS
  <2>2. fold[1 .. 0] = <<>>
    BY <1>4, <2>1
  <2>3. fold[1 .. 0] \in Seq(Plans) /\ NoTwice(fold[1 .. 0])
    BY <2>2 DEF NoTwice
  <2> QED BY <2>1, <2>3
<1>7. ASSUME NEW k \in 1 .. n, k - 1 \in good
      PROVE  k \in good
  <2> DEFINE old == fold[1 .. (k - 1)]
             new == fold[1 .. k]
  <2>1. old \in Seq(Plans) /\ NoTwice(old)
        /\ \A m \in 1 .. k - 1 : word[m] \in Plans => Contains(old, word[m])
    BY <1>7
  <2>2. new = Added(old, word[k])
    BY <1>5
  <2> HIDE DEF old, new
  <2>3. /\ new \in Seq(Plans) /\ NoTwice(new)
        /\ word[k] \in Plans => Contains(new, word[k])
        /\ \A q : Contains(old, q) => Contains(new, q)
    BY <2>1, <2>2, AddedIs
  <2>4. \A m \in 1 .. k : m = k \/ m \in 1 .. k - 1
    OBVIOUS
  <2>5. \A m \in 1 .. k : word[m] \in Plans => Contains(new, word[m])
    BY <2>1, <2>3, <2>4
  <2>6. k \in 0 .. n
    OBVIOUS
  <2> QED BY <2>3, <2>5, <2>6 DEF new
<1>8. n \in good
  <2> HIDE DEF good
  <2>1. \A k \in 0 .. n : k \in good
    BY <1>6, <1>7, Climb
  <2> QED BY <2>1
<1> QED BY <1>3, <1>8

(* Two sequences, one after the other.                                     *)
LEMMA ConcatIs ==
  ASSUME NEW S, NEW a \in Seq(S), NEW b \in Seq(S)
  PROVE  /\ Len(a) \in Nat /\ Len(a \o b) = Len(a) + Len(b)
         /\ DOMAIN (a \o b) = 1 .. Len(a) + Len(b)
         /\ \A k \in 1 .. Len(b) : (a \o b)[Len(a) + k] = b[k]
OBVIOUS

(* Whatever the judge answered, each candidate is ranked, once.            *)
LEMMA ParsedRankingIsRanking ==
  ASSUME NEW answer \in Seq(Int)
  PROVE  ParsedRanking(answer) \in Rankings
<1> DEFINE all == [m \in 1 .. Candidates |-> m - 1]
           word == answer \o all
           kept == FoldLeft(Added, <<>>, word)
<1>1. all \in Seq(Int) /\ Len(all) = Candidates
  BY DEF Plans
<1>2. Len(answer) \in Nat /\ Len(answer) + Candidates \in Nat
      /\ DOMAIN word = 1 .. Len(answer) + Candidates
      /\ \A p \in Plans : word[Len(answer) + (p + 1)] = p /\ Len(answer) + (p + 1) \in DOMAIN word
  <2> HIDE DEF all
  <2>1. Len(word) = Len(answer) + Candidates /\ Len(answer) \in Nat
    <3>1. Len(answer) \in Nat /\ Len(answer \o all) = Len(answer) + Len(all)
      BY <1>1, ConcatIs
    <3> QED BY <1>1, <3>1
  <2>2. DOMAIN word = 1 .. Len(answer) + Candidates
    BY <1>1, <2>1
  <2>3. ASSUME NEW p \in Plans
        PROVE  word[Len(answer) + (p + 1)] = p /\ Len(answer) + (p + 1) \in DOMAIN word
    <3>1. p + 1 \in 1 .. Candidates
      BY DEF Plans
    <3>2. Len(answer) + (p + 1) \in 1 .. Len(answer) + Candidates
      BY <2>1, <3>1
    <3>3. word[Len(answer) + (p + 1)] = all[p + 1]
      BY <1>1, <2>1, <3>1
    <3>4. all[p + 1] = p
      BY <3>1 DEF all, Plans
    <3> QED BY <2>2, <3>2, <3>3, <3>4
  <2> QED BY <2>1, <2>2, <2>3
<1>3. ParsedRanking(answer) = kept
  BY DEF ParsedRanking, Added
<1> HIDE DEF word
<1>4. /\ kept \in Seq(Plans) /\ NoTwice(kept)
      /\ \A k \in 1 .. Len(answer) + Candidates : word[k] \in Plans => Contains(kept, word[k])
  BY <1>2, ParsingRuns
<1> HIDE DEF kept
<1>5. \A p \in Plans : \E k \in 1 .. Len(kept) : kept[k] = p
  BY <1>2, <1>4 DEF Contains
<1>6. Len(kept) = Candidates
  <2>1. kept \in Bijection(1 .. Len(kept), Plans)
    <3>1. kept \in [1 .. Len(kept) -> Plans]
      BY <1>4
    <3> QED BY <1>4, <1>5, <3>1 DEF NoTwice, Bijection, Injection, Surjection, IsInjective
  <2>2. IsFiniteSet(1 .. Len(kept)) /\ Cardinality(1 .. Len(kept)) = Len(kept)
    <3>1. Len(kept) \in Nat
      BY <1>4
    <3> QED BY <3>1, IntervalCounts
  <2>3. Cardinality(Plans) = Candidates
    <3>1. Cardinality(0 .. Candidates - 1) = IF 0 > Candidates - 1 THEN 0 ELSE Candidates - 1 - 0 + 1
      BY FS_Interval
    <3> QED BY <3>1 DEF Plans
  <2>4. Cardinality(1 .. Len(kept)) = Cardinality(Plans)
    BY <2>1, <2>2, FS_Bijection DEF ExistsBijection
  <2> QED BY <2>2, <2>3, <2>4
<1> QED BY <1>3, <1>4, <1>6 DEF Rankings, NoTwice
-----------------------------------------------------------------------------
(***************************************************************************)
(* The invariant: what has been observed of a twin so far is in order, its *)
(* recovery is the first streak in it, its baseline is what was read of    *)
(* the time before it was ready; and a decision is the arbiter's.          *)
(***************************************************************************)
FirstRecovery(samples, appliedAt, forkedAt) ==
  LET streaks == StreaksUpTo(Len(samples), samples, appliedAt, forkedAt)
  IN  IF streaks = {} THEN None ELSE Max({0, samples[Min(streaks)].at - appliedAt})

ObservedOf(i) ==
  /\ InOrder(probes[i]) /\ \A m \in DOMAIN probes[i] : probes[i][m].at <= now
  /\ recovery[i] = FirstRecovery(probes[i], twin[i].ready, twin[i].snapshot)
  /\ loop[i] = "idle" => probes[i] = <<>>
  /\ stage \in {"register", "apply"} => loop[i] = "idle"

Decided == /\ ranking \in Rankings \cup {<<>>}
           /\ stage = "decided" => result = Arbitrate(Scores)

TournamentInv == Typed /\ (\A i \in Plans : ObservedOf(i)) /\ Decided

(* What the judge may answer is a sequence of numbers.                     *)
LEMMA AnswersAreSequences == \A answer \in Answers : answer \in Seq(Int)
<1> SUFFICES ASSUME NEW answer \in Answers
             PROVE  answer \in Seq(Int)
  OBVIOUS
<1>1. CASE answer = <<>>
  BY <1>1
<1>2. CASE \E p \in Plans : answer \in {<<p>>, <<p, p>>, <<Candidates, p>>}
  <2>1. PICK p \in Plans : answer = <<p>> \/ answer = <<p, p>> \/ answer = <<Candidates, p>>
    BY <1>2
  <2>2. p \in Int /\ Candidates \in Int
    BY TournamentAssumption DEF Plans
  <2>3. <<p>> \in Seq(Int) /\ <<p, p>> \in Seq(Int) /\ <<Candidates, p>> \in Seq(Int)
    BY <2>2
  <2> QED BY <2>1, <2>3
<1> QED BY <1>1, <1>2 DEF Answers

(* No samples are in order, and hold no streak.                            *)
LEMMA NothingObserved ==
  ASSUME NEW appliedAt, NEW forkedAt
  PROVE  InOrder(<<>>) /\ FirstRecovery(<<>>, appliedAt, forkedAt) = None
<1>1. StreaksUpTo(0, <<>>, appliedAt, forkedAt) = {}
  BY DEF StreaksUpTo
<1> QED BY <1>1 DEF InOrder, FirstRecovery

(* A sample more does not change the first streak, if there is one.        *)
LEMMA FirstStreakStays ==
  ASSUME NEW samples \in Seq(Sample), NEW sample \in Sample, NEW appliedAt \in Int,
         NEW forkedAt \in Int, FirstRecovery(samples, appliedAt, forkedAt) # None
  PROVE  FirstRecovery(Append(samples, sample), appliedAt, forkedAt)
           = FirstRecovery(samples, appliedAt, forkedAt)
<1> DEFINE n == Len(samples)
           more == Append(samples, sample)
           K == AtLeastOne
           old == StreaksUpTo(n, samples, appliedAt, forkedAt)
           new == StreaksUpTo(n + 1, more, appliedAt, forkedAt)
<1>1. /\ n \in Nat /\ Len(more) = n + 1 /\ \A m \in 1 .. n : more[m] = samples[m]
  OBVIOUS
<1>2. K \in Nat /\ K >= 1
  BY DEF AtLeastOne
<1>3. old # {}
  BY DEF FirstRecovery
<1>4. old = {m \in 1 .. n : /\ m + K - 1 <= n
                           /\ \A k \in m .. m + K - 1 : Good(samples[k], appliedAt, forkedAt)}
  BY DEF StreaksUpTo
<1>5. new = {m \in 1 .. n + 1 : /\ m + K - 1 <= n + 1
                               /\ \A k \in m .. m + K - 1 : Good(more[k], appliedAt, forkedAt)}
  BY DEF StreaksUpTo
<1> HIDE DEF n, more, K, old, new
<1>6. ASSUME NEW m \in 1 .. n, m + K - 1 <= n
      PROVE  \A k \in m .. m + K - 1 : more[k] = samples[k]
  <2>1. \A k \in m .. m + K - 1 : k \in 1 .. n
    BY ONLY <1>1, <1>2, <1>6, m \in 1 .. n
  <2> QED BY <1>1, <2>1
<1>7. old \subseteq new
  <2> SUFFICES ASSUME NEW m \in old PROVE m \in new
    OBVIOUS
  <2>1. /\ m \in 1 .. n /\ m + K - 1 <= n
        /\ \A k \in m .. m + K - 1 : Good(samples[k], appliedAt, forkedAt)
    BY <1>4
  <2>2. m \in 1 .. n + 1 /\ m + K - 1 <= n + 1
    BY ONLY <1>1, <1>2, <2>1
  <2>3. \A k \in m .. m + K - 1 : Good(more[k], appliedAt, forkedAt)
    BY <1>6, <2>1
  <2> QED BY <1>5, <2>2, <2>3
<1>8. ASSUME NEW m \in new, m \notin old
      PROVE  m = n + 1 - K + 1
  <2>1. m \in 1 .. n + 1 /\ m + K - 1 <= n + 1
    BY <1>5
  <2>2. CASE m + K - 1 <= n
    <3>1. m \in 1 .. n
      BY ONLY <1>1, <1>2, <2>1, <2>2
    <3>2. \A k \in m .. m + K - 1 : Good(samples[k], appliedAt, forkedAt)
      BY <1>5, <1>6, <2>2, <3>1
    <3> QED BY <1>4, <1>8, <2>2, <3>1, <3>2
  <2>3. CASE ~ (m + K - 1 <= n)
    BY ONLY <1>1, <1>2, <2>1, <2>3
  <2> QED BY <2>2, <2>3
<1>9. old \subseteq Nat /\ new \subseteq Nat /\ \A m \in old : m \in 1 .. n /\ m < n + 1 - K + 1
  <2>1. \A m \in old : m \in 1 .. n /\ m + K - 1 <= n
    BY <1>4
  <2>2. \A m \in new : m \in 1 .. n + 1
    BY <1>5
  <2> QED BY ONLY <1>1, <1>2, <2>1, <2>2
<1>10. Min(old) \in old /\ \A m \in old : Min(old) <= m
  BY <1>3, <1>9, MinIs
<1>11. new # {} /\ Min(new) \in new /\ \A m \in new : Min(new) <= m
  BY <1>3, <1>7, <1>9, MinIs
<1>12. Min(new) = Min(old)
  <2>1. Min(new) \in Nat /\ Min(old) \in Nat /\ Min(new) <= Min(old) /\ Min(old) < n + 1 - K + 1
    BY <1>7, <1>9, <1>10, <1>11
  <2>2. CASE Min(new) \in old
    <3>1. Min(old) <= Min(new)
      BY <1>10, <2>2
    <3> QED BY ONLY <2>1, <3>1
  <2>3. CASE Min(new) \notin old
    <3>1. Min(new) = n + 1 - K + 1
      BY <1>8, <1>11, <2>3
    <3> QED BY ONLY <1>1, <1>2, <2>1, <3>1
  <2> QED BY <2>2, <2>3
<1>13. more[Min(new)] = samples[Min(old)]
  BY <1>1, <1>9, <1>10, <1>12
<1>14. FirstRecovery(samples, appliedAt, forkedAt)
         = IF old = {} THEN None ELSE Max({0, samples[Min(old)].at - appliedAt})
  BY DEF FirstRecovery, old, n
<1>15. FirstRecovery(more, appliedAt, forkedAt)
         = IF new = {} THEN None ELSE Max({0, more[Min(new)].at - appliedAt})
  BY <1>1 DEF FirstRecovery, new
<1> QED BY <1>3, <1>11, <1>12, <1>13, <1>14, <1>15 DEF more

(* A sample taken now comes after those before it.                         *)
LEMMA ProbeKeepsOrder ==
  ASSUME NEW samples \in Seq(Sample), NEW sample \in Sample, InOrder(samples),
         NEW t \in Int, \A m \in DOMAIN samples : samples[m].at <= t, sample.at = t
  PROVE  LET more == Append(samples, sample)
         IN  InOrder(more) /\ \A m \in DOMAIN more : more[m].at <= t
<1> DEFINE n == Len(samples)
           more == Append(samples, sample)
<1>1. /\ n \in Nat /\ DOMAIN more = 1 .. n + 1 /\ DOMAIN samples = 1 .. n
      /\ more[n + 1] = sample /\ \A m \in 1 .. n : more[m] = samples[m]
  OBVIOUS
<1> HIDE DEF n, more
<1>2. \A m \in 1 .. n + 1 : m \in Int /\ (m = n + 1 \/ (m \in 1 .. n /\ m < n + 1))
  BY <1>1
<1>3. \A m \in DOMAIN more : more[m].at <= t
  <2>1. t <= t
    OBVIOUS
  <2> QED BY <1>1, <1>2, <2>1
<1>4. InOrder(more)
  <2> SUFFICES ASSUME NEW m \in DOMAIN more, NEW k \in DOMAIN more, m <= k
               PROVE  more[m].at <= more[k].at
    BY DEF InOrder
  <2>1. CASE k = n + 1
    BY <1>1, <1>3, <2>1
  <2>2. CASE k # n + 1
    <3>1. k \in 1 .. n /\ m \in 1 .. n
      BY <1>1, <1>2, <2>2
    <3> QED BY <1>1, <3>1 DEF InOrder
  <2> QED BY <2>1, <2>2
<1> QED BY <1>3, <1>4 DEF more

(* The invariant holds in the first state.                                 *)
LEMMA ObservedAtFirst ==
  ASSUME Init
  PROVE  TournamentInv
<1>1. Typed
  BY TypedAtFirst
<1>2. Decided
  BY DEF Init, Decided
<1>3. ASSUME NEW i \in Plans
      PROVE  ObservedOf(i)
  <2>1. probes[i] = <<>> /\ recovery[i] = None /\ loop[i] = "idle"
    BY DEF Init
  <2> QED BY <2>1, NothingObserved DEF ObservedOf
<1> QED BY <1>1, <1>2, <1>3 DEF TournamentInv

(* The steps of one twin.                                                  *)
LEMMA ProbeOnceObserves ==
  ASSUME TournamentInv, NEW i \in Plans, NEW fetched \in BOOLEAN, ProbeOnce(i, fetched)
  PROVE  \A j \in Plans : ObservedOf(j)'
<1>1. /\ probes'[i] = Append(probes[i], SampleOnce(i, fetched))
      /\ recovery'[i] = IF recovery[i] # None THEN recovery[i]
                        ELSE DetectRecovery(probes'[i], TwinAppliedAt(i), twin[i].snapshot)
      /\ \A j \in Plans \ {i} : /\ probes'[j] = probes[j] /\ recovery'[j] = recovery[j]
                                /\ loop'[j] = loop[j]
      /\ loop'[i] \in {"probing", "probed"}
  BY ProbeOnceIsTyped DEF TournamentInv
<1>2. /\ stage = "observe" /\ stage' = stage /\ now' = now /\ twin' = twin /\ base' = base
      /\ before' = before /\ evidence' = evidence /\ loop[i] = "probing"
  BY DEF ProbeOnce, TwinsVars
<1>3. ASSUME NEW j \in Plans \ {i}
      PROVE  ObservedOf(j)'
  <2>1. ObservedOf(j)
    BY DEF TournamentInv
  <2> QED BY <1>1, <1>2, <2>1 DEF ObservedOf
<1>4. ObservedOf(i)'
  <2>1. /\ probes[i] \in Seq(Sample) /\ now \in Int
        /\ twin[i].ready \in Int /\ twin[i].snapshot \in Int
    BY DEF TournamentInv, Typed, Probing, Times, Twins
  <2>2. SampleOnce(i, fetched) \in Sample /\ SampleOnce(i, fetched).at = now
    BY DEF SampleOnce, Sample, TournamentInv, Typed, Times
  <2>3. ObservedOf(i)
    BY DEF TournamentInv
  <2>4. InOrder(probes'[i]) /\ \A m \in DOMAIN probes'[i] : probes'[i][m].at <= now
    BY <1>1, <2>1, <2>2, <2>3, ProbeKeepsOrder DEF ObservedOf
  <2>5. recovery'[i] = FirstRecovery(probes'[i], twin[i].ready, twin[i].snapshot)
    <3>1. CASE recovery[i] # None
      BY <1>1, <2>1, <2>2, <2>3, <3>1, FirstStreakStays DEF ObservedOf
    <3>2. CASE recovery[i] = None
      <4>1. probes'[i] \in Seq(Sample)
        BY <1>1, <2>1, <2>2
      <4>2. DetectRecovery(probes'[i], twin[i].ready, twin[i].snapshot)
              = FirstRecovery(probes'[i], twin[i].ready, twin[i].snapshot)
        BY <2>1, <2>4, <4>1, DetectionIsFirstStreak DEF FirstRecovery
      <4> QED BY <1>1, <3>2, <4>2 DEF TwinAppliedAt
    <3> QED BY <3>1, <3>2
  <2> QED BY <1>1, <1>2, <2>3, <2>4, <2>5 DEF ObservedOf
<1> QED BY <1>3, <1>4

(* When a twin has been evaluated, nothing of its samples is left.         *)
LEMMA GatherObserves ==
  ASSUME TournamentInv, NEW i \in Plans, NEW unread \in SUBSET Reachable[i],
         NEW drops \in BOOLEAN, Gather(i, unread, drops)
  PROVE  \A j \in Plans : ObservedOf(j)'
<1>1. /\ stage = "observe" /\ stage' = stage /\ now' = now /\ twin' = twin /\ before' = before
      /\ loop' = [loop EXCEPT ![i] = "done"] /\ probes' = [probes EXCEPT ![i] = <<>>]
      /\ recovery' = [recovery EXCEPT ![i] = None]
  BY DEF Gather
<1>2. ASSUME NEW j \in Plans \ {i}
      PROVE  ObservedOf(j)'
  <2>1. ObservedOf(j)
    BY DEF TournamentInv
  <2>2. loop'[j] = loop[j] /\ probes'[j] = probes[j] /\ recovery'[j] = recovery[j]
    BY <1>1 DEF TournamentInv, Typed, Loops, Probing
  <2> QED BY <1>1, <2>1, <2>2 DEF ObservedOf
<1>3. ObservedOf(i)'
  <2>1. loop'[i] = "done" /\ probes'[i] = <<>> /\ recovery'[i] = None
    BY <1>1 DEF TournamentInv, Typed, Loops, Probing
  <2> QED BY <1>1, <2>1, NothingObserved DEF ObservedOf
<1> QED BY <1>2, <1>3

(* The arbiter judges by the evidence and nothing else.                    *)
LEMMA SameEvidence ==
  ASSUME evidence' = evidence
  PROVE  Arbitrate(Scores)' = Arbitrate(Scores)
<1>1. Scores' = Scores
  BY DEF Scores, Composite, Disqualified, RecoverySubscore, BlastSubscore,
         DownstreamSubscore, ViolationsSubscore, EvidenceComplete, RuntimeViolations
<1> QED BY <1>1 DEF Arbitrate, DeriveWinner, Viable, Margin, First, Beats

(* Every step keeps the invariant.                                         *)
LEMMA ObservedNext ==
  ASSUME TournamentInv, [Next]_vars
  PROVE  TournamentInv'
<1>1. Typed'
  BY TypedNext DEF TournamentInv
<1> DEFINE Kept == \A i \in Plans : ObservedOf(i)'
<1>2. ASSUME UNCHANGED <<now, twin, before, LoopVars>>,
             stage' \in {"register", "apply"} => stage \in {"register", "apply"}
      PROVE  Kept
  <2> SUFFICES ASSUME NEW i \in Plans PROVE ObservedOf(i)'
    OBVIOUS
  <2>1. ObservedOf(i)
    BY DEF TournamentInv
  <2> QED BY <1>2, <2>1 DEF ObservedOf, LoopVars
<1>3. CASE RegisterMirrors
  <2>1. Kept
    BY <1>2, <1>3 DEF RegisterMirrors, TwinsVars
  <2>2. Decided'
    BY <1>3 DEF TournamentInv, Decided, RegisterMirrors
  <2> QED BY <1>1, <2>1, <2>2 DEF TournamentInv
<1>4. CASE Score \/ \E i \in Plans : StatsFail(i)
  <2>1. Kept
    BY <1>2, <1>4 DEF Score, StatsFail, TwinsVars
  <2>2. Decided'
    BY <1>4 DEF TournamentInv, Decided, Score, StatsFail
  <2> QED BY <1>1, <2>1, <2>2 DEF TournamentInv
<1>5. CASE NoJudgement \/ \E answer \in Answers : JudgeAnswers(answer)
  <2>1. PICK advice \in Rankings \cup {<<>>} : Decide(advice)
    <3>1. \A answer \in Answers : ParsedRanking(answer) \in Rankings
      BY AnswersAreSequences, ParsedRankingIsRanking
    <3> QED BY <1>5, <3>1 DEF NoJudgement, JudgeAnswers
  <2>2. Kept
    BY <1>2, <2>1 DEF Decide, TwinsVars
  <2>3. Decided'
    <3>1. result' = Arbitrate(Scores) /\ ranking' = advice /\ evidence' = evidence
      BY <2>1 DEF Decide, LoopVars
    <3>2. Arbitrate(Scores)' = Arbitrate(Scores)
      BY <3>1, SameEvidence
    <3> QED BY <3>1, <3>2 DEF Decided
  <2> QED BY <1>1, <2>2, <2>3 DEF TournamentInv
<1>6. ASSUME NEW unread \in Unread, ApplyCandidates(unread)
      PROVE  TournamentInv'
  <2>1. Kept
    <3> SUFFICES ASSUME NEW i \in Plans PROVE ObservedOf(i)'
      OBVIOUS
    <3>1. ObservedOf(i) /\ stage = "apply"
      BY <1>6 DEF TournamentInv, ApplyCandidates
    <3>2. /\ loop'[i] = "probing" /\ base'[i] = Window(before[i], unread[i])
          /\ stage' = "observe" /\ UNCHANGED <<now, twin, before, probes, recovery>>
      BY <1>6 DEF ApplyCandidates, TwinsVars
    <3> QED BY <3>1, <3>2 DEF ObservedOf
  <2>2. Decided'
    BY <1>6 DEF TournamentInv, Decided, ApplyCandidates
  <2> QED BY <1>1, <2>1, <2>2 DEF TournamentInv
<1>7. ASSUME NEW i \in Plans, NEW fetched \in BOOLEAN, ProbeOnce(i, fetched)
      PROVE  TournamentInv'
  <2>1. Decided'
    BY <1>7 DEF TournamentInv, Decided, ProbeOnce
  <2>2. Kept
    BY <1>7, ProbeOnceObserves
  <2> QED BY <1>1, <2>1, <2>2 DEF TournamentInv
<1>8. ASSUME NEW i \in Plans, NEW unread \in SUBSET Reachable[i], NEW drops \in BOOLEAN,
             Gather(i, unread, drops)
      PROVE  TournamentInv'
  <2>1. Decided'
    BY <1>8 DEF TournamentInv, Decided, Gather
  <2>2. Kept
    BY <1>8, GatherObserves
  <2> QED BY <1>1, <2>1, <2>2 DEF TournamentInv
<1>9. CASE Tick
  <2>1. Decided'
    BY <1>9 DEF TournamentInv, Decided, Tick
  <2>2. Kept
    <3> SUFFICES ASSUME NEW i \in Plans PROVE ObservedOf(i)'
      OBVIOUS
    <3>1. ObservedOf(i) /\ now \in Int /\ probes[i] \in Seq(Sample)
      BY DEF TournamentInv, Typed, Times, Probing
    <3>2. now' = now + 1 /\ UNCHANGED <<stage, twin, before, LoopVars>>
      BY <1>9 DEF Tick
    <3>3. \A m \in DOMAIN probes[i] : probes[i][m].at <= now + 1
      <4>1. \A m \in DOMAIN probes[i] : probes[i][m].at \in Int
        <5>1. \A m \in DOMAIN probes[i] : probes[i][m] \in Sample
          BY <3>1
        <5> QED BY <5>1 DEF Sample
      <4>2. \A m \in DOMAIN probes[i] : probes[i][m].at <= now
        BY <3>1 DEF ObservedOf
      <4> QED BY <3>1, <4>1, <4>2
    <3> QED BY <3>1, <3>2, <3>3 DEF ObservedOf, LoopVars
  <2> QED BY <1>1, <2>1, <2>2 DEF TournamentInv
<1>10. CASE UNCHANGED vars
  <2>1. Kept
    BY <1>2, <1>10 DEF vars, TwinsVars, LoopVars, TournamentInv, Typed
  <2>2. Decided'
    <3>1. UNCHANGED <<stage, result, ranking, evidence>>
      BY <1>10 DEF vars
    <3>2. Arbitrate(Scores)' = Arbitrate(Scores)
      BY <3>1, SameEvidence
    <3> QED BY <3>1, <3>2 DEF TournamentInv, Decided
  <2> QED BY <1>1, <2>1, <2>2 DEF TournamentInv
<1>11. CASE \E i \in Plans :
             \/ \E fetched \in BOOLEAN : ProbeOnce(i, fetched)
             \/ \E unread \in SUBSET Reachable[i], drops \in BOOLEAN : Gather(i, unread, drops)
             \/ StatsFail(i)
  BY <1>4, <1>7, <1>8, <1>11
<1> QED BY <1>3, <1>4, <1>5, <1>6, <1>9, <1>10, <1>11 DEF Next
-----------------------------------------------------------------------------
(***************************************************************************)
(* What follows from the invariant.                                        *)
(***************************************************************************)

(* The types of the model.                                                 *)
LEMMA InvariantIsTyped ==
  TournamentInv => TypeOK
<1> SUFFICES ASSUME TournamentInv PROVE TypeOK
  OBVIOUS
<1>1. Typed /\ Decided
  BY DEF TournamentInv
<1>2. /\ now \in 0 .. Horizon /\ stage \in Stages /\ twin \in [Plans -> [ready : Nat, snapshot : Int]]
      /\ loop \in [Plans -> {"idle", "probing", "probed", "done"}]
      /\ probes \in [Plans -> Seq(Sample)] /\ recovery \in [Plans -> Nat \cup {None}]
      /\ evidence \in [Plans -> Evidence]
  BY <1>1 DEF Typed, Times, Twins, Loops, Probing
<1>3. \A i \in Plans : /\ {before[i], since[i], base[i]} \subseteq Windows(i)
                       /\ current[i] \in [Watched(i) -> Levels]
  BY <1>1 DEF Typed, WindowsOf
<1>4. /\ result.outcome \in {"none", "no_viable_candidate", "ambiguous", "decided"}
      /\ result.winner \in Plans \cup {None} /\ ranking \in Rankings \cup {<<>>}
  BY <1>1 DEF Typed, Results, Decided
<1> QED BY <1>2, <1>3, <1>4 DEF TypeOK, Stages, Sample, Evidence

(* The arbiter's decision is for the best candidate.                       *)
LEMMA InvariantHasBest ==
  TournamentInv => WinnerIsBest
<1> SUFFICES ASSUME TournamentInv PROVE WinnerIsBest
  OBVIOUS
<1>1. TypeOK
  BY InvariantIsTyped
<1>2. evidence \in [Plans -> Evidence] /\ (stage = "decided" => result = Arbitrate(Scores))
  BY DEF TournamentInv, Typed, Decided
<1>3. /\ \A p \in Plans : Arbitrate(Scores).winner = p <=> Better(p)
      /\ Arbitrate(Scores).outcome = "no_viable_candidate"
           <=> \A p \in Plans : ~ Faithful(evidence[p])
  BY <1>2, ArbitrationIsBest
<1> QED BY <1>1, <1>2, <1>3 DEF WinnerIsBest

(* The streaks of the property are those of the search: in samples that    *)
(* are in order, all of a streak is after the warm-up if its start is.     *)
LEMMA StreaksAre ==
  ASSUME NEW i \in Plans, probes[i] \in Seq(Sample), InOrder(probes[i]),
         twin[i].ready \in Int, twin[i].snapshot \in Int
  PROVE  {n \in DOMAIN probes[i] : StreakFrom(i, n)}
           = StreaksUpTo(Len(probes[i]), probes[i], twin[i].ready, twin[i].snapshot)
<1> DEFINE samples == probes[i]
           k == Len(samples)
<1>1. k \in Nat /\ DOMAIN samples = 1 .. k /\ \A m \in 1 .. k : samples[m] \in Sample
  OBVIOUS
<1>2. \A m \in 1 .. k : samples[m].at \in Int
  BY <1>1 DEF Sample
<1> SUFFICES ASSUME NEW n \in 1 .. k
             PROVE  StreakFrom(i, n) <=>
                      /\ n + AtLeastOne - 1 <= k
                      /\ \A m \in n .. n + AtLeastOne - 1 :
                            Good(samples[m], twin[i].ready, twin[i].snapshot)
  BY <1>1 DEF StreaksUpTo
<1> DEFINE last == n + AtLeastOne - 1
<1>3. n \in Int /\ n >= 1 /\ n <= k /\ last \in Int /\ last >= n
  BY <1>1 DEF AtLeastOne
<1>4. Max({n, n + Streak - 1}) = last
  <2>1. n + Streak - 1 \in Int
    BY <1>3
  <2>2. Max({n, n + Streak - 1}) = IF n >= n + Streak - 1 THEN n ELSE n + Streak - 1
    BY <1>3, <2>1, MaxOfPair
  <2> QED BY <1>3, <2>2 DEF AtLeastOne
<1> HIDE DEF last
<1>5. StreakFrom(i, n) <=>
        /\ last \in DOMAIN samples
        /\ samples[n].at >= twin[i].snapshot + WarmUp
        /\ \A m \in n .. last : samples[m].healthy /\ samples[m].at <= twin[i].ready + Timeout
  BY <1>4 DEF StreakFrom, TwinAppliedAt
<1>6. last \in DOMAIN samples <=> last <= k
  BY <1>1, <1>3
<1>7. n \in n .. last
  BY <1>3
<1>8. ASSUME last <= k, samples[n].at >= twin[i].snapshot + WarmUp, NEW m \in n .. last
      PROVE  samples[m].at >= twin[i].snapshot + WarmUp
  <2>1. m \in 1 .. k /\ n <= m
    BY <1>1, <1>3, <1>8
  <2>2. samples[n].at <= samples[m].at
    BY <1>1, <2>1 DEF InOrder
  <2>3. samples[n].at \in Int /\ samples[m].at \in Int /\ twin[i].snapshot + WarmUp \in Int
    BY <1>2, <2>1
  <2>4. \A x, y, z \in Int : x >= z /\ x <= y => y >= z
    OBVIOUS
  <2> HIDE DEF samples
  <2> QED BY <1>8, <2>2, <2>3, <2>4, Zenon
<1>9. StreakFrom(i, n) <=>
        last <= k /\ \A m \in n .. last : Good(samples[m], twin[i].ready, twin[i].snapshot)
  <2> HIDE DEF samples, k
  <2> QED BY <1>5, <1>6, <1>7, <1>8 DEF Good
<1> QED BY <1>9 DEF last

(* A twin's recovery is the first streak in its samples.                   *)
LEMMA InvariantHasFirstStreak ==
  TournamentInv => RecoveryIsFirstStreak
<1> SUFFICES ASSUME TournamentInv, NEW i \in Plans
             PROVE  LET starts == {n \in DOMAIN probes[i] : StreakFrom(i, n)}
                    IN  recovery[i] = IF starts = {} THEN None
                                      ELSE Max({0, probes[i][Min(starts)].at - TwinAppliedAt(i)})
  BY DEF RecoveryIsFirstStreak
<1>1. /\ InOrder(probes[i]) /\ probes[i] \in Seq(Sample)
      /\ recovery[i] = FirstRecovery(probes[i], twin[i].ready, twin[i].snapshot)
  BY DEF TournamentInv, Typed, Probing, ObservedOf
<1>2. twin[i].ready \in Int /\ twin[i].snapshot \in Int
  BY DEF TournamentInv, Typed, Twins
<1>3. {n \in DOMAIN probes[i] : StreakFrom(i, n)}
        = StreaksUpTo(Len(probes[i]), probes[i], twin[i].ready, twin[i].snapshot)
  BY <1>1, <1>2, StreaksAre
<1> HIDE DEF TournamentInv
<1> QED BY <1>1, <1>3 DEF FirstRecovery, TwinAppliedAt

-----------------------------------------------------------------------------
(* In every state, what was observed of each twin is in order, and a       *)
(* decision is the arbiter's (observe_and_score, arbitrate).               *)
THEOREM InvariantHolds == Spec => []TournamentInv
<1>1. Init => TournamentInv
  BY ObservedAtFirst
<1>2. TournamentInv /\ [Next]_vars => TournamentInv'
  BY ObservedNext
<1> QED BY <1>1, <1>2, PTL DEF Spec

(* The winner is the one plan that is better than the others on faithful   *)
(* evidence, for any plans, evidence and margin, and whatever the judge    *)
(* says: arbitrate looks at the scores only.                               *)
THEOREM WinnerIsBestHolds == Spec => []WinnerIsBest
BY InvariantHolds, InvariantHasBest, PTL

(* A twin counts as recovered exactly if its samples hold a streak, from   *)
(* the start of the first one, for any streak, warm-up and timeout         *)
(* (detect_recovery, run on every sample by probe_environment).            *)
THEOREM RecoveryIsFirstStreakHolds == Spec => []RecoveryIsFirstStreak
BY InvariantHolds, InvariantHasFirstStreak, PTL

HIDE TournamentAssumption DEF TournamentAssumption

-----------------------------------------------------------------------------
(***************************************************************************)
(* The ballot.                                                             *)
(***************************************************************************)
Kept(kept, p, deploys) == IF Normalises(p, deploys) THEN Append(kept, p) ELSE kept

(* The plans that survive are some of the plans, in a sequence.            *)
LEMMA SurvivorsAre ==
  ASSUME NEW word, NEW n \in Nat, DOMAIN word = 1 .. n, NEW deploys,
         NEW S, \A k \in 1 .. n : word[k] \in S,
         NEW kept, kept = Survivors(word, deploys)
  PROVE  kept \in Seq({p \in S : Normalises(p, deploys)})
<1> DEFINE D == 1 .. n
           V == Seq({p \in S : Normalises(p, deploys)})
           Folds(it) == it = [s \in SUBSET D |->
                                IF s = {} THEN <<>>
                                ELSE LET x == Max(s) IN Kept(it[s \ {x}], word[x], deploys)]
           fold == CHOOSE it : Folds(it)
<1>1. \E it : it \in [SUBSET D -> V] /\ Folds(it)
  <2> DEFINE pick == [s \in SUBSET D |-> Max(s)]
             step == [q \in D \X V |-> Kept(q[2], word[q[1]], deploys)]
  <2>1. \A s \in SUBSET D : s # {} => pick[s] \in s
    <3> SUFFICES ASSUME NEW s \in SUBSET D, s # {} PROVE Max(s) \in s
      OBVIOUS
    <3> QED BY MaxIs
  <2>2. step \in [D \X V -> V]
    <3> SUFFICES ASSUME NEW q \in D \X V PROVE Kept(q[2], word[q[1]], deploys) \in V
      OBVIOUS
    <3>1. q[2] \in V /\ word[q[1]] \in S
      OBVIOUS
    <3> QED BY <3>1 DEF Kept
  <2>3. <<>> \in V /\ IsFiniteSet(D)
    BY FS_Interval
  <2> HIDE DEF D, V
  <2>4. PICK it \in [SUBSET D -> V] : FoldedBy(it, D, <<>>, pick, step)
    <3> HIDE DEF pick, step
    <3> QED BY <2>1, <2>2, <2>3, FoldExists
  <2>5. ASSUME NEW s \in SUBSET D, s # {}
        PROVE  step[<<pick[s], it[s \ {pick[s]}]>>] = Kept(it[s \ {Max(s)}], word[Max(s)], deploys)
    <3>1. pick[s] = Max(s) /\ Max(s) \in D
      BY <2>1, <2>5
    <3>2. it[s \ {Max(s)}] \in V
      BY <2>4
    <3> QED BY <3>1, <3>2
  <2> HIDE DEF pick, step
  <2>6. \A s \in SUBSET D : it[s] = IF s = {} THEN <<>>
                                    ELSE Kept(it[s \ {Max(s)}], word[Max(s)], deploys)
    BY <2>4, <2>5 DEF FoldedBy
  <2>7. Folds(it)
    BY <2>4, <2>6
  <2> QED BY <2>4, <2>7
<1>2. Folds(fold)
  BY <1>1
<1>3. kept = fold[D]
  BY DEF Survivors, FoldLeft, MapThenFoldSet, Kept
<1> HIDE DEF fold
<1>4. fold[{}] = <<>>
  BY <1>2
<1>5. ASSUME NEW k \in 1 .. n
      PROVE  fold[1 .. k] = Kept(fold[1 .. (k - 1)], word[k], deploys)
  <2>1. 1 .. k \in SUBSET D /\ k \in Nat /\ k # 0
    OBVIOUS
  <2>2. 1 .. k # {} /\ Max(1 .. k) = k /\ (1 .. k) \ {k} = 1 .. (k - 1)
    BY <2>1, LastOfInterval
  <2> HIDE DEF D
  <2>3. fold[1 .. k] = LET x == Max(1 .. k) IN Kept(fold[(1 .. k) \ {x}], word[x], deploys)
    BY <1>2, <2>1, <2>2
  <2> HIDE DEF Folds
  <2> QED BY <2>2, <2>3
<1> HIDE DEF Folds
<1> DEFINE good == {k \in 0 .. n : fold[1 .. k] \in V}
<1>6. 0 \in good
  <2>1. 1 .. 0 = {} /\ 0 \in 0 .. n
    OBVIOUS
  <2>2. fold[1 .. 0] = <<>> /\ <<>> \in V
    BY <1>4, <2>1
  <2> HIDE DEF V
  <2> QED BY <2>1, <2>2
<1>7. ASSUME NEW k \in 1 .. n, k - 1 \in good
      PROVE  k \in good
  <2>1. fold[1 .. (k - 1)] \in V /\ word[k] \in S /\ k \in 0 .. n
    BY <1>7
  <2>2. Kept(fold[1 .. (k - 1)], word[k], deploys) \in V
    BY <2>1 DEF Kept
  <2> QED BY <1>5, <2>1, <2>2
<1>8. n \in good
  <2> HIDE DEF good
  <2>1. \A k \in 0 .. n : k \in good
    BY <1>6, <1>7, Climb
  <2> QED BY <2>1
<1> QED BY <1>3, <1>8

(* What every plan of a ballot is, the planner's or the playbook's.        *)
Inverts(v, p, deploys) ==
  /\ v.id = InverseId(p.id) /\ v.targets = p.targets
  /\ \E c \in InverseParams(p.params, deploys) : v.params = [c EXCEPT !.blast = p.params.blast]

OfPlanner(p, idx, deploys) ==
  /\ p = [id |-> PlanId(idx), index |-> idx, params |-> p.params, targets |-> Targets(p.params),
          inverse |-> p.inverse, origin |-> p.origin]
  /\ WellTyped(p.params)
  /\ p.params.action # "no_action" =>
        /\ p.params.workload \in Workloads
        /\ p.params.blast \subseteq {p.params.workload} \cup TransitiveCallers(p.params.workload)
        /\ p.inverse # {}
        /\ p.params.action = "rollback_deploy" =>
              ResolveCommitRef(p.params.commit, deploys, p.params.workload) # NoCommit
        /\ \A v \in p.inverse : Inverts(v, p, deploys)

OfPlaybook(p, idx) ==
  /\ p = [id |-> PlaybookId(p.id[2]), index |-> idx, params |-> p.params,
          targets |-> Targets(p.params), inverse |-> p.inverse, origin |-> "playbook"]
  /\ p.id \in {q.id : q \in UNION Playbooks}
  /\ WellTyped(p.params) /\ p.params.workload \in Workloads
  /\ p.params.action # "rollback_deploy" => \A v \in p.inverse : Inverts(v, p, <<>>)

IsBallot(b, deploys) ==
  /\ \E n \in Nat : DOMAIN b = 1 .. n
  /\ \A k \in DOMAIN b : OfPlanner(b[k], k - 1, deploys) \/ OfPlaybook(b[k], k - 1)
  /\ \A k, l \in DOMAIN b : b[k].id = b[l].id => k = l
  /\ \E k \in DOMAIN b : b[k].params.action = "no_action"

(* What is synthesised for a plan undoes that plan.                        *)
LEMMA SynthesizedInverts ==
  ASSUME NEW p, NEW deploys, NEW v \in SynthesizeInverse(p, deploys)
  PROVE  Inverts(v, p, deploys)
BY DEF SynthesizeInverse, Inverts

(* A candidate that survives and is numbered anew.                         *)
LEMMA ReindexedIsOfPlanner ==
  ASSUME NEW c, WellTyped(c), NEW m, NEW idx, NEW deploys, Normalises(ToPlan(c, m), deploys)
  PROVE  OfPlanner(Reindexed(NormalisePlan(ToPlan(c, m), deploys), idx), idx, deploys)
<1> DEFINE p == ToPlan(c, m)
           q == Reindexed(NormalisePlan(p, deploys), idx)
           inverse == IF c.action = "no_action" THEN {} ELSE SynthesizeInverse(p, deploys)
           normal == NormalisePlan(p, deploys)
           renamed == {[v EXCEPT !.id = InverseId(PlanId(idx)), !.index = idx] : v \in normal.inverse}
<1>1. p = [id |-> PlanId(m), index |-> m, params |-> c, targets |-> Targets(c),
           inverse |-> {}, origin |-> "planner"]
  BY DEF ToPlan
<1> HIDE DEF p
<1>2. normal = [id |-> PlanId(m), index |-> m, params |-> c, targets |-> Targets(c),
                inverse |-> inverse, origin |-> "planner"]
  BY <1>1 DEF NormalisePlan
<1>3. q = [id |-> PlanId(idx), index |-> idx, params |-> c, targets |-> Targets(c),
           inverse |-> renamed, origin |-> "planner"]
  <2>1. q = [normal EXCEPT !.id = PlanId(idx), !.index = idx, !.inverse = renamed]
    BY DEF Reindexed
  <2> HIDE DEF normal, renamed
  <2> QED BY <1>2, <2>1
<1> HIDE DEF q, renamed, normal
<1>a. normal.inverse = inverse
  BY <1>2
<1> HIDE DEF inverse
<1>4. ASSUME c.action # "no_action"
      PROVE  /\ c.workload \in Workloads
             /\ c.blast \subseteq {c.workload} \cup TransitiveCallers(c.workload)
             /\ c.action = "rollback_deploy" =>
                   ResolveCommitRef(c.commit, deploys, c.workload) # NoCommit
             /\ SynthesizeInverse(p, deploys) # {}
  <2>1. Normalises(p, deploys) /\ p.params = c
    BY <1>1 DEF p
  <2> QED BY <1>4, <2>1 DEF Normalises, BlastSetValid
<1>5. ASSUME c.action # "no_action"
      PROVE  renamed # {}
  BY <1>4, <1>5, <1>a DEF renamed, inverse
<1>6. ASSUME c.action # "no_action", NEW w \in renamed
      PROVE  Inverts(w, q, deploys)
  <2>1. PICK v \in SynthesizeInverse(p, deploys) :
          w = [v EXCEPT !.id = InverseId(PlanId(idx)), !.index = idx]
    BY <1>6, <1>a DEF renamed, inverse
  <2>2. Inverts(v, p, deploys)
    BY SynthesizedInverts
  <2>3. v = [id |-> v.id, index |-> v.index, params |-> v.params, targets |-> v.targets,
             inverse |-> v.inverse, origin |-> v.origin]
    BY DEF SynthesizeInverse
  <2>4. w.id = InverseId(PlanId(idx)) /\ w.targets = v.targets /\ w.params = v.params
    BY <2>1, <2>3
  <2>5. q.id = PlanId(idx) /\ q.targets = p.targets /\ q.params = p.params
    BY <1>1, <1>3
  <2> QED BY <2>2, <2>4, <2>5 DEF Inverts
<1>7. q.params = c
  BY <1>3
<1>8. q = [id |-> PlanId(idx), index |-> idx, params |-> q.params, targets |-> Targets(q.params),
           inverse |-> q.inverse, origin |-> q.origin]
  BY <1>3
<1>9. q.inverse = renamed
  BY <1>3
<1>10. OfPlanner(q, idx, deploys)
  BY <1>4, <1>5, <1>6, <1>7, <1>8, <1>9 DEF OfPlanner
<1> QED BY <1>10 DEF q, p

(* To do nothing is a plan of the planner.                                 *)
LEMMA NoActionIsOfPlanner ==
  ASSUME NEW idx, NEW deploys
  PROVE  OfPlanner(NoActionPlan(idx), idx, deploys) /\ NoActionPlan(idx).params.action = "no_action"
<1> DEFINE c == Candidate("no_action", CHOOSE s \in Workloads : TRUE)
<1>1. c.action = "no_action" /\ WellTyped(c)
  BY DEF Candidate, WellTyped, Actions
<1> HIDE DEF c
<1>2. NoActionPlan(idx) = [id |-> PlanId(idx), index |-> idx, params |-> c, targets |-> Targets(c),
                           inverse |-> {}, origin |-> "planner"]
  BY DEF NoActionPlan, ToPlan, c
<1> QED BY <1>1, <1>2 DEF OfPlanner

(* A sequence with an element more.                                        *)
LEMMA AppendIs ==
  ASSUME NEW S, NEW a \in Seq(S), NEW p
  PROVE  Append(a, p) = [k \in 1 .. Len(a) + 1 |-> IF k = Len(a) + 1 THEN p ELSE a[k]]
<1> DEFINE new == Append(a, p)
<1>1. a \in Seq(S \cup {p}) /\ p \in S \cup {p}
  OBVIOUS
<1>2. /\ Len(a) \in Nat /\ Len(new) = Len(a) + 1 /\ new \in Seq(S \cup {p})
      /\ new[Len(a) + 1] = p /\ \A k \in 1 .. Len(a) : new[k] = a[k]
  BY <1>1
<1> HIDE DEF new
<1>3. new = [k \in 1 .. Len(a) + 1 |-> new[k]]
  BY <1>2
<1>4. \A k \in 1 .. Len(a) + 1 : new[k] = IF k = Len(a) + 1 THEN p ELSE a[k]
  BY <1>2
<1>5. new = [k \in 1 .. Len(a) + 1 |-> IF k = Len(a) + 1 THEN p ELSE a[k]]
  BY <1>3, <1>4
<1> QED BY <1>5 DEF new

(* The planner's candidates: sound, and doing nothing is among them.       *)
LEMMA CandidatesAre ==
  ASSUME NEW answer, NEW n \in Nat, DOMAIN answer = 1 .. n,
         \A k \in 1 .. n : WellTyped(answer[k]), NEW deploys
  PROVE  \E m \in Nat :
           /\ CandidatesFrom(answer, deploys) \in Seq({CandidatesFrom(answer, deploys)[k] : k \in 1 .. m})
           /\ DOMAIN CandidatesFrom(answer, deploys) = 1 .. m
           /\ \A k \in 1 .. m : OfPlanner(CandidatesFrom(answer, deploys)[k], k - 1, deploys)
           /\ \E k \in 1 .. m : CandidatesFrom(answer, deploys)[k].params.action = "no_action"
<1> DEFINE word == [k \in DOMAIN answer |-> ToPlan(answer[k], k - 1)]
           S == {ToPlan(answer[k], k - 1) : k \in 1 .. n}
           kept == Survivors(word, deploys)
           normal == NormalisePlans(word, deploys)
           all == CandidatesFrom(answer, deploys)
<1>1. DOMAIN word = 1 .. n /\ \A k \in 1 .. n : word[k] \in S
  OBVIOUS
<1> HIDE DEF word, S
<1>2. kept \in Seq({p \in S : Normalises(p, deploys)})
  BY <1>1, SurvivorsAre
<1>3. normal = [k \in DOMAIN kept |-> Reindexed(NormalisePlan(kept[k], deploys), k - 1)]
  BY DEF NormalisePlans
<1> HIDE DEF kept, normal
<1>4. PICK m \in Nat : DOMAIN kept = 1 .. m
  BY <1>2
<1>5. DOMAIN normal = 1 .. m
  BY <1>3, <1>4
<1>6. ASSUME NEW k \in 1 .. m
      PROVE  OfPlanner(normal[k], k - 1, deploys)
  <2>1. kept[k] \in S /\ Normalises(kept[k], deploys)
    BY <1>2, <1>4
  <2>2. PICK l \in 1 .. n : kept[k] = ToPlan(answer[l], l - 1)
    BY <2>1 DEF S
  <2>3. OfPlanner(Reindexed(NormalisePlan(kept[k], deploys), k - 1), k - 1, deploys)
    BY <2>1, <2>2, ReindexedIsOfPlanner
  <2> QED BY <1>3, <1>4, <2>3
<1>7. all = EnsureNoAction(normal)
  BY DEF CandidatesFrom, normal, word
<1> HIDE DEF all
<1>8. normal \in Seq({normal[k] : k \in 1 .. m}) /\ Len(normal) = m
  <2>1. normal = [k \in 1 .. m |-> normal[k]]
    BY <1>3, <1>4
  <2> QED BY <2>1
<1>9. CASE \E k \in DOMAIN normal : normal[k].params.action = "no_action"
  <2>1. all = normal
    BY <1>7, <1>9 DEF EnsureNoAction
  <2> QED BY <1>5, <1>6, <1>8, <1>9, <2>1 DEF all
<1>10. CASE ~ \E k \in DOMAIN normal : normal[k].params.action = "no_action"
  <2> DEFINE p == NoActionPlan(m)
  <2>1. OfPlanner(p, m, deploys) /\ p.params.action = "no_action"
    BY NoActionIsOfPlanner
  <2>2. all = Append(normal, p)
    BY <1>7, <1>8, <1>10 DEF EnsureNoAction
  <2> HIDE DEF p
  <2>3. all = [k \in 1 .. m + 1 |-> IF k = m + 1 THEN p ELSE normal[k]]
    BY <1>8, <2>2, AppendIs
  <2>4. \A k \in 1 .. m + 1 : OfPlanner(all[k], k - 1, deploys)
    <3> SUFFICES ASSUME NEW k \in 1 .. m + 1 PROVE OfPlanner(all[k], k - 1, deploys)
      OBVIOUS
    <3>1. CASE k = m + 1
      <4>1. k - 1 = m /\ all[k] = p
        BY <2>3, <3>1
      <4> QED BY <2>1, <4>1
    <3>2. CASE k # m + 1
      <4>1. k \in 1 .. m /\ all[k] = normal[k]
        BY <2>3, <3>2
      <4> QED BY <1>6, <4>1
    <3> QED BY <3>1, <3>2
  <2>5. m + 1 \in 1 .. m + 1 /\ all[m + 1] = p /\ m + 1 \in Nat
    BY <2>3
  <2>6. all \in Seq({all[k] : k \in 1 .. m + 1}) /\ DOMAIN all = 1 .. m + 1
    <3>1. all = [k \in 1 .. m + 1 |-> all[k]] /\ DOMAIN all = 1 .. m + 1
      BY <2>3
    <3> QED BY <2>5, <3>1
  <2> QED BY <2>1, <2>4, <2>5, <2>6 DEF all
<1> QED BY <1>9, <1>10
(* A playbook on a ballot keeps what it learned, and takes a new place.    *)
LEMMA LearnedIsOfPlaybook ==
  ASSUME NEW playbook \in Playbooks, NEW p \in playbook, NEW idx
  PROVE  /\ playbook = {p} /\ OfPlaybook([p EXCEPT !.index = idx], idx)
         /\ p.id = PlaybookId(p.id[2])
<1> DEFINE q == [p EXCEPT !.index = idx]
<1>1. /\ playbook = {p} /\ WellTyped(p.params) /\ p.params.workload \in Workloads
      /\ p = [ToPlan(p.params, 0) EXCEPT !.id = PlaybookId(p.id[2]), !.origin = "playbook",
                                         !.inverse = p.inverse]
      /\ p.params.action # "rollback_deploy" => p.inverse = SynthesizeInverse(p, <<>>)
  BY ApplierAssumption DEF ApplierAssumption
<1>2. p = [id |-> PlaybookId(p.id[2]), index |-> 0, params |-> p.params,
           targets |-> Targets(p.params), inverse |-> p.inverse, origin |-> "playbook"]
  BY <1>1 DEF ToPlan
<1>3. q = [id |-> PlaybookId(p.id[2]), index |-> idx, params |-> p.params,
           targets |-> Targets(p.params), inverse |-> p.inverse, origin |-> "playbook"]
  BY <1>2
<1>4. /\ q.id = p.id /\ q.params = p.params /\ q.targets = p.targets /\ q.inverse = p.inverse
      /\ p.id = PlaybookId(p.id[2])
  BY <1>2, <1>3
<1>5. ASSUME p.params.action # "rollback_deploy", NEW v \in q.inverse
      PROVE  Inverts(v, q, <<>>)
  <2>1. Inverts(v, p, <<>>)
    BY <1>1, <1>4, <1>5, SynthesizedInverts
  <2> QED BY <1>4, <2>1 DEF Inverts
<1> HIDE DEF q
<1>6. q.id \in {r.id : r \in UNION Playbooks}
  BY <1>4
<1>7. OfPlaybook(q, idx)
  BY <1>1, <1>3, <1>4, <1>5, <1>6 DEF OfPlaybook
<1> QED BY <1>1, <1>4, <1>7 DEF q

(* Identifiers are told apart by their kind and their number.              *)
LEMMA IdsDiffer ==
  /\ \A m, n : PlanId(m) = PlanId(n) => m = n
  /\ \A m, x : PlanId(m) # PlaybookId(x)
  /\ \A m : PlanId(m) # <<>> /\ PlaybookId(m) # <<>>
BY DEF PlanId, PlaybookId

(* Plans that are numbered by their places have different identifiers.     *)
LEMMA NumbersDiffer ==
  ASSUME NEW m \in Nat, NEW b, \A k \in 1 .. m : b[k].id = PlanId(k - 1)
  PROVE  \A k, l \in 1 .. m : b[k].id = b[l].id => k = l
<1> SUFFICES ASSUME NEW k \in 1 .. m, NEW l \in 1 .. m, b[k].id = b[l].id
             PROVE  k = l
  OBVIOUS
<1>1. PlanId(k - 1) = PlanId(l - 1)
  OBVIOUS
<1>2. k - 1 = l - 1
  BY <1>1, IdsDiffer, Zenon
<1> QED BY <1>2

(* The sequence of a set of at most one element.                           *)
LEMMA SequenceOfOne ==
  ASSUME NEW p
  PROVE  SetToSeq({p}) \in Seq({p}) /\ Len(SetToSeq({p})) = 1 /\ SetToSeq({p})[1] = p
<1> DEFINE f == [k \in 1 .. 1 |-> p]
<1>1. Cardinality({p}) = 1
  BY FS_Singleton
<1>2. f \in [1 .. 1 -> {p}] /\ IsInjective(f)
  BY DEF IsInjective
<1>3. SetToSeq({p}) \in [1 .. 1 -> {p}]
  BY <1>1, <1>2 DEF SetToSeq
<1> DEFINE t == SetToSeq({p})
<1> HIDE DEF t
<1>4. t \in [1 .. 1 -> {p}]
  BY <1>3 DEF t
<1>5. t \in Seq({p}) /\ Len(t) = 1
  <2> DEFINE S == {p}
             n == 1
  <2>1. t \in [1 .. n -> S] /\ n \in Nat
    BY <1>4
  <2> HIDE DEF S, n
  <2>2. t \in Seq(S) /\ Len(t) = n
    BY <2>1
  <2> QED BY <2>2 DEF S, n
<1>6. t[1] = p
  BY <1>4
<1> QED BY <1>5, <1>6 DEF t

(* That of no element.                                                     *)
LEMMA SequenceOfNone ==
  SetToSeq({}) \in Seq({}) /\ Len(SetToSeq({})) = 0
<1> DEFINE f == [k \in 1 .. 0 |-> 0]
<1>1. Cardinality({}) = 0
  BY FS_EmptySet
<1>2. f \in [1 .. 0 -> {}] /\ IsInjective(f)
  BY DEF IsInjective
<1>3. SetToSeq({}) \in [1 .. 0 -> {}]
  BY <1>1, <1>2 DEF SetToSeq
<1> QED BY <1>3

(* What the planner answered, and the playbook, make a sound ballot.       *)
LEMMA BallotIsSound ==
  ASSUME NEW answer, NEW n \in Nat, DOMAIN answer = 1 .. n,
         \A k \in 1 .. n : WellTyped(answer[k]), NEW deploys, NEW playbook \in Playbooks
  PROVE  IsBallot(WithPlaybook(CandidatesFrom(answer, deploys), playbook), deploys)
<1> DEFINE all == CandidatesFrom(answer, deploys)
           b == WithPlaybook(all, playbook)
           same == {k \in DOMAIN all : \E q \in playbook : SamePlan(all[k], q)}
           first == CHOOSE k \in same : \A l \in same : k <= l
<1>1. PICK m \in Nat : /\ all \in Seq({all[k] : k \in 1 .. m}) /\ DOMAIN all = 1 .. m
                       /\ \A k \in 1 .. m : OfPlanner(all[k], k - 1, deploys)
                       /\ \E k \in 1 .. m : all[k].params.action = "no_action"
  BY CandidatesAre
<1> HIDE DEF all
<1>2. CASE same # {}
  <2> DEFINE ballot == [all EXCEPT ![first].origin = "playbook"]
  <2>1. b = [k \in DOMAIN ballot |-> [ballot[k] EXCEPT !.index = k - 1]]
    BY <1>2 DEF WithPlaybook
  <2>2. DOMAIN ballot = 1 .. m /\ \A k \in 1 .. m : ballot[k] \in {all[k], [all[k] EXCEPT !.origin = "playbook"]}
    BY <1>1
  <2> HIDE DEF ballot, b, same
  <2>3. DOMAIN b = 1 .. m
    BY <2>1, <2>2
  <2>4. ASSUME NEW k \in 1 .. m
        PROVE  OfPlanner(b[k], k - 1, deploys) /\ b[k].params = all[k].params /\ b[k].id = PlanId(k - 1)
    <3>1. OfPlanner(all[k], k - 1, deploys)
      BY <1>1
    <3> DEFINE p == all[k]
    <3>2. p = [id |-> PlanId(k - 1), index |-> k - 1, params |-> p.params, targets |-> Targets(p.params),
               inverse |-> p.inverse, origin |-> p.origin]
      BY <3>1 DEF OfPlanner
    <3>3. b[k] = [ballot[k] EXCEPT !.index = k - 1]
      BY <2>1, <2>2
    <3>4. PICK o : b[k] = [id |-> PlanId(k - 1), index |-> k - 1, params |-> p.params,
                           targets |-> Targets(p.params), inverse |-> p.inverse, origin |-> o]
      <4>1. CASE ballot[k] = p
        <5>1. b[k] = [id |-> PlanId(k - 1), index |-> k - 1, params |-> p.params,
                      targets |-> Targets(p.params), inverse |-> p.inverse, origin |-> p.origin]
          BY <3>2, <3>3, <4>1
        <5> QED BY <5>1
      <4>2. CASE ballot[k] = [p EXCEPT !.origin = "playbook"]
        <5>1. b[k] = [id |-> PlanId(k - 1), index |-> k - 1, params |-> p.params,
                      targets |-> Targets(p.params), inverse |-> p.inverse, origin |-> "playbook"]
          <6>1. ballot[k] = [id |-> PlanId(k - 1), index |-> k - 1, params |-> p.params,
                             targets |-> Targets(p.params), inverse |-> p.inverse,
                             origin |-> "playbook"]
            BY <3>2, <4>2
          <6> QED BY <3>3, <6>1
        <5> QED BY <5>1
      <4> QED BY <2>2, <4>1, <4>2
    <3>5. /\ b[k].params = p.params /\ b[k].id = p.id /\ b[k].targets = p.targets
          /\ b[k].inverse = p.inverse /\ b[k].id = PlanId(k - 1)
          /\ b[k] = [id |-> PlanId(k - 1), index |-> k - 1, params |-> b[k].params,
                     targets |-> Targets(b[k].params), inverse |-> b[k].inverse, origin |-> b[k].origin]
      BY <3>2, <3>4
    <3> HIDE DEF p
    <3>6. \A v : Inverts(v, b[k], deploys) <=> Inverts(v, p, deploys)
      BY <3>5 DEF Inverts
    <3>7. OfPlanner(p, k - 1, deploys)
      BY <3>1 DEF p
    <3>8. OfPlanner(b[k], k - 1, deploys)
      BY <3>5, <3>6, <3>7 DEF OfPlanner
    <3> QED BY <3>5, <3>8 DEF p
  <2>5. \A k, l \in 1 .. m : b[k].id = b[l].id => k = l
    BY <2>4, NumbersDiffer
  <2>6. IsBallot(b, deploys)
    BY <1>1, <2>3, <2>4, <2>5 DEF IsBallot
  <2> QED BY <2>6 DEF b, all
<1>3. CASE same = {}
  <2> DEFINE tail == SetToSeq(playbook)
             ballot == all \o tail
  <2>1. b = [k \in DOMAIN ballot |-> [ballot[k] EXCEPT !.index = k - 1]]
    BY <1>3 DEF WithPlaybook
  <2> HIDE DEF b, same, ballot
  <2>2. ASSUME NEW k \in 1 .. m
        PROVE  [all[k] EXCEPT !.index = k - 1] = all[k] /\ all[k].id = PlanId(k - 1)
    <3>1. OfPlanner(all[k], k - 1, deploys)
      BY <1>1
    <3> QED BY <3>1 DEF OfPlanner
  <2>3. CASE playbook = {}
    <3>1. tail \in Seq({}) /\ Len(tail) = 0
      BY <2>3, SequenceOfNone
    <3> HIDE DEF tail
    <3>2. DOMAIN ballot = 1 .. m /\ \A k \in 1 .. m : ballot[k] = all[k]
      BY <1>1, <3>1 DEF ballot
    <3>3. DOMAIN b = 1 .. m /\ \A k \in 1 .. m : b[k] = all[k]
      BY <2>1, <2>2, <3>2
    <3>4. \A k, l \in 1 .. m : b[k].id = b[l].id => k = l
      <4>1. \A k \in 1 .. m : b[k].id = PlanId(k - 1)
        BY <2>2, <3>3
      <4> QED BY <4>1, NumbersDiffer
    <3>5. IsBallot(b, deploys)
      BY <1>1, <3>3, <3>4 DEF IsBallot
    <3> QED BY <3>5 DEF b, all
  <2>4. CASE playbook # {}
    <3>1. PICK p \in playbook : TRUE
      BY <2>4
    <3>2. /\ playbook = {p} /\ OfPlaybook([p EXCEPT !.index = m], m)
          /\ p.id = PlaybookId(p.id[2])
      BY LearnedIsOfPlaybook
    <3> DEFINE q == [p EXCEPT !.index = m]
    <3>3. tail \in Seq({p}) /\ Len(tail) = 1 /\ tail[1] = p
      BY <3>2, SequenceOfOne
    <3> HIDE DEF tail
    <3>4. DOMAIN ballot = 1 .. m + 1 /\ ballot[m + 1] = p /\ \A k \in 1 .. m : ballot[k] = all[k]
      <4> DEFINE T == {all[k] : k \in 1 .. m} \cup {p}
      <4>1. all \in Seq(T) /\ Len(all) = m /\ tail \in Seq(T)
        BY <1>1, <3>3
      <4> HIDE DEF T
      <4>2. DOMAIN ballot = 1 .. m + 1 /\ \A k \in 1 .. 1 : ballot[m + k] = tail[k]
        <5>1. /\ DOMAIN (all \o tail) = 1 .. Len(all) + Len(tail)
              /\ \A k \in 1 .. Len(tail) : (all \o tail)[Len(all) + k] = tail[k]
          BY <4>1, ConcatIs
        <5> QED BY <3>3, <4>1, <5>1 DEF ballot
      <4>3. \A k \in 1 .. m : ballot[k] = all[k]
        BY <3>3, <4>1 DEF ballot
      <4> QED BY <3>3, <4>2, <4>3
    <3>5. /\ DOMAIN b = 1 .. m + 1 /\ b[m + 1] = q /\ \A k \in 1 .. m : b[k] = all[k]
      <4>1. m + 1 \in 1 .. m + 1 /\ (m + 1) - 1 = m /\ \A k \in 1 .. m : k \in 1 .. m + 1
        OBVIOUS
      <4> QED BY <2>1, <2>2, <3>4, <4>1
    <3>6. b[m + 1].id = PlaybookId(p.id[2]) /\ OfPlaybook(b[m + 1], (m + 1) - 1)
      <4>1. (m + 1) - 1 = m
        OBVIOUS
      <4>2. q.id = p.id
        <5>1. p.id = q.id
          BY <3>2 DEF OfPlaybook
        <5> QED BY <5>1
      <4> QED BY <3>2, <3>5, <4>1, <4>2
    <3> HIDE DEF q
    <3>7. \A k \in 1 .. m + 1 : k = m + 1 \/ k \in 1 .. m
      OBVIOUS
    <3>8. \A k, l \in 1 .. m + 1 : b[k].id = b[l].id => k = l
      <4>2. \A k \in 1 .. m : b[k].id = PlanId(k - 1)
        BY <2>2, <3>5
      <4>3. \A k, l \in 1 .. m : b[k].id = b[l].id => k = l
        BY <4>2, NumbersDiffer
      <4>4. \A k \in 1 .. m : b[k].id # b[m + 1].id
        BY <3>6, <4>2, IdsDiffer
      <4> QED BY <3>7, <4>3, <4>4
    <3>9. \A k \in 1 .. m + 1 : OfPlanner(b[k], k - 1, deploys) \/ OfPlaybook(b[k], k - 1)
      BY <1>1, <3>5, <3>6, <3>7
    <3>10. m + 1 \in Nat /\ \E k \in 1 .. m + 1 : b[k].params.action = "no_action"
      BY <1>1, <3>5
    <3>11. IsBallot(b, deploys)
      BY <3>5, <3>8, <3>9, <3>10 DEF IsBallot
    <3> QED BY <3>11 DEF b, all
  <2> QED BY <2>3, <2>4
<1> QED BY <1>2, <1>3

-----------------------------------------------------------------------------
(***************************************************************************)
(* The deploys.                                                            *)
(***************************************************************************)
Recent(n) == Reverse(SubSeq(History, 1, n))

Deployed(commit, n, s) == \E k \in 1 .. n : History[k].commit = commit /\ s \in History[k].digests

(* What is assumed of the deploys.                                         *)
LEMMA HistoryIs ==
  /\ History \in Seq(DeployRefs) /\ Len(History) \in Nat /\ Len(History) # 0
  /\ \A k \in 1 .. Len(History) : History[k].commit \in Commits
  /\ \A k, l \in 1 .. Len(History) : History[k].commit = History[l].commit => k = l
  /\ History[1].digests = Workloads
<1>1. /\ History \in Seq(DeployRefs) /\ History # <<>> /\ History[1].digests = Workloads
      /\ \A k, l \in DOMAIN History : History[k].commit = History[l].commit => k = l
  BY ApplierAssumption DEF ApplierAssumption
<1>2. Len(History) \in Nat /\ Len(History) # 0 /\ DOMAIN History = 1 .. Len(History)
      /\ \A k \in 1 .. Len(History) : History[k] \in DeployRefs
  BY <1>1
<1> QED BY <1>1, <1>2 DEF DeployRefs

(* A context is the history backwards.                                     *)
LEMMA RecentIs ==
  ASSUME NEW n \in 0 .. Len(History)
  PROVE  Recent(n) = [k \in 1 .. n |-> History[n - k + 1]]
<1>1. History \in Seq(DeployRefs) /\ Len(History) \in Nat
  BY HistoryIs
<1> DEFINE part == SubSeq(History, 1, n)
<1>2. Len(part) = n /\ \A k \in 1 .. n : part[k] = History[k]
  BY <1>1
<1> HIDE DEF part
<1>3. Reverse(part) = [k \in 1 .. n |-> part[n - k + 1]]
  BY <1>2 DEF Reverse
<1>4. \A k \in 1 .. n : n - k + 1 \in 1 .. n
  OBVIOUS
<1>5. Reverse(part) = [k \in 1 .. n |-> History[n - k + 1]]
  BY <1>2, <1>3, <1>4
<1> QED BY <1>5 DEF Recent, part

(* A reference resolves if its commit has been deployed with an image of   *)
(* the workload.                                                           *)
LEMMA ResolveIs ==
  ASSUME NEW n \in 0 .. Len(History), NEW commit, NEW s
  PROVE  ResolveCommitRef(commit, Recent(n), s) = IF Deployed(commit, n, s) THEN commit ELSE NoCommit
<1> DEFINE deploys == Recent(n)
           found == Matching(commit, deploys)
           first == CHOOSE k \in found : \A l \in found : k <= l
<1>1. Len(History) \in Nat
  BY HistoryIs
<1>2. deploys = [k \in 1 .. n |-> History[n - k + 1]]
  BY RecentIs
<1> HIDE DEF deploys
<1>3. found = {k \in 1 .. n : History[n - k + 1].commit = commit}
  BY <1>2 DEF Matching
<1>4. ResolveCommitRef(commit, deploys, s) = IF found # {} /\ s \in deploys[first].digests
                                             THEN commit ELSE NoCommit
  BY DEF ResolveCommitRef
<1> HIDE DEF found
<1>5. ASSUME found # {}
      PROVE  first \in found
  <2>1. found \subseteq Nat
    BY <1>1, <1>3
  <2>2. \E m \in found : \A l \in found : m <= l
    BY <1>5, <2>1, HasLeast
  <2> QED BY <2>2
<1> HIDE DEF first
<1>6. \A k \in 1 .. n : n - k + 1 \in 1 .. n /\ n - (n - k + 1) + 1 = k /\ k \in 1 .. Len(History)
  BY <1>1
<1>7. ASSUME Deployed(commit, n, s)
      PROVE  found # {} /\ s \in deploys[first].digests
  <2>1. PICK k \in 1 .. n : History[k].commit = commit /\ s \in History[k].digests
    BY <1>7 DEF Deployed
  <2>2. n - k + 1 \in found
    BY <1>3, <1>6, <2>1
  <2>3. first \in 1 .. n /\ History[n - first + 1].commit = commit
    BY <1>3, <1>5, <2>2
  <2>4. n - first + 1 = k
    BY <1>6, <2>1, <2>3, HistoryIs
  <2>5. deploys[first] = History[k]
    BY <1>2, <2>3, <2>4
  <2> QED BY <2>1, <2>2, <2>5
<1>8. ASSUME found # {}, s \in deploys[first].digests
      PROVE  Deployed(commit, n, s)
  <2>1. first \in 1 .. n /\ History[n - first + 1].commit = commit
    BY <1>3, <1>5, <1>8
  <2>2. deploys[first] = History[n - first + 1]
    BY <1>2, <2>1
  <2> QED BY <1>6, <1>8, <2>1, <2>2 DEF Deployed
<1>9. ResolveCommitRef(commit, deploys, s) = IF Deployed(commit, n, s) THEN commit ELSE NoCommit
  BY <1>4, <1>7, <1>8
<1> QED BY <1>9 DEF deploys

(* What has been deployed stays deployed, and is a commit.                 *)
LEMMA DeployedIs ==
  ASSUME NEW m \in 0 .. Len(History), NEW n \in 0 .. Len(History), m <= n,
         NEW commit, NEW s, Deployed(commit, m, s)
  PROVE  Deployed(commit, n, s) /\ commit \in Commits /\ commit # NoCommit
<1>1. PICK k \in 1 .. m : History[k].commit = commit /\ s \in History[k].digests
  BY DEF Deployed
<1>2. k \in 1 .. n /\ k \in 1 .. Len(History)
  BY HistoryIs
<1>3. commit \in Commits
  BY <1>1, <1>2, HistoryIs
<1> QED BY <1>1, <1>2, <1>3, PlannerAssumption DEF Deployed, PlannerAssumption

(* The inverse of a rollback rolls forward to another commit: the newest,  *)
(* if the rollback went to an older one.                                   *)
LEMMA PreIncidentIs ==
  ASSUME NEW n \in 0 .. Len(History), NEW commit, NEW s,
         NEW c, c = PreIncidentCommit(commit, Recent(n), s), c # NoCommit
  PROVE  n # 0 /\ c # commit /\ (commit # Recent(n)[1].commit => c = Recent(n)[1].commit)
<1> DEFINE deploys == Recent(n)
           head == deploys[1].commit
           others == {k \in 2 .. Len(deploys) :
                        /\ deploys[k].commit \notin {head, commit}
                        /\ (deploys[k].digests = {} \/ s \in deploys[k].digests)}
           first == CHOOSE k \in others : \A l \in others : k <= l
<1>1. Len(History) \in Nat
  BY HistoryIs
<1>2. deploys = [k \in 1 .. n |-> History[n - k + 1]]
  BY RecentIs
<1> HIDE DEF deploys
<1>3. c = IF deploys = <<>> THEN NoCommit
          ELSE IF commit # head THEN head
          ELSE IF others = {} THEN NoCommit ELSE deploys[first].commit
  BY DEF PreIncidentCommit, deploys
<1>4. n # 0
  <2>1. n = 0 => deploys = <<>>
    BY <1>2
  <2> QED BY <1>3, <2>1
<1>5. ASSUME commit = head
      PROVE  c # commit
  <2>1. others # {} /\ c = deploys[first].commit
    BY <1>3, <1>5
  <2>2. Len(deploys) = n
    BY <1>1, <1>2
  <2>3. others \subseteq Nat
    BY <1>1, <2>2
  <2>4. first \in others
    <3> HIDE DEF others
    <3>1. \E m \in others : \A l \in others : m <= l
      BY <2>1, <2>3, HasLeast
    <3> QED BY <3>1
  <2> HIDE DEF first
  <2> QED BY <2>1, <2>4
<1>6. commit # head => c = head
  BY <1>3
<1> HIDE DEF head, others, first
<1>7. c # commit
  BY <1>5, <1>6
<1> QED BY <1>4, <1>6, <1>7 DEF head, deploys

-----------------------------------------------------------------------------
(***************************************************************************)
(* Types.                                                                  *)
(***************************************************************************)
IncidentStages == {"new", "planning", "planned", "forked", "rehearsed", "actuating", "applied",
                   "escalated", "failed"}

SlotIds == {PlanId(n) : n \in Nat} \cup {q.id : q \in UNION Playbooks}

Deployments == [image : Commits, replicas : Nat, restarts : Nat, slot : SlotIds \cup {<<>>},
                flag : FlagStates, value : SUBSET Values]

EnvOk(env, n) ==
  env \in [Workloads -> Deployments] /\ \A s \in Workloads : Deployed(env[s].image, n, s)

IsPatch(p) ==
  /\ p.id \in SlotIds /\ WellTyped(p.params) /\ p.params.workload \in Workloads
  /\ p.params.action # "no_action"

CanLand(p, was, n) ==
  /\ p.params.action = "rollback_deploy" => Deployed(p.params.commit, n, p.params.workload)
  /\ p.params.action = "scale_workload" => was.replicas + p.params.delta \in Nat

Planned(i) ==
  /\ seen[i] \in 0 .. deployed /\ asked[i] \in 0 .. MaxRetries
  /\ plans[i] # <<>> => IsBallot(plans[i], Recent(seen[i]))
  /\ inc[i] \in {"new", "planning"} => plans[i] = <<>> /\ twins[i] = <<>>
  /\ twins[i] # <<>> => DOMAIN twins[i] = DOMAIN plans[i]
  /\ inc[i] = "forked" => /\ DOMAIN twins[i] = DOMAIN plans[i]
                          /\ \A k \in DOMAIN plans[i] : EnvOk(twins[i][k], deployed)

Called(i) ==
  /\ winner[i] # {} => inc[i] \in {"actuating", "applied", "failed"}
  /\ winner[i] \subseteq {plans[i][k] : k \in DOMAIN plans[i]}
  /\ \A p \in winner[i] : winner[i] = {p} /\ IsPatch(p)
  /\ read[i] \subseteq Deployments /\ \A d \in read[i] : read[i] = {d}
  /\ late[i] \subseteq Deployments /\ \A d \in late[i] : late[i] = {d}
  /\ read[i] # {} => inc[i] = "actuating"
  /\ late[i] # {} => inc[i] = "failed" /\ i \notin landed
  /\ \A p \in winner[i], was \in late[i] : CanLand(p, was, deployed)
  /\ i \in landed => inc[i] \in {"applied", "failed"}

Ranges ==
  /\ deployed \in 1 .. Len(History) /\ EnvOk(prod, deployed)
  /\ inc \in [Incidents -> IncidentStages]
  /\ seen = [i \in Incidents |-> seen[i]] /\ asked = [i \in Incidents |-> asked[i]]
  /\ plans = [i \in Incidents |-> plans[i]] /\ twins = [i \in Incidents |-> twins[i]]
  /\ winner = [i \in Incidents |-> winner[i]] /\ read = [i \in Incidents |-> read[i]]
  /\ late = [i \in Incidents |-> late[i]]
  /\ landed \subseteq Incidents /\ IsFiniteSet(landed) /\ mixed \in BOOLEAN

ApplierTyped == Ranges /\ \A i \in Incidents : Planned(i) /\ Called(i)

(* The plan on a ballot that is no idleness is a patch.                    *)
LEMMA EntryIsPatch ==
  ASSUME NEW b, NEW deploys, IsBallot(b, deploys), NEW k \in DOMAIN b,
         b[k].params.action # "no_action"
  PROVE  IsPatch(b[k])
<1>1. k - 1 \in Nat /\ (OfPlanner(b[k], k - 1, deploys) \/ OfPlaybook(b[k], k - 1))
  BY DEF IsBallot
<1>2. CASE OfPlanner(b[k], k - 1, deploys)
  <2>1. b[k].id = PlanId(k - 1) /\ WellTyped(b[k].params) /\ b[k].params.workload \in Workloads
    BY <1>2 DEF OfPlanner
  <2> QED BY <1>1, <2>1 DEF IsPatch, SlotIds
<1>3. CASE OfPlaybook(b[k], k - 1)
  BY <1>3 DEF OfPlaybook, IsPatch, SlotIds
<1> QED BY <1>1, <1>2, <1>3

(* An identifier is not the empty slot.                                    *)
LEMMA IdsAreNotEmpty == <<>> \notin SlotIds
<1>1. ASSUME NEW n \in Nat PROVE PlanId(n) # <<>>
  BY IdsDiffer
<1>2. ASSUME NEW q \in UNION Playbooks PROVE q.id # <<>>
  <2>1. PICK playbook \in Playbooks : q \in playbook
    BY <1>2
  <2>2. q.id = PlaybookId(q.id[2])
    BY <2>1, LearnedIsOfPlaybook
  <2> QED BY <2>2, IdsDiffer
<1> QED BY <1>1, <1>2 DEF SlotIds

(* The image that a reference of the state resolves to.                    *)
LEMMA TargetIs ==
  ASSUME deployed \in 1 .. Len(History), NEW c
  PROVE  TargetImage(c) = IF Deployed(c.commit, deployed, c.workload) THEN c.commit ELSE NoCommit
<1>1. deployed \in 0 .. Len(History)
  BY HistoryIs
<1>2. TargetImage(c) = ResolveCommitRef(c.commit, Recent(deployed), c.workload)
  BY DEF TargetImage, RecentDeploys, Recent
<1> QED BY <1>1, <1>2, ResolveIs

(* What a patch leaves behind.                                             *)
LEMMA PatchingIs ==
  ASSUME deployed \in 1 .. Len(History), NEW p, p.params.action \in Actions \ {"no_action"}, NEW was, NEW d \in Deployments
  PROVE  LET c == p.params
             new == Patched(p, was, d)
         IN  /\ new = [image |-> new.image, replicas |-> new.replicas, restarts |-> new.restarts,
                       slot |-> new.slot, flag |-> new.flag, value |-> new.value]
             /\ new.image = IF c.action = "rollback_deploy" THEN TargetImage(c) ELSE d.image
             /\ new.replicas = IF c.action = "scale_workload" THEN was.replicas + c.delta
                               ELSE d.replicas
             /\ new.restarts \in {d.restarts, d.restarts + 1}
             /\ new.slot = IF c.action \in {"rollback_deploy", "restart_workload", "scale_workload"}
                           THEN p.id ELSE d.slot
             /\ new.flag = IF c.action = "disable_flag" THEN FlagValue(c) ELSE d.flag
             /\ new.value \in {d.value, c.value}
<1> DEFINE c == p.params
<1>1. d = [image |-> d.image, replicas |-> d.replicas, restarts |-> d.restarts,
           slot |-> d.slot, flag |-> d.flag, value |-> d.value]
  BY DEF Deployments
<1>2. c.action \in Actions \ {"no_action"}
  OBVIOUS
<1>3. CASE c.action = "rollback_deploy"
  <2>1. Patched(p, was, d) = [d EXCEPT !.image = TargetImage(p.params), !.slot = p.id]
    BY <1>3 DEF Patched, RollbackDeploy
  <2> QED BY <1>1, <1>3, <2>1
<1>4. CASE c.action = "restart_workload"
  <2>1. Patched(p, was, d) = [d EXCEPT !.restarts = @ + 1, !.slot = p.id]
    BY <1>4 DEF Patched, RestartWorkload
  <2> QED BY <1>1, <1>4, <2>1
<1>5. CASE c.action = "scale_workload"
  <2>1. Patched(p, was, d) = [d EXCEPT !.replicas = was.replicas + p.params.delta, !.slot = p.id]
    BY <1>5 DEF Patched, ScaleWorkload
  <2> QED BY <1>1, <1>5, <2>1
<1>6. CASE c.action = "disable_flag"
  <2>1. Patched(p, was, d) = [d EXCEPT !.flag = FlagValue(p.params)]
    BY <1>6 DEF Patched, DisableFlag
  <2> QED BY <1>1, <1>6, <2>1
<1>7. CASE c.action = "revert_config"
  <2>1. Patched(p, was, d) = [d EXCEPT !.value = p.params.value]
    BY <1>7 DEF Patched, RevertConfig
  <2> QED BY <1>1, <1>7, <2>1
<1> QED BY <1>2, <1>3, <1>4, <1>5, <1>6, <1>7 DEF Actions

(* What the patch of a plan leaves behind.                                 *)
LEMMA PatchedIs ==
  ASSUME deployed \in 1 .. Len(History), NEW p, IsPatch(p), NEW was, NEW d \in Deployments
  PROVE  LET c == p.params
             new == Patched(p, was, d)
         IN  /\ new = [image |-> new.image, replicas |-> new.replicas, restarts |-> new.restarts,
                       slot |-> new.slot, flag |-> new.flag, value |-> new.value]
             /\ new.image = IF c.action = "rollback_deploy" THEN TargetImage(c) ELSE d.image
             /\ new.replicas = IF c.action = "scale_workload" THEN was.replicas + c.delta
                               ELSE d.replicas
             /\ new.restarts \in {d.restarts, d.restarts + 1}
             /\ new.slot = IF c.action \in {"rollback_deploy", "restart_workload", "scale_workload"}
                           THEN p.id ELSE d.slot
             /\ new.flag = IF c.action = "disable_flag" THEN FlagValue(c) ELSE d.flag
             /\ new.value \in {d.value, c.value}
BY PatchingIs DEF IsPatch, WellTyped

(* An environment stays one when a patch that can land lands.              *)
LEMMA PatchKeepsEnv ==
  ASSUME deployed \in 1 .. Len(History), NEW p, IsPatch(p), NEW was, CanLand(p, was, deployed),
         NEW env, EnvOk(env, deployed)
  PROVE  EnvOk([env EXCEPT ![p.params.workload] = Patched(p, was, @)], deployed)
<1> DEFINE c == p.params
           s == c.workload
           d == env[s]
           new == Patched(p, was, d)
<1>1. env \in [Workloads -> Deployments] /\ s \in Workloads /\ d \in Deployments
      /\ \A t \in Workloads : Deployed(env[t].image, deployed, t)
  BY DEF EnvOk, IsPatch
<1>2. /\ new = [image |-> new.image, replicas |-> new.replicas, restarts |-> new.restarts,
                slot |-> new.slot, flag |-> new.flag, value |-> new.value]
      /\ new.image = IF c.action = "rollback_deploy" THEN TargetImage(c) ELSE d.image
      /\ new.replicas = IF c.action = "scale_workload" THEN was.replicas + c.delta
                        ELSE d.replicas
      /\ new.restarts \in {d.restarts, d.restarts + 1}
      /\ new.slot = IF c.action \in {"rollback_deploy", "restart_workload", "scale_workload"}
                    THEN p.id ELSE d.slot
      /\ new.flag = IF c.action = "disable_flag" THEN FlagValue(c) ELSE d.flag
      /\ new.value \in {d.value, c.value}
  <2> HIDE DEF d
  <2> QED BY <1>1, PatchedIs
<1>3. /\ d.image \in Commits /\ d.replicas \in Nat /\ d.restarts \in Nat
      /\ d.slot \in SlotIds \cup {<<>>} /\ d.flag \in FlagStates /\ d.value \subseteq Values
  BY <1>1 DEF Deployments
<1>4. FlagValue(c) \in FlagStates /\ c.value \subseteq Values /\ p.id \in SlotIds
  BY DEF IsPatch, WellTyped, FlagValue, FlagStates
<1>5. Deployed(new.image, deployed, s) /\ new.image \in Commits
  <2>1. CASE c.action = "rollback_deploy"
    <3>1. Deployed(c.commit, deployed, s)
      BY <2>1 DEF CanLand
    <3>2. TargetImage(c) = c.commit
      BY <3>1, TargetIs
    <3>3. c.commit \in Commits
      <4>1. deployed \in 0 .. Len(History)
        BY HistoryIs
      <4> QED BY <3>1, <4>1, DeployedIs
    <3> QED BY <1>2, <2>1, <3>1, <3>2, <3>3
  <2>2. CASE c.action # "rollback_deploy"
    BY <1>1, <1>2, <1>3, <2>2
  <2> QED BY <2>1, <2>2
<1>6. new.replicas \in Nat
  BY <1>2, <1>3 DEF CanLand
<1> HIDE DEF new, d
<1>7. new \in Deployments
  <2>1. /\ new.restarts \in Nat /\ new.slot \in SlotIds \cup {<<>>} /\ new.flag \in FlagStates
        /\ new.value \in SUBSET Values
    BY <1>2, <1>3, <1>4
  <2> QED BY <1>2, <1>5, <1>6, <2>1 DEF Deployments
<1>8. [env EXCEPT ![s] = Patched(p, was, @)] = [env EXCEPT ![s] = new]
  BY DEF new, d
<1>9. EnvOk([env EXCEPT ![s] = new], deployed)
  BY <1>1, <1>5, <1>7 DEF EnvOk
<1> QED BY <1>8, <1>9

(* Everything has its type at the start.                                   *)
LEMMA ApplierTypedAtFirst ==
  ASSUME ApplierInit
  PROVE  ApplierTyped
<1> USE HistoryIs
<1>1. MaxRetries \in Nat /\ Replicas \in Nat
  BY ApplierAssumption DEF ApplierAssumption
<1>2. \A s \in Workloads : Deployed(History[1].commit, 1, s)
  <2>1. 1 \in 1 .. 1
    OBVIOUS
  <2> QED BY <2>1 DEF Deployed
<1>0. PICK flags \in [Workloads -> FlagStates] :
         prod = [s \in Workloads |-> InitialDeployment(flags[s])]
  BY ApplierAssumption DEF ApplierAssumption, ApplierInit
<1>3. ASSUME NEW s \in Workloads
      PROVE  InitialDeployment(flags[s]) \in Deployments
  <2>1. History[1].commit \in Commits /\ flags[s] \in FlagStates
    OBVIOUS
  <2> QED BY <1>1, <2>1 DEF InitialDeployment, Deployments
<1>4. EnvOk(prod, deployed) /\ deployed \in 1 .. Len(History)
  <2>1. \A s \in Workloads : InitialDeployment(flags[s]).image = History[1].commit
    BY DEF InitialDeployment
  <2> QED BY <1>0, <1>2, <1>3, <2>1 DEF ApplierInit, EnvOk
<1>5. Ranges
  <2>1. IsFiniteSet({})
    BY FS_EmptySet
  <2> QED BY <1>4, <2>1 DEF ApplierInit, Ranges, IncidentStages
<1>6. ASSUME NEW i \in Incidents
      PROVE  Planned(i) /\ Called(i)
  <2>1. /\ deployed = 1 /\ seen[i] = 0 /\ asked[i] = 0 /\ plans[i] = <<>> /\ twins[i] = <<>>
        /\ inc[i] = "new" /\ winner[i] = {} /\ read[i] = {} /\ late[i] = {} /\ landed = {}
    BY DEF ApplierInit
  <2>2. Planned(i)
    BY <1>1, <2>1 DEF Planned
  <2>3. Called(i)
    BY <2>1 DEF Called
  <2> QED BY <2>2, <2>3
<1> QED BY <1>5, <1>6 DEF ApplierTyped

-----------------------------------------------------------------------------
(* An incident that a step leaves alone keeps its plans.                   *)
LEMMA PlannedStays ==
  ASSUME NEW j, Planned(j), deployed' = deployed, seen'[j] = seen[j], asked'[j] = asked[j],
         plans'[j] = plans[j], twins'[j] = twins[j], inc'[j] = inc[j]
  PROVE  Planned(j)'
BY DEF Planned

(* The same for its call.                                                  *)
LEMMA CalledStays ==
  ASSUME NEW j, Called(j), deployed' = deployed, plans'[j] = plans[j], winner'[j] = winner[j],
         read'[j] = read[j], late'[j] = late[j], inc'[j] = inc[j],
         j \in landed' <=> j \in landed
  PROVE  Called(j)'
BY DEF Called

(* A deploy.                                                               *)
LEMMA DeployIsTyped ==
  ASSUME ApplierTyped, Deploy
  PROVE  ApplierTyped'
<1> DEFINE n == deployed + 1
<1>1. /\ Ranges /\ deployed \in 1 .. Len(History) /\ n \in 1 .. Len(History) /\ deployed' = n
      /\ deployed \in 0 .. Len(History) /\ n \in 0 .. Len(History) /\ deployed <= n
      /\ 0 .. deployed \subseteq 0 .. n
  BY HistoryIs DEF ApplierTyped, Ranges, Deploy
<1>2. /\ UNCHANGED <<inc, seen, asked, plans, twins, winner, read, late, landed, mixed>>
  BY DEF Deploy, incident, actuation
<1>3. \A commit, s : Deployed(commit, deployed, s) => Deployed(commit, n, s)
  BY <1>1, DeployedIs
<1>4. EnvOk(prod', n)
  <2>1. prod \in [Workloads -> Deployments] /\ \A s \in Workloads : Deployed(prod[s].image, n, s)
    BY <1>1, <1>3 DEF Ranges, EnvOk
  <2>2. prod' = [s \in Workloads |->
                   IF s \in History[n].digests
                   THEN [prod[s] EXCEPT !.image = History[n].commit] ELSE prod[s]]
    BY DEF Deploy
  <2>3. ASSUME NEW s \in Workloads
        PROVE  prod'[s] \in Deployments /\ Deployed(prod'[s].image, n, s)
    <3>1. CASE s \in History[n].digests
      <4> DEFINE d == prod[s]
      <4>1. d \in Deployments
        BY <2>1
      <4>2. prod'[s] = [d EXCEPT !.image = History[n].commit] /\ History[n].commit \in Commits
        BY <1>1, <2>2, <3>1, HistoryIs
      <4> HIDE DEF d
      <4>3. prod'[s] \in Deployments /\ prod'[s].image = History[n].commit
        BY <4>1, <4>2 DEF Deployments
      <4>4. n \in 1 .. n
        BY <1>1
      <4>5. Deployed(History[n].commit, n, s)
        BY <3>1, <4>4 DEF Deployed
      <4> QED BY <4>3, <4>5
    <3>2. CASE s \notin History[n].digests
      BY <2>1, <2>2, <3>2
    <3> QED BY <3>1, <3>2
  <2> QED BY <2>2, <2>3 DEF EnvOk
<1>5. Ranges'
  BY <1>1, <1>2, <1>4 DEF Ranges
<1>6. ASSUME NEW i \in Incidents
      PROVE  Planned(i)' /\ Called(i)'
  <2>1. Planned(i) /\ Called(i)
    BY DEF ApplierTyped
  <2>2. \A env : EnvOk(env, deployed) => EnvOk(env, n)
    BY <1>3 DEF EnvOk
  <2>3. \A p, was : CanLand(p, was, deployed) => CanLand(p, was, n)
    BY <1>3 DEF CanLand
  <2>4. Planned(i)'
    BY <1>1, <1>2, <2>1, <2>2 DEF Planned
  <2>5. Called(i)'
    BY <1>1, <1>2, <2>1, <2>3 DEF Called
  <2> QED BY <2>4, <2>5
<1> QED BY <1>5, <1>6 DEF ApplierTyped

(* The steps that only plan.                                               *)
Planning(i) ==
  CollectContext(i) \/ ConnectionLost(i) \/ AskAgain(i) \/ PlanCandidates(i)
  \/ ForkTwins(i) \/ ApplyToTwins(i) \/ Escalate(i)

(* What an answer of the LLM is.                                           *)
LEMMA AnswerIs ==
  ASSUME NEW answer \in LLMAnswers
  PROVE  \E n \in Nat : DOMAIN answer = 1 .. n /\ \A k \in 1 .. n : WellTyped(answer[k])
<1>1. /\ answer \in Seq({answer[k] : k \in DOMAIN answer})
      /\ \A k \in DOMAIN answer : WellTyped(answer[k])
  BY ApplierAssumption DEF ApplierAssumption
<1>2. \E n \in Nat : DOMAIN answer = 1 .. n
  <2> DEFINE T == {answer[k] : k \in DOMAIN answer}
  <2>1. answer \in Seq(T)
    BY <1>1
  <2> HIDE DEF T
  <2> QED BY <2>1
<1> QED BY <1>1, <1>2

(* A step that plans changes nothing but the incident's own planning.      *)
LEMMA PlanningIsTyped ==
  ASSUME ApplierTyped, NEW i \in Incidents, Planning(i)
  PROVE  ApplierTyped'
<1>1. /\ Ranges /\ Planned(i) /\ Called(i) /\ MaxRetries \in Nat /\ deployed \in Nat
  <2>1. Ranges /\ MaxRetries \in Nat /\ Planned(i) /\ Called(i)
    BY ApplierAssumption DEF ApplierTyped, ApplierAssumption
  <2> QED BY <2>1, HistoryIs DEF Ranges
<1>2. /\ UNCHANGED <<deployed, prod, winner, read, late, landed, mixed>>
      /\ inc' = [inc EXCEPT ![i] = inc'[i]] /\ seen' = [seen EXCEPT ![i] = seen'[i]]
      /\ asked' = [asked EXCEPT ![i] = asked'[i]] /\ plans' = [plans EXCEPT ![i] = plans'[i]]
      /\ twins' = [twins EXCEPT ![i] = twins'[i]]
      /\ inc'[i] \in IncidentStages /\ inc'[i] \notin {"new", "actuating", "applied"}
      /\ inc[i] \notin {"actuating", "applied", "failed"}
  <2> USE <1>1 DEF Ranges, actuation, Becomes, IncidentStages
  <2>1. CASE CollectContext(i)
    BY <2>1 DEF CollectContext
  <2>2. CASE ConnectionLost(i)
    BY <2>2 DEF ConnectionLost
  <2>3. CASE AskAgain(i)
    BY <2>3 DEF AskAgain
  <2>4. CASE PlanCandidates(i)
    BY <2>4 DEF PlanCandidates
  <2>5. CASE ForkTwins(i)
    BY <2>5 DEF ForkTwins
  <2>6. CASE ApplyToTwins(i)
    BY <2>6 DEF ApplyToTwins
  <2>7. CASE Escalate(i)
    BY <2>7 DEF Escalate
  <2> QED BY <2>1, <2>2, <2>3, <2>4, <2>5, <2>6, <2>7 DEF Planning
<1>3. Ranges'
  BY <1>1, <1>2 DEF Ranges
<1>4. \A j \in Incidents \ {i} :
         /\ inc'[j] = inc[j] /\ seen'[j] = seen[j] /\ asked'[j] = asked[j]
         /\ plans'[j] = plans[j] /\ twins'[j] = twins[j]
  BY <1>1, <1>2 DEF Ranges
<1>5. ASSUME NEW j \in Incidents, j # i
      PROVE  Planned(j)' /\ Called(j)'
  <2>1. Planned(j) /\ Called(j)
    BY DEF ApplierTyped
  <2> QED BY <1>2, <1>4, <1>5, <2>1, PlannedStays, CalledStays
<1>6. winner[i] = {} /\ read[i] = {} /\ late[i] = {} /\ i \notin landed
  BY <1>1, <1>2 DEF Called
<1>7. Called(i)'
  BY <1>2, <1>6 DEF Called
<1>8. Planned(i)'
  <2>1. CASE CollectContext(i)
    <3>1. /\ seen'[i] = deployed /\ inc'[i] = "planning" /\ asked'[i] = asked[i]
          /\ plans'[i] = <<>> /\ twins'[i] = <<>>
      BY <1>1, <2>1 DEF CollectContext, Becomes, Planned, Ranges
    <3>2. deployed \in 0 .. deployed
      BY <1>1
    <3> QED BY <1>1, <1>2, <3>1, <3>2 DEF Planned
  <2>2. CASE ConnectionLost(i)
    <3>1. /\ seen'[i] = seen[i] /\ inc'[i] = "failed" /\ asked'[i] = asked[i]
          /\ plans'[i] = plans[i] /\ twins'[i] = twins[i]
      BY <1>1, <2>2 DEF ConnectionLost, Becomes, Ranges
    <3> QED BY <1>1, <1>2, <3>1 DEF Planned
  <2>3. CASE AskAgain(i)
    <3>1. /\ seen'[i] = seen[i] /\ plans'[i] = plans[i] /\ twins'[i] = twins[i]
          /\ inc[i] = "planning" /\ inc'[i] \in {"planning", "failed"}
      BY <1>1, <2>3 DEF AskAgain, Ranges
    <3>2. asked'[i] \in 0 .. MaxRetries
      <4>1. asked[i] \in 0 .. MaxRetries
        BY <1>1 DEF Planned
      <4>2. CASE asked[i] < MaxRetries
        <5>1. asked'[i] = asked[i] + 1
          BY <1>1, <2>3, <4>2 DEF AskAgain, Ranges
        <5> QED BY <1>1, <4>1, <4>2, <5>1
      <4>3. CASE ~ (asked[i] < MaxRetries)
        BY <2>3, <4>1, <4>3 DEF AskAgain
      <4> QED BY <4>2, <4>3
    <3> QED BY <1>1, <1>2, <3>1, <3>2 DEF Planned
  <2>4. CASE PlanCandidates(i)
    <3>1. /\ seen'[i] = seen[i] /\ asked'[i] = asked[i] /\ twins'[i] = twins[i]
          /\ inc[i] = "planning" /\ inc'[i] = "planned"
      BY <1>1, <2>4 DEF PlanCandidates, Becomes, Ranges
    <3>2. twins'[i] = <<>>
      BY <1>1, <3>1 DEF Planned
    <3>3. PICK answer \in CallLLM, playbook \in Playbooks :
            /\ Acceptable(answer)
            /\ plans' = [plans EXCEPT ![i] =
                           WithPlaybook(CandidatesFrom(answer, Context(i)), playbook)]
      BY <2>4 DEF PlanCandidates
    <3>4. answer \in LLMAnswers
      BY <3>3 DEF CallLLM, Unparsed, Acceptable
    <3>5. PICK n \in Nat : DOMAIN answer = 1 .. n /\ \A k \in 1 .. n : WellTyped(answer[k])
      BY <3>4, AnswerIs
    <3>6. Context(i) = Recent(seen[i])
      BY DEF Context, Recent
    <3>7. plans'[i] = WithPlaybook(CandidatesFrom(answer, Recent(seen[i])), playbook)
      BY <1>1, <3>3, <3>6 DEF Ranges
    <3>8. IsBallot(plans'[i], Recent(seen[i]))
      BY <3>5, <3>7, BallotIsSound
    <3> QED BY <1>1, <1>2, <3>1, <3>2, <3>8 DEF Planned
  <2>5. CASE ForkTwins(i)
    <3>1. /\ seen'[i] = seen[i] /\ asked'[i] = asked[i] /\ plans'[i] = plans[i]
          /\ inc'[i] = "forked" /\ twins'[i] = [k \in DOMAIN plans[i] |-> prod]
      BY <1>1, <2>5 DEF ForkTwins, Becomes, Ranges
    <3>2. EnvOk(prod, deployed)
      BY <1>1 DEF Ranges
    <3> QED BY <1>1, <1>2, <3>1, <3>2 DEF Planned
  <2>6. CASE ApplyToTwins(i)
    <3>1. /\ seen'[i] = seen[i] /\ asked'[i] = asked[i] /\ plans'[i] = plans[i]
          /\ inc[i] = "forked" /\ inc'[i] \in {"rehearsed", "failed"}
      BY <1>1, <2>6 DEF ApplyToTwins, Ranges
    <3>2. DOMAIN twins[i] = DOMAIN plans[i]
      BY <1>1, <3>1 DEF Planned
    <3>3. DOMAIN twins'[i] = DOMAIN plans[i]
      BY <1>1, <2>6, <3>2 DEF ApplyToTwins, Ranges
    <3> QED BY <1>1, <1>2, <3>1, <3>3 DEF Planned
  <2>7. CASE Escalate(i)
    <3>1. /\ seen'[i] = seen[i] /\ asked'[i] = asked[i] /\ plans'[i] = plans[i]
          /\ inc'[i] = "escalated" /\ twins'[i] = <<>>
      BY <1>1, <2>7 DEF Escalate, Becomes, Ranges
    <3> QED BY <1>1, <1>2, <3>1 DEF Planned
  <2> QED BY <2>1, <2>2, <2>3, <2>4, <2>5, <2>6, <2>7 DEF Planning
<1>9. \A j \in Incidents : Planned(j)' /\ Called(j)'
  BY <1>5, <1>7, <1>8
<1> QED BY <1>3, <1>9 DEF ApplierTyped

-----------------------------------------------------------------------------
(* A patch that is to do can land.                                         *)
LEMMA ToDoCanLand ==
  ASSUME deployed \in 1 .. Len(History), NEW p, IsPatch(p), NEW was \in Deployments, ToDo(p, was)
  PROVE  CanLand(p, was, deployed)
<1> DEFINE c == p.params
<1>1. CASE c.action = "rollback_deploy"
  <2>1. TargetImage(c) # NoCommit
    BY <1>1 DEF ToDo, CannotApply
  <2>2. Deployed(c.commit, deployed, c.workload)
    BY <2>1, TargetIs
  <2> QED BY <1>1, <2>2 DEF CanLand
<1>2. CASE c.action = "scale_workload"
  <2>1. ~ (was.replicas + c.delta < 0)
    BY <1>2 DEF ToDo, CannotApply
  <2>2. was.replicas \in Nat /\ c.delta \in Int
    BY DEF Deployments, IsPatch, WellTyped
  <2> QED BY <1>2, <2>1, <2>2 DEF CanLand
<1>3. CASE c.action \notin {"rollback_deploy", "scale_workload"}
  BY <1>3 DEF CanLand
<1> QED BY <1>1, <1>2, <1>3

(* The choice of a plan.                                                   *)
LEMMA ChooseIsTyped ==
  ASSUME ApplierTyped, NEW i \in Incidents, Choose(i)
  PROVE  ApplierTyped'
<1>1. Ranges /\ Planned(i) /\ Called(i)
  BY DEF ApplierTyped
<1>2. /\ UNCHANGED <<deployed, prod, seen, asked, plans, read, late, landed, mixed>>
      /\ inc[i] = "rehearsed" /\ inc' = [inc EXCEPT ![i] = "actuating"]
      /\ twins' = [twins EXCEPT ![i] = <<>>]
  BY DEF Choose, Becomes, actuation
<1>3. PICK k \in DOMAIN plans[i] :
        /\ plans[i][k].params.action # "no_action"
        /\ winner' = [winner EXCEPT ![i] = {plans[i][k]}]
  BY DEF Choose
<1>4. Ranges'
  BY <1>1, <1>2, <1>3 DEF Ranges, IncidentStages
<1>5. ASSUME NEW j \in Incidents, j # i
      PROVE  Planned(j)' /\ Called(j)'
  <2>1. Planned(j) /\ Called(j)
    BY DEF ApplierTyped
  <2>2. inc'[j] = inc[j] /\ twins'[j] = twins[j] /\ winner'[j] = winner[j]
    BY <1>1, <1>2, <1>3, <1>5 DEF Ranges
  <2> QED BY <1>2, <2>1, <2>2, PlannedStays, CalledStays
<1>6. inc'[i] = "actuating" /\ twins'[i] = <<>> /\ winner'[i] = {plans[i][k]}
  BY <1>1, <1>2, <1>3 DEF Ranges
<1>7. Planned(i)'
  BY <1>1, <1>2, <1>6 DEF Planned
<1>8. IsPatch(plans[i][k])
  <2>1. plans[i] # <<>>
    OBVIOUS
  <2>2. IsBallot(plans[i], Recent(seen[i]))
    BY <1>1, <2>1 DEF Planned
  <2> QED BY <1>3, <2>2, EntryIsPatch
<1>9. Called(i)'
  <2>1. read[i] = {} /\ late[i] = {} /\ i \notin landed
    BY <1>1, <1>2 DEF Called
  <2> QED BY <1>2, <1>6, <1>8, <2>1 DEF Called
<1> QED BY <1>4, <1>5, <1>7, <1>9 DEF ApplierTyped

(* The steps of a call, but for the landing of its patch.                  *)
LEMMA CallIsTyped ==
  ASSUME ApplierTyped, NEW i \in Incidents,
         Read(i) \/ Skip(i) \/ Refuse(i) \/ GiveUpCall(i)
  PROVE  ApplierTyped'
<1>1. Ranges /\ Planned(i) /\ Called(i)
  BY DEF ApplierTyped
<1>2. /\ UNCHANGED <<deployed, prod, seen, asked, plans, twins, winner, landed, mixed>>
      /\ inc' = [inc EXCEPT ![i] = inc'[i]] /\ read' = [read EXCEPT ![i] = read'[i]]
      /\ late' = [late EXCEPT ![i] = late'[i]]
      /\ inc[i] = "actuating" /\ inc'[i] \in {"actuating", "applied", "failed"}
  <2> USE <1>1 DEF Ranges, Becomes, Answered, incident
  <2>1. CASE Read(i)
    <3>1. /\ UNCHANGED <<deployed, prod, seen, asked, plans, twins, winner, landed, mixed, inc, late>>
          /\ inc[i] = "actuating"
      BY <2>1 DEF Read
    <3>2. PICK p \in winner[i] : read' = [read EXCEPT ![i] = {prod[p.params.workload]}]
      BY <2>1 DEF Read
    <3> QED BY <3>1, <3>2
  <2>2. CASE Skip(i)
    BY <2>2 DEF Skip
  <2>3. CASE Refuse(i)
    BY <2>3 DEF Refuse
  <2>4. CASE GiveUpCall(i)
    <3>1. /\ UNCHANGED <<deployed, prod, seen, asked, plans, twins, winner, landed, mixed>>
          /\ inc[i] = "actuating" /\ inc' = [inc EXCEPT ![i] = "failed"]
          /\ read' = [read EXCEPT ![i] = {}]
          /\ late' = late \/ late' = [late EXCEPT ![i] = read[i]]
      BY <2>4 DEF GiveUpCall
    <3> QED BY <3>1
  <2> QED BY <2>1, <2>2, <2>3, <2>4
<1>3. Ranges'
  BY <1>1, <1>2 DEF Ranges, IncidentStages
<1>4. ASSUME NEW j \in Incidents, j # i
      PROVE  Planned(j)' /\ Called(j)'
  <2>1. Planned(j) /\ Called(j)
    BY DEF ApplierTyped
  <2>2. inc'[j] = inc[j] /\ read'[j] = read[j] /\ late'[j] = late[j]
    BY <1>1, <1>2, <1>4 DEF Ranges
  <2> QED BY <1>2, <2>1, <2>2, PlannedStays, CalledStays
<1>5. Planned(i)'
  <2>1. inc'[i] \notin {"new", "planning", "forked"}
    BY <1>2
  <2> QED BY <1>1, <1>2, <2>1 DEF Planned
<1>6. late[i] = {} /\ i \notin landed
  BY <1>1, <1>2 DEF Called
<1>7. Called(i)'
  <2>1. CASE Read(i)
    <3>1. PICK p \in winner[i] : read' = [read EXCEPT ![i] = {prod[p.params.workload]}]
      BY <2>1 DEF Read
    <3>2. p.params.workload \in Workloads
      BY <1>1 DEF Called, IsPatch
    <3>3. prod[p.params.workload] \in Deployments
      BY <1>1, <3>2 DEF Ranges, EnvOk
    <3>4. /\ read'[i] = {prod[p.params.workload]} /\ inc'[i] = "actuating" /\ late'[i] = {}
      BY <1>1, <1>6, <2>1, <3>1 DEF Read, Ranges, incident
    <3> QED BY <1>1, <1>2, <1>6, <3>3, <3>4 DEF Called
  <2>2. CASE Skip(i) \/ Refuse(i)
    <3>1. read'[i] = {} /\ late'[i] = {} /\ inc'[i] \in {"applied", "failed"}
      BY <1>1, <1>6, <2>2 DEF Skip, Refuse, Answered, Ranges
    <3> QED BY <1>1, <1>2, <1>6, <3>1 DEF Called
  <2>3. CASE GiveUpCall(i)
    <3>1. read'[i] = {} /\ inc'[i] = "failed"
      BY <1>1, <2>3 DEF GiveUpCall, Becomes, Ranges
    <3>2. CASE late' = late
      BY <1>1, <1>2, <1>6, <3>1, <3>2 DEF Called
    <3>3. CASE late' # late
      <4>1. PICK p \in winner[i], was \in read[i] : ToDo(p, was)
        BY <2>3, <3>3 DEF GiveUpCall
      <4>2. late'[i] = read[i]
        BY <1>1, <2>3, <3>3 DEF GiveUpCall, Ranges
      <4>3. IsPatch(p) /\ was \in Deployments /\ winner[i] = {p} /\ read[i] = {was}
        BY <1>1, <4>1 DEF Called
      <4>4. CanLand(p, was, deployed)
        BY <1>1, <4>1, <4>3, ToDoCanLand DEF Ranges
      <4> QED BY <1>1, <1>2, <1>6, <3>1, <4>2, <4>3, <4>4 DEF Called
    <3> QED BY <3>2, <3>3
  <2> QED BY <2>1, <2>2, <2>3
<1> QED BY <1>3, <1>4, <1>5, <1>7 DEF ApplierTyped

(* A patch lands: that of a call that is under way, or one that was given  *)
(* up.                                                                     *)
LEMMA LandingIs ==
  ASSUME ApplierTyped, NEW i \in Incidents, Patch(i) \/ Arrive(i)
  PROVE  \E p \in winner[i], was \in read[i] \cup late[i] :
           /\ Lands(i, p, was) /\ IsPatch(p) /\ was \in Deployments /\ winner[i] = {p}
           /\ CanLand(p, was, deployed)
           /\ UNCHANGED <<deployed, seen, asked, plans, twins, winner>>
           /\ inc' = [inc EXCEPT ![i] = inc'[i]] /\ read' = [read EXCEPT ![i] = {}]
           /\ late' = [late EXCEPT ![i] = {}]
           /\ inc[i] \in {"actuating", "failed"} /\ inc'[i] \in {"applied", "failed"}
           /\ i \notin landed
<1>1. Ranges /\ Planned(i) /\ Called(i)
  BY DEF ApplierTyped
<1>2. CASE Patch(i)
  <2>1. PICK p \in winner[i], was \in read[i] : ToDo(p, was) /\ Lands(i, p, was)
    BY <1>2 DEF Patch
  <2>2. IsPatch(p) /\ was \in Deployments /\ winner[i] = {p}
    BY <1>1, <2>1 DEF Called
  <2>3. CanLand(p, was, deployed)
    BY <1>1, <2>1, <2>2, ToDoCanLand DEF Ranges
  <2>4. inc[i] = "actuating" /\ late[i] = {} /\ i \notin landed
    BY <1>1, <1>2 DEF Called, Patch
  <2>5. /\ UNCHANGED <<deployed, seen, asked, plans, twins, winner, late>>
        /\ inc' = [inc EXCEPT ![i] = "applied"] /\ read' = [read EXCEPT ![i] = {}]
    BY <1>2 DEF Patch, Answered
  <2>6. late' = [late EXCEPT ![i] = {}] /\ inc'[i] = "applied" /\ inc' = [inc EXCEPT ![i] = inc'[i]]
    BY <1>1, <2>4, <2>5 DEF Ranges
  <2> QED BY <2>1, <2>2, <2>3, <2>4, <2>5, <2>6
<1>3. CASE Arrive(i)
  <2>1. PICK p \in winner[i], was \in late[i] : Lands(i, p, was)
    BY <1>3 DEF Arrive
  <2>2. IsPatch(p) /\ was \in Deployments /\ winner[i] = {p} /\ CanLand(p, was, deployed)
        /\ inc[i] = "failed" /\ i \notin landed /\ read[i] = {}
    BY <1>1, <2>1 DEF Called
  <2>3. /\ UNCHANGED <<deployed, inc, seen, asked, plans, twins, winner, read>>
        /\ late' = [late EXCEPT ![i] = {}]
    BY <1>3 DEF Arrive, incident
  <2>4. read' = [read EXCEPT ![i] = {}] /\ inc'[i] = "failed" /\ inc' = [inc EXCEPT ![i] = inc'[i]]
    BY <1>1, <2>2, <2>3 DEF Ranges
  <2> QED BY <2>1, <2>2, <2>3, <2>4
<1> QED BY <1>2, <1>3

(* Types survive the landing.                                              *)
LEMMA LandingIsTyped ==
  ASSUME ApplierTyped, NEW i \in Incidents, Patch(i) \/ Arrive(i)
  PROVE  ApplierTyped'
<1>1. Ranges /\ Planned(i) /\ Called(i)
  BY DEF ApplierTyped
<1>2. PICK p \in winner[i], was \in read[i] \cup late[i] :
           /\ Lands(i, p, was) /\ IsPatch(p) /\ was \in Deployments /\ winner[i] = {p}
           /\ CanLand(p, was, deployed)
           /\ UNCHANGED <<deployed, seen, asked, plans, twins, winner>>
           /\ inc' = [inc EXCEPT ![i] = inc'[i]] /\ read' = [read EXCEPT ![i] = {}]
           /\ late' = [late EXCEPT ![i] = {}]
           /\ inc[i] \in {"actuating", "failed"} /\ inc'[i] \in {"applied", "failed"}
           /\ i \notin landed
  BY LandingIs
<1>3. EnvOk(prod', deployed)
  <2>1. prod' = [prod EXCEPT ![p.params.workload] = Patched(p, was, @)]
    BY <1>2 DEF Lands
  <2>2. EnvOk([prod EXCEPT ![p.params.workload] = Patched(p, was, @)], deployed)
    BY <1>1, <1>2, PatchKeepsEnv DEF Ranges
  <2> QED BY <2>1, <2>2
<1>4. landed' = landed \cup {i} /\ IsFiniteSet(landed') /\ mixed' \in BOOLEAN
  <2>1. landed' = landed \cup {i} /\ mixed' \in BOOLEAN
    BY <1>1, <1>2 DEF Lands, Ranges
  <2> QED BY <1>1, <2>1, FS_AddElement DEF Ranges
<1>5. Ranges'
  BY <1>1, <1>2, <1>3, <1>4 DEF Ranges, IncidentStages
<1>6. ASSUME NEW j \in Incidents, j # i
      PROVE  Planned(j)' /\ Called(j)'
  <2>1. Planned(j) /\ Called(j)
    BY DEF ApplierTyped
  <2>2. /\ inc'[j] = inc[j] /\ read'[j] = read[j] /\ late'[j] = late[j]
        /\ j \in landed' <=> j \in landed
    BY <1>1, <1>2, <1>4, <1>6 DEF Ranges
  <2> QED BY <1>2, <2>1, <2>2, PlannedStays, CalledStays
<1>7. inc'[i] \in {"applied", "failed"} /\ read'[i] = {} /\ late'[i] = {}
  BY <1>1, <1>2 DEF Ranges
<1>8. Planned(i)'
  BY <1>1, <1>2, <1>7 DEF Planned
<1>9. Called(i)'
  BY <1>1, <1>2, <1>7 DEF Called
<1> QED BY <1>5, <1>6, <1>8, <1>9 DEF ApplierTyped

(* Every step keeps the types.                                             *)
LEMMA ApplierTypedNext ==
  ASSUME ApplierTyped, [ApplierNext]_applierVars
  PROVE  ApplierTyped'
<1>1. CASE ApplierNext
  <2>1. CASE Deploy
    BY <2>1, DeployIsTyped
  <2>2. ASSUME NEW i \in Incidents, Incident(i)
        PROVE  ApplierTyped'
    <3>1. CASE Planning(i)
      BY <3>1, PlanningIsTyped
    <3>2. CASE Choose(i)
      BY <3>2, ChooseIsTyped
    <3>3. CASE Read(i) \/ Skip(i) \/ Refuse(i) \/ GiveUpCall(i)
      BY <3>3, CallIsTyped
    <3>4. CASE Patch(i) \/ Arrive(i)
      BY <3>4, LandingIsTyped
    <3> QED BY <2>2, <3>1, <3>2, <3>3, <3>4 DEF Incident, Planning
  <2> QED BY <1>1, <2>1, <2>2 DEF ApplierNext
<1>2. CASE UNCHANGED applierVars
  <2>1. UNCHANGED <<deployed, prod, inc, seen, asked, plans, twins, winner, read, late, landed, mixed>>
    BY <1>2 DEF applierVars, incident
  <2>2. Ranges'
    BY <2>1 DEF ApplierTyped, Ranges
  <2>3. ASSUME NEW j \in Incidents
        PROVE  Planned(j)' /\ Called(j)'
    <3>1. Planned(j) /\ Called(j)
      BY DEF ApplierTyped
    <3> QED BY <2>1, <3>1, PlannedStays, CalledStays
  <2> QED BY <2>2, <2>3 DEF ApplierTyped
<1> QED BY <1>1, <1>2

(* The types are what the run checks.                                      *)
LEMMA ApplierTypedIsTypeOK ==
  ASSUME ApplierTyped
  PROVE  ApplierTypeOK
<1>1. Ranges
  BY DEF ApplierTyped
<1>2. ASSUME NEW s \in Workloads
      PROVE  /\ prod[s].image \in Commits /\ prod[s].flag \in FlagStates
             /\ prod[s].value \subseteq Values
             /\ prod[s].replicas \in Nat /\ prod[s].restarts \in Nat
  <2>1. prod[s] \in Deployments
    BY <1>1 DEF Ranges, EnvOk
  <2> QED BY <2>1 DEF Deployments
<1>3. ASSUME NEW i \in Incidents
      PROVE  /\ asked[i] <= MaxRetries /\ (i \in landed => inc[i] \in {"applied", "failed"})
             /\ winner[i] \subseteq {plans[i][k] : k \in DOMAIN plans[i]}
             /\ twins[i] # <<>> => DOMAIN twins[i] = DOMAIN plans[i]
  <2>1. Planned(i) /\ Called(i)
    BY DEF ApplierTyped
  <2>2. MaxRetries \in Nat
    BY ApplierAssumption DEF ApplierAssumption
  <2>3. asked[i] <= MaxRetries
    BY <2>1, <2>2 DEF Planned
  <2> QED BY <2>1, <2>3 DEF Planned, Called
<1>4. inc \in [Incidents -> IncidentStages] /\ deployed \in 1 .. Len(History)
  BY <1>1 DEF Ranges
<1> QED BY <1>2, <1>3, <1>4 DEF ApplierTypeOK, IncidentStages

-----------------------------------------------------------------------------
(***************************************************************************)
(* Identifiers in the slot.                                                *)
(***************************************************************************)
Explained(slot, s, arrived, whose) ==
  \E j \in arrived : \E q \in whose[j] : q.id = slot /\ q.params.workload = s

SlotsExplained ==
  /\ \A s \in Workloads : prod[s].slot # <<>> => Explained(prod[s].slot, s, landed, winner)
  /\ \A i \in Incidents : \A p \in winner[i], was \in read[i] :
        was.slot # <<>> => Explained(was.slot, p.params.workload, landed, winner)

Skipped(i) ==
  \A p \in winner[i] :
    /\ inc[i] = "applied" /\ i \notin landed
    /\ p.params.action \in {"restart_workload", "scale_workload"}
    => \E j \in Incidents \ {i} : \E q \in winner[j] :
          j \in landed /\ q.id = p.id /\ q.params.workload = p.params.workload

SlotInv == SlotsExplained /\ \A i \in Incidents : Skipped(i)

(* What a step may do to calls and to production.                          *)
Quiet ==
  /\ UNCHANGED <<prod, winner, read, late, landed, mixed>>
  /\ \A j \in Incidents : inc'[j] = "applied" => inc[j] = "applied"

Chosen(i) ==
  /\ winner' = [winner EXCEPT ![i] = winner'[i]] /\ winner[i] = {} /\ read[i] = {}
  /\ late[i] = {} /\ i \notin landed /\ inc[i] = "rehearsed" /\ inc' = [inc EXCEPT ![i] = "actuating"]
  /\ UNCHANGED <<prod, read, late, landed, mixed>>

Ended(i) ==
  /\ inc' = [inc EXCEPT ![i] = inc'[i]] /\ read' = [read EXCEPT ![i] = {}]
  /\ late' = [late EXCEPT ![i] = late'[i]] /\ late'[i] \in {late[i], read[i]}
  /\ inc'[i] = "applied" => Skip(i)
  /\ UNCHANGED <<prod, winner, landed, mixed>>

(* A step is one of these.                                                 *)
LEMMA StepsAre ==
  ASSUME ApplierTyped, [ApplierNext]_applierVars
  PROVE  \/ Quiet \/ Deploy
         \/ \E i \in Incidents : Chosen(i) \/ Read(i) \/ Ended(i) \/ Patch(i) \/ Arrive(i)
<1>1. Ranges /\ \A i \in Incidents : Called(i)
  BY DEF ApplierTyped
<1>2. CASE UNCHANGED applierVars
  BY <1>2 DEF Quiet, applierVars, incident
<1>3. ASSUME NEW i \in Incidents, Planning(i)
      PROVE  Quiet
  <2>1. UNCHANGED <<prod, winner, read, late, landed, mixed>>
    BY <1>3 DEF Planning, CollectContext, ConnectionLost, AskAgain, PlanCandidates, ForkTwins,
                ApplyToTwins, Escalate, actuation
  <2>2. \/ inc' = inc
        \/ \E to \in {"planning", "failed", "planned", "forked", "rehearsed", "escalated"} :
              inc' = [inc EXCEPT ![i] = to]
    BY <1>3 DEF Planning, CollectContext, ConnectionLost, AskAgain, PlanCandidates, ForkTwins,
                ApplyToTwins, Escalate, Becomes
  <2>3. \A j \in Incidents : inc'[j] = "applied" => inc[j] = "applied"
    BY <1>1, <2>2 DEF Ranges
  <2> QED BY <2>1, <2>3 DEF Quiet
<1>4. ASSUME NEW i \in Incidents, Choose(i)
      PROVE  Chosen(i)
  <2>1. /\ inc[i] = "rehearsed" /\ inc' = [inc EXCEPT ![i] = "actuating"]
        /\ UNCHANGED <<prod, read, late, landed, mixed>>
    BY <1>4 DEF Choose, Becomes, actuation
  <2>2. winner' = [winner EXCEPT ![i] = winner'[i]]
    BY <1>1, <1>4 DEF Choose, Ranges
  <2>3. winner[i] = {} /\ read[i] = {} /\ late[i] = {} /\ i \notin landed
    BY <1>1, <2>1 DEF Called
  <2> QED BY <2>1, <2>2, <2>3 DEF Chosen
<1>5. ASSUME NEW i \in Incidents, Skip(i) \/ Refuse(i) \/ GiveUpCall(i)
      PROVE  Ended(i)
  <2>1. CASE Skip(i) \/ Refuse(i)
    <3>1. /\ UNCHANGED <<prod, winner, late, landed, mixed>> /\ read' = [read EXCEPT ![i] = {}]
          /\ \E to \in {"applied", "failed"} :
                inc' = [inc EXCEPT ![i] = to] /\ (to = "applied" => Skip(i))
      BY <2>1 DEF Skip, Refuse, Answered
    <3> QED BY <1>1, <3>1 DEF Ended, Ranges
  <2>2. CASE GiveUpCall(i)
    <3>1. /\ UNCHANGED <<prod, winner, landed, mixed>> /\ read' = [read EXCEPT ![i] = {}]
          /\ inc' = [inc EXCEPT ![i] = "failed"]
          /\ late' = late \/ late' = [late EXCEPT ![i] = read[i]]
      BY <2>2 DEF GiveUpCall, Becomes
    <3> QED BY <1>1, <3>1 DEF Ended, Ranges
  <2> QED BY <1>5, <2>1, <2>2
<1> QED BY <1>2, <1>3, <1>4, <1>5 DEF ApplierNext, Incident, Planning

(* Who has landed stays landed, and a choice is for good.                  *)
LEMMA LandedStays ==
  ASSUME ApplierTyped, [ApplierNext]_applierVars
  PROVE  /\ landed \subseteq landed' /\ \A j \in landed : winner'[j] = winner[j]
         /\ \A i \in Incidents : inc[i] = "applied" => winner'[i] = winner[i]
<1>1. Ranges /\ \A i \in Incidents : Called(i)
  BY DEF ApplierTyped
<1>2. CASE Quiet \/ Deploy
  BY <1>2 DEF Quiet, Deploy, incident, actuation
<1>4. ASSUME NEW i \in Incidents, Chosen(i)
      PROVE  /\ landed \subseteq landed' /\ \A j \in landed : winner'[j] = winner[j]
             /\ \A k \in Incidents : inc[k] = "applied" => winner'[k] = winner[k]
  BY <1>1, <1>4 DEF Chosen, Ranges
<1>5. ASSUME NEW i \in Incidents, Read(i) \/ Ended(i) \/ Patch(i) \/ Arrive(i)
      PROVE  winner' = winner /\ landed \subseteq landed'
  BY <1>5 DEF Read, Ended, Patch, Arrive, Lands, Answered, incident
<1> QED BY <1>2, <1>4, <1>5, StepsAre

(* The slots at the start are empty.                                       *)
LEMMA SlotInvAtFirst ==
  ASSUME ApplierInit
  PROVE  SlotInv
BY DEF ApplierInit, SlotInv, SlotsExplained, Skipped, InitialDeployment

(* What has been applied to a slot is explained by whoever landed there.   *)
LEMMA ExplainedStays ==
  ASSUME ApplierTyped, [ApplierNext]_applierVars, NEW slot, NEW s, Explained(slot, s, landed, winner)
  PROVE  Explained(slot, s, landed', winner')
BY LandedStays DEF Explained

(* A landing, and where.                                                   *)
LEMMA LandingChanges ==
  ASSUME ApplierTyped, NEW i \in Incidents, Patch(i) \/ Arrive(i)
  PROVE  \E p \in winner[i], was \in read[i] \cup late[i] :
           LET s == p.params.workload
           IN  /\ Lands(i, p, was) /\ IsPatch(p) /\ s \in Workloads /\ winner[i] = {p}
               /\ was \in Deployments /\ prod'[s] = Patched(p, was, prod[s])
               /\ prod[s] \in Deployments
               /\ \A t \in Workloads \ {s} : prod'[t] = prod[t]
               /\ landed' = landed \cup {i} /\ i \notin landed /\ winner' = winner
               /\ inc' = [inc EXCEPT ![i] = inc'[i]]
               /\ read' = [read EXCEPT ![i] = {}] /\ late' = [late EXCEPT ![i] = {}]
<1>1. prod \in [Workloads -> Deployments]
  BY DEF ApplierTyped, Ranges, EnvOk
<1>2. PICK p \in winner[i], was \in read[i] \cup late[i] :
           /\ Lands(i, p, was) /\ IsPatch(p) /\ was \in Deployments /\ winner[i] = {p}
           /\ UNCHANGED winner /\ i \notin landed
           /\ inc' = [inc EXCEPT ![i] = inc'[i]]
           /\ read' = [read EXCEPT ![i] = {}] /\ late' = [late EXCEPT ![i] = {}]
  BY LandingIs
<1>3. /\ prod' = [prod EXCEPT ![p.params.workload] = Patched(p, was, @)]
      /\ landed' = landed \cup {i} /\ p.params.workload \in Workloads
  BY <1>2 DEF Lands, IsPatch
<1>4. /\ prod'[p.params.workload] = Patched(p, was, prod[p.params.workload])
      /\ prod[p.params.workload] \in Deployments
      /\ \A t \in Workloads \ {p.params.workload} : prod'[t] = prod[t]
  BY <1>1, <1>3
<1> QED BY <1>2, <1>3, <1>4

(* A deploy leaves slots and numbers alone.                                *)
LEMMA DeployChanges ==
  ASSUME ApplierTyped, Deploy, NEW s \in Workloads
  PROVE  /\ prod'[s].slot = prod[s].slot /\ prod'[s].replicas = prod[s].replicas
         /\ UNCHANGED <<inc, winner, read, late, landed, mixed>>
<1> DEFINE d == prod[s]
           commit == History[deployed + 1].commit
<1>1. d \in Deployments
  BY DEF ApplierTyped, Ranges, EnvOk
<1>2. prod'[s] \in {d, [d EXCEPT !.image = commit]}
  BY DEF Deploy
<1> HIDE DEF d, commit
<1>3. prod'[s].slot = d.slot /\ prod'[s].replicas = d.replicas
  BY <1>1, <1>2 DEF Deployments
<1> QED BY <1>3 DEF d, Deploy, incident, actuation

(* Every step keeps the explanations of the slots of production.           *)
LEMMA SlotsExplainedNext ==
  ASSUME ApplierTyped, SlotsExplained, [ApplierNext]_applierVars, NEW s \in Workloads
  PROVE  prod'[s].slot # <<>> => Explained(prod'[s].slot, s, landed', winner')
<1>1. ASSUME prod'[s].slot = prod[s].slot
      PROVE  prod'[s].slot # <<>> => Explained(prod'[s].slot, s, landed', winner')
  <2>1. SUFFICES ASSUME prod[s].slot # <<>> PROVE Explained(prod'[s].slot, s, landed', winner')
    BY <1>1
  <2>2. Explained(prod[s].slot, s, landed', winner')
    BY <2>1, ExplainedStays DEF SlotsExplained
  <2> QED BY <1>1, <2>2
<1>2. CASE prod' = prod
  BY <1>1, <1>2
<1>3. CASE Deploy
  BY <1>1, <1>3, DeployChanges
<1>4. ASSUME NEW i \in Incidents, Patch(i) \/ Arrive(i)
      PROVE  prod'[s].slot # <<>> => Explained(prod'[s].slot, s, landed', winner')
  <2>1. PICK p \in winner[i], was \in read[i] \cup late[i] :
          /\ IsPatch(p) /\ winner[i] = {p} /\ winner' = winner /\ landed' = landed \cup {i}
          /\ prod'[p.params.workload] = Patched(p, was, prod[p.params.workload])
          /\ prod[p.params.workload] \in Deployments
          /\ \A t \in Workloads \ {p.params.workload} : prod'[t] = prod[t]
    BY <1>4, LandingChanges
  <2>2. CASE s # p.params.workload
    BY <1>1, <2>1, <2>2
  <2>3. CASE s = p.params.workload
    <3>1. deployed \in 1 .. Len(History)
      BY DEF ApplierTyped, Ranges
    <3>2. prod'[s].slot \in {p.id, prod[s].slot}
      BY <2>1, <2>3, <3>1, PatchedIs
    <3>3. Explained(p.id, s, landed', winner')
      BY <2>1, <2>3 DEF Explained
    <3>4. CASE prod'[s].slot = p.id
      BY <3>3, <3>4
    <3> QED BY <1>1, <3>2, <3>4
  <2> QED BY <2>2, <2>3
<1>5. ASSUME NEW i \in Incidents, Chosen(i) \/ Read(i) \/ Ended(i)
      PROVE  prod' = prod
  BY <1>5 DEF Chosen, Read, Ended
<1> QED BY <1>2, <1>3, <1>4, <1>5, StepsAre DEF Quiet

(* And those of what has been read.                                        *)
LEMMA ReadsExplainedNext ==
  ASSUME ApplierTyped, SlotsExplained, [ApplierNext]_applierVars, NEW i \in Incidents,
         NEW p \in winner'[i], NEW was \in read'[i], was.slot # <<>>
  PROVE  Explained(was.slot, p.params.workload, landed', winner')
<1>0. Ranges /\ \A j \in Incidents : Called(j)
  BY DEF ApplierTyped
<1>1. ASSUME winner'[i] = winner[i], was \in read[i]
      PROVE  Explained(was.slot, p.params.workload, landed', winner')
  BY <1>1, ExplainedStays DEF SlotsExplained
<1>2. CASE winner' = winner /\ read' = read
  BY <1>1, <1>2
<1>3. ASSUME NEW j \in Incidents, Chosen(j)
      PROVE  Explained(was.slot, p.params.workload, landed', winner')
  <2>1. i # j
    BY <1>3 DEF Chosen
  <2> QED BY <1>0, <1>1, <1>3, <2>1 DEF Chosen, Ranges
<1>4. ASSUME NEW j \in Incidents, Read(j)
      PROVE  Explained(was.slot, p.params.workload, landed', winner')
  <2>1. winner' = winner /\ prod' = prod
    BY <1>4 DEF Read, incident
  <2>2. PICK q \in winner[j] : read' = [read EXCEPT ![j] = {prod[q.params.workload]}]
    BY <1>4 DEF Read
  <2>3. winner[j] = {q} /\ q.params.workload \in Workloads
    BY <1>0, <2>2 DEF Called, IsPatch
  <2>4. CASE i = j
    <3>1. p = q /\ was = prod[q.params.workload]
      BY <1>0, <2>1, <2>2, <2>3, <2>4 DEF Ranges
    <3> QED BY <2>1, <2>3, <3>1, SlotsExplainedNext
  <2>5. CASE i # j
    BY <1>0, <1>1, <2>1, <2>2, <2>5 DEF Ranges
  <2> QED BY <2>4, <2>5
<1>5. ASSUME NEW j \in Incidents, Ended(j) \/ Patch(j) \/ Arrive(j)
      PROVE  Explained(was.slot, p.params.workload, landed', winner')
  <2>1. winner' = winner /\ read' = [read EXCEPT ![j] = {}]
    BY <1>5, LandingChanges DEF Ended
  <2> QED BY <1>0, <1>1, <2>1 DEF Ranges
<1>6. CASE Deploy
  BY <1>2, <1>6, DeployChanges DEF Deploy, incident, actuation
<1> QED BY <1>2, <1>3, <1>4, <1>5, <1>6, StepsAre DEF Quiet

(* A restart or a scale that is skipped has found its own identifier.      *)
LEMMA SkippedNext ==
  ASSUME ApplierTyped, SlotInv, [ApplierNext]_applierVars, NEW i \in Incidents
  PROVE  Skipped(i)'
<1>0. Ranges /\ SlotsExplained /\ \A j \in Incidents : Called(j) /\ Skipped(j)
  BY DEF ApplierTyped, SlotInv
<1> SUFFICES ASSUME NEW p \in winner'[i], inc'[i] = "applied", i \notin landed',
                    p.params.action \in {"restart_workload", "scale_workload"}
             PROVE  \E j \in Incidents \ {i} : \E q \in winner'[j] :
                       j \in landed' /\ q.id = p.id /\ q.params.workload = p.params.workload
  BY DEF Skipped
<1>1. landed \subseteq landed' /\ i \notin landed /\ landed \subseteq Incidents
  BY <1>0, LandedStays DEF Ranges
<1>2. ASSUME Explained(p.id, p.params.workload, landed, winner)
      PROVE  \E j \in Incidents \ {i} : \E q \in winner'[j] :
                j \in landed' /\ q.id = p.id /\ q.params.workload = p.params.workload
  <2>1. PICK j \in landed : \E q \in winner[j] : q.id = p.id /\ q.params.workload = p.params.workload
    BY <1>2 DEF Explained
  <2>2. j \in landed' /\ j \in Incidents \ {i} /\ winner'[j] = winner[j]
    BY <1>1, LandedStays
  <2> QED BY <2>1, <2>2
<1>3. CASE inc[i] = "applied"
  <2>1. winner'[i] = winner[i]
    BY <1>3, LandedStays
  <2>2. Explained(p.id, p.params.workload, landed, winner)
    BY <1>0, <1>1, <1>3, <2>1 DEF Skipped, Explained
  <2> QED BY <1>2, <2>2
<1>4. ASSUME inc[i] # "applied"
      PROVE  Skip(i)
  <2>1. ~ Quiet /\ ~ Deploy
    BY <1>4, DeployChanges DEF Quiet, Deploy, incident
  <2>2. ASSUME NEW j \in Incidents, Chosen(j) PROVE FALSE
    BY <1>0, <1>4, <2>2 DEF Chosen, Ranges
  <2>3. ASSUME NEW j \in Incidents, Read(j) PROVE FALSE
    BY <1>4, <2>3 DEF Read, incident
  <2>4. ASSUME NEW j \in Incidents, Ended(j) PROVE Skip(i)
    BY <1>0, <1>4, <2>4 DEF Ended, Ranges
  <2>5. ASSUME NEW j \in Incidents, Patch(j) \/ Arrive(j) PROVE FALSE
    <3>1. inc' = [inc EXCEPT ![j] = inc'[j]] /\ j \in landed'
      BY <2>5, LandingChanges
    <3> QED BY <1>0, <1>4, <3>1 DEF Ranges
  <2> QED BY <2>1, <2>2, <2>3, <2>4, <2>5, StepsAre
<1>5. CASE inc[i] # "applied"
  <2>1. winner' = winner
    BY <1>4, <1>5 DEF Skip, Answered
  <2>2. PICK q \in winner[i], was \in read[i] : AlreadyApplied(q, was)
    BY <1>4, <1>5 DEF Skip
  <2>3. q = p /\ IsPatch(p)
    BY <1>0, <2>1 DEF Called
  <2>4. was.slot = p.id
    BY <2>2, <2>3 DEF AlreadyApplied
  <2>5. was.slot # <<>>
    BY <2>3, <2>4, IdsAreNotEmpty DEF IsPatch
  <2>6. Explained(p.id, p.params.workload, landed, winner)
    BY <1>0, <2>2, <2>3, <2>4, <2>5 DEF SlotsExplained
  <2> QED BY <1>2, <2>6
<1> QED BY <1>3, <1>5

(* Every step keeps the explanations.                                      *)
LEMMA SlotInvNext ==
  ASSUME ApplierTyped, SlotInv, [ApplierNext]_applierVars
  PROVE  SlotInv'
<1>1. SlotsExplained'
  BY SlotsExplainedNext, ReadsExplainedNext DEF SlotInv, SlotsExplained
<1>2. \A i \in Incidents : Skipped(i)'
  BY SkippedNext
<1> QED BY <1>1, <1>2 DEF SlotInv

-----------------------------------------------------------------------------
(***************************************************************************)
(* Sums.                                                                   *)
(***************************************************************************)

(* The summands of a sum, taken out of it.                                 *)
TakesOut(it, S, f) == \A s \in SUBSET S : it[s] \in Int /\ \A x \in s : it[s] = f[x] + it[s \ {x}]

(* In a sum the summands can be taken out in any order.                    *)
LEMMA SumTakesOut ==
  ASSUME NEW S, IsFiniteSet(S), NEW f \in [S -> Int], NEW it, SumsBy(it, S, f)
  PROVE  TakesOut(it, S, f)
<1> DEFINE Fine(s) == it[s] \in Int /\ \A x \in s : it[s] = f[x] + it[s \ {x}]
           good == {k \in Nat : \A s \in SUBSET S : Cardinality(s) <= k => Fine(s)}
<1>1. \A s \in SUBSET S : it[s] = IF s = {} THEN 0 ELSE f[Picked(s)] + it[s \ {Picked(s)}]
  BY DEF SumsBy
<1>2. \A s \in SUBSET S : IsFiniteSet(s) /\ Cardinality(s) \in Nat /\ (Cardinality(s) = 0 <=> s = {})
  BY FS_Subset, FS_EmptySet, FS_CardinalityType
<1>3. 0 \in good
  <2> SUFFICES ASSUME NEW s \in SUBSET S, Cardinality(s) <= 0 PROVE Fine(s)
    OBVIOUS
  <2>1. s = {}
    BY <1>2
  <2>2. it[s] = 0
    BY <1>1, <2>1
  <2> QED BY <2>1, <2>2
<1>4. ASSUME NEW k \in Nat \ {0}, k - 1 \in good
      PROVE  k \in good
  <2> SUFFICES ASSUME NEW s \in SUBSET S, Cardinality(s) <= k PROVE Fine(s)
    OBVIOUS
  <2>1. CASE s = {}
    <3>1. it[s] = 0
      BY <1>1, <2>1
    <3> QED BY <2>1, <3>1
  <2>2. CASE s # {}
    <3>1. ASSUME NEW x \in s
          PROVE  s \ {x} \in SUBSET S /\ Cardinality(s \ {x}) <= k - 1
      BY <1>2, FS_RemoveElement
    <3>2. \A x \in s : Fine(s \ {x})
      BY <1>4, <3>1
    <3> DEFINE y == Picked(s)
    <3>3. y \in s /\ it[s] = f[y] + it[s \ {y}]
      BY <1>1, <2>2 DEF Picked
    <3> HIDE DEF y
    <3>4. it[s] \in Int
      <4>1. it[s \ {y}] \in Int /\ f[y] \in Int
        BY <3>2, <3>3
      <4> HIDE DEF Fine
      <4> QED BY <3>3, <4>1
    <3>5. ASSUME NEW x \in s, x # y
          PROVE  it[s] = f[x] + it[s \ {x}]
      <4> DEFINE rest == s \ {x, y}
      <4>1. (s \ {y}) \ {x} = rest /\ (s \ {x}) \ {y} = rest /\ x \in s \ {y} /\ y \in s \ {x}
        BY <3>3, <3>5
      <4>2. it[s \ {y}] = f[x] + it[rest] /\ it[s \ {x}] = f[y] + it[rest]
        BY <3>2, <3>3, <4>1
      <4>3. it[rest] \in Int
        <5>1. rest \in SUBSET S /\ Cardinality(s \ {x}) \in Nat
              /\ Cardinality(rest) = Cardinality(s \ {x}) - 1
          <6> DEFINE t == s \ {x}
          <6>1. t \in SUBSET S /\ IsFiniteSet(t) /\ Cardinality(t) \in Nat /\ y \in t
            BY <1>2, <3>1, <4>1
          <6>2. t \ {y} = rest
            OBVIOUS
          <6> HIDE DEF t, rest
          <6>3. Cardinality(t \ {y}) = Cardinality(t) - 1
            BY <6>1, FS_RemoveElement
          <6>4. rest \in SUBSET S
            BY <6>1, <6>2
          <6> QED BY <6>1, <6>2, <6>3, <6>4 DEF t
        <5>2. Cardinality(rest) <= k - 1
          BY <3>1, <5>1
        <5> HIDE DEF rest
        <5> QED BY <1>4, <5>1, <5>2
      <4>4. f[x] \in Int /\ f[y] \in Int
        BY <3>3
      <4> HIDE DEF rest
      <4> QED BY <3>3, <4>2, <4>3, <4>4
    <3> QED BY <3>3, <3>4, <3>5
  <2> QED BY <2>1, <2>2
<1>5. Cardinality(S) \in good
  <2> HIDE DEF good
  <2>1. \A k \in 1 .. Cardinality(S) : k - 1 \in good => k \in good
    BY <1>2, <1>4
  <2>2. \A k \in 0 .. Cardinality(S) : k \in good
    BY <1>2, <1>3, <2>1, Climb
  <2> QED BY <1>2, <2>2
<1>6. ASSUME NEW s \in SUBSET S
      PROVE  Fine(s)
  <2>1. Cardinality(s) <= Cardinality(S)
    BY FS_Subset
  <2> QED BY <1>5, <2>1
<1> QED BY <1>6 DEF TakesOut

(* Sums of the same numbers are the same.                                  *)
LEMMA SumsAgree ==
  ASSUME NEW S, IsFiniteSet(S), NEW f \in [S -> Int], NEW it, SumsBy(it, S, f),
         NEW T, S \subseteq T, NEW g, \A x \in S : g[x] = f[x], NEW other, SumsBy(other, T, g)
  PROVE  it[S] = other[S]
<1> DEFINE good == {k \in Nat : \A s \in SUBSET S : Cardinality(s) = k => it[s] = other[s]}
<1>1. \A s \in SUBSET S : it[s] = IF s = {} THEN 0 ELSE f[Picked(s)] + it[s \ {Picked(s)}]
  BY DEF SumsBy
<1>2. \A s \in SUBSET S : other[s] = IF s = {} THEN 0 ELSE g[Picked(s)] + other[s \ {Picked(s)}]
  BY DEF SumsBy
<1>3. \A s \in SUBSET S : IsFiniteSet(s) /\ Cardinality(s) \in Nat /\ (Cardinality(s) = 0 <=> s = {})
  BY FS_Subset, FS_EmptySet, FS_CardinalityType
<1>4. 0 \in good
  BY <1>1, <1>2, <1>3
<1>5. ASSUME NEW k \in 1 .. Cardinality(S), k - 1 \in good
      PROVE  k \in good
  <2>1. k \in Nat /\ k # 0
    BY <1>3
  <2> SUFFICES ASSUME NEW s \in SUBSET S, Cardinality(s) = k PROVE it[s] = other[s]
    BY <2>1
  <2> DEFINE y == Picked(s)
  <2>2. s # {} /\ y \in s
    BY <1>3, <2>1 DEF Picked
  <2>3. it[s] = f[y] + it[s \ {y}] /\ other[s] = g[y] + other[s \ {y}] /\ f[y] = g[y]
    BY <1>1, <1>2, <2>2
  <2>4. Cardinality(s \ {y}) = k - 1 /\ s \ {y} \in SUBSET S
    BY <1>3, <2>2, FS_RemoveElement
  <2> HIDE DEF y
  <2>5. it[s \ {y}] = other[s \ {y}]
    BY <1>5, <2>4
  <2> QED BY <2>3, <2>5
<1>6. Cardinality(S) \in good
  <2> HIDE DEF good
  <2>1. \A k \in 0 .. Cardinality(S) : k \in good
    BY <1>3, <1>4, <1>5, Climb
  <2> QED BY <1>3, <2>1
<1> QED BY <1>6

(* The sum of a function is what the run's operator says it is.            *)
LEMMA SumFunctionIs ==
  ASSUME NEW S, IsFiniteSet(S), NEW f \in [S -> Int]
  PROVE  \E it : SumsBy(it, S, f) /\ SumFunction(f) = it[S]
<1> DEFINE Folds(it) == it = [s \in SUBSET S |-> IF s = {} THEN 0
                                ELSE LET x == CHOOSE x \in s : TRUE IN f[x] + it[s \ {x}]]
           fold == CHOOSE it : Folds(it)
<1>1. DOMAIN f = S
  OBVIOUS
<1>2. SumFunction(f) = fold[S]
  BY <1>1 DEF SumFunction, SumFunctionOnSet, FoldFunctionOnSet, MapThenFoldSet
<1>3. ASSUME NEW it
      PROVE  Folds(it) <=> SumsBy(it, S, f)
  BY DEF SumsBy, Picked
<1>4. \E it : SumsBy(it, S, f)
  <2>1. Int \subseteq Int /\ 0 \in Int /\ \A m, n \in Int : m + n \in Int
    OBVIOUS
  <2> QED BY <2>1, SumIs
<1> HIDE DEF Folds
<1>5. SumsBy(fold, S, f)
  BY <1>3, <1>4
<1> QED BY <1>2, <1>5

(* The values of a function, and one value more.                           *)
Grows(S, f, last, T, g) ==
  /\ IsFiniteSet(S) /\ f \in [S -> Int] /\ last \notin S
  /\ T = S \cup {last} /\ g \in [T -> Int] /\ \A y \in S : g[y] = f[y]

(* A summand more.                                                         *)
LEMMA SumGrows ==
  ASSUME NEW S, NEW f, NEW last, NEW T, NEW g, Grows(S, f, last, T, g)
  PROVE  SumFunction(f) \in Int /\ SumFunction(g) = g[last] + SumFunction(f)
<1> USE DEF Grows
<1>1. T = S \cup {last}
  OBVIOUS
<1>2. IsFiniteSet(T)
  BY <1>1, FS_AddElement
<1>3. PICK it : SumsBy(it, S, f) /\ SumFunction(f) = it[S]
  BY SumFunctionIs
<1>4. PICK other : SumsBy(other, T, g) /\ SumFunction(g) = other[T]
  BY <1>2, SumFunctionIs
<1>5. SumsBy(other, T, g) /\ g \in [T -> Int]
  BY <1>4
<1>6. TakesOut(other, T, g)
  BY <1>2, <1>5, SumTakesOut
<1>7. T \in SUBSET T /\ last \in T /\ T \ {last} = S /\ S \subseteq T
  OBVIOUS
<1>8. other[T] = g[last] + other[S]
  <2> HIDE DEF Grows
  <2>1. other[T] = g[last] + other[T \ {last}]
    BY <1>6, <1>7 DEF TakesOut
  <2> QED BY <1>7, <2>1
<1>9. it[S] = other[S]
  BY <1>3, <1>5, <1>7, SumsAgree
<1>10. it[S] \in Int
  BY <1>3, SumTakesOut DEF TakesOut
<1> QED BY <1>3, <1>4, <1>8, <1>9, <1>10

-----------------------------------------------------------------------------
(***************************************************************************)
(* The replicas of a workload.                                             *)
(***************************************************************************)
Scales(i, s, whose) ==
  \E p \in whose[i] : p.params.action = "scale_workload" /\ p.params.workload = s

Scalers(s, arrived, whose) == {i \in Incidents : i \in arrived /\ Scales(i, s, whose)}

DeltaOf(i, whose) == (CHOOSE p \in whose[i] : TRUE).params.delta

(* What a plan adds to the replicas of a workload.                         *)
Adds(p, s) ==
  IF p.params.action = "scale_workload" /\ p.params.workload = s THEN p.params.delta ELSE 0

Total(s, arrived, whose) ==
  SumFunction([i \in Scalers(s, arrived, whose) |-> DeltaOf(i, whose)])

ReadsCurrent ==
  \A i \in Incidents : \A p \in winner[i], was \in read[i] \cup late[i] :
     was.replicas = prod[p.params.workload].replicas

Counted ==
  ~ mixed => /\ \A s \in Workloads : prod[s].replicas = Replicas + Total(s, landed, winner)
             /\ ReadsCurrent

(* The sum of no deltas.                                                   *)
LEMMA TotalAtFirst ==
  ASSUME NEW s, NEW whose
  PROVE  Total(s, {}, whose) = 0
<1> DEFINE f == [i \in {} |-> DeltaOf(i, whose)]
<1>1. Scalers(s, {}, whose) = {}
  BY DEF Scalers
<1>2. f \in [{} -> Int] /\ IsFiniteSet({})
  BY FS_EmptySet
<1> HIDE DEF f
<1>3. PICK it : SumsBy(it, {}, f) /\ SumFunction(f) = it[{}]
  BY <1>2, SumFunctionIs
<1>4. it[{}] = 0
  BY <1>3 DEF SumsBy
<1> QED BY <1>1, <1>3, <1>4 DEF Total, f

(* The patches that have landed do not change their deltas.                *)
LEMMA TotalStays ==
  ASSUME NEW s, NEW arrived, NEW whose, NEW other, \A j \in arrived : other[j] = whose[j]
  PROVE  Total(s, arrived, other) = Total(s, arrived, whose)
<1>1. Scalers(s, arrived, other) = Scalers(s, arrived, whose)
  BY DEF Scalers, Scales
<1>2. \A j \in Scalers(s, arrived, whose) : DeltaOf(j, other) = DeltaOf(j, whose)
  BY DEF Scalers, DeltaOf
<1>3. [i \in Scalers(s, arrived, other) |-> DeltaOf(i, other)]
        = [i \in Scalers(s, arrived, whose) |-> DeltaOf(i, whose)]
  BY <1>1, <1>2
<1> QED BY <1>3 DEF Total

(* A patch that lands adds its delta, where it scales.                     *)
LEMMA TotalGrows ==
  ASSUME NEW s, NEW arrived, IsFiniteSet(arrived), NEW whose,
         \A j \in arrived : \A q \in whose[j] : whose[j] = {q} /\ q.params.delta \in Int,
         NEW i \in Incidents, i \notin arrived, NEW p, whose[i] = {p}, p.params.delta \in Int,
         NEW after, \A j : j \in after <=> j \in arrived \/ j = i
  PROVE  /\ Total(s, after, whose) = Adds(p, s) + Total(s, arrived, whose)
         /\ Total(s, arrived, whose) \in Int
<1> DEFINE S == Scalers(s, arrived, whose)
           f == [j \in S |-> DeltaOf(j, whose)]
<1>1. IsFiniteSet(S) /\ i \notin S
  <2>1. S \subseteq arrived
    BY DEF Scalers
  <2> QED BY <2>1, FS_Subset
<1>2. f \in [S -> Int]
  <2> SUFFICES ASSUME NEW j \in S PROVE DeltaOf(j, whose) \in Int
    OBVIOUS
  <2>1. PICK q \in whose[j] : TRUE
    BY DEF Scalers, Scales
  <2>2. whose[j] = {q} /\ q.params.delta \in Int
    BY DEF Scalers
  <2> QED BY <2>2 DEF DeltaOf
<1>3. Total(s, arrived, whose) = SumFunction(f)
  BY DEF Total
<1>4. SumFunction(f) \in Int
  <2> HIDE DEF f, S
  <2>1. PICK it : SumsBy(it, S, f) /\ SumFunction(f) = it[S]
    BY <1>1, <1>2, SumFunctionIs
  <2> QED BY <1>1, <1>2, <2>1, SumTakesOut DEF TakesOut
<1>5. CASE p.params.action = "scale_workload" /\ p.params.workload = s
  <2> DEFINE T == S \cup {i}
             g == [j \in T |-> DeltaOf(j, whose)]
  <2>1. Scalers(s, after, whose) = T
    BY <1>5 DEF Scalers, Scales
  <2>2. DeltaOf(i, whose) = p.params.delta
    BY DEF DeltaOf
  <2>3. g \in [T -> Int] /\ \A j \in S : g[j] = f[j]
    BY <1>2, <2>2
  <2>4. g[i] = p.params.delta
    BY <2>2
  <2>5. Total(s, after, whose) = SumFunction(g)
    BY <2>1 DEF Total
  <2>6. Grows(S, f, i, T, g)
    <3>1. T = S \cup {i}
      OBVIOUS
    <3> HIDE DEF f, g, S, T
    <3> QED BY <1>1, <1>2, <2>3, <3>1 DEF Grows
  <2> HIDE DEF g, f, S, T
  <2>7. SumFunction(g) = g[i] + SumFunction(f)
    BY <2>6, SumGrows
  <2> QED BY <1>3, <1>4, <1>5, <2>4, <2>5, <2>7 DEF Adds
<1>6. CASE ~ (p.params.action = "scale_workload" /\ p.params.workload = s)
  <2>1. Scalers(s, after, whose) = S
    BY <1>6 DEF Scalers, Scales
  <2>2. Total(s, after, whose) = SumFunction(f)
    BY <2>1 DEF Total
  <2> HIDE DEF f, S
  <2> QED BY <1>3, <1>4, <1>6, <2>2 DEF Adds
<1> QED BY <1>5, <1>6

(* At the start nothing has been added.                                    *)
LEMMA CountedAtFirst ==
  ASSUME ApplierInit
  PROVE  Counted
<1>1. Replicas \in Nat
  BY ApplierAssumption DEF ApplierAssumption
<1>2. \A s \in Workloads : prod[s].replicas = Replicas /\ Total(s, landed, winner) = 0
  BY TotalAtFirst DEF ApplierInit, InitialDeployment
<1>3. ReadsCurrent
  BY DEF ApplierInit, ReadsCurrent
<1> QED BY <1>1, <1>2, <1>3 DEF Counted

(* What has been read stays current as long as nobody comes in between.    *)
LEMMA SameCount ==
  ASSUME ApplierTyped, Counted, [ApplierNext]_applierVars, mixed' = mixed, landed' = landed,
         \A s \in Workloads : prod'[s].replicas = prod[s].replicas,
         \A i \in Incidents : \A p \in winner'[i], was \in read'[i] \cup late'[i] :
            \/ p \in winner[i] /\ was \in read[i] \cup late[i]
            \/ was.replicas = prod[p.params.workload].replicas
  PROVE  Counted'
<1>1. SUFFICES ASSUME ~ mixed PROVE Counted'
  BY DEF Counted
<1>2. \A s \in Workloads : prod[s].replicas = Replicas + Total(s, landed, winner)
  BY <1>1 DEF Counted
<1>3. \A s \in Workloads : Total(s, landed', winner') = Total(s, landed, winner)
  BY LandedStays, TotalStays
<1>4. ASSUME NEW i \in Incidents, NEW p \in winner'[i], NEW was \in read'[i] \cup late'[i]
      PROVE  was.replicas = prod'[p.params.workload].replicas
  <2>1. was.replicas = prod[p.params.workload].replicas
    BY <1>1 DEF Counted, ReadsCurrent
  <2>2. p.params.workload \in Workloads
    <3>1. ApplierTyped'
      BY ApplierTypedNext
    <3>2. Called(i)'
      BY <3>1 DEF ApplierTyped
    <3> QED BY <3>2 DEF Called, IsPatch
  <2> QED BY <2>1, <2>2
<1>5. ReadsCurrent'
  BY <1>4 DEF ReadsCurrent
<1>6. \A s \in Workloads : prod'[s].replicas = Replicas + Total(s, landed', winner')
  BY <1>2, <1>3
<1> QED BY <1>5, <1>6 DEF Counted

(* A patch that lands where nobody else is under way adds its delta.       *)
LEMMA LandingCounts ==
  ASSUME ApplierTyped, Counted, [ApplierNext]_applierVars,
         NEW i \in Incidents, Patch(i) \/ Arrive(i)
  PROVE  Counted'
<1>0. Ranges /\ \A j \in Incidents : Called(j)
  BY DEF ApplierTyped
<1>1. PICK p \in winner[i], was \in read[i] \cup late[i] :
               /\ Lands(i, p, was) /\ IsPatch(p) /\ p.params.workload \in Workloads
               /\ winner[i] = {p}
               /\ was \in Deployments
               /\ prod'[p.params.workload] = Patched(p, was, prod[p.params.workload])
               /\ prod[p.params.workload] \in Deployments
               /\ \A t \in Workloads \ {p.params.workload} : prod'[t] = prod[t]
               /\ landed' = landed \cup {i} /\ i \notin landed /\ winner' = winner
               /\ read' = [read EXCEPT ![i] = {}] /\ late' = [late EXCEPT ![i] = {}]
  BY LandingChanges
<1> DEFINE s == p.params.workload
           c == p.params
<1>2. SUFFICES ASSUME ~ mixed' PROVE Counted'
  BY DEF Counted
<1>3. ~ mixed /\ \A j \in Incidents \ {i} : ~ UnderWay(j, s)
  BY <1>1, <1>2 DEF Lands
<1>4. /\ \A t \in Workloads : prod[t].replicas = Replicas + Total(t, landed, winner)
      /\ was.replicas = prod[s].replicas
  BY <1>1, <1>3 DEF Counted, ReadsCurrent
<1>5. /\ prod'[s].replicas = IF c.action = "scale_workload" THEN was.replicas + c.delta
                             ELSE prod[s].replicas
      /\ prod[s].replicas \in Nat /\ c.delta \in Int /\ Replicas \in Nat
  <2>1. deployed \in 1 .. Len(History)
    BY <1>0 DEF Ranges
  <2> DEFINE d == prod[s]
  <2>2. d \in Deployments /\ prod'[s] = Patched(p, was, d)
    BY <1>1
  <2> HIDE DEF d
  <2>3. prod'[s].replicas = IF c.action = "scale_workload" THEN was.replicas + c.delta ELSE d.replicas
    BY <1>1, <2>1, <2>2, PatchedIs
  <2>4. d.replicas \in Nat /\ c.delta \in Int /\ Replicas \in Nat
    BY <1>1, <2>2, ApplierAssumption DEF Deployments, IsPatch, WellTyped, ApplierAssumption
  <2> QED BY <2>3, <2>4 DEF d
<1>6. ASSUME NEW t \in Workloads
      PROVE  prod'[t].replicas = Replicas + Total(t, landed', winner')
  <2>1. \A j \in landed : \A q \in winner[j] : winner[j] = {q} /\ q.params.delta \in Int
    BY <1>0 DEF Called, Ranges, IsPatch, WellTyped
  <2>2. /\ Total(t, landed', winner) = Adds(p, t) + Total(t, landed, winner)
        /\ Total(t, landed, winner) \in Int
    <3>1. IsFiniteSet(landed) /\ p.params.delta \in Int /\ winner[i] = {p} /\ i \notin landed
      BY <1>0, <1>1, <1>5 DEF Ranges
    <3>2. \A j : j \in landed' <=> j \in landed \/ j = i
      BY <1>1
    <3> QED BY <2>1, <3>1, <3>2, TotalGrows
  <2>3. landed' = landed \cup {i} /\ winner' = winner
    BY <1>1
  <2>4. CASE t = s
    BY <1>4, <1>5, <2>2, <2>3, <2>4 DEF Adds
  <2>5. CASE t # s
    <3>1. prod'[t] = prod[t]
      BY <1>1, <2>5
    <3> QED BY <1>4, <1>5, <2>2, <2>3, <2>5, <3>1 DEF Adds
  <2> QED BY <2>4, <2>5
<1>7. ASSUME NEW j \in Incidents, NEW q \in winner'[j], NEW seenThen \in read'[j] \cup late'[j]
      PROVE  seenThen.replicas = prod'[q.params.workload].replicas
  <2>1. j # i /\ seenThen \in read[j] \cup late[j] /\ q \in winner[j]
    BY <1>0, <1>1 DEF Ranges
  <2>2. q.params.workload # s
    BY <1>3, <2>1 DEF UnderWay
  <2>3. q.params.workload \in Workloads
    BY <1>0, <2>1 DEF Called, IsPatch
  <2>4. seenThen.replicas = prod[q.params.workload].replicas
    BY <1>3, <2>1 DEF Counted, ReadsCurrent
  <2> QED BY <1>1, <2>2, <2>3, <2>4
<1>8. ReadsCurrent'
  BY <1>7 DEF ReadsCurrent
<1> QED BY <1>6, <1>8 DEF Counted

(* Every step keeps the count.                                             *)
LEMMA CountedNext ==
  ASSUME ApplierTyped, Counted, [ApplierNext]_applierVars
  PROVE  Counted'
<1>0. Ranges /\ \A j \in Incidents : Called(j)
  BY DEF ApplierTyped
<1>1. CASE Quiet
  BY <1>1, SameCount DEF Quiet
<1>2. CASE Deploy
  <2>1. UNCHANGED <<winner, read, late, landed, mixed>>
    BY <1>2 DEF Deploy, incident, actuation
  <2>2. \A s \in Workloads : prod'[s].replicas = prod[s].replicas
    BY <1>2, DeployChanges
  <2> QED BY <2>1, <2>2, SameCount
<1>3. ASSUME NEW i \in Incidents, Chosen(i)
      PROVE  Counted'
  <2>1. \A j \in Incidents : \A p \in winner'[j], was \in read'[j] \cup late'[j] : p \in winner[j]
    BY <1>0, <1>3 DEF Chosen, Ranges
  <2> QED BY <1>3, <2>1, SameCount DEF Chosen
<1>4. ASSUME NEW i \in Incidents, Read(i)
      PROVE  Counted'
  <2>1. PICK q \in winner[i] : read' = [read EXCEPT ![i] = {prod[q.params.workload]}]
    BY <1>4 DEF Read
  <2>2. winner[i] = {q} /\ UNCHANGED <<prod, winner, late, landed, mixed>>
    BY <1>0, <1>4, <2>1 DEF Called, Read, incident
  <2>3. ASSUME NEW j \in Incidents, NEW p \in winner'[j], NEW was \in read'[j] \cup late'[j]
        PROVE  \/ p \in winner[j] /\ was \in read[j] \cup late[j]
               \/ was.replicas = prod[p.params.workload].replicas
    BY <1>0, <2>1, <2>2 DEF Ranges
  <2> QED BY <2>2, <2>3, SameCount
<1>5. ASSUME NEW i \in Incidents, Ended(i)
      PROVE  Counted'
  <2>1. \A j \in Incidents : \A p \in winner'[j], was \in read'[j] \cup late'[j] :
           p \in winner[j] /\ was \in read[j] \cup late[j]
    BY <1>0, <1>5 DEF Ended, Ranges
  <2> QED BY <1>5, <2>1, SameCount DEF Ended
<1>6. ASSUME NEW i \in Incidents, Patch(i) \/ Arrive(i)
      PROVE  Counted'
  BY <1>6, LandingCounts
<1> QED BY <1>1, <1>2, <1>3, <1>4, <1>5, <1>6, StepsAre

(* The count is the property.                                              *)
LEMMA CountedAddsUp ==
  ASSUME ApplierTyped, Counted
  PROVE  ReplicasAddUp
<1>1. ApplierTypeOK
  BY ApplierTypedIsTypeOK
<1>2. ASSUME ~ mixed, NEW s \in Workloads
      PROVE  LET scalers == {i \in Incidents : i \in landed /\ \E p \in winner[i] :
                              p.params.action = "scale_workload" /\ p.params.workload = s}
                 delta(i) == (CHOOSE p \in winner[i] : TRUE).params.delta
             IN  prod[s].replicas = Replicas + SumFunction([i \in scalers |-> delta(i)])
  BY <1>2 DEF Counted, Total, Scalers, Scales, DeltaOf
<1> QED BY <1>1, <1>2 DEF ReplicasAddUp

-----------------------------------------------------------------------------
(***************************************************************************)
(* Inverses.                                                               *)
(***************************************************************************)

(* What the inverse of a plan does.                                        *)
LEMMA InverseIs ==
  ASSUME NEW v, NEW p, NEW deploys, Inverts(v, p, deploys), WellTyped(p.params),
         p.params.action # "no_action"
  PROVE  LET c == p.params
             b == v.params
         IN  /\ v.id = InverseId(p.id) /\ v.targets = p.targets
             /\ b.action = c.action /\ b.workload = c.workload
             /\ c.action \in Actions \ {"no_action", "revert_config"}
             /\ c.action = "scale_workload" => b.delta = -c.delta
             /\ c.action = "disable_flag" => b.reEnable = ~ c.reEnable
             /\ c.action = "rollback_deploy" =>
                   b.commit = PreIncidentCommit(c.commit, deploys, c.workload) /\ b.commit # NoCommit
<1> DEFINE c == p.params
           same == [action |-> c.action, workload |-> c.workload, commit |-> NoCommit, delta |-> 0,
                    flag |-> FALSE, value |-> {}, reEnable |-> FALSE, blast |-> {}, inverse |-> "none"]
<1>1. v.id = InverseId(p.id) /\ v.targets = p.targets
  BY DEF Inverts
<1>2. PICK a \in InverseParams(c, deploys) : v.params = [a EXCEPT !.blast = c.blast]
  BY DEF Inverts
<1>3. c.action \in Actions \ {"no_action"}
  BY DEF WellTyped
<1>4. Candidate(c.action, c.workload) = same
  BY DEF Candidate
<1> HIDE DEF same
<1>5. CASE c.action = "scale_workload"
  <2>1. a = [same EXCEPT !.delta = -c.delta]
    BY <1>2, <1>4, <1>5 DEF InverseParams
  <2> QED BY <1>1, <1>2, <1>3, <1>5, <2>1 DEF same
<1>6. CASE c.action = "restart_workload"
  <2>1. a = same
    BY <1>2, <1>4, <1>6 DEF InverseParams
  <2> QED BY <1>1, <1>2, <1>3, <1>6, <2>1 DEF same
<1>7. CASE c.action = "disable_flag"
  <2>1. a = [same EXCEPT !.flag = TRUE, !.reEnable = ~ c.reEnable]
    BY <1>2, <1>4, <1>7 DEF InverseParams
  <2> QED BY <1>1, <1>2, <1>3, <1>7, <2>1 DEF same
<1>8. CASE c.action = "rollback_deploy"
  <2>1. PICK k \in {PreIncidentCommit(c.commit, deploys, c.workload)} \ {NoCommit} :
           a = [same EXCEPT !.commit = k]
    BY <1>2, <1>4, <1>8 DEF InverseParams
  <2> QED BY <1>1, <1>2, <1>3, <1>8, <2>1 DEF same
<1>9. CASE c.action = "revert_config"
  BY <1>2, <1>9 DEF InverseParams, PriorConfigValue
<1> QED BY <1>3, <1>5, <1>6, <1>7, <1>8, <1>9 DEF Actions

(* What the invariant says of an inverse on a ballot.                      *)
LEMMA BallotInverts ==
  ASSUME NEW b, NEW deploys, IsBallot(b, deploys), NEW k \in DOMAIN b,
         b[k].params.action # "no_action", b[k].inverse # {},
         b[k].params.action = "rollback_deploy" =>
            b[k].id = PlanId(b[k].index) \/ b[k].origin = "planner"
  PROVE  \E d \in {deploys, <<>>} :
            /\ Inverts(InverseOf(b[k]), b[k], d)
            /\ b[k].params.action = "rollback_deploy" => d = deploys
<1> DEFINE p == b[k]
<1>1. OfPlanner(p, k - 1, deploys) \/ OfPlaybook(p, k - 1)
  BY DEF IsBallot
<1> HIDE DEF p
<1>2. InverseOf(p) \in p.inverse
  BY DEF InverseOf, p
<1>3. CASE OfPlanner(p, k - 1, deploys)
  BY <1>2, <1>3 DEF OfPlanner, p
<1>4. CASE OfPlaybook(p, k - 1)
  <2>1. p.params.action # "rollback_deploy"
    <3>1. p = [id |-> PlaybookId(p.id[2]), index |-> k - 1, params |-> p.params,
               targets |-> Targets(p.params), inverse |-> p.inverse, origin |-> "playbook"]
      BY <1>4 DEF OfPlaybook
    <3>2. p.id = PlaybookId(p.id[2]) /\ p.origin = "playbook"
      BY <3>1
    <3> QED BY <3>2, IdsDiffer DEF p
  <2>2. Inverts(InverseOf(p), p, <<>>)
    BY <1>2, <1>4, <2>1 DEF OfPlaybook
  <2> QED BY <2>1, <2>2 DEF p
<1> QED BY <1>1, <1>3, <1>4 DEF p

(* The ballots are sound.                                                  *)
LEMMA BallotsAreSound ==
  ASSUME ApplierTyped
  PROVE  BallotSound
<1> SUFFICES ASSUME NEW i \in Incidents, NEW b, b = plans[i], b # <<>>
             PROVE  /\ \A k, l \in DOMAIN b : b[k].index = k - 1 /\ (b[k].id = b[l].id => k = l)
                    /\ \E k \in DOMAIN b : b[k].params.action = "no_action"
                    /\ \A k \in DOMAIN b : LET c == b[k].params IN
                          c.action # "no_action" /\ b[k].origin = "planner" =>
                            /\ b[k].inverse # {} /\ InverseOf(b[k]).targets = b[k].targets
                            /\ c.blast \subseteq Workloads
                            /\ c.action = "rollback_deploy" =>
                                  /\ TargetImage(c) # NoCommit
                                  /\ InverseOf(b[k]).params.commit # c.commit
  BY DEF BallotSound
<1>1. /\ deployed \in 1 .. Len(History) /\ seen[i] \in 0 .. deployed
      /\ IsBallot(b, Recent(seen[i])) /\ Len(History) \in Nat
  BY HistoryIs DEF ApplierTyped, Ranges, Planned
<1>2. ASSUME NEW k \in DOMAIN b
      PROVE  b[k].index = k - 1
  <2>1. OfPlanner(b[k], k - 1, Recent(seen[i])) \/ OfPlaybook(b[k], k - 1)
    BY <1>1 DEF IsBallot
  <2>2. CASE OfPlanner(b[k], k - 1, Recent(seen[i]))
    BY <2>2 DEF OfPlanner
  <2>3. CASE OfPlaybook(b[k], k - 1)
    BY <2>3 DEF OfPlaybook
  <2> QED BY <2>1, <2>2, <2>3
<1>3. ASSUME NEW k \in DOMAIN b, b[k].params.action # "no_action", b[k].origin = "planner"
      PROVE  LET c == b[k].params IN
             /\ b[k].inverse # {} /\ InverseOf(b[k]).targets = b[k].targets
             /\ c.blast \subseteq Workloads
             /\ c.action = "rollback_deploy" =>
                   /\ TargetImage(c) # NoCommit
                   /\ InverseOf(b[k]).params.commit # c.commit
  <2> DEFINE p == b[k]
             c == p.params
             v == InverseOf(p)
             deploys == Recent(seen[i])
  <2>1. OfPlanner(p, k - 1, deploys)
    <3>1. ~ OfPlaybook(p, k - 1)
      BY <1>3 DEF OfPlaybook
    <3> QED BY <1>1, <3>1 DEF IsBallot
  <2>2. /\ WellTyped(c) /\ c.workload \in Workloads /\ p.inverse # {}
        /\ c.blast \subseteq {c.workload} \cup TransitiveCallers(c.workload)
        /\ c.action = "rollback_deploy" => ResolveCommitRef(c.commit, deploys, c.workload) # NoCommit
    <3> HIDE DEF p
    <3> QED BY <1>3, <2>1 DEF OfPlanner, p
  <2>3. c.blast \subseteq Workloads
    BY <2>2 DEF TransitiveCallers
  <2>4. Inverts(v, p, deploys)
    <3> HIDE DEF p
    <3>1. v \in p.inverse
      BY <2>2 DEF InverseOf
    <3> QED BY <1>3, <2>1, <3>1 DEF OfPlanner, p
  <2>5. /\ v.targets = p.targets
        /\ c.action = "rollback_deploy" =>
              v.params.commit = PreIncidentCommit(c.commit, deploys, c.workload)
              /\ v.params.commit # NoCommit
    <3> HIDE DEF p, v, deploys
    <3> QED BY <1>3, <2>2, <2>4, InverseIs DEF p
  <2>6. ASSUME c.action = "rollback_deploy"
        PROVE  TargetImage(c) # NoCommit /\ v.params.commit # c.commit
    <3>1. seen[i] \in 0 .. Len(History) /\ deployed \in 0 .. Len(History) /\ seen[i] <= deployed
      BY <1>1
    <3>2. Deployed(c.commit, seen[i], c.workload)
      <4> HIDE DEF c
      <4> QED BY <2>2, <2>6, <3>1, ResolveIs
    <3>3. Deployed(c.commit, deployed, c.workload) /\ c.commit # NoCommit
      <4> HIDE DEF c
      <4> QED BY <3>1, <3>2, DeployedIs
    <3>4. TargetImage(c) # NoCommit
      <4> HIDE DEF c
      <4> QED BY <1>1, <3>3, TargetIs
    <3>5. v.params.commit # c.commit
      <4> HIDE DEF c, v
      <4> QED BY <2>5, <2>6, <3>1, PreIncidentIs
    <3> QED BY <3>4, <3>5
  <2> QED BY <2>2, <2>3, <2>5, <2>6
<1> QED BY <1>1, <1>2, <1>3 DEF IsBallot

(* An identifier is not that of an inverse.                                *)
LEMMA InverseIdDiffers ==
  /\ \A n : InverseId(PlanId(n)) # PlanId(n)
  /\ \A x : InverseId(PlaybookId(x)) # PlaybookId(x)
<1>1. ASSUME NEW a, NEW b
      PROVE  Append(<<a, b>>, "inv") # <<a, b>>
  <2>1. <<a, b>> \in Seq({a, b})
    OBVIOUS
  <2>2. <<a, b>> \in Seq({a, b, "inv"}) /\ Len(<<a, b>>) = 2
    OBVIOUS
  <2>3. Len(Append(<<a, b>>, "inv")) = 3
    BY <2>2
  <2> QED BY <2>2, <2>3
<1> QED BY <1>1 DEF InverseId, PlanId, PlaybookId

(* An identifier of a slot is told from that of its inverse.               *)
LEMMA SlotIdDiffers ==
  ASSUME NEW id \in SlotIds
  PROVE  InverseId(id) # id
<1>1. CASE \E n \in Nat : id = PlanId(n)
  BY <1>1, InverseIdDiffers
<1>2. CASE \E q \in UNION Playbooks : id = q.id
  <2>1. PICK q \in UNION Playbooks : id = q.id
    BY <1>2
  <2>2. PICK playbook \in Playbooks : q \in playbook
    BY <2>1
  <2>3. q.id = PlaybookId(q.id[2])
    BY <2>2, LearnedIsOfPlaybook
  <2> QED BY <2>1, <2>3, InverseIdDiffers
<1> QED BY <1>1, <1>2 DEF SlotIds

(* An inverse that can be applied restores what its plan has changed, but  *)
(* for a flag that the plan wrote where there was none.                    *)
LEMMA InverseUndoes ==
  ASSUME deployed \in 1 .. Len(History), NEW p, IsPatch(p), NEW v, NEW deploys,
         Inverts(v, p, deploys), NEW start, EnvOk(start, deployed),
         NEW after, after = Apply(p, start), after # start,
         NEW s, s = p.params.workload,
         p.params.action = "rollback_deploy" => v.params.commit = start[s].image
  PROVE  /\ Applicable(v, after)
         /\ Apply(v, after)[s].image = start[s].image
         /\ Apply(v, after)[s].replicas = start[s].replicas
         /\ Apply(v, after)[s].flag = start[s].flag \/ OverwroteNoFlag(p, start[s])
<1> DEFINE c == p.params
           a == v.params
           d == start[s]
           new == Patched(p, d, d)
           undone == Apply(v, after)
<1>1. /\ start \in [Workloads -> Deployments] /\ s \in Workloads /\ d \in Deployments
      /\ Deployed(d.image, deployed, s) /\ c.action # "no_action" /\ WellTyped(c) /\ p.id \in SlotIds
  BY DEF EnvOk, IsPatch
<1>2. /\ v.id = InverseId(p.id) /\ a.action = c.action /\ a.workload = s
      /\ c.action \in Actions \ {"no_action", "revert_config"}
      /\ c.action = "scale_workload" => a.delta = -c.delta
      /\ c.action = "disable_flag" => a.reEnable = ~ c.reEnable
  BY <1>1, InverseIs
<1>3. v.id # p.id
  BY <1>1, <1>2, SlotIdDiffers
<1>4. ~ AlreadyApplied(p, d) /\ after = [start EXCEPT ![s] = new]
  BY <1>1 DEF Apply
<1>5. after[s] = new
  BY <1>1, <1>4
<1> HIDE DEF d, new
<1>6. /\ new.image = IF c.action = "rollback_deploy" THEN TargetImage(c) ELSE d.image
      /\ new.replicas = IF c.action = "scale_workload" THEN d.replicas + c.delta ELSE d.replicas
      /\ new.slot = IF c.action \in {"rollback_deploy", "restart_workload", "scale_workload"}
                    THEN p.id ELSE d.slot
      /\ new.flag = IF c.action = "disable_flag" THEN FlagValue(c) ELSE d.flag
  BY <1>1, PatchedIs DEF new
<1>7. /\ new = [image |-> new.image, replicas |-> new.replicas, restarts |-> new.restarts,
                slot |-> new.slot, flag |-> new.flag, value |-> new.value]
  BY <1>1, PatchedIs DEF new
<1>8. d.replicas \in Nat /\ d.flag \in FlagStates /\ c.delta \in Int /\ c.reEnable \in BOOLEAN
  BY <1>1 DEF Deployments, WellTyped
<1>9. Applicable(v, after) <=> ~ CannotApply(v, new)
  BY <1>2, <1>5 DEF Applicable
<1>10. undone[s] = IF AlreadyApplied(v, new) THEN new ELSE Patched(v, new, new)
  <2>1. s \in DOMAIN after
    BY <1>1, <1>4
  <2> QED BY <1>2, <1>5, <2>1 DEF Apply
<1>11. CASE c.action = "rollback_deploy"
  <2>1. TargetImage(a) = d.image /\ d.image # NoCommit
    <3>1. a.commit = d.image /\ a.workload = s
      BY <1>2, <1>11 DEF d
    <3>2. TargetImage(a) = d.image
      BY <1>1, <3>1, TargetIs
    <3>3. deployed \in 0 .. Len(History)
      BY HistoryIs
    <3> QED BY <1>1, <3>2, <3>3, DeployedIs
  <2>2. ~ CannotApply(v, new)
    BY <1>2, <1>11, <2>1 DEF CannotApply
  <2>3. AlreadyApplied(v, new) => new.image = d.image
    BY <1>2, <1>11, <2>1 DEF AlreadyApplied
  <2>4. Patched(v, new, new) = [new EXCEPT !.image = TargetImage(a), !.slot = v.id]
    BY <1>2, <1>11 DEF Patched, RollbackDeploy
  <2>5. /\ Patched(v, new, new).image = d.image /\ Patched(v, new, new).replicas = new.replicas
        /\ Patched(v, new, new).flag = new.flag
    <3> HIDE DEF a
    <3> QED BY <1>7, <2>1, <2>4
  <2> QED BY <1>6, <1>9, <1>10, <1>11, <2>2, <2>3, <2>5 DEF d
<1>12. CASE c.action = "restart_workload"
  <2>1. ~ CannotApply(v, new)
    BY <1>2, <1>12 DEF CannotApply
  <2>2. Patched(v, new, new) = [new EXCEPT !.restarts = @ + 1, !.slot = v.id]
    BY <1>2, <1>12 DEF Patched, RestartWorkload
  <2>3. /\ Patched(v, new, new).image = new.image /\ Patched(v, new, new).replicas = new.replicas
        /\ Patched(v, new, new).flag = new.flag
    BY <1>7, <2>2
  <2> QED BY <1>6, <1>9, <1>10, <1>12, <2>1, <2>3 DEF d
<1>13. CASE c.action = "scale_workload"
  <2>1. ~ AlreadyApplied(v, new)
    BY <1>2, <1>3, <1>6, <1>13 DEF AlreadyApplied
  <2>2. new.replicas = d.replicas + c.delta /\ a.delta = -c.delta
    BY <1>2, <1>6, <1>13
  <2>3. new.replicas + a.delta = d.replicas
    <3> HIDE DEF a, c
    <3> QED BY <1>8, <2>2
  <2>4. ~ CannotApply(v, new)
    BY <1>2, <1>8, <1>13, <2>3 DEF CannotApply
  <2>5. Patched(v, new, new) = [new EXCEPT !.replicas = new.replicas + a.delta, !.slot = v.id]
    BY <1>2, <1>13 DEF Patched, ScaleWorkload
  <2>6. /\ Patched(v, new, new).image = new.image /\ Patched(v, new, new).replicas = d.replicas
        /\ Patched(v, new, new).flag = new.flag
    <3> HIDE DEF a
    <3> QED BY <1>7, <2>3, <2>5
  <2> QED BY <1>6, <1>9, <1>10, <1>13, <2>1, <2>4, <2>6 DEF d
<1>14. CASE c.action = "disable_flag"
  <2>1. d.flag # FlagValue(c) /\ new.flag = FlagValue(c) /\ a.reEnable = ~ c.reEnable
    BY <1>2, <1>4, <1>6, <1>14 DEF AlreadyApplied
  <2>2. /\ FlagValue(a) # FlagValue(c)
        /\ FlagValue(a) = d.flag \/ d.flag = "neither"
    BY <1>8, <2>1 DEF FlagValue, FlagStates
  <2>3. ~ AlreadyApplied(v, new)
    BY <1>2, <1>14, <2>1, <2>2 DEF AlreadyApplied
  <2>4. ~ CannotApply(v, new)
    BY <1>2, <1>14 DEF CannotApply
  <2>5. Patched(v, new, new) = [new EXCEPT !.flag = FlagValue(a)]
    BY <1>2, <1>14 DEF Patched, DisableFlag
  <2>6. /\ Patched(v, new, new).image = new.image /\ Patched(v, new, new).replicas = new.replicas
        /\ Patched(v, new, new).flag = FlagValue(a)
    <3> HIDE DEF a
    <3> QED BY <1>7, <2>5
  <2>7. Patched(v, new, new).flag = d.flag \/ OverwroteNoFlag(p, d)
    BY <1>14, <2>2, <2>6 DEF OverwroteNoFlag
  <2> QED BY <1>6, <1>9, <1>10, <1>14, <2>3, <2>4, <2>6, <2>7 DEF d
<1> QED BY <1>2, <1>11, <1>12, <1>13, <1>14 DEF Actions

(* The inverses restore.                                                   *)
LEMMA InversesRestore ==
  ASSUME ApplierTyped
  PROVE  InverseRestores
<1>1. BallotSound
  BY BallotsAreSound
<1>2. ASSUME NEW i \in Incidents, inc[i] = "forked", NEW k \in DOMAIN twins[i],
             CanRevert(plans[i][k]), Apply(plans[i][k], twins[i][k]) # twins[i][k],
             plans[i][k].params.action = "rollback_deploy" =>
                /\ plans[i][k].id = PlanId(plans[i][k].index)
                /\ twins[i][k][plans[i][k].params.workload].image = Context(i)[1].commit
      PROVE  LET p      == plans[i][k]
                 s      == p.params.workload
                 start  == twins[i][k]
                 after  == Apply(p, start)
                 undone == Revert(p, after)
             IN  /\ Applicable(InverseOf(p), after)
                 /\ undone[s].image = start[s].image
                 /\ undone[s].replicas = start[s].replicas
                 /\ undone[s].flag = start[s].flag \/ OverwroteNoFlag(p, start[s])
  <2> DEFINE p == plans[i][k]
             s == p.params.workload
             c == p.params
             v == InverseOf(p)
             start == twins[i][k]
             after == Apply(p, start)
             deploys == Recent(seen[i])
  <2>1. /\ deployed \in 1 .. Len(History) /\ seen[i] \in 0 .. deployed /\ Len(History) \in Nat
        /\ k \in DOMAIN plans[i] /\ EnvOk(start, deployed)
    BY <1>2, HistoryIs DEF ApplierTyped, Ranges, Planned
  <2>2. plans[i] # <<>> /\ IsBallot(plans[i], deploys)
    <3>1. plans[i] # <<>>
      BY <2>1
    <3> QED BY <3>1 DEF ApplierTyped, Planned
  <2>3. c.action # "no_action" /\ p.inverse # {}
    BY <1>2 DEF CanRevert
  <2>4. IsPatch(p)
    <3> HIDE DEF deploys
    <3> QED BY <2>1, <2>2, <2>3, EntryIsPatch
  <2>5. PICK of : of \in {deploys, <<>>} /\ Inverts(v, p, of)
                  /\ (c.action = "rollback_deploy" => of = deploys)
    <3> DEFINE b == plans[i]
    <3>1. /\ IsBallot(b, deploys) /\ k \in DOMAIN b /\ b[k].params.action # "no_action"
          /\ b[k].inverse # {}
          /\ b[k].params.action = "rollback_deploy" =>
                b[k].id = PlanId(b[k].index) \/ b[k].origin = "planner"
      BY <1>2, <2>1, <2>2, <2>3
    <3> HIDE DEF b, deploys
    <3>2. \E d \in {deploys, <<>>} : /\ Inverts(InverseOf(b[k]), b[k], d)
                                     /\ b[k].params.action = "rollback_deploy" => d = deploys
      BY <3>1, BallotInverts
    <3> QED BY <3>2 DEF b
  <2>6. ASSUME c.action = "rollback_deploy"
        PROVE  v.params.commit = start[s].image
    <3>1. /\ v.params.commit = PreIncidentCommit(c.commit, deploys, s)
          /\ v.params.commit # NoCommit
      <4>1. WellTyped(p.params) /\ Inverts(v, p, deploys)
        BY <2>4, <2>5, <2>6 DEF IsPatch
      <4> HIDE DEF p, v, deploys
      <4> QED BY <2>3, <2>6, <4>1, InverseIs
    <3>2. start[s].image = deploys[1].commit
      BY <1>2, <2>6 DEF Context, Recent
    <3>3. c.commit # deploys[1].commit
      <4>1. ~ AlreadyApplied(p, start[s])
        BY <1>2 DEF Apply
      <4>2. start[s].image # TargetImage(c)
        BY <2>6, <4>1 DEF AlreadyApplied
      <4>3. Deployed(start[s].image, deployed, s)
        BY <2>1, <2>4 DEF EnvOk, IsPatch
      <4>4. c.commit = start[s].image => TargetImage(c) = c.commit
        <5> HIDE DEF c, start
        <5> QED BY <2>1, <4>3, TargetIs DEF c
      <4> QED BY <3>2, <4>2, <4>4
    <3>4. seen[i] \in 0 .. Len(History)
      BY <2>1
    <3> HIDE DEF c, v, s, start
    <3>5. v.params.commit = Recent(seen[i])[1].commit
      BY <3>1, <3>3, <3>4, PreIncidentIs
    <3> QED BY <3>2, <3>5
  <2>7. after # start
    BY <1>2
  <2>8. /\ Applicable(v, after) /\ Apply(v, after)[s].image = start[s].image
        /\ Apply(v, after)[s].replicas = start[s].replicas
        /\ Apply(v, after)[s].flag = start[s].flag \/ OverwroteNoFlag(p, start[s])
    <3> DEFINE old == start
               new == after
    <3>1. new = Apply(p, old) /\ s = p.params.workload /\ new # old /\ EnvOk(old, deployed)
          /\ (p.params.action = "rollback_deploy" => v.params.commit = old[s].image)
      BY <2>1, <2>6, <2>7
    <3> HIDE DEF p, s, v, old, new
    <3>2. /\ Applicable(v, new) /\ Apply(v, new)[s].image = old[s].image
          /\ Apply(v, new)[s].replicas = old[s].replicas
          /\ Apply(v, new)[s].flag = old[s].flag \/ OverwroteNoFlag(p, old[s])
      BY <2>1, <2>4, <2>5, <3>1, InverseUndoes
    <3> QED BY <3>2 DEF old, new
  <2> QED BY <2>8 DEF Revert
<1> QED BY <1>1, <1>2 DEF InverseRestores

-----------------------------------------------------------------------------
(***************************************************************************)
(* The theorems.                                                           *)
(***************************************************************************)
ApplierInv == ApplierTyped /\ SlotInv /\ Counted

(* Production, the twins and the calls keep their types, a patched slot    *)
(* has a plan that explains it, and the replicas are the sum of what has   *)
(* landed, in every state.                                                 *)
THEOREM ApplierInvariant == ApplierSpec => []ApplierInv
<1>1. ApplierInit => ApplierInv
  BY ApplierTypedAtFirst, SlotInvAtFirst, CountedAtFirst DEF ApplierInv
<1>2. ApplierInv /\ [ApplierNext]_applierVars => ApplierInv'
  BY ApplierTypedNext, SlotInvNext, CountedNext DEF ApplierInv
<1> QED BY <1>1, <1>2, PTL DEF ApplierSpec

(* The replicas of a workload are what the deltas of the patches that have *)
(* landed add up to, unless two calls overlapped.                          *)
THEOREM ReplicasAddUpHolds == ApplierSpec => []ReplicasAddUp
<1>1. ApplierInv => ReplicasAddUp
  BY CountedAddsUp DEF ApplierInv
<1> QED BY <1>1, ApplierInvariant, PTL

(* A restart or a scale that is skipped finds its identifier in the slot,  *)
(* where another incident's patch left it.                                 *)
THEOREM SkipNeedsIdReuseHolds == ApplierSpec => []SkipNeedsIdReuse
<1>1. ApplierInv => SkipNeedsIdReuse
  BY DEF ApplierInv, SlotInv, Skipped, SkipNeedsIdReuse
<1> QED BY <1>1, ApplierInvariant, PTL

(* Every ballot is sound, and the inverses restore what their plans        *)
(* changed in the twins, but for a flag written where there was none.      *)
THEOREM InverseRestoresHolds == ApplierSpec => []InverseRestores
<1>1. ApplierInv => InverseRestores
  BY InversesRestore DEF ApplierInv
<1> QED BY <1>1, ApplierInvariant, PTL
=============================================================================

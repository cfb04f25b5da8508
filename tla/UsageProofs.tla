---------------------------- MODULE UsageProofs ----------------------------
(***************************************************************************)
(* What the usage of a session promises, proved for any lines, slices and  *)
(* pages: totals that are kept up by additions and corrections are those   *)
(* of the ledger, the ledger is what the transcript says, and an answer    *)
(* that calls itself ready is of all of it.                                *)
(***************************************************************************)
EXTENDS UsageIndex, FiniteSetTheorems, SequenceTheorems, WellFoundedInduction, TLAPS

-----------------------------------------------------------------------------
(* Counting up *)

\* A set of numbers with 0 and the successor of each of its numbers has them all.
LEMMA SetInduction ==
  ASSUME NEW S, 0 \in S, \A n \in Nat : n \in S => n + 1 \in S
  PROVE  Nat \subseteq S
<1> DEFINE T == {n \in Nat : n \notin S}
           R == OpToRel(<, Nat)
<1> SUFFICES ASSUME T # {} PROVE FALSE OBVIOUS
<1>1. IsWellFoundedOn(R, Nat) BY NatLessThanWellFounded
<1>2. T \subseteq Nat OBVIOUS
<1> HIDE DEF T
<1>3. PICK x \in T : \A y \in T : ~(<<y, x>> \in R)
  <2> HIDE DEF R
  <2> QED BY <1>1, <1>2, WFMin
<1>4. x # 0 BY DEF T
<1>5. x - 1 \in Nat /\ x - 1 \notin T
  <2>1. x \in Nat BY <1>2
  <2>2. x - 1 \in Nat BY <2>1, <1>4
  <2>3. <<x - 1, x>> \in R BY <2>1, <2>2 DEF OpToRel
  <2> QED BY <2>2, <2>3, <1>3
<1>6. x - 1 \in S BY <1>5 DEF T
<1>7. x \in S
  <2>1. (x - 1) + 1 = x BY <1>2
  <2> QED BY <1>5, <1>6, <2>1
<1> QED BY <1>7 DEF T

\* The n steps that lead from a set into it, and what they make of a first value.
StepsIn(n, X) == [1..n -> [X -> X]]
PathsOf(n, X, a, step) ==
  {g \in [0..n -> X] : g[0] = a /\ \A k \in 1..n : g[k] = step[k][g[k - 1]]}

\* It is there.
LEMMA PathExists ==
  ASSUME NEW n \in Nat, NEW X, NEW a \in X, NEW step \in StepsIn(n, X)
  PROVE  \E g : g \in PathsOf(n, X, a, step)
<1> USE DEF StepsIn
<1> DEFINE Is(k, g) == g[0] = a /\ \A j \in 1..k : g[j] = step[j][g[j - 1]]
           S == {k \in Nat : k <= n => \E g \in [0..k -> X] : Is(k, g)}
<1>1. 0 \in S
  <2> DEFINE g == [j \in 0..0 |-> a]
  <2>1. g \in [0..0 -> X] /\ Is(0, g) OBVIOUS
  <2> QED BY <2>1
<1>2. ASSUME NEW k \in Nat, k \in S PROVE k + 1 \in S
  <2> SUFFICES ASSUME k + 1 <= n PROVE \E h \in [0..(k + 1) -> X] : Is(k + 1, h) OBVIOUS
  <2>1. PICK g \in [0..k -> X] : Is(k, g) BY <1>2
  <2> DEFINE h == [j \in 0..(k + 1) |-> IF j = k + 1 THEN step[k + 1][g[k]] ELSE g[j]]
  <2>2. k + 1 \in 1..n /\ k \in 0..k OBVIOUS
  <2>3. step[k + 1][g[k]] \in X BY <2>2
  <2>4. h \in [0..(k + 1) -> X] BY <2>3
  <2>5. h[0] = a BY <2>1
  <2>6. ASSUME NEW j \in 1..(k + 1) PROVE h[j] = step[j][h[j - 1]]
    <3>1. CASE j = k + 1
      <4>1. h[j] = step[k + 1][g[k]] BY <3>1
      <4>2. j - 1 = k /\ k \in 0..(k + 1) /\ k # k + 1 BY <3>1
      <4> QED BY <3>1, <4>1, <4>2
    <3>2. CASE j # k + 1
      <4>1. j \in 1..k /\ j - 1 \in 0..k /\ j - 1 # k + 1 BY <3>2
      <4>2. h[j] = g[j] /\ h[j - 1] = g[j - 1] BY <4>1, <3>2
      <4> QED BY <2>1, <4>1, <4>2
    <3> QED BY <3>1, <3>2
  <2> HIDE DEF h
  <2> QED BY <2>4, <2>5, <2>6
<1>3. n \in S
  <2> HIDE DEF S
  <2> QED BY <1>1, <1>2, SetInduction
<1> QED BY <1>3 DEF PathsOf
-----------------------------------------------------------------------------
(* Sums *)

\* A sum has its recursion.
LEMMA SumRec ==
  ASSUME NEW m \in Nat, NEW w \in [1..m -> Int]
  PROVE  /\ \A n \in 0..m : SumOf(w, n) \in Int
         /\ SumOf(w, 0) = 0
         /\ \A n \in 1..m : SumOf(w, n) = SumOf(w, n - 1) + w[n]
<1> DEFINE step == [k \in 1..m |-> [x \in Int |-> x + w[k]]]
<1>0. 0 \in Int OBVIOUS
<1>1. step \in StepsIn(m, Int) BY DEF StepsIn
<1>2. PICK g : g \in PathsOf(m, Int, 0, step)
  <2> HIDE DEF step
  <2> QED BY <1>0, <1>1, PathExists
<1>3. g \in [0..m -> Int] /\ g[0] = 0 /\ \A k \in 1..m : g[k] = step[k][g[k - 1]]
  BY <1>2 DEF PathsOf
<1>4. \A k \in 1..m : k - 1 \in 0..m /\ g[k - 1] \in Int /\ g[k] = g[k - 1] + w[k]
  <2> SUFFICES ASSUME NEW k \in 1..m
               PROVE  k - 1 \in 0..m /\ g[k - 1] \in Int /\ g[k] = g[k - 1] + w[k]
    OBVIOUS
  <2>1. k - 1 \in 0..m OBVIOUS
  <2>2. g[k - 1] \in Int BY <1>3, <2>1
  <2> QED BY <1>3, <2>1, <2>2
<1> HIDE DEF step
<1>5. ASSUME NEW n \in 0..m PROVE SumOf(w, n) = g[n]
  <2> DEFINE Is(s) == s = [k \in 0..n |-> IF k = 0 THEN 0 ELSE s[k - 1] + w[k]]
             s == CHOOSE t : Is(t)
             t == [k \in 0..n |-> g[k]]
             S == {k \in Nat : k <= n => s[k] = g[k]}
  <2>1. Is(t)
    <3>1. ASSUME NEW k \in 0..n PROVE g[k] = IF k = 0 THEN 0 ELSE t[k - 1] + w[k]
      <4>1. CASE k = 0 BY <4>1, <1>3
      <4>2. CASE k # 0
        <5>1. k \in 1..m /\ k - 1 \in 0..n BY <4>2
        <5> QED BY <4>2, <5>1, <1>4
      <4> QED BY <4>1, <4>2
    <3> QED BY <3>1
  <2>2. Is(s)
    <3> HIDE DEF Is, t
    <3> QED BY <2>1
  <2>3. SumOf(w, n) = s[n] BY DEF SumOf
  <2>4. s[0] = 0 /\ \A k \in 1..n : s[k] = s[k - 1] + w[k]
    <3> HIDE DEF s
    <3> QED BY <2>2
  <2> HIDE DEF s
  <2>5. 0 \in S BY <2>4, <1>3
  <2>6. \A k \in Nat : k \in S => k + 1 \in S
    <3> SUFFICES ASSUME NEW k \in Nat, k \in S, k + 1 <= n PROVE s[k + 1] = g[k + 1] OBVIOUS
    <3>1. k + 1 \in 1..n /\ k + 1 \in 1..m /\ (k + 1) - 1 = k /\ s[k] = g[k] OBVIOUS
    <3>2. s[k + 1] = s[k] + w[k + 1] BY <2>4, <3>1
    <3>3. g[k + 1] = g[k] + w[k + 1] BY <1>4, <3>1
    <3> QED BY <3>1, <3>2, <3>3
  <2>7. n \in S
    <3> HIDE DEF S
    <3>1. Nat \subseteq S BY <2>5, <2>6, SetInduction
    <3>2. n \in Nat OBVIOUS
    <3> QED BY <3>1, <3>2
  <2> QED BY <2>3, <2>7
<1>6. \A n \in 0..m : SumOf(w, n) \in Int BY <1>3, <1>5
<1>7. SumOf(w, 0) = 0
  <2>1. 0 \in 0..m OBVIOUS
  <2> QED BY <1>3, <1>5, <2>1
<1>8. ASSUME NEW n \in 1..m PROVE SumOf(w, n) = SumOf(w, n - 1) + w[n]
  <2>1. n \in 0..m /\ n - 1 \in 0..m OBVIOUS
  <2>2. SumOf(w, n) = g[n] /\ SumOf(w, n - 1) = g[n - 1] BY <2>1, <1>5
  <2> QED BY <2>2, <1>4
<1> QED BY <1>6, <1>7, <1>8

\* Equal weights have equal sums.
LEMMA SumSame ==
  ASSUME NEW m \in Nat, NEW w \in [1..m -> Int], NEW l \in Nat, NEW v \in [1..l -> Int],
         NEW n \in Nat, n <= m, n <= l, \A k \in 1..n : w[k] = v[k]
  PROVE  SumOf(w, n) = SumOf(v, n)
<1> DEFINE S == {k \in Nat : k <= n => SumOf(w, k) = SumOf(v, k)}
<1>1. 0 \in S BY SumRec
<1>2. ASSUME NEW k \in Nat, k \in S PROVE k + 1 \in S
  <2> SUFFICES ASSUME k + 1 <= n PROVE SumOf(w, k + 1) = SumOf(v, k + 1) OBVIOUS
  <2>1. k + 1 \in 1..n /\ k + 1 \in 1..m /\ k + 1 \in 1..l /\ (k + 1) - 1 = k OBVIOUS
  <2>2. SumOf(w, k) = SumOf(v, k) BY <1>2
  <2>3. SumOf(w, k + 1) = SumOf(w, k) + w[k + 1] BY <2>1, SumRec
  <2>4. SumOf(v, k + 1) = SumOf(v, k) + v[k + 1] BY <2>1, SumRec
  <2> QED BY <2>1, <2>2, <2>3, <2>4
<1>3. n \in S
  <2> HIDE DEF S
  <2> QED BY <1>1, <1>2, SetInduction
<1> QED BY <1>3

\* One weight that changed changes the sum by as much.
LEMMA SumPoint ==
  ASSUME NEW m \in Nat, NEW w \in [1..m -> Int], NEW v \in [1..m -> Int], NEW j \in 1..m,
         \A k \in 1..m : k # j => w[k] = v[k], NEW n \in j..m
  PROVE  SumOf(v, n) = SumOf(w, n) - w[j] + v[j]
<1> DEFINE S == {k \in Nat : j + k <= m => SumOf(v, j + k) = SumOf(w, j + k) - w[j] + v[j]}
<1>1. 0 \in S
  <2>1. j - 1 \in 0..m /\ j - 1 \in Nat /\ j \in 0..m /\ j + 0 = j OBVIOUS
  <2>2. \A k \in 1..(j - 1) : w[k] = v[k] OBVIOUS
  <2>3. SumOf(w, j - 1) = SumOf(v, j - 1)
    <3>1. j - 1 <= m OBVIOUS
    <3> QED BY <2>1, <2>2, <3>1, SumSame
  <2>4. SumOf(w, j) = SumOf(w, j - 1) + w[j] /\ SumOf(v, j) = SumOf(v, j - 1) + v[j] BY SumRec
  <2>5. SumOf(w, j - 1) \in Int /\ w[j] \in Int /\ v[j] \in Int BY <2>1, SumRec
  <2>6. SumOf(v, j) = SumOf(w, j) - w[j] + v[j] BY <2>3, <2>4, <2>5
  <2> QED BY <2>1, <2>6
<1>2. ASSUME NEW k \in Nat, k \in S PROVE k + 1 \in S
  <2> SUFFICES ASSUME j + (k + 1) <= m
               PROVE  SumOf(v, j + (k + 1)) = SumOf(w, j + (k + 1)) - w[j] + v[j]
    OBVIOUS
  <2> DEFINE i == j + (k + 1)
  <2>1. i \in 1..m /\ i - 1 = j + k /\ i # j /\ j + k \in 0..m OBVIOUS
  <2>2. SumOf(v, j + k) = SumOf(w, j + k) - w[j] + v[j] BY <1>2, <2>1
  <2>3. SumOf(w, j + k) \in Int /\ w[j] \in Int /\ v[j] \in Int /\ w[i] \in Int BY <2>1, SumRec
  <2>4. w[i] = v[i] BY <2>1
  <2> HIDE DEF i
  <2>5. SumOf(w, i) = SumOf(w, j + k) + w[i] BY <2>1, SumRec
  <2>6. SumOf(v, i) = SumOf(v, j + k) + v[i] BY <2>1, SumRec
  <2>7. SumOf(v, i) = SumOf(w, i) - w[j] + v[j] BY <2>2, <2>3, <2>4, <2>5, <2>6
  <2> QED BY <2>7 DEF i
<1>3. n - j \in S
  <2>1. n - j \in Nat OBVIOUS
  <2> HIDE DEF S
  <2> QED BY <2>1, <1>1, <1>2, SetInduction
<1>4. j + (n - j) = n OBVIOUS
<1>5. n - j \in Nat /\ n <= m OBVIOUS
<1> QED BY <1>3, <1>4, <1>5

\* A sum of naturals, which is no less for more of them.
LEMMA SumNat ==
  ASSUME NEW m \in Nat, NEW w \in [1..m -> Nat], NEW n \in 0..m
  PROVE  SumOf(w, n) \in Nat
<1> DEFINE S == {k \in Nat : k <= n => SumOf(w, k) \in Nat}
<1>0. w \in [1..m -> Int] /\ n \in Nat /\ n <= n OBVIOUS
<1>1. 0 \in S BY <1>0, SumRec
<1>2. ASSUME NEW k \in Nat, k \in S PROVE k + 1 \in S
  <2> SUFFICES ASSUME k + 1 <= n PROVE SumOf(w, k + 1) \in Nat OBVIOUS
  <2>1. k + 1 \in 1..m /\ (k + 1) - 1 = k /\ SumOf(w, k) \in Nat BY <1>2
  <2>2. SumOf(w, k + 1) = SumOf(w, k) + w[k + 1] BY <1>0, <2>1, SumRec
  <2>3. w[k + 1] \in Nat BY <2>1
  <2> QED BY <2>1, <2>2, <2>3
<1>3. n \in S
  <2> HIDE DEF S
  <2> QED BY <1>0, <1>1, <1>2, SetInduction
<1> QED BY <1>0, <1>3
-----------------------------------------------------------------------------
(* Totals of a ledger *)

Runs == {"claude", "codex"}
Counted == [n : Nat, time : Nat, amb : BOOLEAN]
IntCaches == [sum : Int, amb : Int, through : Nat, complete : BOOLEAN]
Weight(q, x) == IF InWindow(q, x) THEN x.n ELSE 0
Doubt(x) == IF x.amb THEN 1 ELSE 0
CacheOf(sum, amb, through, whole) ==
  [sum |-> sum, amb |-> amb, through |-> through, complete |-> whole]

\* What a fact contributes in a runtime.
Contribution(rt, facts, k) ==
  IF rt = "claude" THEN [n |-> facts[k].n, time |-> facts[k].time, amb |-> FALSE]
  ELSE IF k = 1 THEN [n |-> facts[k].n, time |-> 0, amb |-> FALSE]
  ELSE IF facts[k].n < facts[k - 1].n THEN [n |-> 0, time |-> 0, amb |-> TRUE]
  ELSE [n |-> facts[k].n - facts[k - 1].n, time |-> facts[k].time, amb |-> FALSE]
Weights(rt, q, facts) == [k \in 1..Len(facts) |-> Weight(q, Contribution(rt, facts, k))]
Doubts(rt, facts) == [k \in 1..Len(facts) |-> Doubt(Contribution(rt, facts, k))]
Tokens(rt, q, facts, n) == SumOf(Weights(rt, q, facts), n)
Doubtful(rt, facts, n) == SumOf(Doubts(rt, facts), n)

\* A total that is kept up by additions and corrections.
SumOK(rt, q, facts, c) ==
  /\ c.through <= Len(facts)
  /\ c.sum = Tokens(rt, q, facts, IF c.complete THEN Len(facts) ELSE c.through)
  /\ c.amb = Doubtful(rt, facts, IF c.complete THEN Len(facts) ELSE c.through)
Sums(rt, d) == \A q \in Queries : d.cache[q] # None => SumOK(rt, q, d.facts, d.cache[q])
SoundLedgers(rt) == {d \in Ledgers : Sums(rt, d)}

LEMMA ContributionIs ==
  ASSUME ConstantsOK, NEW rt \in Runs, NEW facts \in Seq(Records), NEW k \in 1..Len(facts)
  PROVE  Contribution(rt, facts, k) \in Counted
<1>1. facts[k].n \in Nat /\ facts[k].time \in Nat BY DEF ConstantsOK
<1>2. CASE rt = "claude" \/ k = 1 BY <1>1, <1>2 DEF Contribution, Counted
<1>3. CASE rt # "claude" /\ k # 1
  <2>1. k - 1 \in 1..Len(facts) BY <1>3
  <2>2. facts[k - 1] \in Records BY <2>1
  <2>3. facts[k - 1].n \in Nat BY <2>2 DEF ConstantsOK
  <2>4. CASE facts[k].n < facts[k - 1].n BY <1>3, <2>4 DEF Contribution, Counted
  <2>5. CASE ~(facts[k].n < facts[k - 1].n)
    <3>1. facts[k].n - facts[k - 1].n \in Nat BY <1>1, <2>3, <2>5
    <3> QED BY <1>1, <1>3, <2>5, <3>1 DEF Contribution, Counted
  <2> QED BY <2>4, <2>5
<1> QED BY <1>2, <1>3

LEMMA WeightIs ==
  ASSUME NEW q, NEW x \in Counted
  PROVE  Weight(q, x) \in Nat /\ Doubt(x) \in Nat
BY DEF Counted, Weight, Doubt

LEMMA WeightsAre ==
  ASSUME ConstantsOK, NEW rt \in Runs, NEW q, NEW facts \in Seq(Records)
  PROVE  /\ Weights(rt, q, facts) \in [1..Len(facts) -> Nat]
         /\ Weights(rt, q, facts) \in [1..Len(facts) -> Int]
         /\ Doubts(rt, facts) \in [1..Len(facts) -> Nat]
         /\ Doubts(rt, facts) \in [1..Len(facts) -> Int]
<1>1. \A k \in 1..Len(facts) : /\ Weight(q, Contribution(rt, facts, k)) \in Nat
                               /\ Doubt(Contribution(rt, facts, k)) \in Nat
  BY ContributionIs, WeightIs
<1> QED BY <1>1 DEF Weights, Doubts

LEMMA TokensRec ==
  ASSUME ConstantsOK, NEW rt \in Runs, NEW q, NEW facts \in Seq(Records)
  PROVE  /\ Tokens(rt, q, facts, 0) = 0 /\ Doubtful(rt, facts, 0) = 0
         /\ \A n \in 0..Len(facts) :
              Tokens(rt, q, facts, n) \in Nat /\ Doubtful(rt, facts, n) \in Nat
         /\ \A n \in 1..Len(facts) :
              /\ Tokens(rt, q, facts, n) =
                   Tokens(rt, q, facts, n - 1) + Weight(q, Contribution(rt, facts, n))
              /\ Doubtful(rt, facts, n) =
                   Doubtful(rt, facts, n - 1) + Doubt(Contribution(rt, facts, n))
<1>1. Len(facts) \in Nat OBVIOUS
<1>2. \A n \in 1..Len(facts) : /\ Weights(rt, q, facts)[n] = Weight(q, Contribution(rt, facts, n))
                               /\ Doubts(rt, facts)[n] = Doubt(Contribution(rt, facts, n))
  BY DEF Weights, Doubts
<1>3. \A n \in 0..Len(facts) :
        Tokens(rt, q, facts, n) \in Nat /\ Doubtful(rt, facts, n) \in Nat
  BY <1>1, WeightsAre, SumNat DEF Tokens, Doubtful
<1>4. Tokens(rt, q, facts, 0) = 0 /\ Doubtful(rt, facts, 0) = 0
  BY <1>1, WeightsAre, SumRec DEF Tokens, Doubtful
<1>5. \A n \in 1..Len(facts) :
        /\ Tokens(rt, q, facts, n) = Tokens(rt, q, facts, n - 1) + Weights(rt, q, facts)[n]
        /\ Doubtful(rt, facts, n) = Doubtful(rt, facts, n - 1) + Doubts(rt, facts)[n]
  BY <1>1, WeightsAre, SumRec DEF Tokens, Doubtful
<1> QED BY <1>2, <1>3, <1>4, <1>5

LEMMA CacheIs ==
  ASSUME NEW c \in IntCaches
  PROVE  c = CacheOf(c.sum, c.amb, c.through, c.complete)
BY DEF IntCaches, CacheOf

LEMMA AppliesIs ==
  ASSUME NEW q, NEW c \in IntCaches, NEW x \in Counted
  PROVE  /\ apply(c, q, x, 1) =
              CacheOf(c.sum + Weight(q, x), c.amb + Doubt(x), c.through, c.complete)
         /\ apply(c, q, x, -1) =
              CacheOf(c.sum - Weight(q, x), c.amb - Doubt(x), c.through, c.complete)
<1>1. c.sum \in Int /\ c.amb \in Int /\ x.n \in Nat /\ x.amb \in BOOLEAN
  BY DEF IntCaches, Counted
<1>2. ASSUME NEW a, NEW s
      PROVE  [c EXCEPT !.amb = a, !.sum = s] = CacheOf(s, a, c.through, c.complete)
  <2> DEFINE t == [c EXCEPT !.amb = a, !.sum = s]
  <2>1. t.sum = s /\ t.amb = a /\ t.through = c.through /\ t.complete = c.complete
    BY DEF IntCaches
  <2>2. t \in [sum : {s}, amb : {a}, through : {c.through}, complete : {c.complete}]
    BY DEF IntCaches
  <2> HIDE DEF t
  <2>3. t = [sum |-> t.sum, amb |-> t.amb, through |-> t.through, complete |-> t.complete]
    BY <2>2
  <2> QED BY <2>1, <2>3 DEF CacheOf, t
<1>3. /\ c.amb + (IF x.amb THEN 1 ELSE 0) = c.amb + Doubt(x)
      /\ c.sum + (IF InWindow(q, x) THEN 1 * x.n ELSE 0) = c.sum + Weight(q, x)
      /\ c.amb + (IF x.amb THEN -1 ELSE 0) = c.amb - Doubt(x)
      /\ c.sum + (IF InWindow(q, x) THEN (-1) * x.n ELSE 0) = c.sum - Weight(q, x)
  BY <1>1 DEF Weight, Doubt
<1>4. apply(c, q, x, 1) = [c EXCEPT !.amb = c.amb + (IF x.amb THEN 1 ELSE 0),
                                    !.sum = c.sum + (IF InWindow(q, x) THEN 1 * x.n ELSE 0)]
  BY DEF apply
<1>5. apply(c, q, x, -1) = [c EXCEPT !.amb = c.amb + (IF x.amb THEN -1 ELSE 0),
                                     !.sum = c.sum + (IF InWindow(q, x) THEN (-1) * x.n ELSE 0)]
  BY DEF apply
<1>6. apply(c, q, x, 1) = [c EXCEPT !.amb = c.amb + Doubt(x), !.sum = c.sum + Weight(q, x)]
  BY <1>3, <1>4
<1>7. apply(c, q, x, -1) = [c EXCEPT !.amb = c.amb - Doubt(x), !.sum = c.sum - Weight(q, x)]
  BY <1>3, <1>5
<1> QED BY <1>2, <1>6, <1>7

LEMMA ContributionModel ==
  ASSUME NEW facts, NEW k
  PROVE  usageContribution(facts, k) = Contribution(runtime, facts, k)
BY DEF usageContribution, Contribution

\* Contributions added one by one are added as their sum.
LEMMA AddedIs ==
  ASSUME ConstantsOK, runtime \in Runs, NEW q, NEW facts \in Seq(Records),
         NEW from \in 0..Len(facts), NEW to \in from..Len(facts), NEW c \in IntCaches
  PROVE  Added(c, q, facts, from, to) =
           CacheOf(c.sum + Tokens(runtime, q, facts, to) - Tokens(runtime, q, facts, from),
                   c.amb + Doubtful(runtime, facts, to) - Doubtful(runtime, facts, from),
                   c.through, c.complete)
<1> DEFINE T(n) == Tokens(runtime, q, facts, n)
           D(n) == Doubtful(runtime, facts, n)
           C(k) == CacheOf(c.sum + T(k) - T(from), c.amb + D(k) - D(from), c.through, c.complete)
           g == [k \in from..to |-> C(k)]
           Is(f) == f = [k \in from..to |-> IF k = from THEN c
                           ELSE apply(f[k - 1], q, usageContribution(facts, k), 1)]
           f == CHOOSE h : Is(h)
           S == {k \in Nat : from + k <= to => f[from + k] = C(from + k)}
<1>0. Len(facts) \in Nat /\ from \in Nat /\ to \in Nat OBVIOUS
<1>1. c.sum \in Int /\ c.amb \in Int /\ c.through \in Nat /\ c.complete \in BOOLEAN
  BY DEF IntCaches
<1>2. \A k \in from..to : T(k) \in Int /\ D(k) \in Int /\ T(from) \in Int /\ D(from) \in Int
  <2>1. \A k \in from..to : k \in 0..Len(facts) OBVIOUS
  <2>2. \A k \in 0..Len(facts) : T(k) \in Nat /\ D(k) \in Nat BY TokensRec
  <2> QED BY <2>1, <2>2
<1>3. C(from) = c
  <2>1. from \in from..to OBVIOUS
  <2> HIDE DEF T, D
  <2>2. c.sum + T(from) - T(from) = c.sum /\ c.amb + D(from) - D(from) = c.amb
    BY <1>1, <1>2, <2>1
  <2> QED BY <2>2, CacheIs
<1>4. ASSUME NEW k \in from..to, k # from
      PROVE  /\ k - 1 \in from..to
             /\ C(k) = apply(C(k - 1), q, usageContribution(facts, k), 1)
  <2>1. k \in 1..Len(facts) /\ k - 1 \in from..to BY <1>4
  <2>2. Contribution(runtime, facts, k) \in Counted BY <2>1, ContributionIs
  <2> DEFINE x == Contribution(runtime, facts, k)
  <2>3. T(k) = T(k - 1) + Weight(q, x) /\ D(k) = D(k - 1) + Doubt(x) BY <2>1, TokensRec
  <2>4. Weight(q, x) \in Nat /\ Doubt(x) \in Nat BY <2>2, WeightIs
  <2>5. /\ T(k - 1) \in Int /\ D(k - 1) \in Int /\ T(from) \in Int /\ D(from) \in Int
    BY <2>1, <1>2
  <2> HIDE DEF T, D, x
  <2>6. C(k - 1) \in IntCaches BY <1>1, <2>5 DEF CacheOf, IntCaches
  <2>7. apply(C(k - 1), q, x, 1) =
          CacheOf(C(k - 1).sum + Weight(q, x), C(k - 1).amb + Doubt(x), C(k - 1).through,
                  C(k - 1).complete)
    BY <2>2, <2>6, AppliesIs DEF x
  <2>8. /\ C(k - 1).sum = c.sum + T(k - 1) - T(from) /\ C(k - 1).amb = c.amb + D(k - 1) - D(from)
        /\ C(k - 1).through = c.through /\ C(k - 1).complete = c.complete
    BY DEF CacheOf
  <2>9. /\ C(k - 1).sum + Weight(q, x) = c.sum + T(k) - T(from)
        /\ C(k - 1).amb + Doubt(x) = c.amb + D(k) - D(from)
    <3> HIDE DEF C
    <3>1. /\ c.sum + T(k - 1) - T(from) + Weight(q, x) = c.sum + T(k) - T(from)
          /\ c.amb + D(k - 1) - D(from) + Doubt(x) = c.amb + D(k) - D(from)
      <4>1. PICK s, a, t, d, t0, d0, t1, d1, w, o :
              /\ s = c.sum /\ a = c.amb /\ t = T(k) /\ d = D(k) /\ t0 = T(from) /\ d0 = D(from)
              /\ t1 = T(k - 1) /\ d1 = D(k - 1) /\ w = Weight(q, x) /\ o = Doubt(x)
        OBVIOUS
      <4>2. /\ s \in Int /\ a \in Int /\ t0 \in Int /\ d0 \in Int /\ t1 \in Int /\ d1 \in Int
            /\ w \in Nat /\ o \in Nat /\ t = t1 + w /\ d = d1 + o
        BY <1>1, <2>3, <2>4, <2>5, <4>1
      <4>3. s + t1 - t0 + w = s + t - t0 /\ a + d1 - d0 + o = a + d - d0 BY <4>2
      <4> QED BY <4>1, <4>3
    <3> QED BY <2>8, <3>1
  <2>10. usageContribution(facts, k) = x BY ContributionModel DEF x
  <2> QED BY <2>1, <2>7, <2>8, <2>9, <2>10
<1> HIDE DEF C
<1>5. Is(g)
  <2>1. ASSUME NEW k \in from..to
        PROVE  C(k) = IF k = from THEN c ELSE apply(g[k - 1], q, usageContribution(facts, k), 1)
    <3>1. CASE k = from BY <3>1, <1>3
    <3>2. CASE k # from
      <4>1. k - 1 \in from..to BY <3>2, <1>4
      <4>2. g[k - 1] = C(k - 1) BY <4>1
      <4> QED BY <3>2, <4>2, <1>4
    <3> QED BY <3>1, <3>2
  <2> QED BY <2>1
<1>6. Is(f)
  <2> HIDE DEF Is, g
  <2> QED BY <1>5
<1>7. Added(c, q, facts, from, to) = f[to] BY DEF Added
<1>8. f[from] = c /\ \A k \in from..to : k # from =>
        f[k] = apply(f[k - 1], q, usageContribution(facts, k), 1)
  <2> HIDE DEF f
  <2> QED BY <1>6
<1> HIDE DEF f
<1>9. 0 \in S BY <1>0, <1>8, <1>3
<1>10. ASSUME NEW k \in Nat, k \in S PROVE k + 1 \in S
  <2> SUFFICES ASSUME from + (k + 1) <= to PROVE f[from + (k + 1)] = C(from + (k + 1)) OBVIOUS
  <2> DEFINE i == from + (k + 1)
  <2>1. i \in from..to /\ i # from /\ i - 1 = from + k BY <1>0
  <2>2. f[from + k] = C(from + k) BY <1>0, <1>10
  <2> HIDE DEF i
  <2>3. f[i] = C(i) BY <2>1, <2>2, <1>4, <1>8
  <2> QED BY <2>3 DEF i
<1>11. to - from \in S
  <2>1. to - from \in Nat BY <1>0
  <2> HIDE DEF S
  <2> QED BY <2>1, <1>9, <1>10, SetInduction
<1>12. from + (to - from) = to /\ to - from \in Nat /\ to <= to BY <1>0
<1>13. f[to] = C(to) BY <1>11, <1>12
<1> QED BY <1>7, <1>13 DEF C
-----------------------------------------------------------------------------
(* Facts *)

IdOf(rt, l) == IF rt = "claude" THEN l.id ELSE l
Known(rt, facts, l) == {k \in 1..Len(facts) : IdOf(rt, facts[k]) = IdOf(rt, l)}
Replaced(facts, j, l) == [facts EXCEPT ![j] = l]
Put(rt, facts, l) ==
  IF Known(rt, facts, l) = {} THEN Append(facts, l)
  ELSE Replaced(facts, CHOOSE k \in Known(rt, facts, l) : TRUE, l)

LEMMA ReplacedIs ==
  ASSUME NEW R, NEW facts \in Seq(R), NEW l \in R, NEW j \in 1..Len(facts)
  PROVE  /\ Replaced(facts, j, l) \in Seq(R) /\ Len(Replaced(facts, j, l)) = Len(facts)
         /\ Replaced(facts, j, l)[j] = l
         /\ \A k \in 1..Len(facts) : k # j => Replaced(facts, j, l)[k] = facts[k]
BY DEF Replaced

LEMMA PutFacts ==
  ASSUME NEW rt \in Runs, NEW facts \in Seq(Records), NEW l \in Records
  PROVE  /\ Put(rt, facts, l) \in Seq(Records)
         /\ Len(Put(rt, facts, l)) \in Len(facts)..(Len(facts) + 1)
<1>1. CASE Known(rt, facts, l) = {} BY <1>1 DEF Put
<1>2. CASE Known(rt, facts, l) # {}
  <2>1. PICK j : j = CHOOSE k \in Known(rt, facts, l) : TRUE OBVIOUS
  <2>2. j \in 1..Len(facts) BY <1>2, <2>1 DEF Known
  <2>3. Put(rt, facts, l) = Replaced(facts, j, l) BY <1>2, <2>1 DEF Put
  <2>4. Len(facts) \in Nat OBVIOUS
  <2> QED BY <2>2, <2>3, <2>4, ReplacedIs
<1> QED BY <1>1, <1>2

\* A fact at the end adds its contribution.
LEMMA AppendTokens ==
  ASSUME ConstantsOK, NEW rt \in Runs, NEW q, NEW facts \in Seq(Records), NEW l \in Records
  PROVE  /\ \A n \in 0..Len(facts) :
              /\ Tokens(rt, q, Append(facts, l), n) = Tokens(rt, q, facts, n)
              /\ Doubtful(rt, Append(facts, l), n) = Doubtful(rt, facts, n)
         /\ Tokens(rt, q, Append(facts, l), Len(facts) + 1) =
              Tokens(rt, q, facts, Len(facts))
                + Weight(q, Contribution(rt, Append(facts, l), Len(facts) + 1))
         /\ Doubtful(rt, Append(facts, l), Len(facts) + 1) =
              Doubtful(rt, facts, Len(facts))
                + Doubt(Contribution(rt, Append(facts, l), Len(facts) + 1))
<1> DEFINE m == Len(facts)
           new == Append(facts, l)
<1>1. new \in Seq(Records) /\ Len(new) = m + 1 /\ m \in Nat /\ \A k \in 1..m : new[k] = facts[k]
  OBVIOUS
<1> HIDE DEF new
<1>2. \A k \in 1..m : Contribution(rt, new, k) = Contribution(rt, facts, k)
  <2> SUFFICES ASSUME NEW k \in 1..m PROVE Contribution(rt, new, k) = Contribution(rt, facts, k)
    OBVIOUS
  <2>1. k # 1 => k - 1 \in 1..m OBVIOUS
  <2>2. new[k] = facts[k] /\ (k # 1 => new[k - 1] = facts[k - 1]) BY <1>1, <2>1
  <2> QED BY <2>2 DEF Contribution
<1>3. \A k \in 1..m : /\ Weights(rt, q, new)[k] = Weights(rt, q, facts)[k]
                      /\ Doubts(rt, new)[k] = Doubts(rt, facts)[k]
  <2>1. \A k \in 1..m : k \in 1..Len(new) BY <1>1
  <2> QED BY <1>2, <2>1 DEF Weights, Doubts
<1>4. ASSUME NEW n \in 0..m
      PROVE  /\ Tokens(rt, q, new, n) = Tokens(rt, q, facts, n)
             /\ Doubtful(rt, new, n) = Doubtful(rt, facts, n)
  <2>1. n \in Nat /\ n <= m /\ n <= Len(new) /\ Len(new) \in Nat BY <1>1
  <2>2. \A k \in 1..n : k \in 1..m BY <1>1
  <2>3. SumOf(Weights(rt, q, new), n) = SumOf(Weights(rt, q, facts), n)
    <3>1. PICK v, w, a : v = Weights(rt, q, new) /\ w = Weights(rt, q, facts) /\ a = Len(new)
      OBVIOUS
    <3>2. \A k \in 1..n : v[k] = w[k] BY <1>3, <2>2, <3>1
    <3>3. v \in [1..a -> Int] BY <1>1, <3>1, WeightsAre
    <3>4. w \in [1..m -> Int] BY <3>1, WeightsAre
    <3>5. a \in Nat /\ m \in Nat /\ n \in Nat /\ n <= a /\ n <= m BY <1>1, <2>1, <3>1
    <3>6. SumOf(v, n) = SumOf(w, n) BY <3>2, <3>3, <3>4, <3>5, SumSame
    <3> QED BY <3>1, <3>6
  <2>4. SumOf(Doubts(rt, new), n) = SumOf(Doubts(rt, facts), n)
    <3>1. PICK v, w, a : v = Doubts(rt, new) /\ w = Doubts(rt, facts) /\ a = Len(new)
      OBVIOUS
    <3>2. \A k \in 1..n : v[k] = w[k] BY <1>3, <2>2, <3>1
    <3>3. v \in [1..a -> Int] BY <1>1, <3>1, WeightsAre
    <3>4. w \in [1..m -> Int] BY <3>1, WeightsAre
    <3>5. a \in Nat /\ m \in Nat /\ n \in Nat /\ n <= a /\ n <= m BY <1>1, <2>1, <3>1
    <3>6. SumOf(v, n) = SumOf(w, n) BY <3>2, <3>3, <3>4, <3>5, SumSame
    <3> QED BY <3>1, <3>6
  <2> QED BY <2>3, <2>4 DEF Tokens, Doubtful
<1>5. m + 1 \in 1..Len(new) /\ (m + 1) - 1 = m /\ m \in 0..m BY <1>1
<1>6. /\ Tokens(rt, q, new, m + 1) = Tokens(rt, q, new, m) + Weight(q, Contribution(rt, new, m + 1))
      /\ Doubtful(rt, new, m + 1) = Doubtful(rt, new, m) + Doubt(Contribution(rt, new, m + 1))
  <2>1. PICK n, b : n = m + 1 /\ b = m OBVIOUS
  <2>2. n \in 1..Len(new) /\ n - 1 = b BY <1>5, <2>1
  <2>3. /\ Tokens(rt, q, new, n) = Tokens(rt, q, new, n - 1) + Weight(q, Contribution(rt, new, n))
        /\ Doubtful(rt, new, n) = Doubtful(rt, new, n - 1) + Doubt(Contribution(rt, new, n))
    BY <1>1, <2>2, TokensRec
  <2> QED BY <2>1, <2>2, <2>3
<1>7. /\ Tokens(rt, q, new, m) = Tokens(rt, q, facts, m)
      /\ Doubtful(rt, new, m) = Doubtful(rt, facts, m)
  BY <1>4, <1>5
<1> QED BY <1>4, <1>6, <1>7 DEF new

\* A count that is corrected changes the sums that have it by the difference.
LEMMA ReplaceTokens ==
  ASSUME ConstantsOK, NEW q, NEW facts \in Seq(Records), NEW l \in Records,
         NEW j \in 1..Len(facts)
  PROVE  \A n \in 0..Len(facts) :
           /\ n < j => Tokens("claude", q, Replaced(facts, j, l), n) = Tokens("claude", q, facts, n)
           /\ ~(n < j) => Tokens("claude", q, Replaced(facts, j, l), n) =
                Tokens("claude", q, facts, n) - Weight(q, Contribution("claude", facts, j))
                  + Weight(q, Contribution("claude", Replaced(facts, j, l), j))
           /\ Doubtful("claude", Replaced(facts, j, l), n) = 0
           /\ Doubtful("claude", facts, n) = 0
<1> DEFINE m == Len(facts)
           rt == "claude"
           new == Replaced(facts, j, l)
<1>0. rt \in Runs BY DEF Runs
<1>1. /\ new \in Seq(Records) /\ Len(new) = m /\ m \in Nat
      /\ \A k \in 1..m : k # j => new[k] = facts[k]
  BY ReplacedIs
<1> HIDE DEF new
<1>2. \A k \in 1..m : k # j => Contribution(rt, new, k) = Contribution(rt, facts, k)
  BY <1>1 DEF Contribution
<1>3. \A k \in 1..m : k # j => Weights(rt, q, facts)[k] = Weights(rt, q, new)[k]
  BY <1>1, <1>2 DEF Weights
<1>4. /\ Weights(rt, q, new) \in [1..m -> Int] /\ Weights(rt, q, facts) \in [1..m -> Int]
      /\ Doubts(rt, new) \in [1..m -> Int] /\ Doubts(rt, facts) \in [1..m -> Int]
  BY <1>0, <1>1, WeightsAre
<1>5. /\ Weights(rt, q, facts)[j] = Weight(q, Contribution(rt, facts, j))
      /\ Weights(rt, q, new)[j] = Weight(q, Contribution(rt, new, j))
  BY <1>1 DEF Weights
<1>6. ASSUME NEW n \in 0..m
      PROVE  Tokens(rt, q, new, n) =
               IF n < j THEN Tokens(rt, q, facts, n)
               ELSE Tokens(rt, q, facts, n) - Weight(q, Contribution(rt, facts, j))
                      + Weight(q, Contribution(rt, new, j))
  <2>1. CASE n < j
    <3>1. n \in Nat /\ n <= m BY <1>1
    <3>2. \A k \in 1..n : Weights(rt, q, new)[k] = Weights(rt, q, facts)[k] BY <1>1, <1>3, <2>1
    <3>3. SumOf(Weights(rt, q, new), n) = SumOf(Weights(rt, q, facts), n)
      BY <1>1, <1>4, <3>1, <3>2, SumSame
    <3> QED BY <2>1, <3>3 DEF Tokens
  <2>2. CASE ~(n < j)
    <3>1. n \in j..m BY <1>1, <2>2
    <3>2. SumOf(Weights(rt, q, new), n) =
            SumOf(Weights(rt, q, facts), n) - Weights(rt, q, facts)[j] + Weights(rt, q, new)[j]
      BY <1>1, <1>3, <1>4, <3>1, SumPoint
    <3> QED BY <1>5, <2>2, <3>2 DEF Tokens
  <2> QED BY <2>1, <2>2
<1>7. ASSUME NEW fs \in Seq(Records), Len(fs) = m, NEW n \in 0..m
      PROVE  Doubtful(rt, fs, n) = 0
  <2> DEFINE S == {k \in Nat : k <= m => Doubtful(rt, fs, k) = 0}
  <2>1. 0 \in S BY <1>0, TokensRec
  <2>2. ASSUME NEW k \in Nat, k \in S PROVE k + 1 \in S
    <3> SUFFICES ASSUME k + 1 <= m PROVE Doubtful(rt, fs, k + 1) = 0 OBVIOUS
    <3>1. k + 1 \in 1..Len(fs) /\ (k + 1) - 1 = k BY <1>1, <1>7
    <3>2. Doubtful(rt, fs, k + 1) = Doubtful(rt, fs, k) + Doubt(Contribution(rt, fs, k + 1))
      BY <1>0, <3>1, TokensRec
    <3>3. Doubt(Contribution(rt, fs, k + 1)) = 0 BY DEF Doubt, Contribution
    <3>4. Doubtful(rt, fs, k) = 0 BY <2>2, <1>1
    <3> QED BY <3>2, <3>3, <3>4
  <2>3. n \in S
    <3> HIDE DEF S
    <3> QED BY <1>1, <2>1, <2>2, SetInduction
  <2> QED BY <1>1, <2>3
<1> QED BY <1>1, <1>6, <1>7 DEF new
-----------------------------------------------------------------------------
(* A fact put into a ledger *)

LEMMA CachesAre ==
  ASSUME NEW c \in Caches
  PROVE  c \in IntCaches /\ c = CacheOf(c.sum, c.amb, c.through, c.complete)
BY DEF Caches, IntCaches, CacheOf

LEMMA SumsAreCaches ==
  ASSUME ConstantsOK, NEW rt \in Runs, NEW q, NEW facts \in Seq(Records), NEW s, NEW a,
         NEW t \in Nat, NEW w \in BOOLEAN, SumOK(rt, q, facts, CacheOf(s, a, t, w))
  PROVE  CacheOf(s, a, t, w) \in Caches
<1> DEFINE n == IF w THEN Len(facts) ELSE t
<1>1. t <= Len(facts) /\ s = Tokens(rt, q, facts, n) /\ a = Doubtful(rt, facts, n)
  BY DEF SumOK, CacheOf
<1>2. n \in 0..Len(facts) BY <1>1
<1>3. s \in Nat /\ a \in Nat BY <1>1, <1>2, TokensRec
<1> QED BY <1>3 DEF CacheOf, Caches

\* A whole total takes a new fact, one that is being built comes to it later.
LEMMA UpdateAppend ==
  ASSUME ConstantsOK, NEW rt \in Runs, NEW q, NEW facts \in Seq(Records), NEW l \in Records,
         NEW c \in {None} \cup Caches, c # None => SumOK(rt, q, facts, c)
  PROVE  LET new == Append(facts, l)
             u == updateUsageCaches(c, q, None, Contribution(rt, new, Len(new)), Len(new))
         IN u \in {None} \cup Caches /\ (u # None => SumOK(rt, q, new, u))
<1> DEFINE new == Append(facts, l)
           m == Len(facts)
           x == Contribution(rt, new, m + 1)
           u == updateUsageCaches(c, q, None, x, m + 1)
<1>1. new \in Seq(Records) /\ Len(new) = m + 1 /\ m \in Nat OBVIOUS
<1>2. CASE c = None BY <1>2 DEF updateUsageCaches
<1>3. CASE c # None
  <2>1. /\ c \in Caches /\ c \in IntCaches /\ c.through \in Nat /\ c.complete \in BOOLEAN
        /\ c.through <= m /\ c = CacheOf(c.sum, c.amb, c.through, c.complete)
    BY <1>3, CachesAre DEF SumOK, Caches
  <2>2. CASE ~c.complete
    <3>1. u = c BY <1>1, <1>3, <2>1, <2>2 DEF updateUsageCaches
    <3>2. c.through \in 0..m BY <1>1, <2>1
    <3>3. SumOK(rt, q, new, c)
      <4>1. /\ Tokens(rt, q, new, c.through) = Tokens(rt, q, facts, c.through)
            /\ Doubtful(rt, new, c.through) = Doubtful(rt, facts, c.through)
        BY <3>2, AppendTokens
      <4> QED BY <1>1, <1>3, <2>1, <2>2, <4>1 DEF SumOK
    <3> QED BY <1>1, <2>1, <3>1, <3>3
  <2>3. CASE c.complete
    <3>1. u = apply(c, q, x, 1) BY <1>3, <2>3 DEF updateUsageCaches
    <3>2. x \in Counted
      <4>1. m + 1 \in 1..Len(new) BY <1>1
      <4> QED BY <1>1, <4>1, ContributionIs
    <3>3. u = CacheOf(c.sum + Weight(q, x), c.amb + Doubt(x), c.through, c.complete)
      BY <2>1, <3>1, <3>2, AppliesIs
    <3>4. c.sum = Tokens(rt, q, facts, m) /\ c.amb = Doubtful(rt, facts, m)
      BY <1>3, <2>3 DEF SumOK
    <3>5. /\ c.sum + Weight(q, x) = Tokens(rt, q, new, m + 1)
          /\ c.amb + Doubt(x) = Doubtful(rt, new, m + 1)
      BY <3>4, AppendTokens
    <3> HIDE DEF x, u, new
    <3>6. SumOK(rt, q, new, u)
      <4>1. /\ u.sum = Tokens(rt, q, new, m + 1) /\ u.amb = Doubtful(rt, new, m + 1)
            /\ u.through = c.through /\ u.complete = c.complete
        BY <3>3, <3>5 DEF CacheOf
      <4>2. u.through <= Len(new) BY <1>1, <2>1, <4>1
      <4> QED BY <1>1, <2>3, <4>1, <4>2 DEF SumOK
    <3>7. u \in Caches BY <1>1, <2>1, <3>3, <3>6, SumsAreCaches
    <3> QED BY <1>1, <3>6, <3>7 DEF u, x, new
  <2> QED BY <2>1, <2>2, <2>3
<1> QED BY <1>2, <1>3

\* A corrected count is taken back and put in again where it was counted.
LEMMA UpdateReplace ==
  ASSUME ConstantsOK, NEW q, NEW facts \in Seq(Records), NEW l \in Records,
         NEW j \in 1..Len(facts),
         NEW c \in {None} \cup Caches, c # None => SumOK("claude", q, facts, c)
  PROVE  LET new == Replaced(facts, j, l)
             u == updateUsageCaches(c, q, Contribution("claude", facts, j),
                                    Contribution("claude", new, j), j)
         IN u \in {None} \cup Caches /\ (u # None => SumOK("claude", q, new, u))
<1> DEFINE new == Replaced(facts, j, l)
           m == Len(facts)
           rt == "claude"
           o == Contribution(rt, facts, j)
           x == Contribution(rt, new, j)
           u == updateUsageCaches(c, q, o, x, j)
<1>0. rt \in Runs BY DEF Runs
<1>1. new \in Seq(Records) /\ Len(new) = m /\ m \in Nat BY ReplacedIs
<1>2. o \in Counted /\ x \in Counted /\ o # None
  <2>1. j \in 1..Len(new) BY <1>1
  <2>2. o \in Counted /\ x \in Counted BY <1>0, <1>1, <2>1, ContributionIs
  <2> QED BY <2>2 DEF ConstantsOK, Counted
<1>3. \A n \in 0..m :
        /\ Tokens(rt, q, new, n) = IF n < j THEN Tokens(rt, q, facts, n)
                                   ELSE Tokens(rt, q, facts, n) - Weight(q, o) + Weight(q, x)
        /\ Doubtful(rt, new, n) = 0 /\ Doubtful(rt, facts, n) = 0
  <2>1. \A n \in 0..Len(facts) :
           /\ n < j => Tokens("claude", q, Replaced(facts, j, l), n) = Tokens("claude", q, facts, n)
           /\ ~(n < j) => Tokens("claude", q, Replaced(facts, j, l), n) =
                Tokens("claude", q, facts, n) - Weight(q, Contribution("claude", facts, j))
                  + Weight(q, Contribution("claude", Replaced(facts, j, l), j))
           /\ Doubtful("claude", Replaced(facts, j, l), n) = 0
           /\ Doubtful("claude", facts, n) = 0
    BY ReplaceTokens
  <2> QED BY <2>1
<1>4. Doubt(o) = 0 /\ Doubt(x) = 0 BY DEF Doubt, Contribution
<1> HIDE DEF o, x, new
<1>5. CASE c = None BY <1>5 DEF updateUsageCaches, u, o, x, new
<1>6. CASE c # None
  <2> DEFINE n == IF c.complete THEN m ELSE c.through
  <2>1. /\ c \in Caches /\ c \in IntCaches /\ c.through \in Nat /\ c.complete \in BOOLEAN
        /\ c.through <= m /\ c = CacheOf(c.sum, c.amb, c.through, c.complete)
        /\ c.sum = Tokens(rt, q, facts, n) /\ c.amb = Doubtful(rt, facts, n)
    BY <1>6, CachesAre DEF SumOK, Caches
  <2>2. n \in 0..m BY <1>1, <2>1
  <2>3. CASE ~c.complete /\ j > c.through
    <3>1. u = c BY <1>6, <2>3 DEF updateUsageCaches
    <3>2. n < j BY <1>1, <2>1, <2>3
    <3>3. SumOK(rt, q, new, c)
      <4>1. Tokens(rt, q, new, n) = Tokens(rt, q, facts, n) BY <1>3, <2>2, <3>2
      <4>2. Doubtful(rt, new, n) = Doubtful(rt, facts, n) BY <1>3, <2>2
      <4> QED BY <1>1, <2>1, <2>3, <4>1, <4>2 DEF SumOK
    <3> QED BY <2>1, <3>1, <3>3 DEF u, o, x, new
  <2>4. CASE ~(~c.complete /\ j > c.through)
    <3>1. u = apply(apply(c, q, o, -1), q, x, 1) BY <1>2, <1>6, <2>4 DEF updateUsageCaches
    <3> DEFINE b == CacheOf(c.sum - Weight(q, o), c.amb - Doubt(o), c.through, c.complete)
    <3>2. apply(c, q, o, -1) = b BY <1>2, <2>1, AppliesIs
    <3>20. /\ b.sum = c.sum - Weight(q, o) /\ b.amb = c.amb /\ b.through = c.through
           /\ b.complete = c.complete /\ c.amb \in Int /\ c.sum \in Int
      BY <1>4, <2>1 DEF CacheOf, IntCaches
    <3>21. Weight(q, o) \in Nat /\ Weight(q, x) \in Nat BY <1>2, WeightIs
    <3>3. b \in IntCaches
      BY <2>1, <3>20, <3>21 DEF IntCaches, CacheOf
    <3> HIDE DEF b
    <3>4. u = CacheOf(b.sum + Weight(q, x), b.amb + Doubt(x), b.through, b.complete)
      BY <1>2, <3>1, <3>2, <3>3, AppliesIs
    <3>5. ~(n < j) BY <1>1, <2>1, <2>4
    <3>6. /\ b.sum + Weight(q, x) = Tokens(rt, q, new, n)
          /\ b.amb + Doubt(x) = Doubtful(rt, new, n)
      BY <1>3, <1>4, <2>1, <2>2, <3>5, <3>20, <3>21
    <3>7. /\ u.sum = Tokens(rt, q, new, n) /\ u.amb = Doubtful(rt, new, n)
          /\ u.through = c.through /\ u.complete = c.complete
      BY <3>4, <3>6, <3>20 DEF CacheOf
    <3> HIDE DEF u
    <3>8. SumOK(rt, q, new, u) BY <1>1, <2>1, <3>7 DEF SumOK
    <3>9. u \in Caches BY <1>0, <1>1, <2>1, <3>4, <3>20, <3>8, SumsAreCaches
    <3> QED BY <3>8, <3>9 DEF u, o, x, new
  <2> QED BY <2>3, <2>4
<1> QED BY <1>5, <1>6

LEMMA IdIs ==
  ASSUME NEW l
  PROVE  Id(l) = IdOf(runtime, l)
BY DEF Id, IdOf

\* A put is one to the facts and the totals that keep up with them.
LEMMA PutIs ==
  ASSUME ConstantsOK, runtime \in Runs, NEW d \in SoundLedgers(runtime), NEW l \in Records
  PROVE  /\ put(d, l) \in SoundLedgers(runtime)
         /\ put(d, l).facts = Put(runtime, d.facts, l)
         /\ put(d, l).index = d.index /\ put(d, l).fence = d.fence
<1> DEFINE known == {k \in 1..Len(d.facts) : Id(d.facts[k]) = Id(l)}
           seq == IF known = {} THEN Len(d.facts) + 1 ELSE CHOOSE k \in known : TRUE
           facts == IF known = {} THEN Append(d.facts, l) ELSE [d.facts EXCEPT ![seq] = l]
           old == IF known = {} THEN None ELSE usageContribution(d.facts, seq)
           new == usageContribution(facts, seq)
           U(q) == updateUsageCaches(d.cache[q], q, old, new, seq)
           e == [d EXCEPT !.facts = facts, !.cache = [q \in Queries |-> U(q)]]
<1>1. put(d, l) = IF facts = d.facts THEN d ELSE e BY DEF put
<1>2. known = Known(runtime, d.facts, l) BY IdIs DEF Known
<1>3. facts = Put(runtime, d.facts, l)
  <2> HIDE DEF known
  <2>1. CASE known = {} BY <1>2, <2>1 DEF Put
  <2>2. CASE known # {}
    <3>1. facts = Replaced(d.facts, CHOOSE k \in known : TRUE, l) BY <2>2 DEF Replaced
    <3> QED BY <1>2, <2>2, <3>1 DEF Put
  <2> QED BY <2>1, <2>2
<1>4. /\ d \in Ledgers /\ d.facts \in Seq(Records) /\ Sums(runtime, d)
      /\ \A q \in Queries : d.cache[q] \in {None} \cup Caches
  BY DEF SoundLedgers, Ledgers
<1>5. facts \in Seq(Records)
  <2> HIDE DEF facts
  <2>1. PICK f : f = d.facts OBVIOUS
  <2>2. f \in Seq(Records) /\ facts = Put(runtime, f, l) BY <1>3, <1>4, <2>1
  <2> QED BY <2>2, PutFacts
<1>6. CASE facts = d.facts BY <1>1, <1>3, <1>6
<1>7. CASE facts # d.facts
  <2>1. ASSUME NEW q \in Queries
        PROVE  U(q) \in {None} \cup Caches /\ (U(q) # None => SumOK(runtime, q, facts, U(q)))
    <3>1. d.cache[q] # None => SumOK(runtime, q, d.facts, d.cache[q]) BY <1>4 DEF Sums
    <3>2. CASE known = {}
      <4>1. /\ facts = Append(d.facts, l) /\ seq = Len(facts) /\ old = None
            /\ new = Contribution(runtime, facts, Len(facts))
        BY <1>4, <3>2, ContributionModel
      <4> HIDE DEF known, seq, old, new, facts
      <4>2. U(q) = updateUsageCaches(d.cache[q], q, None,
                     Contribution(runtime, Append(d.facts, l), Len(Append(d.facts, l))),
                     Len(Append(d.facts, l)))
        BY <4>1
      <4> HIDE DEF U
      <4> QED BY <1>4, <3>1, <4>1, <4>2, UpdateAppend
    <3>3. CASE known # {}
      <4>1. seq \in known BY <3>3
      <4>2. seq \in 1..Len(d.facts) /\ Id(d.facts[seq]) = Id(l) BY <4>1
      <4>3. /\ facts = Replaced(d.facts, seq, l)
            /\ old = Contribution(runtime, d.facts, seq)
            /\ new = Contribution(runtime, facts, seq)
        BY <3>3, ContributionModel DEF Replaced
      <4> HIDE DEF known, seq, old, new
      <4>4. runtime = "claude"
        <5> SUFFICES ASSUME runtime # "claude" PROVE FALSE OBVIOUS
        <5>1. d.facts[seq] = l BY <4>2 DEF Id
        <5>2. Replaced(d.facts, seq, l) = d.facts BY <1>4, <4>2, <5>1 DEF Replaced
        <5> HIDE DEF facts
        <5> QED BY <1>7, <4>3, <5>2
      <4> HIDE DEF facts
      <4>5. U(q) = updateUsageCaches(d.cache[q], q, Contribution("claude", d.facts, seq),
                     Contribution("claude", Replaced(d.facts, seq, l), seq), seq)
        BY <4>3, <4>4
      <4> HIDE DEF U
      <4>6. d.cache[q] # None => SumOK("claude", q, d.facts, d.cache[q]) BY <3>1, <4>4
      <4>7. /\ U(q) \in {None} \cup Caches
            /\ U(q) # None => SumOK("claude", q, Replaced(d.facts, seq, l), U(q))
        BY <1>4, <4>2, <4>5, <4>6, UpdateReplace
      <4> QED BY <4>3, <4>4, <4>7
    <3> QED BY <3>2, <3>3
  <2> HIDE DEF U, facts
  <2>2. /\ e.facts = facts /\ e.cache = [q \in Queries |-> U(q)] /\ e.index = d.index
        /\ e.fence = d.fence /\ e \in Ledgers
    BY <1>4, <1>5, <2>1 DEF Ledgers
  <2> HIDE DEF e
  <2>3. Sums(runtime, e)
    <3>1. \A q \in Queries : e.cache[q] = U(q) BY <2>2
    <3> QED BY <2>1, <2>2, <3>1 DEF Sums
  <2> QED BY <1>1, <1>3, <1>7, <2>2, <2>3 DEF SoundLedgers
<1> QED BY <1>6, <1>7
-----------------------------------------------------------------------------
(* Facts of lines *)

Histories(rt, fs, ls) ==
  {h \in [0..Len(ls) -> Seq(Records)] :
     h[0] = fs /\ \A k \in 1..Len(ls) : h[k] = Put(rt, h[k - 1], ls[k])}
\* What the lines put one by one make of the facts.
FactsAfter(rt, fs, ls) == (CHOOSE h \in Histories(rt, fs, ls) : TRUE)[Len(ls)]

LEMMA HistoryExists ==
  ASSUME NEW rt \in Runs, NEW fs \in Seq(Records), NEW ls \in Seq(Records)
  PROVE  Histories(rt, fs, ls) # {}
<1> DEFINE n == Len(ls)
           X == Seq(Records)
           step == [k \in 1..n |-> [x \in X |-> Put(rt, x, ls[k])]]
<1>1. n \in Nat OBVIOUS
<1>2. \A k \in 1..n, x \in X : Put(rt, x, ls[k]) \in X
  <2>1. \A k \in 1..n : ls[k] \in Records OBVIOUS
  <2> HIDE DEF n
  <2> QED BY <2>1, PutFacts
<1>3. step \in StepsIn(n, X) BY <1>2 DEF StepsIn
<1>4. PICK g : g \in PathsOf(n, X, fs, step)
  <2>1. fs \in X OBVIOUS
  <2> HIDE DEF n, step, X
  <2> QED BY <1>1, <1>3, <2>1, PathExists
<1>5. g \in [0..n -> X] /\ g[0] = fs /\ \A k \in 1..n : g[k] = step[k][g[k - 1]]
  BY <1>4 DEF PathsOf
<1>6. ASSUME NEW k \in 1..n PROVE g[k] = Put(rt, g[k - 1], ls[k])
  <2>1. k - 1 \in 0..n BY <1>1
  <2>2. g[k - 1] \in X BY <1>5, <2>1
  <2> QED BY <1>5, <2>2
<1> QED BY <1>5, <1>6 DEF Histories

\* Histories of lines that begin alike begin alike.
LEMMA HistoriesAgree ==
  ASSUME NEW rt, NEW fs, NEW ls \in Seq(Records), NEW ms \in Seq(Records),
         NEW g \in Histories(rt, fs, ls), NEW h \in Histories(rt, fs, ms),
         NEW n \in Nat, n <= Len(ls), n <= Len(ms), \A k \in 1..n : ls[k] = ms[k]
  PROVE  g[n] = h[n]
<1> DEFINE S == {k \in Nat : k <= n => g[k] = h[k]}
<1>1. /\ g[0] = fs /\ \A k \in 1..Len(ls) : g[k] = Put(rt, g[k - 1], ls[k])
      /\ h[0] = fs /\ \A k \in 1..Len(ms) : h[k] = Put(rt, h[k - 1], ms[k])
  BY DEF Histories
<1>2. 0 \in S BY <1>1
<1>3. ASSUME NEW k \in Nat, k \in S PROVE k + 1 \in S
  <2> SUFFICES ASSUME k + 1 <= n PROVE g[k + 1] = h[k + 1] OBVIOUS
  <2>1. k + 1 \in 1..Len(ls) /\ k + 1 \in 1..Len(ms) /\ k + 1 \in 1..n /\ (k + 1) - 1 = k
    OBVIOUS
  <2>2. g[k] = h[k] /\ ls[k + 1] = ms[k + 1] BY <1>3, <2>1
  <2>3. g[k + 1] = Put(rt, g[k], ls[k + 1]) /\ h[k + 1] = Put(rt, h[k], ms[k + 1])
    BY <1>1, <2>1
  <2> QED BY <2>2, <2>3
<1>4. n \in S
  <2> HIDE DEF S
  <2> QED BY <1>2, <1>3, SetInduction
<1> QED BY <1>4

LEMMA FactsAre ==
  ASSUME NEW rt \in Runs, NEW fs \in Seq(Records), NEW ls \in Seq(Records),
         NEW h \in Histories(rt, fs, ls)
  PROVE  FactsAfter(rt, fs, ls) = h[Len(ls)]
<1> DEFINE g == CHOOSE g \in Histories(rt, fs, ls) : TRUE
<1>1. g \in Histories(rt, fs, ls) BY HistoryExists
<1>2. Len(ls) \in Nat /\ Len(ls) <= Len(ls) OBVIOUS
<1> HIDE DEF g
<1>3. g[Len(ls)] = h[Len(ls)] BY <1>1, <1>2, HistoriesAgree
<1> QED BY <1>3 DEF FactsAfter, g

LEMMA AppendIs ==
  ASSUME NEW R, NEW s \in Seq(R), NEW e \in R
  PROVE  /\ Append(s, e) \in Seq(R) /\ Len(Append(s, e)) = Len(s) + 1
         /\ \A k \in 1..Len(s) : Append(s, e)[k] = s[k]
         /\ Append(s, e)[Len(s) + 1] = e
OBVIOUS

LEMMA FactsRec ==
  ASSUME NEW rt \in Runs, NEW fs \in Seq(Records)
  PROVE  /\ FactsAfter(rt, fs, <<>>) = fs
         /\ \A ls \in Seq(Records), l \in Records :
              FactsAfter(rt, fs, Append(ls, l)) = Put(rt, FactsAfter(rt, fs, ls), l)
         /\ \A ls \in Seq(Records) : FactsAfter(rt, fs, ls) \in Seq(Records)
<1>1. FactsAfter(rt, fs, <<>>) = fs
  <2>1. <<>> \in Seq(Records) /\ Len(<<>>) = 0 OBVIOUS
  <2>2. PICK h : h \in Histories(rt, fs, <<>>) BY <2>1, HistoryExists
  <2>3. h[0] = fs BY <2>2 DEF Histories
  <2>4. FactsAfter(rt, fs, <<>>) = h[Len(<<>>)] BY <2>1, <2>2, FactsAre
  <2> QED BY <2>1, <2>3, <2>4
<1>2. ASSUME NEW ls \in Seq(Records), NEW l \in Records
      PROVE  FactsAfter(rt, fs, Append(ls, l)) = Put(rt, FactsAfter(rt, fs, ls), l)
  <2> DEFINE ms == Append(ls, l)
             n == Len(ls)
  <2>1. /\ ms \in Seq(Records) /\ Len(ms) = n + 1 /\ n \in Nat
        /\ \A k \in 1..n : ms[k] = ls[k] /\ ms[n + 1] = l
    BY AppendIs
  <2>2. ms[n + 1] = l BY AppendIs
  <2> HIDE DEF ms
  <2>3. PICK h : h \in Histories(rt, fs, ms) BY <2>1, HistoryExists
  <2>4. PICK g : g \in Histories(rt, fs, ls) BY HistoryExists
  <2>5. h[n] = g[n]
    <3>1. n <= Len(ls) /\ n <= Len(ms) BY <2>1
    <3> QED BY <2>1, <2>3, <2>4, <3>1, HistoriesAgree
  <2>6. FactsAfter(rt, fs, ls) = g[n] BY <2>4, FactsAre
  <2>7. FactsAfter(rt, fs, ms) = h[n + 1] BY <2>1, <2>3, FactsAre
  <2>8. h[n + 1] = Put(rt, h[n], l)
    <3>1. n + 1 \in 1..Len(ms) /\ (n + 1) - 1 = n BY <2>1
    <3>2. h[n + 1] = Put(rt, h[(n + 1) - 1], ms[n + 1]) BY <2>3, <3>1 DEF Histories
    <3> QED BY <2>2, <3>1, <3>2
  <2> QED BY <2>5, <2>6, <2>7, <2>8 DEF ms
<1>3. ASSUME NEW ls \in Seq(Records) PROVE FactsAfter(rt, fs, ls) \in Seq(Records)
  <2>1. PICK h : h \in Histories(rt, fs, ls) BY HistoryExists
  <2>2. FactsAfter(rt, fs, ls) = h[Len(ls)] BY <2>1, FactsAre
  <2>3. h \in [0..Len(ls) -> Seq(Records)] /\ Len(ls) \in 0..Len(ls) BY <2>1 DEF Histories
  <2> QED BY <2>2, <2>3
<1> QED BY <1>1, <1>2, <1>3

IsAppend(ms, ls, l) == ms = Append(ls, l)
LEMMA FactsStep ==
  ASSUME NEW rt \in Runs, NEW fs \in Seq(Records), NEW ls \in Seq(Records), NEW l \in Records,
         NEW ms, IsAppend(ms, ls, l)
  PROVE  FactsAfter(rt, fs, ms) = Put(rt, FactsAfter(rt, fs, ls), l)
BY FactsRec DEF IsAppend

LEMMA SubSeqIs ==
  ASSUME NEW R, NEW ls \in Seq(R), NEW i \in Nat, NEW j \in Nat, i <= j, j <= Len(ls)
  PROVE  /\ SubSeq(ls, i + 1, j) \in Seq(R) /\ Len(SubSeq(ls, i + 1, j)) = j - i
         /\ \A k \in 1..(j - i) : SubSeq(ls, i + 1, j)[k] = ls[i + k]
<1>1. i + 1 \in Int /\ j \in Int /\ \A k \in (i + 1)..j : ls[k] \in R OBVIOUS
<1>2. /\ SubSeq(ls, i + 1, j) \in Seq(R)
      /\ Len(SubSeq(ls, i + 1, j)) = IF i + 1 <= j THEN j - (i + 1) + 1 ELSE 0
      /\ \A k \in 1..(j - (i + 1) + 1) : SubSeq(ls, i + 1, j)[k] = ls[(i + 1) + k - 1]
  BY <1>1, SubSeqProperties
<1>3. j - (i + 1) + 1 = j - i /\ \A k \in 1..(j - i) : (i + 1) + k - 1 = i + k OBVIOUS
<1>4. (IF i + 1 <= j THEN j - (i + 1) + 1 ELSE 0) = j - i OBVIOUS
<1> QED BY <1>2, <1>3, <1>4

\* The first lines of some, with one more.
LEMMA OneMore ==
  ASSUME NEW R, NEW ls \in Seq(R), NEW i \in Nat, NEW j \in Nat, i <= j, j + 1 <= Len(ls)
  PROVE  /\ SubSeq(ls, i + 1, j + 1) = Append(SubSeq(ls, i + 1, j), ls[j + 1])
         /\ SubSeq(ls, i + 1, j) \in Seq(R) /\ SubSeq(ls, i + 1, i) = <<>>
         /\ ls[j + 1] \in R /\ Len(SubSeq(ls, i + 1, j)) = j - i
<1> DEFINE a == SubSeq(ls, i + 1, j)
           b == SubSeq(ls, i + 1, j + 1)
<1>1. a \in Seq(R) /\ Len(a) = j - i /\ \A k \in 1..(j - i) : a[k] = ls[i + k]
  BY SubSeqIs
<1>2. b \in Seq(R) /\ Len(b) = j + 1 - i /\ \A k \in 1..(j + 1 - i) : b[k] = ls[i + k]
  <2>1. j + 1 \in Nat /\ i <= j + 1 OBVIOUS
  <2> QED BY <2>1, SubSeqIs
<1>3. ls[j + 1] \in R OBVIOUS
<1> HIDE DEF a, b
<1>4. b = Append(a, ls[j + 1])
  <2> DEFINE c == Append(a, ls[j + 1])
  <2>1. c \in Seq(R) /\ Len(c) = j + 1 - i /\ \A k \in 1..(j - i) : c[k] = a[k]
    BY <1>1, <1>3, AppendIs
  <2>2. c[(j - i) + 1] = ls[j + 1] BY <1>1, <1>3, AppendIs
  <2> HIDE DEF c
  <2>3. ASSUME NEW k \in 1..Len(b) PROVE b[k] = c[k]
    <3>1. CASE k \in 1..(j - i) BY <1>1, <1>2, <2>1, <3>1
    <3>2. CASE k = (j - i) + 1
      <4>1. i + k = j + 1 BY <3>2
      <4> QED BY <1>2, <2>2, <2>3, <3>2, <4>1
    <3> QED BY <1>2, <3>1, <3>2
  <2>4. Len(b) = Len(c) BY <1>2, <2>1
  <2> QED BY <1>2, <2>1, <2>3, <2>4, SeqEqual DEF c
<1>5. SubSeq(ls, i + 1, i) = <<>> OBVIOUS
<1> QED BY <1>1, <1>3, <1>4, <1>5 DEF a, b
\* Lines put after others are put as one sequence.
LEMMA FactsConcat ==
  ASSUME NEW rt \in Runs, NEW fs \in Seq(Records), NEW ls \in Seq(Records),
         NEW i \in Nat, NEW j \in Nat, i <= j, j <= Len(ls)
  PROVE  /\ SubSeq(ls, 1, i) \in Seq(Records) /\ SubSeq(ls, i + 1, j) \in Seq(Records)
         /\ FactsAfter(rt, FactsAfter(rt, fs, SubSeq(ls, 1, i)), SubSeq(ls, i + 1, j)) =
              FactsAfter(rt, fs, SubSeq(ls, 1, j))
<1> DEFINE gs == FactsAfter(rt, fs, SubSeq(ls, 1, i))
           Is(k) == FactsAfter(rt, gs, SubSeq(ls, i + 1, i + k)) =
                      FactsAfter(rt, fs, SubSeq(ls, 1, i + k))
           S == {k \in Nat : i + k <= j => Is(k)}
<1>0. \A k \in 0..Len(ls) : SubSeq(ls, 1, k) \in Seq(Records)
  <2> SUFFICES ASSUME NEW k \in 0..Len(ls) PROVE SubSeq(ls, 1, k) \in Seq(Records) OBVIOUS
  <2>1. 0 \in Nat /\ 0 <= k /\ k <= Len(ls) /\ k \in Nat /\ 0 + 1 = 1 OBVIOUS
  <2>2. SubSeq(ls, 0 + 1, k) \in Seq(Records) BY <2>1, SubSeqIs
  <2> QED BY <2>1, <2>2
<1>1. i \in 0..Len(ls) /\ i <= Len(ls) OBVIOUS
<1>2. gs \in Seq(Records) BY <1>0, <1>1, FactsRec
<1>3. SubSeq(ls, i + 1, j) \in Seq(Records) BY SubSeqIs
<1> HIDE DEF gs
<1>4. 0 \in S
  <2>1. SubSeq(ls, i + 1, i) = <<>> OBVIOUS
  <2>2. FactsAfter(rt, gs, <<>>) = gs BY <1>2, FactsRec
  <2>3. i + 0 = i OBVIOUS
  <2> QED BY <2>1, <2>2, <2>3 DEF gs
<1>5. ASSUME NEW k \in Nat, k \in S PROVE k + 1 \in S
  <2> SUFFICES ASSUME i + (k + 1) <= j PROVE Is(k + 1) OBVIOUS
  <2> DEFINE n == i + k
  <2>1. /\ n \in Nat /\ n + 1 <= Len(ls) /\ i + (k + 1) = n + 1 /\ n \in 0..Len(ls)
        /\ i <= n /\ 0 \in Nat /\ 0 <= n /\ 0 + 1 = 1 /\ n + 1 <= j
    OBVIOUS
  <2>2. Is(k) BY <1>5, <2>1
  <2> HIDE DEF n
  <2>3. /\ SubSeq(ls, i + 1, n + 1) = Append(SubSeq(ls, i + 1, n), ls[n + 1])
        /\ SubSeq(ls, i + 1, n) \in Seq(Records) /\ ls[n + 1] \in Records
    BY <2>1, OneMore
  <2>4. SubSeq(ls, 0 + 1, n + 1) = Append(SubSeq(ls, 0 + 1, n), ls[n + 1])
    BY <2>1, OneMore
  <2>5. SubSeq(ls, 1, n + 1) = Append(SubSeq(ls, 1, n), ls[n + 1]) BY <2>1, <2>4
  <2>6. SubSeq(ls, 1, n) \in Seq(Records) BY <1>0, <2>1
  <2>7. FactsAfter(rt, gs, SubSeq(ls, i + 1, n + 1)) =
          Put(rt, FactsAfter(rt, gs, SubSeq(ls, i + 1, n)), ls[n + 1])
    <3>1. PICK a, b, l : /\ a = SubSeq(ls, i + 1, n) /\ b = SubSeq(ls, i + 1, n + 1)
                         /\ l = ls[n + 1]
      OBVIOUS
    <3>2. a \in Seq(Records) /\ l \in Records /\ IsAppend(b, a, l) BY <2>3, <3>1 DEF IsAppend
    <3>3. FactsAfter(rt, gs, b) = Put(rt, FactsAfter(rt, gs, a), l) BY <1>2, <3>2, FactsStep
    <3> QED BY <3>1, <3>3
  <2>8. FactsAfter(rt, fs, SubSeq(ls, 1, n + 1)) =
          Put(rt, FactsAfter(rt, fs, SubSeq(ls, 1, n)), ls[n + 1])
    <3>1. PICK a, b, l : /\ a = SubSeq(ls, 1, n) /\ b = SubSeq(ls, 1, n + 1) /\ l = ls[n + 1]
      OBVIOUS
    <3>2. a \in Seq(Records) /\ l \in Records /\ IsAppend(b, a, l)
      BY <2>3, <2>5, <2>6, <3>1 DEF IsAppend
    <3>3. FactsAfter(rt, fs, b) = Put(rt, FactsAfter(rt, fs, a), l) BY <3>2, FactsStep
    <3> QED BY <3>1, <3>3
  <2>9. FactsAfter(rt, gs, SubSeq(ls, i + 1, n)) = FactsAfter(rt, fs, SubSeq(ls, 1, n))
    BY <2>2 DEF n
  <2>10. FactsAfter(rt, gs, SubSeq(ls, i + 1, n + 1)) = FactsAfter(rt, fs, SubSeq(ls, 1, n + 1))
    BY <2>7, <2>8, <2>9
  <2> QED BY <2>1, <2>10
<1>6. j - i \in Nat /\ i + (j - i) = j OBVIOUS
<1>7. j - i \in S
  <2> HIDE DEF S
  <2> QED BY <1>4, <1>5, <1>6, SetInduction
<1>8. Is(j - i) BY <1>6, <1>7
<1>9. FactsAfter(rt, gs, SubSeq(ls, i + 1, j)) = FactsAfter(rt, fs, SubSeq(ls, 1, j))
  BY <1>6, <1>8
<1> QED BY <1>0, <1>1, <1>3, <1>9 DEF gs

\* No more facts than lines.
LEMMA FactsFew ==
  ASSUME NEW rt \in Runs, NEW fs \in Seq(Records), NEW ls \in Seq(Records)
  PROVE  /\ Len(FactsAfter(rt, fs, ls)) <= Len(fs) + Len(ls)
         /\ Len(fs) <= Len(FactsAfter(rt, fs, ls))
<1>1. PICK h : h \in Histories(rt, fs, ls) BY HistoryExists
<1> DEFINE n == Len(ls)
           S == {k \in Nat : k <= n => Len(h[k]) \in Len(fs)..(Len(fs) + k)}
<1>2. /\ h \in [0..n -> Seq(Records)] /\ h[0] = fs
      /\ \A k \in 1..n : h[k] = Put(rt, h[k - 1], ls[k])
  BY <1>1 DEF Histories
<1>3. n \in Nat /\ Len(fs) \in Nat OBVIOUS
<1>4. 0 \in S BY <1>2, <1>3
<1>5. ASSUME NEW k \in Nat, k \in S PROVE k + 1 \in S
  <2> SUFFICES ASSUME k + 1 <= n
               PROVE  Len(h[k + 1]) \in Len(fs)..(Len(fs) + (k + 1))
    OBVIOUS
  <2>1. k + 1 \in 1..n /\ (k + 1) - 1 = k /\ k \in 0..n BY <1>3
  <2>2. h[k] \in Seq(Records) /\ ls[k + 1] \in Records BY <1>2, <2>1
  <2>3. Len(h[k]) \in Len(fs)..(Len(fs) + k) BY <1>3, <1>5
  <2>4. h[k + 1] = Put(rt, h[k], ls[k + 1]) BY <1>2, <2>1
  <2>5. Len(h[k + 1]) \in Len(h[k])..(Len(h[k]) + 1) BY <2>2, <2>4, PutFacts
  <2>6. Len(h[k]) \in Nat BY <2>2
  <2> QED BY <1>3, <2>3, <2>5, <2>6
<1>6. n \in S
  <2> HIDE DEF S
  <2> QED BY <1>3, <1>4, <1>5, SetInduction
<1>7. FactsAfter(rt, fs, ls) = h[n] BY <1>1, FactsAre
<1> QED BY <1>3, <1>6, <1>7

\* A ledger in which lines are put keeps its totals right.
LEMMA PutAllIs ==
  ASSUME ConstantsOK, runtime \in Runs, NEW d \in SoundLedgers(runtime), NEW ls \in Seq(Records)
  PROVE  /\ PutAll(d, ls) \in SoundLedgers(runtime)
         /\ PutAll(d, ls).facts = FactsAfter(runtime, d.facts, ls)
         /\ PutAll(d, ls).index = d.index /\ PutAll(d, ls).fence = d.fence
<1> DEFINE n == Len(ls)
           X == SoundLedgers(runtime)
           step == [k \in 1..n |-> [x \in X |-> put(x, ls[k])]]
           Is(g) == g = [k \in 0..n |-> IF k = 0 THEN d ELSE put(g[k - 1], ls[k])]
           f == CHOOSE g : Is(g)
<1>1. n \in Nat OBVIOUS
<1>20. \A k \in 1..n : ls[k] \in Records OBVIOUS
<1>2. \A k \in 1..n, x \in X :
        /\ put(x, ls[k]) \in X /\ put(x, ls[k]).facts = Put(runtime, x.facts, ls[k])
        /\ put(x, ls[k]).index = x.index /\ put(x, ls[k]).fence = x.fence
  <2> HIDE DEF n, X
  <2> SUFFICES ASSUME NEW k \in 1..n, NEW x \in X
               PROVE  /\ put(x, ls[k]) \in X /\ put(x, ls[k]).facts = Put(runtime, x.facts, ls[k])
                      /\ put(x, ls[k]).index = x.index /\ put(x, ls[k]).fence = x.fence
    OBVIOUS
  <2>1. x \in SoundLedgers(runtime) BY DEF X
  <2>2. ls[k] \in Records BY <1>20
  <2> QED BY <2>1, <2>2, PutIs DEF X
<1>3. step \in StepsIn(n, X) BY <1>2 DEF StepsIn
<1>4. PICK g : g \in PathsOf(n, X, d, step)
  <2>1. d \in X OBVIOUS
  <2> HIDE DEF n, step, X
  <2> QED BY <1>1, <1>3, <2>1, PathExists
<1>5. g \in [0..n -> X] /\ g[0] = d /\ \A k \in 1..n : g[k] = step[k][g[k - 1]]
  BY <1>4 DEF PathsOf
<1> HIDE DEF X
<1>6. \A k \in 1..n : k - 1 \in 0..n /\ g[k - 1] \in X /\ g[k] = put(g[k - 1], ls[k])
  <2> SUFFICES ASSUME NEW k \in 1..n
               PROVE  k - 1 \in 0..n /\ g[k - 1] \in X /\ g[k] = put(g[k - 1], ls[k])
    OBVIOUS
  <2>1. k - 1 \in 0..n BY <1>1
  <2>2. g[k - 1] \in X BY <1>5, <2>1
  <2> QED BY <1>5, <2>1, <2>2
<1> HIDE DEF step
<1>7. Is(g)
  <2>1. \A k \in 0..n : g[k] = IF k = 0 THEN d ELSE put(g[k - 1], ls[k])
    <3> SUFFICES ASSUME NEW k \in 0..n
                 PROVE  g[k] = IF k = 0 THEN d ELSE put(g[k - 1], ls[k])
      OBVIOUS
    <3>1. k = 0 \/ k \in 1..n BY <1>1
    <3> QED BY <1>5, <1>6, <3>1
  <2> QED BY <1>5, <2>1
<1>8. Is(f)
  <2> HIDE DEF Is
  <2> QED BY <1>7
<1>9. PutAll(d, ls) = f[n] BY DEF PutAll
<1>10. f[0] = d /\ \A k \in 1..n : f[k] = put(f[k - 1], ls[k])
  <2> HIDE DEF f
  <2> QED BY <1>1, <1>8
<1> HIDE DEF f, n
<1>11. PICK h : h \in Histories(runtime, d.facts, ls)
  <2>1. d.facts \in Seq(Records) BY DEF SoundLedgers, Ledgers
  <2> QED BY <2>1, HistoryExists
<1>12. h[0] = d.facts /\ \A k \in 1..n : h[k] = Put(runtime, h[k - 1], ls[k])
  BY <1>11 DEF Histories, n
<1> DEFINE S == {k \in Nat : k <= n => /\ f[k] \in X /\ f[k].facts = h[k]
                                      /\ f[k].index = d.index /\ f[k].fence = d.fence}
<1>13. 0 \in S BY <1>10, <1>12 DEF X
<1>14. ASSUME NEW k \in Nat, k \in S PROVE k + 1 \in S
  <2> SUFFICES ASSUME k + 1 <= n
               PROVE  /\ f[k + 1] \in X /\ f[k + 1].facts = h[k + 1]
                      /\ f[k + 1].index = d.index /\ f[k + 1].fence = d.fence
    OBVIOUS
  <2>1. k + 1 \in 1..n /\ (k + 1) - 1 = k /\ k <= n BY <1>1
  <2>2. f[k] \in X /\ f[k].facts = h[k] /\ f[k].index = d.index /\ f[k].fence = d.fence
    BY <1>14, <2>1
  <2>3. f[k + 1] = put(f[k], ls[k + 1]) BY <1>10, <2>1
  <2>4. h[k + 1] = Put(runtime, h[k], ls[k + 1]) BY <1>12, <2>1
  <2>5. /\ put(f[k], ls[k + 1]) \in X
        /\ put(f[k], ls[k + 1]).facts = Put(runtime, f[k].facts, ls[k + 1])
        /\ put(f[k], ls[k + 1]).index = f[k].index /\ put(f[k], ls[k + 1]).fence = f[k].fence
    BY <1>2, <2>1, <2>2
  <2> QED BY <2>2, <2>3, <2>4, <2>5
<1>15. n \in S
  <2> HIDE DEF S
  <2> QED BY <1>1, <1>13, <1>14, SetInduction
<1>16. FactsAfter(runtime, d.facts, ls) = h[n]
  <2>1. d.facts \in Seq(Records) BY DEF SoundLedgers, Ledgers
  <2> QED BY <1>11, <2>1, FactsAre DEF n
<1>17. n <= n BY <1>1
<1> QED BY <1>9, <1>15, <1>16, <1>17 DEF X
-----------------------------------------------------------------------------
(* What is expected of lines *)

InQuery(q, time) == q = "all" \/ time = 1
Last(rt, ls, i, k) == \A j \in (k + 1)..i : IdOf(rt, ls[j]) # IdOf(rt, ls[k])
First(rt, ls, k) == \A j \in 1..(k - 1) : IdOf(rt, ls[j]) # IdOf(rt, ls[k])
Greatest(b) == CHOOSE j \in b : \A i \in b : i <= j
Before(rt, ls, k) ==
  LET b == {j \in 1..(k - 1) : First(rt, ls, j)} IN IF b = {} THEN 0 ELSE ls[Greatest(b)].n
\* What the k-th of i lines counts in the end.
ExpectedWeight(rt, q, ls, i, k) ==
  IF rt = "claude"
  THEN IF Last(rt, ls, i, k) /\ InQuery(q, ls[k].time) THEN ls[k].n ELSE 0
  ELSE IF First(rt, ls, k) /\ (q = "all" \/ (k # 1 /\ ls[k].time = 1))
       THEN ls[k].n - Before(rt, ls, k) ELSE 0
ExpectedWeights(rt, q, ls, i) == [k \in 1..i |-> ExpectedWeight(rt, q, ls, i, k)]
ExpectedOf(rt, q, ls, i) == SumOf(ExpectedWeights(rt, q, ls, i), i)

LEMMA GreatestIs ==
  ASSUME NEW n \in Nat, NEW b \in SUBSET (1..n), b # {}
  PROVE  Greatest(b) \in b /\ \A i \in b : i <= Greatest(b)
<1> DEFINE S == {k \in Nat : k <= n =>
                   \A c \in SUBSET (1..k) : c # {} => \E j \in c : \A i \in c : i <= j}
<1>1. 0 \in S
  <2>1. 1..0 = {} OBVIOUS
  <2>2. \A c \in SUBSET (1..0) : c = {} BY <2>1
  <2> QED BY <2>2
<1>2. ASSUME NEW k \in Nat, k \in S PROVE k + 1 \in S
  <2> SUFFICES ASSUME k + 1 <= n, NEW c \in SUBSET (1..(k + 1)), c # {}
               PROVE  \E j \in c : \A i \in c : i <= j
    OBVIOUS
  <2>1. CASE k + 1 \in c
    <3>1. \A i \in c : i <= k + 1 OBVIOUS
    <3> QED BY <2>1, <3>1
  <2>2. CASE k + 1 \notin c
    <3>1. c \in SUBSET (1..k) BY <2>2
    <3>2. k <= n OBVIOUS
    <3> QED BY <1>2, <3>1, <3>2
  <2> QED BY <2>1, <2>2
<1>3. n \in S
  <2> HIDE DEF S
  <2> QED BY <1>1, <1>2, SetInduction
<1>4. \E j \in b : \A i \in b : i <= j BY <1>3
<1> QED BY <1>4 DEF Greatest

LEMMA BeforeIs ==
  ASSUME ConstantsOK, NEW rt \in Runs, NEW ls \in Seq(Records), NEW k \in 1..Len(ls)
  PROVE  Before(rt, ls, k) \in Nat
<1> DEFINE b == {j \in 1..(k - 1) : First(rt, ls, j)}
<1>1. CASE b = {} BY <1>1 DEF Before
<1>2. CASE b # {}
  <2>1. k - 1 \in Nat /\ b \in SUBSET (1..(k - 1)) OBVIOUS
  <2> HIDE DEF b
  <2>2. Greatest(b) \in b BY <1>2, <2>1, GreatestIs
  <2>3. Greatest(b) \in 1..Len(ls)
    <3>1. Greatest(b) \in 1..(k - 1) BY <2>1, <2>2
    <3> HIDE DEF Greatest
    <3>2. \A x \in 1..(k - 1) : x \in 1..Len(ls) OBVIOUS
    <3> QED BY <3>1, <3>2
  <2>4. ls[Greatest(b)] \in Records BY <2>3
  <2>5. ls[Greatest(b)].n \in Nat BY <2>4 DEF ConstantsOK
  <2> QED BY <1>2, <2>5 DEF Before, b
<1> QED BY <1>1, <1>2

LEMMA ExpectedAre ==
  ASSUME ConstantsOK, NEW rt \in Runs, NEW q, NEW ls \in Seq(Records), NEW i \in 0..Len(ls)
  PROVE  ExpectedWeights(rt, q, ls, i) \in [1..i -> Int]
<1> SUFFICES ASSUME NEW k \in 1..i PROVE ExpectedWeight(rt, q, ls, i, k) \in Int
  BY DEF ExpectedWeights
<1>1. k \in 1..Len(ls) OBVIOUS
<1>2. ls[k] \in Records BY <1>1
<1>3. ls[k].n \in Nat BY <1>2 DEF ConstantsOK
<1>4. Before(rt, ls, k) \in Nat BY <1>1, BeforeIs
<1>5. ls[k].n - Before(rt, ls, k) \in Int BY <1>3, <1>4
<1> QED BY <1>3, <1>5 DEF ExpectedWeight

\* The expectation of the model, of the first lines of some.
LEMMA ExpectedIs ==
  ASSUME runtime \in Runs, NEW q, NEW ls \in Seq(Records), NEW i \in 0..Len(ls)
  PROVE  Expected(SubSeq(ls, 1, i), q) = ExpectedOf(runtime, q, ls, i)
<1> DEFINE ss == SubSeq(ls, 1, i)
<1>1. Len(ss) = i /\ \A k \in 1..i : ss[k] = ls[k]
  <2>1. 0 \in Nat /\ 0 <= i /\ i \in Nat /\ i <= Len(ls) /\ 0 + 1 = 1 /\ i - 0 = i OBVIOUS
  <2>2. /\ Len(SubSeq(ls, 0 + 1, i)) = i - 0
        /\ \A k \in 1..(i - 0) : SubSeq(ls, 0 + 1, i)[k] = ls[0 + k]
    BY <2>1, SubSeqIs
  <2>3. \A k \in 1..i : 0 + k = k OBVIOUS
  <2> QED BY <2>1, <2>2, <2>3
<1> HIDE DEF ss
<1> DEFINE last == {k \in 1..Len(ss) : \A j \in (k + 1)..Len(ss) : Id(ss[j]) # Id(ss[k])}
           first == {k \in 1..Len(ss) : \A j \in 1..(k - 1) : Id(ss[j]) # Id(ss[k])}
           b(k) == {j \in first : j < k}
           before(k) == IF b(k) = {} THEN 0 ELSE ss[CHOOSE j \in b(k) : \A h \in b(k) : h <= j].n
           counted == IF runtime = "claude" THEN {k \in last : q = "all" \/ ss[k].time = 1}
                      ELSE {k \in first : q = "all" \/ (k # 1 /\ ss[k].time = 1)}
           w(k) == IF k \notin counted THEN 0
                   ELSE IF runtime = "claude" THEN ss[k].n ELSE ss[k].n - before(k)
<1>2. Expected(ss, q) = SumOf([k \in 1..Len(ss) |-> w(k)], Len(ss)) BY DEF Expected
<1>3. \A k \in 1..i : k \in last <=> Last(runtime, ls, i, k)
  <2>1. \A k \in 1..i : \A j \in (k + 1)..i : j \in 1..i OBVIOUS
  <2> QED BY <1>1, <2>1, IdIs DEF Last
<1>4. \A k \in 1..i : k \in first <=> First(runtime, ls, k)
  <2>1. \A k \in 1..i : \A j \in 1..(k - 1) : j \in 1..i OBVIOUS
  <2> QED BY <1>1, <2>1, IdIs DEF First
<1>5. \A k \in 1..i : before(k) = Before(runtime, ls, k)
  <2> SUFFICES ASSUME NEW k \in 1..i PROVE before(k) = Before(runtime, ls, k) OBVIOUS
  <2> DEFINE c == {j \in 1..(k - 1) : First(runtime, ls, j)}
  <2>1. b(k) = c
    <3>1. first \subseteq 1..i BY <1>1
    <3>2. \A j \in 1..(k - 1) : j \in 1..i /\ j < k OBVIOUS
    <3>3. \A j \in 1..i : j < k => j \in 1..(k - 1) OBVIOUS
    <3> HIDE DEF first
    <3> QED BY <1>4, <3>1, <3>2, <3>3
  <2>2. c \in SUBSET (1..(k - 1)) /\ k - 1 \in Nat OBVIOUS
  <2> HIDE DEF b, c, first
  <2>3. c # {} => Greatest(c) \in 1..i
    <3>1. c # {} => Greatest(c) \in c BY <2>2, GreatestIs
    <3>2. \A x \in 1..(k - 1) : x \in 1..i OBVIOUS
    <3> QED BY <2>2, <3>1, <3>2
  <2>4. c # {} => ss[Greatest(c)] = ls[Greatest(c)] BY <1>1, <2>3
  <2>5. before(k) = IF c = {} THEN 0 ELSE ss[Greatest(c)].n BY <2>1 DEF Greatest
  <2>6. Before(runtime, ls, k) = IF c = {} THEN 0 ELSE ls[Greatest(c)].n BY DEF Before, c
  <2> QED BY <2>4, <2>5, <2>6
<1> HIDE DEF last, first, before
<1>6. \A k \in 1..i : w(k) = ExpectedWeight(runtime, q, ls, i, k)
  <2> SUFFICES ASSUME NEW k \in 1..i PROVE w(k) = ExpectedWeight(runtime, q, ls, i, k) OBVIOUS
  <2>1. ss[k] = ls[k] BY <1>1
  <2> QED BY <1>3, <1>4, <1>5, <2>1 DEF ExpectedWeight, InQuery
<1> HIDE DEF w
<1>7. [k \in 1..Len(ss) |-> w(k)] = ExpectedWeights(runtime, q, ls, i)
  BY <1>1, <1>6 DEF ExpectedWeights
<1> QED BY <1>1, <1>2, <1>7 DEF ExpectedOf, ss
-----------------------------------------------------------------------------
(* The facts of lines and what is expected of them *)

FactsOf(rt, ls, i) == FactsAfter(rt, <<>>, SubSeq(ls, 1, i))

LEMMA FactsOfRec ==
  ASSUME NEW rt \in Runs, NEW ls \in Seq(Records)
  PROVE  /\ FactsOf(rt, ls, 0) = <<>>
         /\ \A i \in 0..Len(ls) : FactsOf(rt, ls, i) \in Seq(Records)
         /\ \A i \in 0..(Len(ls) - 1) :
              FactsOf(rt, ls, i + 1) = Put(rt, FactsOf(rt, ls, i), ls[i + 1])
<1>0. <<>> \in Seq(Records) OBVIOUS
<1>1. SubSeq(ls, 1, 0) = <<>> OBVIOUS
<1>2. FactsOf(rt, ls, 0) = <<>> BY <1>0, <1>1, FactsRec DEF FactsOf
<1>3. ASSUME NEW i \in 0..Len(ls) PROVE FactsOf(rt, ls, i) \in Seq(Records)
  <2>1. 0 \in Nat /\ i \in Nat /\ 0 <= i /\ i <= Len(ls) /\ 0 + 1 = 1 OBVIOUS
  <2>2. SubSeq(ls, 0 + 1, i) \in Seq(Records) BY <2>1, SubSeqIs
  <2>3. SubSeq(ls, 1, i) \in Seq(Records) BY <2>1, <2>2
  <2> QED BY <1>0, <2>3, FactsRec DEF FactsOf
<1>4. ASSUME NEW i \in 0..(Len(ls) - 1)
      PROVE  FactsOf(rt, ls, i + 1) = Put(rt, FactsOf(rt, ls, i), ls[i + 1])
  <2>1. 0 \in Nat /\ i \in Nat /\ 0 <= i /\ i + 1 <= Len(ls) /\ 0 + 1 = 1 OBVIOUS
  <2>2. /\ SubSeq(ls, 0 + 1, i + 1) = Append(SubSeq(ls, 0 + 1, i), ls[i + 1])
        /\ SubSeq(ls, 0 + 1, i) \in Seq(Records) /\ ls[i + 1] \in Records
    BY <2>1, OneMore
  <2>3. IsAppend(SubSeq(ls, 1, i + 1), SubSeq(ls, 1, i), ls[i + 1])
        /\ SubSeq(ls, 1, i) \in Seq(Records) /\ ls[i + 1] \in Records
    BY <2>1, <2>2 DEF IsAppend
  <2>4. FactsAfter(rt, <<>>, SubSeq(ls, 1, i + 1)) =
          Put(rt, FactsAfter(rt, <<>>, SubSeq(ls, 1, i)), ls[i + 1])
    <3>1. PICK fs, a, b, l : fs = <<>> /\ a = SubSeq(ls, 1, i + 1) /\ b = SubSeq(ls, 1, i)
                             /\ l = ls[i + 1]
      OBVIOUS
    <3>2. fs \in Seq(Records) /\ b \in Seq(Records) /\ l \in Records /\ IsAppend(a, b, l)
      BY <1>0, <2>3, <3>1
    <3>3. FactsAfter(rt, fs, a) = Put(rt, FactsAfter(rt, fs, b), l) BY <3>2, FactsStep
    <3> QED BY <3>1, <3>3
  <2> QED BY <2>4 DEF FactsOf
<1> QED BY <1>2, <1>3, <1>4

\* Of every message the last that was said of it, once.
LastsOf(rt, ls, i, F) ==
  /\ \A f \in 1..Len(F) : \E k \in 1..i : Last(rt, ls, i, k) /\ F[f] = ls[k]
  /\ \A k \in 1..i : \E f \in 1..Len(F) : IdOf(rt, F[f]) = IdOf(rt, ls[k])
  /\ \A f, g \in 1..Len(F) : IdOf(rt, F[f]) = IdOf(rt, F[g]) => f = g

LEMMA LastsNew ==
  ASSUME NEW rt, NEW ls \in Seq(Records), NEW i \in Nat, i + 1 <= Len(ls),
         NEW F \in Seq(Records), LastsOf(rt, ls, i, F), Known(rt, F, ls[i + 1]) = {}
  PROVE  /\ LastsOf(rt, ls, i + 1, Append(F, ls[i + 1]))
         /\ \A k \in 1..i : Last(rt, ls, i + 1, k) <=> Last(rt, ls, i, k)
         /\ Last(rt, ls, i + 1, i + 1)
<1> DEFINE l == ls[i + 1]
           G == Append(F, l)
<1>1. \A k \in 1..i : IdOf(rt, ls[k]) # IdOf(rt, l) BY DEF LastsOf, Known
<1>2. ASSUME NEW k \in 1..i PROVE Last(rt, ls, i + 1, k) <=> Last(rt, ls, i, k)
  <2>1. \A j : j \in (k + 1)..(i + 1) <=> j \in (k + 1)..i \/ j = i + 1 OBVIOUS
  <2> QED BY <1>1, <2>1 DEF Last
<1>3. Last(rt, ls, i + 1, i + 1)
  <2>1. ((i + 1) + 1)..(i + 1) = {} OBVIOUS
  <2> QED BY <2>1 DEF Last
<1>4. l \in Records OBVIOUS
<1>5. /\ Len(G) = Len(F) + 1 /\ \A k \in 1..Len(F) : G[k] = F[k]
      /\ G[Len(F) + 1] = l
  BY <1>4
<1> HIDE DEF G, l
<1> DEFINE m == Len(F)
<1>6. m \in Nat /\ \A f : f \in 1..(m + 1) <=> f \in 1..m \/ f = m + 1 OBVIOUS
<1>7. \A k : k \in 1..(i + 1) <=> k \in 1..i \/ k = i + 1 OBVIOUS
<1>8. Len(G) = m + 1 /\ (\A k \in 1..m : G[k] = F[k]) /\ G[m + 1] = l BY <1>5
<1>9. /\ \A f \in 1..m : \E k \in 1..i : Last(rt, ls, i, k) /\ F[f] = ls[k]
      /\ \A k \in 1..i : \E f \in 1..m : IdOf(rt, F[f]) = IdOf(rt, ls[k])
      /\ \A f, g \in 1..m : IdOf(rt, F[f]) = IdOf(rt, F[g]) => f = g
      /\ \A f \in 1..m : IdOf(rt, F[f]) # IdOf(rt, l)
  BY DEF LastsOf, Known, l
<1> HIDE DEF m
<1>10. \A f \in 1..(m + 1) : \E k \in 1..(i + 1) : Last(rt, ls, i + 1, k) /\ G[f] = ls[k]
  <2> SUFFICES ASSUME NEW f \in 1..(m + 1)
               PROVE  \E k \in 1..(i + 1) : Last(rt, ls, i + 1, k) /\ G[f] = ls[k]
    OBVIOUS
  <2>1. CASE f = m + 1 BY <1>3, <1>7, <1>8, <2>1 DEF l
  <2>2. CASE f \in 1..m BY <1>2, <1>7, <1>8, <1>9, <2>2
  <2> QED BY <1>6, <2>1, <2>2
<1>11. \A k \in 1..(i + 1) : \E f \in 1..(m + 1) : IdOf(rt, G[f]) = IdOf(rt, ls[k])
  <2> SUFFICES ASSUME NEW k \in 1..(i + 1)
               PROVE  \E f \in 1..(m + 1) : IdOf(rt, G[f]) = IdOf(rt, ls[k])
    OBVIOUS
  <2>1. CASE k = i + 1 BY <1>6, <1>8, <2>1 DEF l
  <2>2. CASE k \in 1..i
    <3>1. PICK f \in 1..m : IdOf(rt, F[f]) = IdOf(rt, ls[k]) BY <1>9, <2>2
    <3>2. G[f] = F[f] /\ f \in 1..(m + 1) BY <1>6, <1>8
    <3> QED BY <3>1, <3>2
  <2> QED BY <1>7, <2>1, <2>2
<1>12. ASSUME NEW f \in 1..(m + 1), NEW g \in 1..(m + 1), IdOf(rt, G[f]) = IdOf(rt, G[g])
       PROVE  f = g
  <2>1. CASE f = m + 1 /\ g = m + 1 BY <2>1
  <2>2. CASE f = m + 1 /\ g \in 1..m BY <1>8, <1>9, <1>12, <2>2
  <2>3. CASE f \in 1..m /\ g = m + 1 BY <1>8, <1>9, <1>12, <2>3
  <2>4. CASE f \in 1..m /\ g \in 1..m BY <1>8, <1>9, <1>12, <2>4
  <2> QED BY <1>6, <2>1, <2>2, <2>3, <2>4
<1>13. LastsOf(rt, ls, i + 1, G) BY <1>8, <1>10, <1>11, <1>12 DEF LastsOf
<1> QED BY <1>2, <1>3, <1>13 DEF G, l

LEMMA LastsKnown ==
  ASSUME NEW rt, NEW ls \in Seq(Records), NEW i \in Nat, i + 1 <= Len(ls),
         NEW F \in Seq(Records), LastsOf(rt, ls, i, F),
         NEW j \in Known(rt, F, ls[i + 1]), NEW k0 \in 1..i, Last(rt, ls, i, k0), F[j] = ls[k0]
  PROVE  /\ LastsOf(rt, ls, i + 1, Replaced(F, j, ls[i + 1]))
         /\ \A k \in 1..i : k # k0 => (Last(rt, ls, i + 1, k) <=> Last(rt, ls, i, k))
         /\ ~Last(rt, ls, i + 1, k0)
         /\ Last(rt, ls, i + 1, i + 1)
<1> DEFINE l == ls[i + 1]
           G == Replaced(F, j, l)
           m == Len(F)
<1>0. l \in Records /\ j \in 1..m /\ IdOf(rt, F[j]) = IdOf(rt, l) /\ m \in Nat BY DEF Known
<1>1. IdOf(rt, ls[k0]) = IdOf(rt, l) BY <1>0
<1>2. ASSUME NEW k \in 1..i, IdOf(rt, ls[k]) = IdOf(rt, l), Last(rt, ls, i, k) PROVE k = k0
  <2>1. k < k0 => k0 \in (k + 1)..i OBVIOUS
  <2>2. k0 < k => k \in (k0 + 1)..i OBVIOUS
  <2>3. ~(k < k0) BY <1>1, <1>2, <2>1 DEF Last
  <2>4. ~(k0 < k) BY <1>1, <1>2, <2>2 DEF Last
  <2> QED BY <2>3, <2>4
<1>3. Last(rt, ls, i + 1, i + 1)
  <2>1. ((i + 1) + 1)..(i + 1) = {} OBVIOUS
  <2> QED BY <2>1 DEF Last
<1>4. ASSUME NEW k \in 1..i
      PROVE  Last(rt, ls, i + 1, k) <=> (Last(rt, ls, i, k) /\ IdOf(rt, ls[k]) # IdOf(rt, l))
  <2>1. \A h : h \in (k + 1)..(i + 1) <=> h \in (k + 1)..i \/ h = i + 1 OBVIOUS
  <2> QED BY <2>1 DEF Last
<1>5. ~Last(rt, ls, i + 1, k0) BY <1>1, <1>4
<1>6. \A k \in 1..i : k # k0 => (Last(rt, ls, i + 1, k) <=> Last(rt, ls, i, k))
  BY <1>2, <1>4
<1>7. /\ Len(G) = m /\ G[j] = l /\ \A k \in 1..m : k # j => G[k] = F[k]
  BY <1>0, ReplacedIs
<1>8. /\ \A f \in 1..m : \E k \in 1..i : Last(rt, ls, i, k) /\ F[f] = ls[k]
      /\ \A k \in 1..i : \E f \in 1..m : IdOf(rt, F[f]) = IdOf(rt, ls[k])
      /\ \A f, g \in 1..m : IdOf(rt, F[f]) = IdOf(rt, F[g]) => f = g
  BY DEF LastsOf
<1>9. \A k : k \in 1..(i + 1) <=> k \in 1..i \/ k = i + 1 OBVIOUS
<1>9a. l = ls[i + 1] OBVIOUS
<1> HIDE DEF G, l, m
<1>10. \A f \in 1..m : IdOf(rt, G[f]) = IdOf(rt, F[f]) BY <1>0, <1>7
<1>11. \A f \in 1..m : \E k \in 1..(i + 1) : Last(rt, ls, i + 1, k) /\ G[f] = ls[k]
  <2> SUFFICES ASSUME NEW f \in 1..m
               PROVE  \E k \in 1..(i + 1) : Last(rt, ls, i + 1, k) /\ G[f] = ls[k]
    OBVIOUS
  <2>1. CASE f = j BY <1>3, <1>7, <1>9, <1>9a, <2>1
  <2>2. CASE f # j
    <3>1. PICK k \in 1..i : Last(rt, ls, i, k) /\ F[f] = ls[k] BY <1>8
    <3>2. IdOf(rt, ls[k]) # IdOf(rt, l) BY <1>0, <1>8, <2>2, <3>1
    <3> QED BY <1>4, <1>7, <1>9, <2>2, <3>1, <3>2
  <2> QED BY <2>1, <2>2
<1>12. \A k \in 1..(i + 1) : \E f \in 1..m : IdOf(rt, G[f]) = IdOf(rt, ls[k])
  <2> SUFFICES ASSUME NEW k \in 1..(i + 1)
               PROVE  \E f \in 1..m : IdOf(rt, G[f]) = IdOf(rt, ls[k])
    OBVIOUS
  <2>1. CASE k = i + 1
    <3>1. IdOf(rt, G[j]) = IdOf(rt, ls[k]) BY <1>7, <1>9a, <2>1
    <3> QED BY <1>0, <3>1
  <2>2. CASE k \in 1..i
    <3>1. PICK f \in 1..m : IdOf(rt, F[f]) = IdOf(rt, ls[k]) BY <1>8, <2>2
    <3> QED BY <1>10, <3>1
  <2> QED BY <1>9, <2>1, <2>2
<1>13. \A f, g \in 1..m : IdOf(rt, G[f]) = IdOf(rt, G[g]) => f = g BY <1>8, <1>10
<1>14. LastsOf(rt, ls, i + 1, G) BY <1>7, <1>11, <1>12, <1>13 DEF LastsOf
<1> QED BY <1>3, <1>5, <1>6, <1>14 DEF G, l

\* The weights of one line more.
LEMMA ExpectedMore ==
  ASSUME ConstantsOK, NEW rt \in Runs, NEW q, NEW ls \in Seq(Records),
         NEW i \in Nat, i + 1 <= Len(ls),
         \A k \in 1..i : ExpectedWeight(rt, q, ls, i + 1, k) = ExpectedWeight(rt, q, ls, i, k)
  PROVE  ExpectedOf(rt, q, ls, i + 1) =
           ExpectedOf(rt, q, ls, i) + ExpectedWeight(rt, q, ls, i + 1, i + 1)
<1> DEFINE w == ExpectedWeights(rt, q, ls, i + 1)
           v == ExpectedWeights(rt, q, ls, i)
<1>0. i \in 0..Len(ls) /\ i + 1 \in 0..Len(ls) /\ i + 1 \in Nat /\ i <= i + 1 OBVIOUS
<1>1. w \in [1..(i + 1) -> Int] /\ v \in [1..i -> Int] BY <1>0, ExpectedAre
<1>2. \A k \in 1..i : w[k] = v[k] BY DEF ExpectedWeights
<1>3. w[i + 1] = ExpectedWeight(rt, q, ls, i + 1, i + 1) BY DEF ExpectedWeights
<1> HIDE DEF w, v
<1>4. SumOf(w, i) = SumOf(v, i)
  <2>1. i <= i OBVIOUS
  <2> QED BY <1>0, <1>1, <1>2, <2>1, SumSame
<1>5. SumOf(w, i + 1) = SumOf(w, i) + w[i + 1]
  <2>1. i + 1 \in 1..(i + 1) /\ (i + 1) - 1 = i OBVIOUS
  <2>2. SumOf(w, i + 1) = SumOf(w, (i + 1) - 1) + w[i + 1] BY <1>0, <1>1, <2>1, SumRec
  <2> QED BY <2>1, <2>2
<1> QED BY <1>3, <1>4, <1>5 DEF ExpectedOf, w, v

\* The weights of one line more that takes the place of another.
LEMMA ExpectedInstead ==
  ASSUME ConstantsOK, NEW rt \in Runs, NEW q, NEW ls \in Seq(Records),
         NEW i \in Nat, i + 1 <= Len(ls), NEW k0 \in 1..i,
         \A k \in 1..i : k # k0 =>
           ExpectedWeight(rt, q, ls, i + 1, k) = ExpectedWeight(rt, q, ls, i, k),
         ExpectedWeight(rt, q, ls, i + 1, k0) = 0
  PROVE  ExpectedOf(rt, q, ls, i + 1) =
           ExpectedOf(rt, q, ls, i) - ExpectedWeight(rt, q, ls, i, k0)
             + ExpectedWeight(rt, q, ls, i + 1, i + 1)
<1> DEFINE w == ExpectedWeights(rt, q, ls, i + 1)
           v == ExpectedWeights(rt, q, ls, i)
           u == [k \in 1..i |-> w[k]]
<1>0. i \in 0..Len(ls) /\ i + 1 \in 0..Len(ls) /\ i + 1 \in Nat /\ i <= i + 1 OBVIOUS
<1>1. w \in [1..(i + 1) -> Int] /\ v \in [1..i -> Int] BY <1>0, ExpectedAre
<1>2. /\ \A k \in 1..i : k # k0 => w[k] = v[k]
      /\ w[k0] = 0 /\ v[k0] = ExpectedWeight(rt, q, ls, i, k0)
  BY DEF ExpectedWeights
<1>3. w[i + 1] = ExpectedWeight(rt, q, ls, i + 1, i + 1) BY DEF ExpectedWeights
<1> HIDE DEF w, v
<1>4. u \in [1..i -> Int] /\ (\A k \in 1..i : u[k] = w[k])
  <2>1. \A k \in 1..i : k \in 1..(i + 1) OBVIOUS
  <2> QED BY <1>1, <2>1
<1> HIDE DEF u
<1>5. SumOf(w, i) = SumOf(u, i)
  <2>1. i <= i OBVIOUS
  <2>2. \A k \in 1..i : w[k] = u[k] BY <1>4
  <2> QED BY <1>0, <1>1, <1>4, <2>1, <2>2, SumSame
<1>6. SumOf(u, i) = SumOf(v, i) - v[k0] + u[k0]
  <2>1. \A k \in 1..i : k # k0 => v[k] = u[k] BY <1>2, <1>4
  <2>2. i \in k0..i OBVIOUS
  <2> QED BY <1>1, <1>4, <2>1, <2>2, SumPoint
<1>7. SumOf(w, i + 1) = SumOf(w, i) + w[i + 1]
  <2>1. i + 1 \in 1..(i + 1) /\ (i + 1) - 1 = i OBVIOUS
  <2>2. SumOf(w, i + 1) = SumOf(w, (i + 1) - 1) + w[i + 1] BY <1>0, <1>1, <2>1, SumRec
  <2> QED BY <2>1, <2>2
<1>8. SumOf(w, i + 1) = SumOf(v, i) - v[k0] + w[i + 1]
  <2>1. SumOf(v, i) \in Int
    <3>1. i \in 0..i OBVIOUS
    <3> QED BY <1>1, <3>1, SumRec
  <2>2. u[k0] = 0 BY <1>2, <1>4
  <2>3. v[k0] \in Int /\ w[i + 1] \in Int
    <3>1. i + 1 \in 1..(i + 1) OBVIOUS
    <3> QED BY <1>1, <3>1
  <2> QED BY <1>5, <1>6, <1>7, <2>1, <2>2, <2>3
<1> QED BY <1>2, <1>3, <1>8 DEF ExpectedOf, w, v

\* What the last of a message weighs.
LEMMA ClaudeWeight ==
  ASSUME NEW q, NEW facts, NEW f, NEW ls, NEW i, NEW k,
         facts[f] = ls[k], Last("claude", ls, i, k)
  PROVE  Weight(q, Contribution("claude", facts, f)) = ExpectedWeight("claude", q, ls, i, k)
BY DEF Weight, Contribution, ExpectedWeight, InQuery, InWindow

\* A count of each message: the facts weigh what is expected of the lines.
ClaudeTrue(ls, i) ==
  LET F == FactsOf("claude", ls, i) IN
  /\ LastsOf("claude", ls, i, F)
  /\ \A q \in Queries : Tokens("claude", q, F, Len(F)) = ExpectedOf("claude", q, ls, i)

LEMMA ClaudeStep ==
  ASSUME ConstantsOK, NEW ls \in Seq(Records), NEW i \in Nat, i + 1 <= Len(ls),
         ClaudeTrue(ls, i)
  PROVE  ClaudeTrue(ls, i + 1)
<1> DEFINE rt == "claude"
           F == FactsOf(rt, ls, i)
           l == ls[i + 1]
<1>0. rt \in Runs /\ i \in 0..Len(ls) /\ i \in 0..(Len(ls) - 1) /\ l \in Records BY DEF Runs
<1>1. F \in Seq(Records) /\ FactsOf(rt, ls, i + 1) = Put(rt, F, l) BY <1>0, FactsOfRec
<1>2. /\ LastsOf(rt, ls, i, F)
      /\ \A q \in Queries : Tokens(rt, q, F, Len(F)) = ExpectedOf(rt, q, ls, i)
  BY DEF ClaudeTrue
<1> DEFINE G == Put(rt, F, l)
<1>3. SUFFICES /\ LastsOf(rt, ls, i + 1, G)
               /\ \A q \in Queries : Tokens(rt, q, G, Len(G)) = ExpectedOf(rt, q, ls, i + 1)
  BY <1>1 DEF ClaudeTrue
<1>3a. l = ls[i + 1] OBVIOUS
<1>4. CASE Known(rt, F, l) = {}
  <2> HIDE DEF F
  <2>1. G = Append(F, l) BY <1>4 DEF Put
  <2>2. /\ LastsOf(rt, ls, i + 1, Append(F, ls[i + 1]))
        /\ \A k \in 1..i : Last(rt, ls, i + 1, k) <=> Last(rt, ls, i, k)
        /\ Last(rt, ls, i + 1, i + 1)
    BY <1>1, <1>2, <1>4, LastsNew
  <2>3. ASSUME NEW q \in Queries PROVE Tokens(rt, q, G, Len(G)) = ExpectedOf(rt, q, ls, i + 1)
    <3>1. \A k \in 1..i : ExpectedWeight(rt, q, ls, i + 1, k) = ExpectedWeight(rt, q, ls, i, k)
      BY <2>2 DEF ExpectedWeight
    <3>2. ExpectedOf(rt, q, ls, i + 1) =
            ExpectedOf(rt, q, ls, i) + ExpectedWeight(rt, q, ls, i + 1, i + 1)
      BY <1>0, <3>1, ExpectedMore
    <3>3. Tokens(rt, q, Append(F, l), Len(F) + 1) =
            Tokens(rt, q, F, Len(F)) + Weight(q, Contribution(rt, Append(F, l), Len(F) + 1))
      BY <1>0, <1>1, AppendTokens
    <3>4. Len(Append(F, l)) = Len(F) + 1 /\ Append(F, l)[Len(F) + 1] = ls[i + 1]
      BY <1>0, <1>1, AppendIs
    <3>5. Weight(q, Contribution(rt, Append(F, l), Len(F) + 1)) =
            ExpectedWeight(rt, q, ls, i + 1, i + 1)
      <4>1. PICK a, f, k : a = Append(F, l) /\ f = Len(F) + 1 /\ k = i + 1 OBVIOUS
      <4>2. a[f] = ls[k] /\ Last(rt, ls, k, k) BY <2>2, <3>4, <4>1
      <4>3. Weight(q, Contribution(rt, a, f)) = ExpectedWeight(rt, q, ls, k, k)
        BY <4>2, ClaudeWeight
      <4> QED BY <4>1, <4>3
    <3> QED BY <1>2, <2>1, <3>2, <3>3, <3>4, <3>5
  <2> QED BY <2>1, <2>2, <2>3
<1>5. CASE Known(rt, F, l) # {}
  <2> DEFINE j == CHOOSE k \in Known(rt, F, l) : TRUE
  <2>1. G = Replaced(F, j, l) BY <1>5 DEF Put
  <2>2. j \in Known(rt, F, l) BY <1>5
  <2>3. j \in 1..Len(F) BY <2>2 DEF Known
  <2> HIDE DEF F, j, G
  <2>4. PICK k0 \in 1..i : Last(rt, ls, i, k0) /\ F[j] = ls[k0] BY <1>2, <2>3 DEF LastsOf
  <2>5. /\ LastsOf(rt, ls, i + 1, Replaced(F, j, ls[i + 1]))
        /\ \A k \in 1..i : k # k0 => (Last(rt, ls, i + 1, k) <=> Last(rt, ls, i, k))
        /\ ~Last(rt, ls, i + 1, k0)
        /\ Last(rt, ls, i + 1, i + 1)
    BY <1>1, <1>2, <2>2, <2>4, LastsKnown
  <2>6. ASSUME NEW q \in Queries PROVE Tokens(rt, q, G, Len(G)) = ExpectedOf(rt, q, ls, i + 1)
    <3>1. \A k \in 1..i : k # k0 =>
            ExpectedWeight(rt, q, ls, i + 1, k) = ExpectedWeight(rt, q, ls, i, k)
      BY <2>5 DEF ExpectedWeight
    <3>2. ExpectedWeight(rt, q, ls, i + 1, k0) = 0 BY <2>5 DEF ExpectedWeight
    <3>3. ExpectedOf(rt, q, ls, i + 1) =
            ExpectedOf(rt, q, ls, i) - ExpectedWeight(rt, q, ls, i, k0)
              + ExpectedWeight(rt, q, ls, i + 1, i + 1)
      BY <1>0, <3>1, <3>2, ExpectedInstead
    <3>4. Len(F) \in 0..Len(F) /\ ~(Len(F) < j) BY <1>1, <2>3
    <3>5. Tokens(rt, q, Replaced(F, j, l), Len(F)) =
            Tokens(rt, q, F, Len(F)) - Weight(q, Contribution(rt, F, j))
              + Weight(q, Contribution(rt, Replaced(F, j, l), j))
      BY <1>0, <1>1, <2>3, <3>4, ReplaceTokens
    <3>6. Len(G) = Len(F) /\ Replaced(F, j, l)[j] = ls[i + 1]
      <4>1. F \in Seq(Records) /\ l \in Records BY <1>0, <1>1
      <4>2. l = ls[i + 1] OBVIOUS
      <4> HIDE DEF l
      <4>3. Len(Replaced(F, j, l)) = Len(F) /\ Replaced(F, j, l)[j] = l
        BY <2>3, <4>1, ReplacedIs
      <4> QED BY <2>1, <4>2, <4>3
    <3>7. Weight(q, Contribution(rt, Replaced(F, j, l), j)) =
            ExpectedWeight(rt, q, ls, i + 1, i + 1)
      BY <2>5, <3>6, ClaudeWeight
    <3>8. Weight(q, Contribution(rt, F, j)) = ExpectedWeight(rt, q, ls, i, k0)
      BY <2>4, ClaudeWeight
    <3> QED BY <1>2, <2>1, <3>3, <3>5, <3>6, <3>7, <3>8
  <2> QED BY <2>1, <2>5, <2>6
<1> QED BY <1>4, <1>5

LEMMA ClaudeAlways ==
  ASSUME ConstantsOK, NEW ls \in Seq(Records), NEW i \in 0..Len(ls)
  PROVE  ClaudeTrue(ls, i)
<1> DEFINE S == {k \in Nat : k <= Len(ls) => ClaudeTrue(ls, k)}
<1>1. 0 \in S
  <2>1. "claude" \in Runs BY DEF Runs
  <2>2. FactsOf("claude", ls, 0) = <<>> BY <2>1, FactsOfRec
  <2>3. 1..0 = {} /\ Len(<<>>) = 0 /\ <<>> \in Seq(Records) /\ 0 \in 0..Len(ls) /\ 0 \in Nat
        /\ 0 \in 0..0
    OBVIOUS
  <2>4. LastsOf("claude", ls, 0, <<>>) BY <2>3 DEF LastsOf
  <2>5. ASSUME NEW q \in Queries
        PROVE  Tokens("claude", q, <<>>, 0) = ExpectedOf("claude", q, ls, 0)
    <3>1. Tokens("claude", q, <<>>, 0) = 0 BY <2>1, <2>3, TokensRec
    <3>2. ExpectedWeights("claude", q, ls, 0) \in [1..0 -> Int] BY <2>1, <2>3, ExpectedAre
    <3>3. SumOf(ExpectedWeights("claude", q, ls, 0), 0) = 0 BY <2>3, <3>2, SumRec
    <3> QED BY <3>1, <3>3 DEF ExpectedOf
  <2>6. ClaudeTrue(ls, 0) BY <2>2, <2>3, <2>4, <2>5 DEF ClaudeTrue
  <2> QED BY <2>6
<1>2. ASSUME NEW k \in Nat, k \in S PROVE k + 1 \in S
  <2> SUFFICES ASSUME k + 1 <= Len(ls) PROVE ClaudeTrue(ls, k + 1) OBVIOUS
  <2>1. ClaudeTrue(ls, k) BY <1>2
  <2> QED BY <2>1, ClaudeStep
<1>3. i \in S
  <2> HIDE DEF S
  <2>1. i \in Nat OBVIOUS
  <2> QED BY <1>1, <1>2, <2>1, SetInduction
<1> QED BY <1>3

\* The running total before a line and the one before the next.
LEMMA BeforeNext ==
  ASSUME NEW rt, NEW ls, NEW k \in Nat, k > 0
  PROVE  /\ First(rt, ls, k) => Before(rt, ls, k + 1) = ls[k].n
         /\ ~First(rt, ls, k) => Before(rt, ls, k + 1) = Before(rt, ls, k)
<1> DEFINE b == {j \in 1..(k - 1) : First(rt, ls, j)}
           c == {j \in 1..((k + 1) - 1) : First(rt, ls, j)}
<1>1. \A j : j \in 1..((k + 1) - 1) <=> j \in 1..(k - 1) \/ j = k OBVIOUS
<1>2. CASE First(rt, ls, k)
  <2>1. k \in c BY <1>1, <1>2
  <2>2. (k + 1) - 1 \in Nat /\ c \in SUBSET (1..((k + 1) - 1)) /\ (k + 1) - 1 = k OBVIOUS
  <2> HIDE DEF c
  <2>3. c # {} BY <2>1
  <2>4. Greatest(c) \in c /\ \A i \in c : i <= Greatest(c) BY <2>2, <2>3, GreatestIs
  <2>5. Greatest(c) = k
    <3>1. Greatest(c) \in 1..k BY <2>2, <2>4
    <3>2. k <= Greatest(c) BY <2>1, <2>4
    <3> HIDE DEF Greatest
    <3> QED BY <3>1, <3>2
  <2>6. Before(rt, ls, k + 1) = IF c = {} THEN 0 ELSE ls[Greatest(c)].n BY DEF Before, c
  <2> QED BY <1>2, <2>3, <2>5, <2>6
<1>3. CASE ~First(rt, ls, k)
  <2>1. b = c BY <1>1, <1>3
  <2> HIDE DEF b, c
  <2>2. Before(rt, ls, k + 1) = IF c = {} THEN 0 ELSE ls[Greatest(c)].n BY DEF Before, c
  <2>3. Before(rt, ls, k) = IF b = {} THEN 0 ELSE ls[Greatest(b)].n BY DEF Before, b
  <2> QED BY <1>3, <2>1, <2>2, <2>3
<1> QED BY <1>2, <1>3

\* A running total: each once, the last of them where the total is, and while none went
\* down the facts weigh what is expected of the lines.
CodexTrue(ls, i) ==
  LET F == FactsOf("codex", ls, i) IN
  /\ \A f \in 1..Len(F) : \E k \in 1..i : F[f] = ls[k]
  /\ \A k \in 1..i : \E f \in 1..Len(F) : F[f] = ls[k]
  /\ i = 0 => Len(F) = 0
  /\ i > 0 => Len(F) > 0 /\ F[Len(F)].n = Before("codex", ls, i + 1)
  /\ Doubtful("codex", F, Len(F)) = 0 =>
       \A q \in Queries : Tokens("codex", q, F, Len(F)) = ExpectedOf("codex", q, ls, i)

\* What a fact that is new weighs.
LEMMA CodexWeight ==
  ASSUME ConstantsOK, NEW q \in Queries, NEW facts \in Seq(Records), NEW f \in 1..Len(facts),
         NEW ls \in Seq(Records), NEW k \in 1..Len(ls), facts[f] = ls[k], First("codex", ls, k),
         f = 1 <=> k = 1, k = 1 => Before("codex", ls, k) = 0,
         k # 1 => facts[f - 1].n = Before("codex", ls, k),
         Doubt(Contribution("codex", facts, f)) = 0, NEW i
  PROVE  Weight(q, Contribution("codex", facts, f)) = ExpectedWeight("codex", q, ls, i, k)
<1>0. "codex" # "claude" OBVIOUS
<1>1. facts[f] \in Records OBVIOUS
<1>2. facts[f].n \in Nat BY <1>1 DEF ConstantsOK
<1> DEFINE n == ls[k].n
           t == ls[k].time
           b == Before("codex", ls, k)
<1>3. n \in Nat /\ facts[f].n = n /\ facts[f].time = t BY <1>2
<1>4. ExpectedWeight("codex", q, ls, i, k) =
        IF q = "all" \/ (k # 1 /\ t = 1) THEN n - b ELSE 0
  BY <1>0 DEF ExpectedWeight
<1> HIDE DEF n, t, b
<1>5. CASE k = 1
  <2>1. Contribution("codex", facts, f) = [n |-> n, time |-> 0, amb |-> FALSE]
    BY <1>0, <1>3, <1>5 DEF Contribution
  <2>2. Weight(q, Contribution("codex", facts, f)) = IF q = "all" THEN n ELSE 0
    BY <2>1 DEF Weight, InWindow
  <2>3. n - b = n BY <1>3, <1>5 DEF b
  <2> QED BY <1>4, <1>5, <2>2, <2>3
<1>6. CASE k # 1
  <2>1. f # 1 /\ facts[f - 1].n = b BY <1>6 DEF b
  <2>2. ~(n < b)
    <3> SUFFICES ASSUME n < b PROVE FALSE OBVIOUS
    <3>1. Contribution("codex", facts, f) = [n |-> 0, time |-> 0, amb |-> TRUE]
      BY <1>0, <1>3, <2>1 DEF Contribution
    <3>2. Doubt(Contribution("codex", facts, f)) = 1 BY <3>1 DEF Doubt
    <3> QED BY <3>2
  <2>3. Contribution("codex", facts, f) = [n |-> n - b, time |-> t, amb |-> FALSE]
    BY <1>0, <1>3, <2>1, <2>2 DEF Contribution
  <2>4. Weight(q, Contribution("codex", facts, f)) = IF q = "all" \/ t = 1 THEN n - b ELSE 0
    BY <2>3 DEF Weight, InWindow
  <2> QED BY <1>4, <1>6, <2>4
<1> QED BY <1>5, <1>6

LEMMA CodexStep ==
  ASSUME ConstantsOK, NEW ls \in Seq(Records), NEW i \in Nat, i + 1 <= Len(ls),
         CodexTrue(ls, i)
  PROVE  CodexTrue(ls, i + 1)
<1> DEFINE rt == "codex"
           F == FactsOf(rt, ls, i)
           l == ls[i + 1]
           G == Put(rt, F, l)
<1>0. /\ rt \in Runs /\ i \in 0..Len(ls) /\ i \in 0..(Len(ls) - 1) /\ l \in Records
      /\ i + 1 \in 1..Len(ls) /\ i + 1 \in Nat /\ i + 1 > 0 /\ rt # "claude" /\ l = ls[i + 1]
  BY DEF Runs
<1>1. F \in Seq(Records) /\ FactsOf(rt, ls, i + 1) = G BY <1>0, FactsOfRec
<1>2. /\ \A f \in 1..Len(F) : \E k \in 1..i : F[f] = ls[k]
      /\ \A k \in 1..i : \E f \in 1..Len(F) : F[f] = ls[k]
      /\ i = 0 => Len(F) = 0
      /\ i > 0 => Len(F) > 0 /\ F[Len(F)].n = Before(rt, ls, i + 1)
      /\ Doubtful(rt, F, Len(F)) = 0 =>
           \A q \in Queries : Tokens(rt, q, F, Len(F)) = ExpectedOf(rt, q, ls, i)
  BY DEF CodexTrue
<1>3. SUFFICES
      /\ \A f \in 1..Len(G) : \E k \in 1..(i + 1) : G[f] = ls[k]
      /\ \A k \in 1..(i + 1) : \E f \in 1..Len(G) : G[f] = ls[k]
      /\ Len(G) > 0 /\ G[Len(G)].n = Before(rt, ls, (i + 1) + 1)
      /\ Doubtful(rt, G, Len(G)) = 0 =>
           \A q \in Queries : Tokens(rt, q, G, Len(G)) = ExpectedOf(rt, q, ls, i + 1)
  <2> HIDE DEF G
  <2>1. i + 1 # 0 OBVIOUS
  <2> QED BY <1>1, <2>1 DEF CodexTrue
<1>4. \A k : k \in 1..(i + 1) <=> k \in 1..i \/ k = i + 1 OBVIOUS
<1>5. \A x : IdOf(rt, x) = x BY <1>0 DEF IdOf
<1>6. First(rt, ls, i + 1) <=> \A k \in 1..i : ls[k] # l
  <2>1. (i + 1) - 1 = i OBVIOUS
  <2> QED BY <1>5, <2>1 DEF First
<1>7. Known(rt, F, l) = {k \in 1..Len(F) : F[k] = l} BY <1>5 DEF Known
<1>8. \A q : \A k \in 1..i : ExpectedWeight(rt, q, ls, i + 1, k) = ExpectedWeight(rt, q, ls, i, k)
  BY <1>0 DEF ExpectedWeight
<1>9. \A q : ExpectedOf(rt, q, ls, i + 1) =
               ExpectedOf(rt, q, ls, i) + ExpectedWeight(rt, q, ls, i + 1, i + 1)
  BY <1>0, <1>8, ExpectedMore
<1>10. \A q : ExpectedOf(rt, q, ls, i) \in Int
  <2> TAKE q
  <2>1. ExpectedWeights(rt, q, ls, i) \in [1..i -> Int] BY <1>0, ExpectedAre
  <2>2. i \in 0..i OBVIOUS
  <2>3. SumOf(ExpectedWeights(rt, q, ls, i), i) \in Int BY <2>1, <2>2, SumRec
  <2> QED BY <2>3 DEF ExpectedOf
<1>11. CASE Known(rt, F, l) # {}
  <2> DEFINE j == CHOOSE k \in Known(rt, F, l) : TRUE
  <2>1. G = Replaced(F, j, l) BY <1>11 DEF Put
  <2>2. j \in 1..Len(F) /\ F[j] = l BY <1>7, <1>11
  <2> HIDE DEF F, j, l, G
  <2>3. G = F BY <1>1, <2>1, <2>2 DEF Replaced
  <2>4. ~First(rt, ls, i + 1) BY <1>2, <1>6, <2>2
  <2>5. i > 0
    <3>1. Len(F) \in Nat BY <1>1
    <3> QED BY <1>2, <2>2, <3>1
  <2>6. Before(rt, ls, (i + 1) + 1) = Before(rt, ls, i + 1) BY <1>0, <2>4, BeforeNext
  <2>7. \A q : ExpectedWeight(rt, q, ls, i + 1, i + 1) = 0 BY <1>0, <2>4 DEF ExpectedWeight
  <2>8. \A q : ExpectedOf(rt, q, ls, i + 1) = ExpectedOf(rt, q, ls, i)
    <3> TAKE q
    <3>1. ExpectedWeight(rt, q, ls, i + 1, i + 1) = 0 BY <2>7
    <3>2. ExpectedOf(rt, q, ls, i) \in Int BY <1>10
    <3>3. ExpectedOf(rt, q, ls, i + 1) =
               ExpectedOf(rt, q, ls, i) + ExpectedWeight(rt, q, ls, i + 1, i + 1)
      BY <1>9
    <3> HIDE DEF rt
    <3> QED BY <3>1, <3>2, <3>3
  <2>9. \A f \in 1..Len(G) : \E k \in 1..(i + 1) : G[f] = ls[k] BY <1>2, <1>4, <2>3
  <2>10. \A k \in 1..(i + 1) : \E f \in 1..Len(G) : G[f] = ls[k]
    <3> TAKE k \in 1..(i + 1)
    <3>1. CASE k = i + 1 BY <1>0, <2>2, <2>3, <3>1
    <3>2. CASE k \in 1..i BY <1>2, <2>3, <3>2
    <3> QED BY <1>4, <3>1, <3>2
  <2> QED BY <1>2, <2>3, <2>5, <2>6, <2>8, <2>9, <2>10
<1>12. CASE Known(rt, F, l) = {}
  <2>1. G = Append(F, l) BY <1>12 DEF Put
  <2> HIDE DEF F, G, l
  <2> DEFINE m == Len(F)
  <2>2. Len(G) = m + 1 /\ (\A k \in 1..m : G[k] = F[k]) /\ G[m + 1] = l /\ G \in Seq(Records)
    BY <1>0, <1>1, <2>1, AppendIs
  <2>3. m \in Nat /\ \A f : f \in 1..(m + 1) <=> f \in 1..m \/ f = m + 1 BY <1>1
  <2>4. First(rt, ls, i + 1)
    <3>1. \A f \in 1..m : F[f] # l BY <1>7, <1>12
    <3> QED BY <1>2, <1>6, <3>1
  <2>5. Before(rt, ls, (i + 1) + 1) = l.n BY <1>0, <2>4, BeforeNext
  <2>6. /\ \A n \in 0..m : Doubtful(rt, G, n) = Doubtful(rt, F, n)
        /\ Doubtful(rt, G, m + 1) = Doubtful(rt, F, m) + Doubt(Contribution(rt, G, m + 1))
        /\ \A q : Tokens(rt, q, G, m + 1) =
                    Tokens(rt, q, F, m) + Weight(q, Contribution(rt, G, m + 1))
    BY <1>0, <1>1, <2>1, AppendTokens
  <2>7. m + 1 = 1 <=> i + 1 = 1 BY <1>0, <1>2, <2>3
  <2>8. i + 1 = 1 => Before(rt, ls, i + 1) = 0
    <3> SUFFICES ASSUME i + 1 = 1 PROVE Before(rt, ls, 1) = 0 OBVIOUS
    <3>1. 1..(1 - 1) = {} OBVIOUS
    <3>2. {j \in 1..(1 - 1) : First(rt, ls, j)} = {} BY <3>1
    <3> QED BY <3>2 DEF Before
  <2>9. i + 1 # 1 => G[(m + 1) - 1].n = Before(rt, ls, i + 1)
    <3> SUFFICES ASSUME i + 1 # 1 PROVE G[(m + 1) - 1].n = Before(rt, ls, i + 1) OBVIOUS
    <3>1. i > 0 BY <1>0
    <3>2. m > 0 /\ F[m].n = Before(rt, ls, i + 1) BY <1>2, <3>1
    <3>3. (m + 1) - 1 = m /\ m \in 1..m BY <2>3, <3>2
    <3> QED BY <2>2, <3>2, <3>3
  <2>10. ASSUME Doubtful(rt, G, m + 1) = 0, NEW q \in Queries
         PROVE  Tokens(rt, q, G, m + 1) = ExpectedOf(rt, q, ls, i + 1)
    <3>1. m + 1 \in 1..Len(G) BY <2>2, <2>3
    <3>2. Contribution(rt, G, m + 1) \in Counted BY <1>0, <2>2, <3>1, ContributionIs
    <3>3. Doubt(Contribution(rt, G, m + 1)) \in Nat BY <3>2, WeightIs
    <3>4. Doubtful(rt, F, m) \in Nat
      <4>1. m \in 0..Len(F) BY <2>3
      <4> QED BY <1>0, <1>1, <4>1, TokensRec
    <3>5. Doubtful(rt, F, m) = 0 /\ Doubt(Contribution(rt, G, m + 1)) = 0
      BY <2>6, <2>10, <3>3, <3>4
    <3>6. Tokens(rt, q, F, m) = ExpectedOf(rt, q, ls, i) BY <1>2, <3>5
    <3>7. Weight(q, Contribution(rt, G, m + 1)) = ExpectedWeight(rt, q, ls, i + 1, i + 1)
      <4>1. PICK f, k, n, g : f = m + 1 /\ k = i + 1 /\ n = i + 1 /\ g = G OBVIOUS
      <4>2. f \in 1..Len(g) /\ k \in 1..Len(ls) /\ g[f] = ls[k] /\ First(rt, ls, k)
            /\ g \in Seq(Records)
        BY <1>0, <2>2, <2>4, <3>1, <4>1
      <4>3. (f = 1 <=> k = 1) /\ (k = 1 => Before(rt, ls, k) = 0)
            /\ (k # 1 => g[f - 1].n = Before(rt, ls, k))
        BY <2>7, <2>8, <2>9, <4>1
      <4>4. Doubt(Contribution(rt, g, f)) = 0 BY <3>5, <4>1
      <4>5. Weight(q, Contribution(rt, g, f)) = ExpectedWeight(rt, q, ls, n, k)
        BY <4>2, <4>3, <4>4, CodexWeight
      <4> QED BY <4>1, <4>5
    <3> QED BY <1>9, <2>6, <3>6, <3>7
  <2>11. \A f \in 1..(m + 1) : \E k \in 1..(i + 1) : G[f] = ls[k]
    <3> TAKE f \in 1..(m + 1)
    <3>1. CASE f = m + 1 BY <1>0, <1>4, <2>2, <3>1
    <3>2. CASE f \in 1..m
      <4>1. PICK k \in 1..i : F[f] = ls[k] BY <1>2, <3>2
      <4>2. G[f] = ls[k] /\ k \in 1..(i + 1) BY <1>4, <2>2, <3>2, <4>1
      <4> QED BY <4>2
    <3> QED BY <2>3, <3>1, <3>2
  <2>12. \A k \in 1..(i + 1) : \E f \in 1..(m + 1) : G[f] = ls[k]
    <3> TAKE k \in 1..(i + 1)
    <3>1. CASE k = i + 1 BY <1>0, <2>2, <2>3, <3>1
    <3>2. CASE k \in 1..i
      <4>1. PICK f \in 1..m : F[f] = ls[k] BY <1>2, <3>2
      <4> QED BY <2>2, <2>3, <4>1
    <3> QED BY <1>4, <3>1, <3>2
  <2>13. m + 1 > 0 BY <2>3
  <2> HIDE DEF m
  <2> QED BY <2>2, <2>5, <2>10, <2>11, <2>12, <2>13
<1> QED BY <1>11, <1>12

LEMMA CodexAlways ==
  ASSUME ConstantsOK, NEW ls \in Seq(Records), NEW i \in 0..Len(ls)
  PROVE  CodexTrue(ls, i)
<1> DEFINE S == {k \in Nat : k <= Len(ls) => CodexTrue(ls, k)}
<1>1. 0 \in S
  <2>1. "codex" \in Runs BY DEF Runs
  <2>2. FactsOf("codex", ls, 0) = <<>> BY <2>1, FactsOfRec
  <2>3. 1..0 = {} /\ Len(<<>>) = 0 /\ <<>> \in Seq(Records) /\ 0 \in 0..Len(ls) /\ 0 \in Nat
        /\ 0 \in 0..0
    OBVIOUS
  <2>4. ASSUME NEW q \in Queries
        PROVE  Tokens("codex", q, <<>>, 0) = ExpectedOf("codex", q, ls, 0)
    <3>1. Tokens("codex", q, <<>>, 0) = 0 BY <2>1, <2>3, TokensRec
    <3>2. ExpectedWeights("codex", q, ls, 0) \in [1..0 -> Int] BY <2>1, <2>3, ExpectedAre
    <3>3. SumOf(ExpectedWeights("codex", q, ls, 0), 0) = 0 BY <2>3, <3>2, SumRec
    <3> QED BY <3>1, <3>3 DEF ExpectedOf
  <2>5. CodexTrue(ls, 0) BY <2>2, <2>3, <2>4 DEF CodexTrue
  <2> QED BY <2>5
<1>2. ASSUME NEW k \in Nat, k \in S PROVE k + 1 \in S
  <2> SUFFICES ASSUME k + 1 <= Len(ls) PROVE CodexTrue(ls, k + 1) OBVIOUS
  <2>1. CodexTrue(ls, k) BY <1>2
  <2> QED BY <2>1, CodexStep
<1>3. i \in S
  <2> HIDE DEF S
  <2>1. i \in Nat OBVIOUS
  <2> QED BY <1>1, <1>2, <2>1, SetInduction
<1> QED BY <1>3

\* What the facts of some lines weigh is what is expected of them, unless a total went down.
LEMMA FactsWeigh ==
  ASSUME ConstantsOK, NEW rt \in Runs, NEW q \in Queries, NEW ls \in Seq(Records),
         NEW i \in 0..Len(ls), NEW F, F = FactsOf(rt, ls, i), Doubtful(rt, F, Len(F)) = 0
  PROVE  Tokens(rt, q, F, Len(F)) = ExpectedOf(rt, q, ls, i)
<1>1. CASE rt = "claude" BY <1>1, ClaudeAlways DEF ClaudeTrue
<1>2. CASE rt = "codex" BY <1>2, CodexAlways DEF CodexTrue
<1> QED BY <1>1, <1>2 DEF Runs
-----------------------------------------------------------------------------
(* Lines that were there stay what they were *)

StartsWith(ms, ls) == Len(ls) <= Len(ms) /\ \A k \in 1..Len(ls) : ms[k] = ls[k]

LEMMA SameFacts ==
  ASSUME NEW rt, NEW ls \in Seq(Records), NEW ms \in Seq(Records), StartsWith(ms, ls),
         NEW i \in 0..Len(ls)
  PROVE  FactsOf(rt, ms, i) = FactsOf(rt, ls, i)
<1>1. SubSeq(ms, 1, i) = SubSeq(ls, 1, i)
  <2>1. 0 \in Nat /\ 0 <= i /\ i \in Nat /\ i <= Len(ls) /\ i <= Len(ms) /\ 0 + 1 = 1 /\ i - 0 = i
    BY DEF StartsWith
  <2>2. /\ SubSeq(ls, 1, i) \in Seq(Records) /\ Len(SubSeq(ls, 1, i)) = i
        /\ \A k \in 1..i : SubSeq(ls, 1, i)[k] = ls[0 + k]
    <3>1. /\ SubSeq(ls, 0 + 1, i) \in Seq(Records) /\ Len(SubSeq(ls, 0 + 1, i)) = i - 0
          /\ \A k \in 1..(i - 0) : SubSeq(ls, 0 + 1, i)[k] = ls[0 + k]
      BY <2>1, SubSeqIs
    <3> QED BY <2>1, <3>1
  <2>3. /\ SubSeq(ms, 1, i) \in Seq(Records) /\ Len(SubSeq(ms, 1, i)) = i
        /\ \A k \in 1..i : SubSeq(ms, 1, i)[k] = ms[0 + k]
    <3>1. /\ SubSeq(ms, 0 + 1, i) \in Seq(Records) /\ Len(SubSeq(ms, 0 + 1, i)) = i - 0
          /\ \A k \in 1..(i - 0) : SubSeq(ms, 0 + 1, i)[k] = ms[0 + k]
      BY <2>1, SubSeqIs
    <3> QED BY <2>1, <3>1
  <2>4. \A k \in 1..i : ms[0 + k] = ls[0 + k]
    <3>1. \A k \in 1..i : 0 + k = k /\ k \in 1..Len(ls) OBVIOUS
    <3> QED BY <3>1 DEF StartsWith
  <2>5. PICK a, b : a = SubSeq(ms, 1, i) /\ b = SubSeq(ls, 1, i) OBVIOUS
  <2>6. /\ a \in Seq(Records) /\ b \in Seq(Records) /\ Len(a) = Len(b)
        /\ \A k \in 1..Len(a) : a[k] = b[k]
    BY <2>2, <2>3, <2>4, <2>5
  <2>7. a = b BY <2>6
  <2> QED BY <2>5, <2>7
<1> QED BY <1>1 DEF FactsOf

LEMMA SameExpected ==
  ASSUME NEW rt, NEW q, NEW ls \in Seq(Records), NEW ms \in Seq(Records), StartsWith(ms, ls),
         NEW i \in 0..Len(ls)
  PROVE  ExpectedOf(rt, q, ms, i) = ExpectedOf(rt, q, ls, i)
<1>1. \A k \in 1..i : ms[k] = ls[k]
  <2>1. \A k \in 1..i : k \in 1..Len(ls) OBVIOUS
  <2> QED BY <2>1 DEF StartsWith
<1>2. \A k \in 1..i : Last(rt, ms, i, k) <=> Last(rt, ls, i, k)
  <2>1. \A k \in 1..i : \A j \in (k + 1)..i : j \in 1..i OBVIOUS
  <2> QED BY <1>1, <2>1 DEF Last
<1>3. \A k \in 1..i : First(rt, ms, k) <=> First(rt, ls, k)
  <2>1. \A k \in 1..i : \A j \in 1..(k - 1) : j \in 1..i OBVIOUS
  <2> QED BY <1>1, <2>1 DEF First
<1>4. ASSUME NEW k \in 1..i PROVE Before(rt, ms, k) = Before(rt, ls, k)
  <2> DEFINE b == {j \in 1..(k - 1) : First(rt, ls, j)}
             c == {j \in 1..(k - 1) : First(rt, ms, j)}
  <2>1. \A j \in 1..(k - 1) : j \in 1..i OBVIOUS
  <2>2. b = c BY <1>3, <2>1
  <2>3. k - 1 \in Nat /\ b \in SUBSET (1..(k - 1)) OBVIOUS
  <2> HIDE DEF b, c
  <2>4. CASE b # {}
    <3>1. Greatest(b) \in 1..(k - 1) BY <2>3, <2>4, GreatestIs
    <3>2. ms[Greatest(b)] = ls[Greatest(b)] BY <1>1, <2>1, <3>1
    <3> QED BY <2>2, <3>2 DEF Before, b, c
  <2>5. CASE b = {} BY <2>2, <2>5 DEF Before, b, c
  <2> QED BY <2>4, <2>5
<1>5. \A k \in 1..i : ExpectedWeight(rt, q, ms, i, k) = ExpectedWeight(rt, q, ls, i, k)
  BY <1>1, <1>2, <1>3, <1>4 DEF ExpectedWeight
<1>6. ExpectedWeights(rt, q, ms, i) = ExpectedWeights(rt, q, ls, i)
  BY <1>5 DEF ExpectedWeights
<1> QED BY <1>6 DEF ExpectedOf

-----------------------------------------------------------------------------
(* The inductive invariant *)

FactsTrue(rt, f, d) ==
  /\ d.index = None => d.facts = <<>>
  /\ d.index # None => IndexSound(f, d.index) /\ Len(d.facts) <= d.index.off \div 2
  /\ OfFile(f, d.index) => d.facts = FactsOf(rt, f.lines, d.index.off \div 2)

\* Two looks at one time are one look.
SameLook(s, u) == s.at = u.at => s = u
Summing(c) == c.at \in {"sum", "end"}

\* What the calls of the daemon (c) and of the other process (e) saw.
LooksTrue(f, d, c, e) ==
  /\ c.fd # None => StampSound(f, c.fd)
  /\ e.fd # None => StampSound(f, e.fd)
  /\ c.at # "idle" =>
       /\ StampSound(f, c.src)
       /\ c.fd # None => SameLook(c.fd, c.src)
       /\ e.fd # None => SameLook(e.fd, c.src)
       /\ d.index # None => SameLook(StampOf(d.index), c.src)
  /\ Summing(c) =>
       IndexSound(f, c.index) /\ SameLook(StampOf(c.index), c.src) /\ d.index # None
FreshTrue(f, d, c, e) ==
  c.at # "idle" /\ c.fresh =>
    /\ c.src.gen = f.gen
    /\ c.fd # None => c.fd.gen = f.gen
    /\ e.fd # None => e.fd.gen = f.gen /\ e.fd.at = f.at
    /\ Summing(c) /\ OfFile(f, c.index) => OfFile(f, d.index) /\ d.index.off >= c.index.off
    /\ (c.at = "read" \/ Summing(c)) /\ c.job # "read" => OfFile(f, d.index)
    /\ Summing(c) /\ c.job # "read" => OfFile(f, c.index)
AllComplete(d) == d.cache["all"] # None /\ d.cache["all"].complete
SelfTrue(rt, f, d, c) ==
  c.at = "end" /\ c.fresh /\ ~c.self.building =>
    /\ OfFile(f, c.index) /\ ~c.self.amb =>
         \E k \in (c.index.off \div 2)..Len(f.lines) :
           c.self.sum = ExpectedOf(rt, c.q, f.lines, k)
    /\ c.job = "visit" /\ c.index.off = Size(f) => AllComplete(d)
ReadTrue(f, d, pr) ==
  pr = [fresh |-> TRUE] =>
    d.index # None /\ d.index.ino = f.ino /\ d.index.off = Size(f) /\ AllComplete(d)

Shapes(rt, f, d, c, e, qu, pr, ev) ==
  /\ rt \in Runtimes /\ f \in Files /\ Size(f) <= 2 * MaxLines
  /\ d \in Ledgers /\ c \in Calls /\ e \in Calls
  /\ HandsOK(c) /\ e.at \in {"idle", "index"} /\ (e.fd # None <=> e.at = "index")
  /\ qu \subseteq Queries /\ pr \in {None} \cup [fresh : BOOLEAN]
  /\ f.at <= MaxChanges /\ ev <= MaxEvents /\ ev \in Nat
Parts(rt, f, d, c, e) ==
  Sums(rt, d) /\ FactsTrue(rt, f, d) /\ LooksTrue(f, d, c, e) /\ FreshTrue(f, d, c, e)
    /\ SelfTrue(rt, f, d, c)
UsageInd(rt, f, d, c, e, qu, pr, ev) ==
  Shapes(rt, f, d, c, e, qu, pr, ev) /\ Parts(rt, f, d, c, e) /\ ReadTrue(f, d, pr)
UsageInductive ==
  /\ call \in [Procs -> Calls]
  /\ UsageInd(runtime, file, db, call["daemon"], call["cli"], queue, prepared, events)

LEMMA SizeIs ==
  ASSUME NEW f \in Files
  PROVE  /\ Size(f) \in Nat /\ 2 * Len(f.lines) <= Size(f) /\ Size(f) \div 2 = Len(f.lines)
         /\ Len(f.lines) \in Nat
         /\ Size(f) = 2 * Len(f.lines) + (IF f.tail THEN 1 ELSE 0)
         /\ Size(f) <= 2 * Len(f.lines) + 1
         /\ ~f.tail => Size(f) = 2 * Len(f.lines)
<1>1. Len(f.lines) \in Nat /\ f.tail \in BOOLEAN BY DEF Files
<1>2. PICK n, t : n = Len(f.lines) /\ t = (IF f.tail THEN 1 ELSE 0) OBVIOUS
<1>3. Size(f) = 2 * n + t BY <1>2 DEF Size
<1>4. n \in Nat /\ t \in {0, 1} BY <1>1, <1>2
<1>5. /\ 2 * n + t \in Nat /\ 2 * n <= 2 * n + t /\ (2 * n + t) \div 2 = n
      /\ 2 * n + t <= 2 * n + 1 /\ (t = 0 => 2 * n + t = 2 * n)
  BY <1>4
<1>6. ~f.tail => t = 0 BY <1>2
<1> QED BY <1>2, <1>3, <1>4, <1>5, <1>6

LEMMA StampIs ==
  ASSUME NEW f \in Files
  PROVE  /\ Stamp(f) \in Stamps /\ StampSound(f, Stamp(f))
         /\ Stamp(f).gen = f.gen /\ Stamp(f).at = f.at /\ Stamp(f).ino = f.ino
         /\ Stamp(f).size = Size(f)
<1>1. Size(f) \in Nat BY SizeIs
<1>2. f.gen \in Gens /\ f.ino \in 1..2 /\ f.at \in Nat BY DEF Files
<1>3. f.gen \in Int BY <1>2 DEF Gens
<1> QED BY <1>1, <1>2, <1>3 DEF Stamp, Stamps, StampSound

\* An index is known by the look it was made from.
LEMMA IndexIs ==
  ASSUME NEW i \in Indexes
  PROVE  /\ StampOf(i) \in Stamps /\ StampOf(i).gen = i.head[1] /\ StampOf(i).ino = i.ino
         /\ StampOf(i).at = i.at /\ StampOf(i).size = i.seen /\ i.off \in Nat /\ i.seen \in Nat
         /\ i.head[1] \in Gens
BY DEF Indexes, StampOf, Stamps

\* Of this file it read no more than is there.
LEMMA OffIs ==
  ASSUME NEW f \in Files, NEW i \in Indexes, IndexSound(f, i), i.head[1] = f.gen
  PROVE  /\ i.off <= Size(f) /\ i.off \div 2 \in 0..Len(f.lines) /\ i.ino = f.ino
         /\ i.seen <= Size(f) /\ (i.seen = Size(f) => i.at = f.at)
<1>1. i.off \in Nat /\ i.seen \in Nat BY IndexIs
<1>2. i.off <= i.seen /\ StampSound(f, StampOf(i)) BY DEF IndexSound
<1>3. i.seen <= Size(f) /\ i.ino = f.ino /\ (i.seen = Size(f) => i.at = f.at)
  BY <1>2, IndexIs DEF StampSound
<1>4. Size(f) \in Nat /\ Size(f) \div 2 = Len(f.lines) /\ Len(f.lines) \in Nat BY SizeIs
<1>5. i.off <= Size(f) BY <1>1, <1>2, <1>3, <1>4
<1>6. i.off \div 2 <= Size(f) \div 2 /\ i.off \div 2 \in Nat BY <1>1, <1>4, <1>5
<1> QED BY <1>3, <1>4, <1>5, <1>6

-----------------------------------------------------------------------------
(* The transcript changes *)

Grown(f, g) ==
  /\ g.gen = f.gen /\ g.ino = f.ino /\ g.at = f.at + 1 /\ g.old = f.old
  /\ Size(g) > Size(f) /\ StartsWith(g.lines, f.lines)
Renewed(f, g) ==
  /\ g.gen = f.gen + 1 /\ g.at = f.at + 1
  /\ g.ino = f.ino \/ g.old = f.lines
\* A call that was told, or not, that its look is an old one.
Aged(c, b, fresh) ==
  /\ b.at = c.at /\ b.job = c.job /\ b.q = c.q /\ b.src = c.src /\ b.fd = c.fd
  /\ b.index = c.index /\ b.self = c.self /\ b.fresh = fresh

LEMMA StampGrown ==
  ASSUME NEW f \in Files, NEW g \in Files, Grown(f, g), NEW s \in Stamps, StampSound(f, s)
  PROVE  StampSound(g, s)
<1>1. Size(f) \in Nat /\ Size(g) \in Nat BY SizeIs
<1>2. s.gen \in Int /\ s.at \in Int /\ s.size \in Int BY DEF Stamps, Gens
<1>3. f.at \in Int /\ f.gen \in Int BY DEF Files, Gens
<1>4. s.at <= f.at /\ s.gen <= f.gen BY DEF StampSound
<1>5. s.at <= g.at /\ s.at # g.at BY <1>2, <1>3, <1>4 DEF Grown
<1>6. s.gen = g.gen => s.ino = g.ino /\ s.size <= Size(g) /\ s.size # Size(g)
  BY <1>1, <1>2 DEF StampSound, Grown
<1>7. s.ino # g.ino => s.size \div 2 <= Len(g.old) BY DEF StampSound, Grown
<1>8. s.gen <= g.gen BY <1>4 DEF Grown
<1> QED BY <1>5, <1>6, <1>7, <1>8 DEF StampSound

LEMMA StampRenewed ==
  ASSUME NEW f \in Files, NEW g \in Files, Renewed(f, g), NEW s \in Stamps, StampSound(f, s)
  PROVE  StampSound(g, s) /\ s.gen # g.gen
<1>1. Size(f) \in Nat /\ Size(f) \div 2 = Len(f.lines) BY SizeIs
<1>2. s.gen \in {1, 2} /\ s.at \in Int /\ s.size \in Nat BY DEF Stamps, Gens
<1>3. f.at \in Int /\ f.gen \in {1, 2} /\ g.gen \in {1, 2} BY DEF Files, Gens
<1>4. s.at <= f.at /\ s.gen <= f.gen BY DEF StampSound
<1>5. s.at <= g.at /\ s.at # g.at BY <1>2, <1>3, <1>4 DEF Renewed
<1>6. f.gen = 1 /\ g.gen = 2 /\ s.gen = 1 BY <1>2, <1>3, <1>4 DEF Renewed
<1>7. s.ino = f.ino /\ s.size <= Size(f) BY <1>6 DEF StampSound
<1>8. s.ino # g.ino => s.size \div 2 <= Len(g.old)
  <2> SUFFICES ASSUME s.ino # g.ino PROVE s.size \div 2 <= Len(g.old) OBVIOUS
  <2>1. g.old = f.lines BY <1>7 DEF Renewed
  <2>2. s.size \div 2 <= Size(f) \div 2 BY <1>1, <1>2, <1>7
  <2> QED BY <1>1, <2>1, <2>2
<1> QED BY <1>5, <1>6, <1>8 DEF StampSound

\* What is known of looks does not depend on what the file gets.
LEMMA LooksKept ==
  ASSUME NEW f \in Files, NEW g \in Files, NEW d \in Ledgers, NEW c \in Calls, NEW e \in Calls,
         HandsOK(c), LooksTrue(f, d, c, e), Grown(f, g) \/ Renewed(f, g),
         NEW b \in Calls, NEW x \in BOOLEAN, Aged(c, b, x), NEW a \in Calls, a.fd = e.fd
  PROVE  LooksTrue(g, d, b, a)
<1>1. \A s \in Stamps : StampSound(f, s) => StampSound(g, s) BY StampGrown, StampRenewed
<1>2. /\ c.fd \in {None} \cup Stamps /\ e.fd \in {None} \cup Stamps
      /\ c.src \in {None} \cup Stamps /\ c.index \in {None} \cup Indexes
  BY DEF Calls
<1>3. c.at # "idle" => c.src # None BY DEF HandsOK
<1>4. Summing(c) => c.index # None BY DEF HandsOK, Summing
<1>5. \A i \in Indexes : IndexSound(f, i) => IndexSound(g, i)
  BY <1>1, IndexIs DEF IndexSound
<1>6. \A s \in {None} \cup Stamps : s # None => s \in Stamps OBVIOUS
<1> QED BY <1>1, <1>2, <1>3, <1>4, <1>5, <1>6 DEF LooksTrue, Aged, Summing

LEMMA GrownKeeps ==
  ASSUME ConstantsOK, NEW rt \in Runs, NEW f \in Files, NEW g \in Files, Grown(f, g),
         NEW d \in Ledgers, NEW c \in Calls, NEW e \in Calls, HandsOK(c), Parts(rt, f, d, c, e),
         NEW b \in Calls, NEW x \in BOOLEAN, Aged(c, b, x), NEW a \in Calls, a.fd = e.fd,
         c.at # "idle" /\ x => c.fresh /\ e.fd = None
  PROVE  Parts(rt, g, d, b, a)
<1>1. LooksTrue(g, d, b, a) BY LooksKept DEF Parts
<1>2. d.index \in {None} \cup Indexes BY DEF Ledgers
<1>3. /\ \A i : OfFile(g, i) <=> OfFile(f, i)
      /\ g.gen = f.gen
  BY DEF OfFile, Grown
<1>4. f.lines \in Seq(Records) /\ g.lines \in Seq(Records) /\ StartsWith(g.lines, f.lines)
  BY DEF Files, Grown
<1>5. \A i \in Indexes : IndexSound(f, i) => IndexSound(g, i)
  BY StampGrown, IndexIs DEF IndexSound
<1>6. FactsTrue(rt, g, d)
  <2>1. OfFile(f, d.index) => d.index.off \div 2 \in 0..Len(f.lines)
    <3>1. OfFile(f, d.index) => d.index \in Indexes /\ d.index # None /\ d.index.head[1] = f.gen
      BY <1>2 DEF OfFile
    <3>2. d.index # None => IndexSound(f, d.index) BY DEF Parts, FactsTrue
    <3> QED BY <3>1, <3>2, OffIs
  <2>2. OfFile(f, d.index) =>
          FactsOf(rt, g.lines, d.index.off \div 2) = FactsOf(rt, f.lines, d.index.off \div 2)
    BY <1>4, <2>1, SameFacts
  <2> QED BY <1>2, <1>3, <1>5, <2>2 DEF Parts, FactsTrue
<1>7. FreshTrue(g, d, b, a) BY <1>3 DEF Parts, FreshTrue, Aged, Summing
<1>8. SelfTrue(rt, g, d, b)
  <2> SUFFICES ASSUME b.at = "end", b.fresh, ~b.self.building
               PROVE  /\ OfFile(g, b.index) /\ ~b.self.amb =>
                           \E k \in (b.index.off \div 2)..Len(g.lines) :
                             b.self.sum = ExpectedOf(rt, b.q, g.lines, k)
                      /\ b.job = "visit" /\ b.index.off = Size(g) => AllComplete(d)
    BY DEF SelfTrue
  <2>1. c.at = "end" /\ c.fresh /\ ~c.self.building BY DEF Aged
  <2>2. c.index \in Indexes /\ IndexSound(f, c.index)
    <3>1. c.index # None BY <2>1 DEF HandsOK
    <3> QED BY <2>1, <3>1 DEF Calls, Parts, LooksTrue, Summing
  <2>3. ASSUME OfFile(g, b.index), ~b.self.amb
        PROVE  \E k \in (b.index.off \div 2)..Len(g.lines) :
                 b.self.sum = ExpectedOf(rt, b.q, g.lines, k)
    <3>1. OfFile(f, c.index) /\ ~c.self.amb BY <1>3, <2>3 DEF Aged
    <3>2. PICK k \in (c.index.off \div 2)..Len(f.lines) :
            c.self.sum = ExpectedOf(rt, c.q, f.lines, k)
      BY <2>1, <3>1 DEF Parts, SelfTrue
    <3>3. c.index.off \div 2 \in 0..Len(f.lines) BY <2>2, <3>1, OffIs DEF OfFile
    <3>4. k \in 0..Len(f.lines) /\ k \in (c.index.off \div 2)..Len(g.lines)
      <4>1. Len(f.lines) \in Nat /\ Len(g.lines) \in Nat /\ Len(f.lines) <= Len(g.lines)
        BY <1>4 DEF StartsWith
      <4> QED BY <3>3, <4>1
    <3>5. ExpectedOf(rt, c.q, g.lines, k) = ExpectedOf(rt, c.q, f.lines, k)
      BY <1>4, <3>4, SameExpected
    <3> QED BY <3>2, <3>4, <3>5 DEF Aged
  <2>4. ASSUME b.job = "visit" PROVE b.index.off # Size(g)
    <3>1. c.job = "visit" /\ c.job # "read" BY <2>4 DEF Aged
    <3>2. OfFile(f, c.index) BY <2>1, <3>1 DEF Parts, FreshTrue, Summing
    <3>3. c.index.off <= Size(f) BY <2>2, <3>2, OffIs DEF OfFile
    <3>4. c.index.off \in Nat /\ Size(f) \in Nat /\ Size(g) \in Nat /\ Size(f) < Size(g)
      BY <2>2, IndexIs, SizeIs DEF Grown
    <3> QED BY <3>3, <3>4 DEF Aged
  <2> QED BY <2>3, <2>4
<1> QED BY <1>1, <1>6, <1>7, <1>8 DEF Parts

LEMMA RenewedKeeps ==
  ASSUME NEW rt, NEW f \in Files, NEW g \in Files, Renewed(f, g),
         NEW d \in Ledgers, NEW c \in Calls, NEW e \in Calls, HandsOK(c), Parts(rt, f, d, c, e),
         NEW b \in Calls, NEW x \in BOOLEAN, Aged(c, b, x), NEW a \in Calls, a.fd = e.fd,
         c.at = "idle" \/ ~x
  PROVE  Parts(rt, g, d, b, a)
<1>1. LooksTrue(g, d, b, a) BY LooksKept DEF Parts
<1>2. d.index \in {None} \cup Indexes BY DEF Ledgers
<1>3. d.index # None => IndexSound(f, d.index) BY DEF Parts, FactsTrue
<1>4. d.index # None => IndexSound(g, d.index) /\ ~OfFile(g, d.index)
  BY <1>2, <1>3, StampRenewed, IndexIs DEF IndexSound, OfFile
<1>5. FactsTrue(rt, g, d) BY <1>4 DEF Parts, FactsTrue, OfFile
<1>6. FreshTrue(g, d, b, a) BY DEF FreshTrue, Aged
<1>7. SelfTrue(rt, g, d, b) BY DEF SelfTrue, Aged
<1> QED BY <1>1, <1>5, <1>6, <1>7 DEF Parts

-----------------------------------------------------------------------------
(* The steps of a call that leave the file and the ledger alone *)

\* One step of a call: what it keeps of what it has in hand.
Moves(c, b) == b.job = c.job /\ b.q = c.q /\ b.src = c.src /\ b.fresh = c.fresh

LEMMA DoneKeeps ==
  ASSUME NEW rt, NEW f, NEW d, NEW c, NEW e, Parts(rt, f, d, c, e),
         NEW b, b.at = "idle", b.fd = None, NEW a, a.fd = e.fd \/ a.fd = None
  PROVE  Parts(rt, f, d, b, a)
BY DEF Parts, LooksTrue, FreshTrue, SelfTrue, Summing

LEMMA ReaderDoneKeeps ==
  ASSUME NEW rt, NEW f, NEW d, NEW c, NEW e, Parts(rt, f, d, c, e), NEW a, a.fd = None
  PROVE  Parts(rt, f, d, c, a)
BY DEF Parts, LooksTrue, FreshTrue, SelfTrue, Summing

LEMMA CalledKeeps ==
  ASSUME NEW rt, NEW f \in Files, NEW d \in Ledgers, NEW c, NEW e \in Calls,
         Parts(rt, f, d, c, e),
         NEW b, b.at \in {"read", "open"}, b.src = Stamp(f), b.fd = None,
         b.at = "read" => b.job = "read",
         b.fresh => (e.fd # None => e.fd.at = f.at)
  PROVE  Parts(rt, f, d, b, e)
<1>1. b.at # "idle" /\ ~Summing(b) /\ b.at # "end" BY DEF Summing
<1>2. \A s : StampSound(f, s) => SameLook(s, b.src) BY StampIs DEF StampSound, SameLook
<1>3. d.index # None => StampSound(f, StampOf(d.index)) BY DEF Parts, FactsTrue, IndexSound
<1>4. e.fd # None => StampSound(f, e.fd) BY DEF Parts, LooksTrue
<1>5. LooksTrue(f, d, b, e) BY <1>1, <1>2, <1>3, <1>4, StampIs DEF LooksTrue
<1>6. b.src.gen = f.gen /\ (e.fd # None /\ e.fd.at = f.at => e.fd.gen = f.gen)
  BY <1>4, StampIs DEF StampSound
<1>7. FreshTrue(f, d, b, e) BY <1>1, <1>6 DEF FreshTrue
<1>8. SelfTrue(rt, f, d, b) BY <1>1 DEF SelfTrue
<1> QED BY <1>5, <1>7, <1>8 DEF Parts

LEMMA OpenKeeps ==
  ASSUME NEW rt, NEW f \in Files, NEW d \in Ledgers, NEW c, NEW e,
         Parts(rt, f, d, c, e), c.at = "open",
         NEW b, Moves(c, b), b.at = "index", b.fd = Stamp(f)
  PROVE  Parts(rt, f, d, b, e)
<1>1. c.at # "idle" /\ b.at # "idle" /\ ~Summing(b) /\ b.at # "end" /\ b.at # "read"
  BY DEF Summing
<1>2. StampSound(f, c.src) /\ StampSound(f, Stamp(f)) BY <1>1, StampIs DEF Parts, LooksTrue
<1>3. SameLook(Stamp(f), c.src) BY <1>2, StampIs DEF SameLook, StampSound
<1>4. LooksTrue(f, d, b, e) BY <1>1, <1>2, <1>3 DEF Parts, LooksTrue, Moves
<1>5. FreshTrue(f, d, b, e) BY <1>1, StampIs DEF Parts, FreshTrue, Moves
<1>6. SelfTrue(rt, f, d, b) BY <1>1 DEF SelfTrue
<1> QED BY <1>4, <1>5, <1>6 DEF Parts

LEMMA ReaderOpensKeeps ==
  ASSUME NEW rt, NEW f \in Files, NEW d, NEW c, NEW e, Parts(rt, f, d, c, e),
         NEW a, a.fd = Stamp(f)
  PROVE  Parts(rt, f, d, c, a)
<1>1. StampSound(f, Stamp(f)) BY StampIs
<1>2. c.at # "idle" => SameLook(Stamp(f), c.src)
  BY StampIs DEF Parts, LooksTrue, SameLook, StampSound
<1>3. LooksTrue(f, d, c, a) BY <1>1, <1>2 DEF Parts, LooksTrue
<1>4. FreshTrue(f, d, c, a) BY StampIs DEF Parts, FreshTrue
<1> QED BY <1>3, <1>4 DEF Parts

LEMMA LoadedKeeps ==
  ASSUME NEW rt, NEW f, NEW d, NEW c, NEW e, Parts(rt, f, d, c, e), c.at = "index", c.fd # None,
         d.index # None, d.index.head[1] = c.fd.gen,
         NEW b, Moves(c, b), b.at = "read", b.fd = None
  PROVE  Parts(rt, f, d, b, e)
<1>1. c.at # "idle" /\ b.at # "idle" /\ ~Summing(b) /\ b.at # "end" BY DEF Summing
<1>2. LooksTrue(f, d, b, e) BY <1>1 DEF Parts, LooksTrue, Moves
<1>3. FreshTrue(f, d, b, e) BY <1>1 DEF Parts, FreshTrue, Moves, OfFile
<1>4. SelfTrue(rt, f, d, b) BY <1>1 DEF SelfTrue
<1> QED BY <1>2, <1>3, <1>4 DEF Parts

LEMMA IndexReadKeeps ==
  ASSUME NEW rt, NEW f, NEW d \in Ledgers, NEW c, NEW e, Parts(rt, f, d, c, e), c.at = "read",
         d.index # None, NEW b, Moves(c, b), b.at = "sum", b.fd = c.fd, b.index = d.index
  PROVE  Parts(rt, f, d, b, e)
<1>1. c.at # "idle" /\ b.at # "idle" /\ b.at # "end" OBVIOUS
<1>2. IndexSound(f, d.index) BY DEF Parts, FactsTrue
<1>3. LooksTrue(f, d, b, e) BY <1>1, <1>2 DEF Parts, LooksTrue, Moves
<1>4. d.index.off >= d.index.off
  <2>1. d.index \in Indexes BY DEF Ledgers
  <2>2. d.index.off \in Nat BY <2>1, IndexIs
  <2> QED BY <2>2
<1>5. FreshTrue(f, d, b, e) BY <1>1, <1>4 DEF Parts, FreshTrue, Moves
<1>6. SelfTrue(rt, f, d, b) BY <1>1 DEF SelfTrue
<1> QED BY <1>3, <1>5, <1>6 DEF Parts

\* The total a call is told of: of a cache that is complete, or it is still being built.
TotalOf(t, d, q) ==
  ~t.building => /\ d.cache[q] # None /\ d.cache[q].complete /\ t.sum = d.cache[q].sum
                 /\ t.amb = (d.cache[q].amb > 0)

LEMMA SummedKeeps ==
  ASSUME ConstantsOK, NEW rt \in Runs, NEW f \in Files, NEW d \in Ledgers, NEW c \in Calls, NEW e,
         HandsOK(c), Parts(rt, f, d, c, e), c.at = "sum",
         NEW u \in Ledgers, u.index = d.index, u.facts = d.facts, Sums(rt, u),
         NEW b, Moves(c, b), b.at = "end", b.fd = c.fd, b.index = c.index, TotalOf(b.self, u, c.q)
  PROVE  Parts(rt, f, u, b, e)
<1>1. c.at # "idle" /\ b.at # "idle" /\ c.at # "read" /\ b.at # "read" /\ Summing(c) /\ Summing(b)
  BY DEF Summing
<1>2. FactsTrue(rt, f, u) BY DEF Parts, FactsTrue
<1>3. LooksTrue(f, u, b, e) BY <1>1 DEF Parts, LooksTrue, Moves
<1>4. FreshTrue(f, u, b, e) BY <1>1 DEF Parts, FreshTrue, Moves
<1>5. SelfTrue(rt, f, u, b)
  <2> SUFFICES ASSUME b.fresh, ~b.self.building
               PROVE  /\ OfFile(f, b.index) /\ ~b.self.amb =>
                           \E k \in (b.index.off \div 2)..Len(f.lines) :
                             b.self.sum = ExpectedOf(rt, b.q, f.lines, k)
                      /\ b.job = "visit" /\ b.index.off = Size(f) => AllComplete(u)
    BY DEF SelfTrue
  <2>1. /\ u.cache[c.q] # None /\ u.cache[c.q].complete /\ b.self.sum = u.cache[c.q].sum
        /\ b.self.amb = (u.cache[c.q].amb > 0)
    BY DEF TotalOf
  <2>2. c.q \in Queries /\ (c.job = "visit" => c.q = "all") BY <1>1 DEF HandsOK
  <2>3. b.job = "visit" => AllComplete(u) BY <2>1, <2>2 DEF AllComplete, Moves
  <2>4. ASSUME OfFile(f, c.index), ~b.self.amb
        PROVE  \E k \in (c.index.off \div 2)..Len(f.lines) :
                 b.self.sum = ExpectedOf(rt, c.q, f.lines, k)
    <3>1. OfFile(f, d.index) /\ d.index.off >= c.index.off
      BY <1>1, <2>4 DEF Parts, FreshTrue, Moves
    <3>2. d.index \in Indexes /\ IndexSound(f, d.index) /\ d.index.head[1] = f.gen
      BY <3>1 DEF OfFile, Ledgers, Parts, FactsTrue
    <3>3. c.index \in Indexes /\ c.index.off \in Nat
      <4>1. c.index # None BY <1>1 DEF HandsOK
      <4> QED BY <4>1, IndexIs DEF Calls
    <3> DEFINE k == d.index.off \div 2
               F == d.facts
    <3>4. k \in 0..Len(f.lines) BY <3>2, OffIs
    <3>5. k \in (c.index.off \div 2)..Len(f.lines)
      <4>1. d.index.off \in Nat BY <3>2, IndexIs
      <4>2. c.index.off \div 2 <= d.index.off \div 2 /\ c.index.off \div 2 \in Int
        BY <3>1, <3>3, <4>1
      <4>3. Len(f.lines) \in Nat BY SizeIs
      <4> QED BY <3>4, <4>2, <4>3
    <3>6. F = FactsOf(rt, f.lines, k) BY <3>1 DEF Parts, FactsTrue
    <3>7. f.lines \in Seq(Records) /\ F \in Seq(Records) BY DEF Files, Ledgers
    <3>8. SumOK(rt, c.q, F, u.cache[c.q]) BY <2>1, <2>2 DEF Sums
    <3> HIDE DEF k, F
    <3>9. u.cache[c.q].sum = Tokens(rt, c.q, F, Len(F)) /\ u.cache[c.q].amb = Doubtful(rt, F, Len(F))
      BY <2>1, <3>8 DEF SumOK
    <3>10. Doubtful(rt, F, Len(F)) = 0
      <4>1. Len(F) \in 0..Len(F) BY <3>7
      <4>2. Doubtful(rt, F, Len(F)) \in Nat BY <3>7, <4>1, TokensRec
      <4>3. ~(u.cache[c.q].amb > 0) BY <2>1, <2>4, Zenon
      <4>4. ~(Doubtful(rt, F, Len(F)) > 0) BY <3>9, <4>3
      <4> QED BY <4>2, <4>4
    <3>11. Tokens(rt, c.q, F, Len(F)) = ExpectedOf(rt, c.q, f.lines, k)
      BY <2>2, <3>4, <3>6, <3>7, <3>10, FactsWeigh
    <3> QED BY <2>1, <3>5, <3>9, <3>11
  <2> QED BY <2>3, <2>4 DEF Moves
<1> QED BY <1>2, <1>3, <1>4, <1>5 DEF Parts

-----------------------------------------------------------------------------
(* A slice of the transcript *)

LEMMA EmptyIs ==
  /\ Empty \in Ledgers /\ Empty.facts = <<>> /\ Empty.index = None
  /\ \A q \in Queries : Empty.cache[q] = None
  /\ \A rt : Sums(rt, Empty) /\ Empty \in SoundLedgers(rt)
<1>1. Empty \in Ledgers BY DEF Empty, Ledgers
<1>2. Empty.facts = <<>> /\ Empty.index = None /\ \A q \in Queries : Empty.cache[q] = None
  BY DEF Empty
<1>3. \A rt : Sums(rt, Empty) BY <1>2 DEF Sums
<1> QED BY <1>1, <1>2, <1>3 DEF SoundLedgers

\* What an index becomes.
Ahead(d, i) == [d EXCEPT !.index = i]
LEMMA AheadIs ==
  ASSUME NEW d \in Ledgers, NEW i \in Indexes
  PROVE  /\ Ahead(d, i) \in Ledgers /\ Ahead(d, i).index = i /\ Ahead(d, i).facts = d.facts
         /\ Ahead(d, i).cache = d.cache /\ Ahead(d, i).fence = d.fence
BY DEF Ahead, Ledgers

LEMMA LeastIs ==
  ASSUME NEW a \in Nat, NEW b \in Nat
  PROVE  /\ Least(a, b) \in Nat /\ Least(a, b) <= a /\ Least(a, b) <= b
         /\ Least(a, b) = a \/ Least(a, b) = b
BY DEF Least

LEMMA AdvancedIs ==
  ASSUME ConstantsOK, runtime \in Runs, file \in Files, db \in Ledgers, Sums(runtime, db),
         FactsTrue(runtime, file, db), NEW fd \in Stamps, StampSound(file, fd), NEW slice \in Nat,
         NEW D, D = Advanced(fd, slice)
  PROVE  \/ loadStored(fd) /\ D = db
         \/ /\ D \in Ledgers /\ Sums(runtime, D) /\ FactsTrue(runtime, file, D)
            /\ D.index # None /\ StampOf(D.index) = fd
            /\ fd = Stamp(file) /\ slice = fd.size => D.index.off = Size(file)
            /\ loadStored(fd) => D.index.off # db.index.off
<1> DEFINE loaded == loadStored(fd)
           base == IF loaded THEN db ELSE Empty
           off == IF loaded THEN db.index.off ELSE 0
           most == Least(fd.size, off + slice)
           to == Least(most, Readable(fd))
           end == IF to < off THEN off ELSE to
           i == [ino |-> fd.ino, head |-> headDigest(fd), at |-> fd.at, seen |-> fd.size, off |-> end]
           seg == SubSeq(Bytes(fd), (off \div 2) + 1, end \div 2)
<1>1. D = IF loaded /\ end = off THEN db ELSE Ahead(PutAll(base, seg), i)
  BY DEF Advanced, Ahead
<1>2. CASE loaded /\ end = off BY <1>1, <1>2
<1>3. CASE ~(loaded /\ end = off)
  <2>0. D = Ahead(PutAll(base, seg), i) BY <1>1, <1>3
  <2>1. fd.gen \in Gens /\ fd.ino \in 1..2 /\ fd.at \in Nat /\ fd.size \in Nat BY DEF Stamps
  <2>2. loaded => /\ db.index # None /\ db.index \in Indexes /\ db.index.off \in Nat
                  /\ db.index.off <= fd.size /\ db.index.head[1] = fd.gen
    <3>1. loaded => db.index # None /\ db.index.head = headDigest(fd) /\ db.index.off <= fd.size
      BY DEF loadStored
    <3>2. db.index # None => db.index \in Indexes BY DEF Ledgers
    <3> QED BY <3>1, <3>2, IndexIs DEF headDigest
  <2>3. off \in Nat /\ off <= fd.size BY <2>1, <2>2
  <2>4. Bytes(fd) \in Seq(Records) /\ Len(Bytes(fd)) \in Nat BY DEF Bytes, Files
  <2>5. Readable(fd) \in Nat
    BY <2>1, SizeIs DEF Readable
  <2> HIDE DEF loaded, off
  <2>6. off + slice \in Nat /\ most \in Nat /\ most <= fd.size
    <3>1. off + slice \in Nat BY <2>3
    <3> QED BY <2>1, <3>1, LeastIs
  <2>7. to \in Nat /\ to <= fd.size /\ to <= Readable(fd)
    <3> HIDE DEF most
    <3>1. to \in Nat /\ to <= most /\ to <= Readable(fd) BY <2>5, <2>6, LeastIs
    <3> QED BY <2>1, <2>6, <3>1
  <2> HIDE DEF to
  <2>8. end = to /\ off <= to
    <3>1. CASE loaded BY <1>3, <2>3, <2>7, <3>1
    <3>2. CASE ~loaded
      <4>1. off = 0 BY <3>2 DEF off
      <4> QED BY <2>7, <4>1
    <3> QED BY <3>1, <3>2
  <2>9. to \div 2 <= Len(Bytes(fd))
    <3>1. CASE fd.ino = file.ino
      <4>1. to <= Size(file) /\ Bytes(fd) = file.lines BY <2>7, <3>1 DEF Readable, Bytes
      <4>2. Size(file) \in Nat /\ Size(file) \div 2 = Len(file.lines) BY SizeIs
      <4>3. to \div 2 <= Size(file) \div 2 BY <2>7, <4>1, <4>2
      <4> QED BY <4>1, <4>2, <4>3
    <3>2. CASE fd.ino # file.ino
      <4>1. fd.size \div 2 <= Len(Bytes(fd)) BY <3>2 DEF StampSound, Bytes
      <4>2. to \div 2 <= fd.size \div 2 /\ to \div 2 \in Nat /\ fd.size \div 2 \in Nat BY <2>1, <2>7
      <4> QED BY <2>4, <4>1, <4>2
    <3> QED BY <3>1, <3>2
  <2> HIDE DEF end
  <2> DEFINE h == off \div 2
             k == to \div 2
  <2>10. h \in Nat /\ k \in Nat /\ h <= k BY <2>3, <2>7, <2>8
  <2>11. seg = SubSeq(Bytes(fd), h + 1, k) BY <2>8
  <2> HIDE DEF h, k
  <2>12. seg \in Seq(Records) /\ Len(seg) = k - h
    <3> DEFINE ls == Bytes(fd)
    <3>1. ls \in Seq(Records) /\ k <= Len(ls) BY <2>4, <2>9 DEF k
    <3> HIDE DEF ls, seg
    <3>2. SubSeq(ls, h + 1, k) \in Seq(Records) /\ Len(SubSeq(ls, h + 1, k)) = k - h
      BY <2>10, <3>1, SubSeqIs
    <3> QED BY <2>11, <3>2 DEF ls
  <2>13. base \in SoundLedgers(runtime) BY EmptyIs DEF SoundLedgers
  <2> DEFINE P == PutAll(base, seg)
  <2> HIDE DEF base, seg
  <2>14. /\ P \in SoundLedgers(runtime) /\ P.facts = FactsAfter(runtime, base.facts, seg)
    BY <2>12, <2>13, PutAllIs
  <2>15. P \in Ledgers /\ Sums(runtime, P) BY <2>14 DEF SoundLedgers
  <2> HIDE DEF P
  <2>16. D = Ahead(P, i) BY <2>0 DEF P
  <2>17. i \in Indexes /\ i.off = to /\ StampOf(i) = fd /\ i.head = headDigest(fd) /\ i.seen = fd.size
    <3>1. headDigest(fd) \in Gens \X Nat
      <4>1. HeadUnits \in Nat BY DEF ConstantsOK
      <4>2. Least(fd.size, HeadUnits) \in Nat BY <2>1, <4>1, LeastIs
      <4> QED BY <2>1, <4>2 DEF headDigest
    <3>2. i = [ino |-> fd.ino, head |-> headDigest(fd), at |-> fd.at, seen |-> fd.size, off |-> to]
      BY <2>8
    <3> HIDE DEF i
    <3>3. i \in Indexes BY <2>1, <2>7, <3>1, <3>2 DEF Indexes
    <3>4. headDigest(fd)[1] = fd.gen BY DEF headDigest
    <3>5. fd = [gen |-> fd.gen, ino |-> fd.ino, at |-> fd.at, size |-> fd.size] BY DEF Stamps
    <3>6. StampOf(i) = fd BY <3>2, <3>4, <3>5 DEF StampOf
    <3> QED BY <3>2, <3>3, <3>6
  <2> HIDE DEF i
  <2>18. /\ D \in Ledgers /\ D.index = i /\ D.facts = P.facts /\ D.cache = P.cache
    BY <2>15, <2>16, <2>17, AheadIs
  <2>19. Sums(runtime, D) BY <2>15, <2>18 DEF Sums
  <2>20. i # None BY <2>17 DEF ConstantsOK
  <2>21. IndexSound(file, i) BY <2>7, <2>17 DEF IndexSound
  <2>22. base.facts \in Seq(Records) /\ Len(base.facts) <= h
    <3>1. CASE loaded
      <4>1. base = db /\ h = db.index.off \div 2 BY <3>1 DEF base, h, off
      <4> QED BY <2>2, <3>1, <4>1 DEF FactsTrue, Ledgers
    <3>2. CASE ~loaded
      <4>1. base.facts = <<>> BY <3>2, EmptyIs DEF base
      <4> QED BY <2>10, <4>1
    <3> QED BY <3>1, <3>2
  <2>23. Len(D.facts) <= i.off \div 2
    <3>1. Len(P.facts) <= Len(base.facts) + Len(seg) BY <2>12, <2>14, <2>22, FactsFew
    <3>2. Len(P.facts) \in Nat /\ Len(base.facts) \in Nat BY <2>15, <2>22 DEF Ledgers
    <3>3. Len(P.facts) <= k BY <2>10, <2>12, <2>22, <3>1, <3>2
    <3> QED BY <2>17, <2>18, <3>3 DEF k
  <2>24. OfFile(file, i) => D.facts = FactsOf(runtime, file.lines, i.off \div 2)
    <3> SUFFICES ASSUME OfFile(file, i) PROVE P.facts = FactsOf(runtime, file.lines, k)
      BY <2>17, <2>18 DEF k
    <3>1. i.head[1] = fd.gen BY <2>17 DEF headDigest
    <3>2. fd.gen = file.gen BY <3>1 DEF OfFile
    <3>3. fd.ino = file.ino BY <3>2 DEF StampSound
    <3>4. Bytes(fd) = file.lines BY <3>3 DEF Bytes
    <3>5. base.facts = FactsOf(runtime, file.lines, h)
      <4>1. CASE loaded
        <5>1. base = db /\ h = db.index.off \div 2 BY <4>1 DEF base, h, off
        <5>2. OfFile(file, db.index) BY <2>2, <3>2, <4>1 DEF OfFile
        <5> QED BY <5>1, <5>2 DEF FactsTrue
      <4>2. CASE ~loaded
        <5>1. base.facts = <<>> BY <4>2, EmptyIs DEF base
        <5>2. h = 0 BY <4>2 DEF h, off
        <5>3. file.lines \in Seq(Records) BY DEF Files
        <5> QED BY <5>1, <5>2, <5>3, FactsOfRec
      <4> QED BY <4>1, <4>2
    <3>6. PICK ls, fs : ls = file.lines /\ fs = <<>> OBVIOUS
    <3>7. ls \in Seq(Records) /\ fs \in Seq(Records) BY <3>6 DEF Files
    <3>8. k <= Len(ls) BY <2>9, <3>4, <3>6 DEF k
    <3>9. FactsAfter(runtime, FactsAfter(runtime, fs, SubSeq(ls, 1, h)), SubSeq(ls, h + 1, k)) =
            FactsAfter(runtime, fs, SubSeq(ls, 1, k))
      BY <2>10, <3>7, <3>8, FactsConcat
    <3>10. seg = SubSeq(ls, h + 1, k) BY <2>11, <3>4, <3>6 DEF seg
    <3> QED BY <2>14, <3>5, <3>6, <3>9, <3>10 DEF FactsOf
  <2>25. FactsTrue(runtime, file, D) BY <2>18, <2>20, <2>21, <2>23, <2>24 DEF FactsTrue
  <2>26. ASSUME fd = Stamp(file), slice = fd.size PROVE i.off = Size(file)
    <3>1. fd.size = Size(file) /\ fd.ino = file.ino /\ Size(file) \in Nat BY <2>26, StampIs, SizeIs
    <3>2. Readable(fd) = Size(file) BY <3>1 DEF Readable
    <3>3. most = Size(file) BY <2>3, <2>26, <3>1 DEF most, Least
    <3>4. to = Size(file) BY <3>1, <3>2, <3>3 DEF to, Least
    <3> QED BY <2>17, <3>4
  <2>27. loaded => i.off # db.index.off
    <3>1. loaded => off = db.index.off BY DEF off
    <3> QED BY <1>3, <2>8, <2>17, <3>1
  <2> QED BY <2>17, <2>18, <2>19, <2>20, <2>25, <2>26, <2>27 DEF loaded
<1> QED BY <1>2, <1>3

LEMMA AdvancedKeeps ==
  ASSUME NEW rt, NEW f, NEW d, NEW c, NEW e, Parts(rt, f, d, c, e),
         c.at = "index", c.fd # None,
         NEW u, Sums(rt, u), FactsTrue(rt, f, u), u.index \in Indexes, u.index # None,
         StampOf(u.index) = c.fd,
         NEW b, Moves(c, b), b.at = "read", b.fd = None
  PROVE  Parts(rt, f, u, b, e)
<1>1. c.at # "idle" /\ b.at # "idle" /\ ~Summing(b) /\ b.at # "end" BY DEF Summing
<1>2. LooksTrue(f, u, b, e) BY <1>1 DEF Parts, LooksTrue, Moves
<1>3. u.index.head[1] = c.fd.gen BY IndexIs
<1>4. FreshTrue(f, u, b, e) BY <1>1, <1>3 DEF Parts, FreshTrue, Moves, OfFile
<1>5. SelfTrue(rt, f, u, b) BY <1>1 DEF SelfTrue
<1> QED BY <1>2, <1>4, <1>5 DEF Parts

LEMMA ReaderAdvancedKeeps ==
  ASSUME NEW rt, NEW f \in Files, NEW d \in Ledgers, NEW c \in Calls, NEW e,
         HandsOK(c), Parts(rt, f, d, c, e), e.fd # None,
         NEW u \in Ledgers, Sums(rt, u), FactsTrue(rt, f, u), u.index # None,
         StampOf(u.index) = e.fd,
         e.fd = Stamp(f) => u.index.off = Size(f),
         e.fd = Stamp(f) => ~(OfFile(f, d.index) /\ d.index.off = Size(f)),
         NEW a, a.fd = None
  PROVE  Parts(rt, f, u, c, a)
<1>1. u.index \in Indexes BY DEF Ledgers
<1>2. u.index.head[1] = e.fd.gen BY <1>1, IndexIs
<1>3. LooksTrue(f, u, c, a) BY DEF Parts, LooksTrue
<1>4. c.at # "idle" /\ c.fresh => e.fd = Stamp(f) /\ OfFile(f, u.index) /\ u.index.off = Size(f)
  BY <1>2, StampIs DEF Parts, LooksTrue, FreshTrue, StampSound, OfFile
<1>5. Summing(c) => c.index \in Indexes /\ IndexSound(f, c.index)
  <2>1. Summing(c) => c.index # None BY DEF HandsOK, Summing
  <2> QED BY <2>1 DEF Calls, Parts, LooksTrue
<1>6. Summing(c) /\ OfFile(f, c.index) => Size(f) >= c.index.off
  <2> SUFFICES ASSUME Summing(c), OfFile(f, c.index) PROVE Size(f) >= c.index.off OBVIOUS
  <2>1. c.index.off <= Size(f) BY <1>5, OffIs DEF OfFile
  <2>2. c.index.off \in Nat /\ Size(f) \in Nat BY <1>5, IndexIs, SizeIs
  <2> QED BY <2>1, <2>2
<1>7. FreshTrue(f, u, c, a) BY <1>4, <1>6 DEF Parts, FreshTrue
<1>8. SelfTrue(rt, f, u, c)
  <2> SUFFICES ASSUME c.at = "end", c.fresh, ~c.self.building
               PROVE  c.job = "visit" => c.index.off # Size(f)
    BY DEF Parts, SelfTrue
  <2> SUFFICES ASSUME c.job = "visit", c.index.off = Size(f) PROVE FALSE OBVIOUS
  <2>1. c.at # "idle" /\ Summing(c) /\ c.job # "read" BY DEF Summing
  <2>2. OfFile(f, c.index) /\ OfFile(f, d.index) /\ d.index.off >= c.index.off
    BY <2>1 DEF Parts, FreshTrue
  <2>3. d.index \in Indexes /\ IndexSound(f, d.index) /\ d.index.head[1] = f.gen
    BY <2>2 DEF OfFile, Ledgers, Parts, FactsTrue
  <2>4. d.index.off <= Size(f) /\ d.index.off \in Nat /\ Size(f) \in Nat
    BY <2>3, OffIs, IndexIs, SizeIs
  <2>5. d.index.off = Size(f) BY <2>2, <2>4
  <2> QED BY <1>4, <2>1, <2>2, <2>5
<1> QED BY <1>3, <1>7, <1>8 DEF Parts

\* An index that read all of the file is loaded.
LEMMA ReadIsLoaded ==
  ASSUME file \in Files, db \in Ledgers, OfFile(file, db.index), IndexSound(file, db.index),
         db.index.off = Size(file), ConstantsOK
  PROVE  loadStored(Stamp(file))
<1> DEFINE i == db.index
           s == Stamp(file)
<1>1. i \in Indexes /\ i.head[1] = file.gen /\ i # None BY DEF OfFile, Ledgers
<1>2. i.ino = file.ino /\ i.seen <= Size(file) /\ (i.seen = Size(file) => i.at = file.at)
  BY <1>1, OffIs
<1>3. i.off <= i.seen /\ i.off \in Nat /\ i.seen \in Nat /\ Size(file) \in Nat
  BY <1>1, IndexIs, SizeIs DEF IndexSound
<1>4. i.seen = Size(file) BY <1>2, <1>3
<1>5. s.ino = file.ino /\ s.size = Size(file) /\ s.at = file.at /\ s.gen = file.gen BY StampIs
<1>6. i.head = headDigest(s)
  <2>1. i.head = headDigest(StampOf(i)) BY DEF IndexSound
  <2>2. StampOf(i).gen = s.gen /\ StampOf(i).size = s.size BY <1>1, <1>4, <1>5, IndexIs
  <2> QED BY <2>1, <2>2 DEF headDigest
<1> HIDE DEF s
<1>7. i.off <= s.size /\ i.ino = s.ino /\ i.at = s.at BY <1>2, <1>3, <1>4, <1>5
<1>8. loadStored(s) BY <1>1, <1>6, <1>7 DEF loadStored
<1> QED BY <1>8 DEF s

-----------------------------------------------------------------------------
(* A page of a total *)

LEMMA ExtendedIs ==
  ASSUME ConstantsOK, runtime \in Runs, NEW d \in Ledgers, NEW q, NEW c \in Caches,
         SumOK(runtime, q, d.facts, c), NEW x, x = Extended(d, q, c)
  PROVE  x \in Caches /\ SumOK(runtime, q, d.facts, x) /\ (c.complete => x = c)
<1> DEFINE facts == d.facts
           m == Len(facts)
           last == Least(m, c.through + Page)
           A == Added(c, q, facts, c.through, last)
<1>1. CASE c.complete BY <1>1 DEF Extended
<1>2. CASE ~c.complete
  <2>1. x = [A EXCEPT !.through = last, !.complete = (last = m)] BY <1>2 DEF Extended
  <2>2. facts \in Seq(Records) /\ m \in Nat BY DEF Ledgers
  <2>3. c.through \in Nat /\ c.sum \in Nat /\ c.amb \in Nat /\ Page \in Nat
    BY DEF Caches, ConstantsOK
  <2>4. c.through <= m /\ c.sum = Tokens(runtime, q, facts, c.through)
        /\ c.amb = Doubtful(runtime, facts, c.through)
    BY <1>2 DEF SumOK
  <2>5. last \in c.through..m /\ c.through \in 0..m /\ last \in 0..m
    <3>1. c.through + Page \in Nat /\ c.through <= c.through + Page BY <2>3
    <3> QED BY <2>2, <2>3, <2>4, <3>1 DEF Least
  <2> HIDE DEF last
  <2>6. c \in IntCaches BY CachesAre
  <2>7. A = CacheOf(c.sum + Tokens(runtime, q, facts, last) - Tokens(runtime, q, facts, c.through),
                    c.amb + Doubtful(runtime, facts, last) - Doubtful(runtime, facts, c.through),
                    c.through, c.complete)
    <3> HIDE DEF facts
    <3>1. last \in c.through..Len(facts) /\ c.through \in 0..Len(facts) BY <2>5
    <3> QED BY <2>2, <2>6, <3>1, AddedIs
  <2>8. /\ Tokens(runtime, q, facts, last) \in Nat /\ Doubtful(runtime, facts, last) \in Nat
    <3> HIDE DEF facts
    <3> QED BY <2>2, <2>5, TokensRec
  <2> HIDE DEF facts, A
  <2>9. PICK s, a : s = Tokens(runtime, q, facts, last) /\ a = Doubtful(runtime, facts, last) OBVIOUS
  <2>10. s \in Nat /\ a \in Nat BY <2>8, <2>9
  <2>11. c.sum + s - c.sum = s /\ c.amb + a - c.amb = a BY <2>3, <2>10
  <2>12. A = CacheOf(s, a, c.through, c.complete) BY <2>4, <2>7, <2>9, <2>11
  <2>13. x = CacheOf(s, a, last, last = m) BY <2>1, <2>12 DEF CacheOf
  <2>14. x.sum = s /\ x.amb = a /\ x.through = last /\ (x.complete <=> last = m) /\ x.complete \in BOOLEAN
    <3>1. PICK w : w = (last = m) OBVIOUS
    <3>2. w \in BOOLEAN /\ (w <=> last = m) BY <3>1, Zenon
    <3>3. x = [sum |-> s, amb |-> a, through |-> last, complete |-> w] BY <2>13, <3>1, Zenon DEF CacheOf
    <3>4. x.sum = s /\ x.amb = a /\ x.through = last /\ x.complete = w BY <3>3
    <3> QED BY <3>2, <3>4, Zenon
  <2>15. x \in Caches
    <3>1. last \in Nat /\ (last = m) \in BOOLEAN BY <2>5
    <3> QED BY <2>10, <2>13, <3>1 DEF Caches, CacheOf
  <2>16. last <= m BY <2>2, <2>5
  <2>17. (IF x.complete THEN m ELSE x.through) = last BY <2>14
  <2>18. SumOK(runtime, q, facts, x)
    <3> HIDE DEF m
    <3>1. m = Len(facts) BY DEF m
    <3> QED BY <2>9, <2>14, <2>16, <2>17, <3>1 DEF SumOK
  <2> QED BY <1>2, <2>15, <2>18 DEF facts
<1> QED BY <1>1, <1>2

LEMMA NewCacheIs ==
  ASSUME ConstantsOK, NEW rt \in Runs, NEW q, NEW facts \in Seq(Records)
  PROVE  NewCache \in Caches /\ SumOK(rt, q, facts, NewCache)
<1>1. NewCache \in Caches BY DEF NewCache, Caches
<1>2. Tokens(rt, q, facts, 0) = 0 /\ Doubtful(rt, facts, 0) = 0 BY TokensRec
<1>3. 0 <= Len(facts) OBVIOUS
<1>4. SumOK(rt, q, facts, NewCache) BY <1>2, <1>3 DEF SumOK, NewCache
<1> QED BY <1>1, <1>4

\* A ledger with a total of a query put in its place.
Kept(d, q, x) == [d EXCEPT !.cache[q] = x]
LEMMA KeptIs ==
  ASSUME NEW d \in Ledgers, NEW q \in Queries, NEW x \in {None} \cup Caches
  PROVE  /\ Kept(d, q, x) \in Ledgers /\ Kept(d, q, x).index = d.index
         /\ Kept(d, q, x).facts = d.facts /\ Kept(d, q, x).cache[q] = x
         /\ \A p \in Queries : p # q => Kept(d, q, x).cache[p] = d.cache[p]
<1> DEFINE u == Kept(d, q, x)
<1>1. u.index = d.index /\ u.facts = d.facts /\ u.fence = d.fence
      /\ u.cache = [d.cache EXCEPT ![q] = x]
  BY DEF Kept, Ledgers
<1>2. d.cache \in [Queries -> {None} \cup Caches] BY DEF Ledgers
<1>3. u.cache \in [Queries -> {None} \cup Caches] /\ u.cache[q] = x
      /\ \A p \in Queries : p # q => u.cache[p] = d.cache[p]
  BY <1>1, <1>2
<1>4. u \in Ledgers
  <2>1. u = [index |-> d.index, facts |-> d.facts, cache |-> [d.cache EXCEPT ![q] = x],
             fence |-> d.fence]
    BY DEF Kept, Ledgers
  <2>2. d.index \in {None} \cup Indexes /\ d.facts \in Seq(Records)
        /\ d.fence \in [Queries -> {None} \cup Fences]
    BY DEF Ledgers
  <2>3. [d.cache EXCEPT ![q] = x] \in [Queries -> {None} \cup Caches] BY <1>1, <1>3
  <2> QED BY <2>1, <2>2, <2>3 DEF Ledgers
<1> QED BY <1>1, <1>3, <1>4

LEMMA DroppedIs ==
  ASSUME db \in Ledgers, NEW v \in {None} \cup Queries
  PROVE  /\ Dropped(v) \in Ledgers /\ Dropped(v).index = db.index /\ Dropped(v).facts = db.facts
         /\ \A p \in Queries : p # v => Dropped(v).cache[p] = db.cache[p]
         /\ \A p \in Queries : Dropped(v).cache[p] = None \/ Dropped(v).cache[p] = db.cache[p]
<1>1. CASE v = None BY <1>1 DEF Dropped
<1>2. CASE v # None
  <2>1. v \in Queries BY <1>2
  <2> DEFINE u == Dropped(v)
  <2>2. u = [index |-> db.index, facts |-> db.facts, cache |-> [db.cache EXCEPT ![v] = None],
             fence |-> [db.fence EXCEPT ![v] = None]]
    BY <1>2 DEF Dropped, Ledgers
  <2>3. /\ db.index \in {None} \cup Indexes /\ db.facts \in Seq(Records)
        /\ db.fence \in [Queries -> {None} \cup Fences]
        /\ db.cache \in [Queries -> {None} \cup Caches]
    BY DEF Ledgers
  <2>4. /\ [db.cache EXCEPT ![v] = None] \in [Queries -> {None} \cup Caches]
        /\ [db.fence EXCEPT ![v] = None] \in [Queries -> {None} \cup Fences]
        /\ [db.cache EXCEPT ![v] = None][v] = None
        /\ \A p \in Queries : p # v => [db.cache EXCEPT ![v] = None][p] = db.cache[p]
    BY <2>1, <2>3
  <2> HIDE DEF u
  <2>5. u \in Ledgers BY <2>2, <2>3, <2>4 DEF Ledgers
  <2> QED BY <2>2, <2>4, <2>5 DEF u
<1> QED BY <1>1, <1>2

LEMMA SummedIs ==
  ASSUME ConstantsOK, runtime \in Runs, db \in Ledgers, Sums(runtime, db), NEW q \in Queries,
         NEW v \in Victims(q), NEW u, u = Summed(q, v)
  PROVE  /\ u \in Ledgers /\ Sums(runtime, u) /\ u.index = db.index /\ u.facts = db.facts
         /\ u.cache[q] # None /\ u.cache[q] \in Caches
         /\ db.cache[q] # None /\ db.cache[q].complete => u.cache[q] = db.cache[q]
<1> DEFINE d == Dropped(v)
           c == IF d.cache[q] = None THEN NewCache ELSE d.cache[q]
           x == Extended(d, q, c)
<1>1. u = Kept(d, q, x) BY DEF Summed, Kept
<1>2. v \in {None} \cup Queries /\ q # v
  <2>1. None \notin Queries BY DEF ConstantsOK
  <2> QED BY <2>1 DEF Victims
<1>3. /\ d \in Ledgers /\ d.index = db.index /\ d.facts = db.facts
      /\ d.cache[q] = db.cache[q]
      /\ \A p \in Queries : d.cache[p] = None \/ d.cache[p] = db.cache[p]
  BY <1>2, DroppedIs
<1> HIDE DEF d
<1>4. d.facts \in Seq(Records) /\ \A p \in Queries : d.cache[p] \in {None} \cup Caches
  BY <1>3 DEF Ledgers
<1>5. \A p \in Queries : d.cache[p] # None => SumOK(runtime, p, d.facts, d.cache[p])
  BY <1>3 DEF Sums
<1>6. c \in Caches /\ SumOK(runtime, q, d.facts, c) BY <1>4, <1>5, NewCacheIs
<1>7. x \in Caches /\ SumOK(runtime, q, d.facts, x) /\ (c.complete => x = c)
  <2> HIDE DEF c
  <2> QED BY <1>3, <1>6, ExtendedIs
<1>8. db.cache[q] # None => c = db.cache[q] BY <1>3
<1> HIDE DEF c, x
<1>9. /\ u \in Ledgers /\ u.index = d.index /\ u.facts = d.facts /\ u.cache[q] = x
      /\ \A p \in Queries : p # q => u.cache[p] = d.cache[p]
  BY <1>1, <1>3, <1>7, KeptIs
<1>10. Sums(runtime, u) BY <1>5, <1>7, <1>9 DEF Sums
<1>11. x # None BY <1>7 DEF ConstantsOK
<1> QED BY <1>3, <1>7, <1>8, <1>9, <1>10, <1>11

\* The totals of another query leave what is known as it is.
LEMMA OtherSumKeeps ==
  ASSUME NEW rt, NEW f, NEW d, NEW c, NEW e, Parts(rt, f, d, c, e),
         NEW u, u.index = d.index, u.facts = d.facts, Sums(rt, u),
         AllComplete(d) => AllComplete(u)
  PROVE  Parts(rt, f, u, c, e)
BY DEF Parts, FactsTrue, LooksTrue, FreshTrue, SelfTrue

-----------------------------------------------------------------------------
(* The steps that change the transcript *)

LEMMA Given ==
  ASSUME ConstantsOK, UsageInductive
  PROVE  /\ runtime \in Runs /\ file \in Files /\ db \in Ledgers /\ call["daemon"] \in Calls
         /\ call["cli"] \in Calls /\ HandsOK(call["daemon"])
         /\ Shapes(runtime, file, db, call["daemon"], call["cli"], queue, prepared, events)
         /\ Parts(runtime, file, db, call["daemon"], call["cli"])
         /\ Sums(runtime, db) /\ FactsTrue(runtime, file, db)
         /\ ReadTrue(file, db, prepared) /\ call \in [Procs -> Calls]
BY DEF UsageInductive, UsageInd, Shapes, Parts, ConstantsOK, Runs, Procs

LEMMA ThenInductive ==
  ASSUME NEW b, NEW a, call' \in [Procs -> Calls], b = call'["daemon"], a = call'["cli"],
         Shapes(runtime', file', db', b, a, queue', prepared', events'),
         Parts(runtime', file', db', b, a), ReadTrue(file', db', prepared')
  PROVE  UsageInductive'
BY DEF UsageInductive, UsageInd

LEMMA ChangedStep ==
  ASSUME ConstantsOK, UsageInductive, NEW f, NEW replaced \in BOOLEAN, Changed(f, replaced),
         file' \in Files, Size(file') <= 2 * MaxLines,
         ~replaced => Grown(file, file'), replaced => Renewed(file, file')
  PROVE  UsageInductive'
<1> DEFINE c == call["daemon"]
           e == call["cli"]
<1>1. PICK g : g = file' OBVIOUS
<1>2. PICK b, a : b = call'["daemon"] /\ a = call'["cli"] OBVIOUS
<1>3. /\ file.at < MaxChanges /\ g = [f EXCEPT !.at = @ + 1]
      /\ runtime' = runtime /\ db' = db /\ queue' = queue /\ events' = events /\ prepared' = None
      /\ call' = [p \in Procs |-> [call[p] EXCEPT !.fresh =
                    IF call[p].at = "idle" THEN @ ELSE @ /\ ~replaced /\ ~Waiting(p)]]
  BY <1>1 DEF Changed
<1>4. /\ b = [c EXCEPT !.fresh = IF c.at = "idle" THEN @ ELSE @ /\ ~replaced /\ ~Waiting("daemon")]
      /\ a = [e EXCEPT !.fresh = IF e.at = "idle" THEN @ ELSE @ /\ ~replaced /\ ~Waiting("cli")]
  BY <1>2, <1>3 DEF Procs
<1>5. c \in Calls /\ e \in Calls /\ HandsOK(c) BY Given
<1>6. Waiting("daemon") <=> e.fd # None BY DEF Waiting, Procs
<1>7. Waiting("cli") \in BOOLEAN /\ Waiting("daemon") \in BOOLEAN BY DEF Waiting
<1> DEFINE x == IF c.at = "idle" THEN c.fresh ELSE c.fresh /\ ~replaced /\ ~Waiting("daemon")
           y == IF e.at = "idle" THEN e.fresh ELSE e.fresh /\ ~replaced /\ ~Waiting("cli")
<1>8. c.fresh \in BOOLEAN /\ e.fresh \in BOOLEAN BY <1>5 DEF Calls
<1>9. x \in BOOLEAN /\ y \in BOOLEAN BY <1>7, <1>8
<1>10. b = [c EXCEPT !.fresh = x] /\ a = [e EXCEPT !.fresh = y] BY <1>4
<1>11. c.at # "idle" /\ x => c.fresh /\ e.fd = None BY <1>6
<1>12. replaced => c.at = "idle" \/ ~x OBVIOUS
<1> HIDE DEF c, e, x, y
<1>13. b \in Calls /\ a \in Calls BY <1>5, <1>9, <1>10 DEF Calls
<1>14. Aged(c, b, x) /\ a.fd = e.fd /\ a.at = e.at BY <1>5, <1>10 DEF Aged, Calls
<1>15. call' \in [Procs -> Calls]
  <2>1. call' = [p \in Procs |-> IF p = "daemon" THEN b ELSE a]
    BY <1>2, <1>3 DEF Procs
  <2> QED BY <1>13, <2>1
<1>16. Parts(runtime, file, db, c, e) /\ file \in Files /\ db \in Ledgers /\ runtime \in Runs
  BY Given DEF c, e
<1>17. Parts(runtime, g, db, b, a)
  <2>1. CASE ~replaced
    <3>1. Grown(file, g) /\ g \in Files BY <1>1, <2>1
    <3> QED BY <1>5, <1>9, <1>11, <1>13, <1>14, <1>16, <3>1, GrownKeeps
  <2>2. CASE replaced
    <3>1. Renewed(file, g) /\ g \in Files BY <1>1, <2>2
    <3> QED BY <1>5, <1>9, <1>12, <1>13, <1>14, <1>16, <2>2, <3>1, RenewedKeeps
  <2> QED BY <2>1, <2>2
<1>18. Shapes(runtime, g, db, b, a, queue, None, events)
  <2>1. Shapes(runtime, file, db, c, e, queue, prepared, events) BY Given DEF c, e
  <2>2. g \in Files /\ Size(g) <= 2 * MaxLines BY <1>1
  <2>3. g.at = file.at + 1 BY <1>1 DEF Grown, Renewed
  <2>4. g.at <= MaxChanges
    <3>1. file.at \in Nat /\ MaxChanges \in Nat BY <1>16 DEF Files, ConstantsOK
    <3> QED BY <1>3, <2>3, <3>1
  <2>5. HandsOK(b) BY <1>5, <1>14 DEF HandsOK, Aged
  <2> QED BY <1>13, <1>14, <2>1, <2>2, <2>4, <2>5 DEF Shapes
<1>19. ReadTrue(g, db, None)
  <2>1. [fresh |-> TRUE] \in [fresh : BOOLEAN] OBVIOUS
  <2>2. None # [fresh |-> TRUE] BY <2>1 DEF ConstantsOK
  <2> QED BY <2>2 DEF ReadTrue
<1>20. /\ Shapes(runtime', file', db', b, a, queue', prepared', events')
       /\ Parts(runtime', file', db', b, a) /\ ReadTrue(file', db', prepared')
  BY <1>1, <1>3, <1>17, <1>18, <1>19
<1> QED BY <1>2, <1>15, <1>20, ThenInductive

\* A file with other lines, a finished record or half of one.
FileOf(gen, ino, at, lines, tail, old) ==
  [gen |-> gen, ino |-> ino, at |-> at, lines |-> lines, tail |-> tail, old |-> old]

LEMMA FileIs ==
  ASSUME NEW gen \in Gens, NEW ino \in 1..2, NEW at \in Nat, NEW lines \in Seq(Records),
         NEW tail \in BOOLEAN, NEW old \in Seq(Records), NEW g,
         g = FileOf(gen, ino, at, lines, tail, old)
  PROVE  /\ g \in Files
         /\ tail => Size(g) = 2 * Len(lines) + 1
         /\ ~tail => Size(g) = 2 * Len(lines)
         /\ g.gen = gen /\ g.ino = ino /\ g.at = at /\ g.lines = lines /\ g.tail = tail
         /\ g.old = old
<1>1. /\ g.gen = gen /\ g.ino = ino /\ g.at = at /\ g.lines = lines /\ g.tail = tail
      /\ g.old = old
  BY DEF FileOf
<1>2. g \in Files BY DEF FileOf, Files
<1>3. Len(lines) \in Nat OBVIOUS
<1>4. Size(g) = 2 * Len(lines) + (IF tail THEN 1 ELSE 0) BY <1>1, <1>2, SizeIs
<1>5. /\ tail => Size(g) = 2 * Len(lines) + 1
      /\ ~tail => Size(g) = 2 * Len(lines)
  BY <1>3, <1>4
<1> QED BY <1>1, <1>2, <1>5

LEMMA RecordStep ==
  ASSUME ConstantsOK, UsageInductive, NEW l \in Lines, Record(l)
  PROVE  UsageInductive'
<1>1. PICK f : f = [file EXCEPT !.lines = Append(@, l), !.tail = FALSE] OBVIOUS
<1>2. Changed(f, FALSE) /\ Len(file.lines) < MaxLines BY <1>1 DEF Record
<1>3. file \in Files /\ file.at \in Nat BY Given DEF Files
<1>4. PICK ls : ls = file.lines OBVIOUS
<1>5. ls \in Seq(Records) /\ l \in Records BY <1>3, <1>4 DEF Files, Records
<1>6. /\ Append(ls, l) \in Seq(Records) /\ Len(Append(ls, l)) = Len(ls) + 1
      /\ \A k \in 1..Len(ls) : Append(ls, l)[k] = ls[k]
  BY <1>5, AppendIs
<1>7. PICK ms : ms = Append(ls, l) OBVIOUS
<1>8. PICK g : g = file' OBVIOUS
<1>9. g = FileOf(file.gen, file.ino, file.at + 1, ms, FALSE, file.old)
  <2>1. f = FileOf(file.gen, file.ino, file.at, ms, FALSE, file.old)
    BY <1>1, <1>3, <1>4, <1>7 DEF FileOf, Files
  <2>2. g = [f EXCEPT !.at = @ + 1] BY <1>2, <1>8 DEF Changed
  <2> QED BY <2>1, <2>2 DEF FileOf
<1>10. /\ file.gen \in Gens /\ file.ino \in 1..2 /\ file.at + 1 \in Nat /\ ms \in Seq(Records)
       /\ file.old \in Seq(Records)
  BY <1>3, <1>6, <1>7 DEF Files
<1>11. /\ g \in Files /\ Size(g) = 2 * Len(ms)
       /\ g.gen = file.gen /\ g.ino = file.ino /\ g.at = file.at + 1 /\ g.lines = ms
       /\ g.old = file.old
  <2>1. PICK gen, ino, at, old, half :
          gen = file.gen /\ ino = file.ino /\ at = file.at + 1 /\ old = file.old /\ half = FALSE
    OBVIOUS
  <2>2. /\ gen \in Gens /\ ino \in 1..2 /\ at \in Nat /\ old \in Seq(Records) /\ half \in BOOLEAN
        /\ ms \in Seq(Records) /\ g = FileOf(gen, ino, at, ms, half, old)
    BY <1>9, <1>10, <2>1
  <2>3. /\ g \in Files /\ (~half => Size(g) = 2 * Len(ms))
        /\ g.gen = gen /\ g.ino = ino /\ g.at = at /\ g.lines = ms /\ g.old = old
    BY <2>2, FileIs
  <2> QED BY <2>1, <2>3
<1>12. Size(file) <= 2 * Len(ls) + 1 /\ Size(file) \in Nat BY <1>3, <1>4, SizeIs
<1>13. Len(ms) = Len(ls) + 1 /\ Len(ls) \in Nat BY <1>5, <1>6, <1>7
<1>14. Size(g) > Size(file) /\ Size(g) <= 2 * MaxLines
  <2>1. MaxLines \in Nat /\ Len(ls) < MaxLines BY <1>2, <1>4 DEF ConstantsOK
  <2> QED BY <1>11, <1>12, <1>13, <2>1
<1>15. StartsWith(ms, ls)
  <2>1. Len(ls) <= Len(ms) BY <1>13
  <2> QED BY <1>6, <1>7, <2>1 DEF StartsWith
<1>16. Grown(file, g) BY <1>4, <1>11, <1>14, <1>15 DEF Grown
<1> QED BY <1>2, <1>8, <1>11, <1>14, <1>16, ChangedStep

LEMMA BeginStep ==
  ASSUME ConstantsOK, UsageInductive, Begin
  PROVE  UsageInductive'
<1>1. PICK f : f = [file EXCEPT !.tail = TRUE] OBVIOUS
<1>2. Changed(f, FALSE) /\ Len(file.lines) < MaxLines /\ ~file.tail BY <1>1 DEF Begin
<1>3. file \in Files /\ file.at \in Nat BY Given DEF Files
<1>8. PICK g : g = file' OBVIOUS
<1>9. g = FileOf(file.gen, file.ino, file.at + 1, file.lines, TRUE, file.old)
  <2>1. f = FileOf(file.gen, file.ino, file.at, file.lines, TRUE, file.old)
    BY <1>1, <1>3 DEF FileOf, Files
  <2>2. g = [f EXCEPT !.at = @ + 1] BY <1>2, <1>8 DEF Changed
  <2> QED BY <2>1, <2>2 DEF FileOf
<1>10. /\ file.gen \in Gens /\ file.ino \in 1..2 /\ file.at + 1 \in Nat /\ file.lines \in Seq(Records)
       /\ file.old \in Seq(Records)
  BY <1>3 DEF Files
<1>11. /\ g \in Files /\ Size(g) = 2 * Len(file.lines) + 1
       /\ g.gen = file.gen /\ g.ino = file.ino /\ g.at = file.at + 1 /\ g.lines = file.lines
       /\ g.old = file.old
  <2>1. PICK gen, ino, at, ms, old, half :
          gen = file.gen /\ ino = file.ino /\ at = file.at + 1 /\ ms = file.lines
            /\ old = file.old /\ half = TRUE
    OBVIOUS
  <2>2. /\ gen \in Gens /\ ino \in 1..2 /\ at \in Nat /\ old \in Seq(Records) /\ half \in BOOLEAN
        /\ ms \in Seq(Records) /\ g = FileOf(gen, ino, at, ms, half, old)
    BY <1>9, <1>10, <2>1
  <2>3. /\ g \in Files /\ (half => Size(g) = 2 * Len(ms) + 1)
        /\ g.gen = gen /\ g.ino = ino /\ g.at = at /\ g.lines = ms /\ g.old = old
    BY <2>2, FileIs
  <2> QED BY <2>1, <2>3
<1>12. Size(file) = 2 * Len(file.lines) /\ Len(file.lines) \in Nat BY <1>2, <1>3, SizeIs
<1>14. Size(g) > Size(file) /\ Size(g) <= 2 * MaxLines
  <2>1. MaxLines \in Nat BY DEF ConstantsOK
  <2> QED BY <1>2, <1>11, <1>12, <2>1
<1>15. StartsWith(file.lines, file.lines) BY <1>12 DEF StartsWith
<1>16. Grown(file, g) BY <1>11, <1>14, <1>15 DEF Grown
<1> QED BY <1>2, <1>8, <1>11, <1>14, <1>16, ChangedStep

LEMMA ReplaceStep ==
  ASSUME ConstantsOK, UsageInductive, NEW ino \in 1..2, NEW lines \in Early, Replace(ino, lines)
  PROVE  UsageInductive'
<1>1. PICK old : old = IF ino = file.ino THEN <<>> ELSE file.lines OBVIOUS
<1>2. PICK f : f = [file EXCEPT !.gen = @ + 1, !.ino = ino, !.lines = lines, !.tail = FALSE,
                !.old = old] OBVIOUS
<1>3. Changed(f, TRUE) /\ file.gen + 1 \in Gens BY <1>1, <1>2 DEF Replace
<1>4. file \in Files /\ file.at \in Nat BY Given DEF Files
<1>8. PICK g : g = file' OBVIOUS
<1>9. g = FileOf(file.gen + 1, ino, file.at + 1, lines, FALSE, old)
  <2>1. f = FileOf(file.gen + 1, ino, file.at, lines, FALSE, old)
    BY <1>2, <1>4 DEF FileOf, Files
  <2>2. g = [f EXCEPT !.at = @ + 1] BY <1>3, <1>8 DEF Changed
  <2> QED BY <2>1, <2>2 DEF FileOf
<1>10. /\ file.at + 1 \in Nat /\ lines \in Seq(Records) /\ old \in Seq(Records)
       /\ Len(lines) <= MaxLines /\ Len(lines) \in Nat
  BY <1>1, <1>4 DEF Files, ConstantsOK
<1>11. /\ g \in Files /\ Size(g) = 2 * Len(lines)
       /\ g.gen = file.gen + 1 /\ g.ino = ino /\ g.at = file.at + 1 /\ g.old = old
  <2>1. PICK gen, at, half : gen = file.gen + 1 /\ at = file.at + 1 /\ half = FALSE OBVIOUS
  <2>2. /\ gen \in Gens /\ at \in Nat /\ half \in BOOLEAN
        /\ g = FileOf(gen, ino, at, lines, half, old)
    BY <1>3, <1>9, <1>10, <2>1
  <2>3. /\ g \in Files /\ (~half => Size(g) = 2 * Len(lines))
        /\ g.gen = gen /\ g.ino = ino /\ g.at = at /\ g.old = old
    BY <1>10, <2>2, FileIs
  <2> QED BY <2>1, <2>3
<1>14. Size(g) <= 2 * MaxLines
  <2>1. MaxLines \in Nat BY DEF ConstantsOK
  <2> QED BY <1>10, <1>11, <2>1
<1>16. Renewed(file, g) BY <1>1, <1>11 DEF Renewed
<1> QED BY <1>3, <1>8, <1>11, <1>14, <1>16, ChangedStep

-----------------------------------------------------------------------------
(* The steps of the calls *)

LEMMA SteppedInductive ==
  ASSUME ConstantsOK, UsageInductive, runtime' = runtime, file' = file,
         NEW b \in Calls, NEW a \in Calls, call' \in [Procs -> Calls], b = call'["daemon"],
         a = call'["cli"], NEW u \in Ledgers, db' = u, HandsOK(b), a.at \in {"idle", "index"},
         a.fd # None <=> a.at = "index", queue' \subseteq Queries,
         NEW pr \in {None} \cup [fresh : BOOLEAN], prepared' = pr,
         events' \in Nat, events' <= MaxEvents,
         Parts(runtime, file, u, b, a), ReadTrue(file, u, pr)
  PROVE  UsageInductive'
<1>1. Shapes(runtime, file, db, call["daemon"], call["cli"], queue, prepared, events) BY Given
<1>2. Shapes(runtime, file, u, b, a, queue', pr, events') BY <1>1 DEF Shapes
<1>3. /\ Shapes(runtime', file', db', b, a, queue', prepared', events')
      /\ Parts(runtime', file', db', b, a) /\ ReadTrue(file', db', prepared')
  BY <1>2
<1> QED BY <1>3, ThenInductive

LEMMA EventsAre ==
  ASSUME ConstantsOK, UsageInductive, UNCHANGED events \/ Disturbed
  PROVE  events' \in Nat /\ events' <= MaxEvents
<1>1. events \in Nat /\ events <= MaxEvents /\ MaxEvents \in Nat BY Given DEF Shapes, ConstantsOK
<1> QED BY <1>1 DEF Disturbed

LEMMA ReadNone ==
  ASSUME ConstantsOK, NEW f, NEW d
  PROVE  ReadTrue(f, d, None)
<1>1. [fresh |-> TRUE] \in [fresh : BOOLEAN] OBVIOUS
<1>2. None # [fresh |-> TRUE] BY <1>1 DEF ConstantsOK
<1> QED BY <1>2 DEF ReadTrue

LEMMA DaemonSet ==
  ASSUME call \in [Procs -> Calls], NEW b \in Calls, call' = [call EXCEPT !["daemon"] = b]
  PROVE  call' \in [Procs -> Calls] /\ b = call'["daemon"] /\ call["cli"] = call'["cli"]
BY DEF Procs

LEMMA ReaderSet ==
  ASSUME call \in [Procs -> Calls], NEW a \in Calls, call' = [call EXCEPT !["cli"] = a]
  PROVE  call' \in [Procs -> Calls] /\ a = call'["cli"] /\ call["daemon"] = call'["daemon"]
BY DEF Procs

LEMMA IdleIs ==
  /\ Idle \in Calls /\ Idle.at = "idle" /\ Idle.fd = None
  /\ (None \notin {"read", "asked", "visit"} => HandsOK(Idle))
BY DEF Idle, Calls, HandsOK

\* The daemon or the other process has nothing in hand any more.
LEMMA DoneStep ==
  ASSUME ConstantsOK, UsageInductive, NEW p \in Procs, Done(p), runtime' = runtime, file' = file,
         NEW u, db' = u, u \in Ledgers, queue' \subseteq Queries,
         NEW pr \in {None} \cup [fresh : BOOLEAN], prepared' = pr, ReadTrue(file, u, pr),
         UNCHANGED events \/ Disturbed,
         Parts(runtime, file, u, call["daemon"], call["cli"])
  PROVE  UsageInductive'
<1> DEFINE c == call["daemon"]
           e == call["cli"]
<1>1. call \in [Procs -> Calls] /\ c \in Calls /\ e \in Calls /\ HandsOK(c) BY Given
<1>2. e.at \in {"idle", "index"} /\ (e.fd # None <=> e.at = "index") BY Given DEF Shapes
<1>3. Idle \in Calls /\ Idle.at = "idle" /\ Idle.fd = None /\ HandsOK(Idle)
  BY IdleIs DEF ConstantsOK
<1>4. call' = [call EXCEPT ![p] = Idle] BY DEF Done
<1>5. events' \in Nat /\ events' <= MaxEvents BY EventsAre
<1>6. PICK i : i = Idle OBVIOUS
<1>7. CASE p = "daemon"
  <2>1. call' \in [Procs -> Calls] /\ i = call'["daemon"] /\ e = call'["cli"]
    BY <1>1, <1>3, <1>4, <1>6, <1>7, DaemonSet
  <2>2. Parts(runtime, file, u, i, e)
    <3> HIDE DEF c, e
    <3>1. Parts(runtime, file, u, c, e) BY DEF c, e
    <3> QED BY <1>3, <1>6, <3>1, DoneKeeps
  <2> QED BY <1>1, <1>2, <1>3, <1>5, <1>6, <2>1, <2>2, SteppedInductive
<1>8. CASE p = "cli"
  <2>1. call' \in [Procs -> Calls] /\ c = call'["daemon"] /\ i = call'["cli"]
    BY <1>1, <1>3, <1>4, <1>6, <1>8, ReaderSet
  <2>2. Parts(runtime, file, u, c, i)
    <3> HIDE DEF c, e
    <3>1. Parts(runtime, file, u, c, e) BY DEF c, e
    <3> QED BY <1>3, <1>6, <3>1, ReaderDoneKeeps
  <2> QED BY <1>1, <1>2, <1>3, <1>5, <1>6, <2>1, <2>2, SteppedInductive
<1> QED BY <1>7, <1>8 DEF Procs

\* The daemon has something else in hand.
LEMMA DaemonStep ==
  ASSUME ConstantsOK, UsageInductive, NEW b \in Calls, call' = [call EXCEPT !["daemon"] = b],
         HandsOK(b), runtime' = runtime, file' = file,
         NEW u, db' = u, u \in Ledgers, queue' \subseteq Queries,
         NEW pr \in {None} \cup [fresh : BOOLEAN], prepared' = pr, ReadTrue(file, u, pr),
         UNCHANGED events \/ Disturbed,
         Parts(runtime, file, u, b, call["cli"])
  PROVE  UsageInductive'
<1> DEFINE e == call["cli"]
<1>1. call \in [Procs -> Calls] /\ e \in Calls BY Given
<1>2. e.at \in {"idle", "index"} /\ (e.fd # None <=> e.at = "index") BY Given DEF Shapes
<1>3. events' \in Nat /\ events' <= MaxEvents BY EventsAre
<1>4. call' \in [Procs -> Calls] /\ b = call'["daemon"] /\ e = call'["cli"]
  BY <1>1, DaemonSet
<1> QED BY <1>1, <1>2, <1>3, <1>4, SteppedInductive

LEMMA ReaderStep ==
  ASSUME ConstantsOK, UsageInductive, NEW a \in Calls, call' = [call EXCEPT !["cli"] = a],
         a.at \in {"idle", "index"}, a.fd # None <=> a.at = "index",
         runtime' = runtime, file' = file,
         NEW u, db' = u, u \in Ledgers, queue' \subseteq Queries,
         NEW pr \in {None} \cup [fresh : BOOLEAN], prepared' = pr, ReadTrue(file, u, pr),
         UNCHANGED events \/ Disturbed,
         Parts(runtime, file, u, call["daemon"], a)
  PROVE  UsageInductive'
<1> DEFINE c == call["daemon"]
<1>1. call \in [Procs -> Calls] /\ c \in Calls /\ HandsOK(c) BY Given
<1>3. events' \in Nat /\ events' <= MaxEvents BY EventsAre
<1>4. call' \in [Procs -> Calls] /\ a = call'["cli"] /\ c = call'["daemon"]
  BY <1>1, ReaderSet
<1> QED BY <1>1, <1>3, <1>4, SteppedInductive

LEMMA CalledStep ==
  ASSUME ConstantsOK, UsageInductive, NEW job \in {"read", "asked", "visit"}, NEW q \in Queries,
         NEW at \in {"read", "open"}, at = "read" => job = "read", job = "visit" => q = "all",
         Called(job, q, at), UNCHANGED events \/ Disturbed
  PROVE  UsageInductive'
<1> DEFINE e == call["cli"]
<1>1. PICK s, fresh : s = Stamp(file) /\ fresh = Fresh OBVIOUS
<1>2. s \in Stamps /\ s # None BY <1>1, Given, StampIs DEF ConstantsOK
<1>3. fresh \in BOOLEAN /\ (fresh => (e.fd # None => e.fd.at = file.at))
  BY <1>1 DEF Fresh, Procs
<1>4. PICK b : b = [Idle EXCEPT !.at = at, !.job = job, !.q = q, !.src = s, !.fresh = fresh]
  OBVIOUS
<1>5. b = [at |-> at, job |-> job, q |-> q, src |-> s, fd |-> None,
           index |-> None, self |-> None, fresh |-> fresh]
  BY <1>4 DEF Idle
<1>6. /\ b.at = at /\ b.job = job /\ b.q = q /\ b.src = s /\ b.fd = None /\ b.fresh = fresh
      /\ b.index = None /\ b.self = None
  BY <1>5
<1>7. b \in Calls BY <1>2, <1>3, <1>5 DEF Calls
<1>8. HandsOK(b)
  <2>1. job # None BY DEF ConstantsOK
  <2> QED BY <1>2, <1>6, <2>1 DEF HandsOK
<1>9. /\ call' = [call EXCEPT !["daemon"] = b] /\ runtime' = runtime /\ file' = file
      /\ db' = db /\ queue' = queue /\ prepared' = prepared
  BY <1>1, <1>4 DEF Called
<1>10. Parts(runtime, file, db, b, e)
  <2>1. Parts(runtime, file, db, call["daemon"], e) /\ file \in Files /\ db \in Ledgers /\ e \in Calls
    BY Given
  <2> HIDE DEF e
  <2>2. b.fresh => (e.fd # None => e.fd.at = file.at) BY <1>3, <1>6
  <2>3. b.at \in {"read", "open"} /\ b.src = Stamp(file) /\ b.fd = None /\ (b.at = "read" => b.job = "read")
    BY <1>1, <1>6
  <2> QED BY <2>1, <2>2, <2>3, CalledKeeps
<1>11. /\ db \in Ledgers /\ queue \subseteq Queries /\ prepared \in {None} \cup [fresh : BOOLEAN]
       /\ ReadTrue(file, db, prepared)
  BY Given DEF Shapes
<1> QED BY <1>7, <1>8, <1>9, <1>10, <1>11, DaemonStep

LEMMA CallsStep ==
  ASSUME ConstantsOK, UsageInductive,
         (\E q \in Queries : UsageRead(q) \/ Requested(q)) \/ Visit
  PROVE  UsageInductive'
<1>1. ASSUME NEW q \in Queries, UsageRead(q) PROVE UsageInductive'
  BY <1>1, CalledStep DEF UsageRead
<1>2. ASSUME NEW q \in Queries, Requested(q) PROVE UsageInductive'
  BY <1>2, CalledStep DEF Requested
<1>3. ASSUME Visit PROVE UsageInductive'
  <2>1. "all" \in Queries BY DEF Queries
  <2> QED BY <1>3, <2>1, CalledStep DEF Visit
<1> QED BY <1>1, <1>2, <1>3

LEMMA TranscriptReadStep ==
  ASSUME ConstantsOK, UsageInductive, TranscriptRead
  PROVE  UsageInductive'
<1> DEFINE e == call["cli"]
<1>1. PICK s : s = Stamp(file) OBVIOUS
<1>2. s \in Stamps /\ s # None /\ file \in Files BY <1>1, Given, StampIs DEF ConstantsOK
<1>3. PICK a : a = [e EXCEPT !.at = "index", !.fd = s] OBVIOUS
<1>4. e \in Calls BY Given
<1> HIDE DEF e
<1>5. a \in Calls /\ a.at = "index" /\ a.fd = s BY <1>2, <1>3, <1>4 DEF Calls
<1>6. /\ call' = [call EXCEPT !["cli"] = a] /\ runtime' = runtime /\ file' = file
      /\ db' = db /\ queue' = queue /\ prepared' = prepared /\ Disturbed
  BY <1>1, <1>3 DEF TranscriptRead, e
<1>7. Parts(runtime, file, db, call["daemon"], e) BY Given DEF e
<1>8. Parts(runtime, file, db, call["daemon"], a)
  <2> DEFINE c == call["daemon"]
  <2> HIDE DEF c
  <2>1. Parts(runtime, file, db, c, e) BY <1>7 DEF c
  <2>2. a.fd = Stamp(file) BY <1>1, <1>5
  <2>3. Parts(runtime, file, db, c, a) BY <1>2, <2>1, <2>2, ReaderOpensKeeps
  <2> QED BY <2>3 DEF c
<1>11. /\ db \in Ledgers /\ queue \subseteq Queries /\ prepared \in {None} \cup [fresh : BOOLEAN]
       /\ ReadTrue(file, db, prepared)
  BY Given DEF Shapes
<1> QED BY <1>2, <1>5, <1>6, <1>8, <1>11, ReaderStep

LEMMA OpenStep ==
  ASSUME ConstantsOK, UsageInductive, Open
  PROVE  UsageInductive'
<1> DEFINE c == call["daemon"]
           e == call["cli"]
<1>1. PICK s : s = Stamp(file) OBVIOUS
<1>2. s \in Stamps /\ s # None /\ file \in Files BY <1>1, Given, StampIs DEF ConstantsOK
<1>3. PICK b : b = [c EXCEPT !.at = "index", !.fd = s] OBVIOUS
<1>4. c \in Calls /\ HandsOK(c) /\ c.at = "open" BY Given DEF Open
<1> HIDE DEF c
<1>5. b \in Calls /\ b.at = "index" /\ b.fd = s /\ Moves(c, b) /\ b.index = c.index /\ b.self = c.self
  BY <1>2, <1>3, <1>4 DEF Calls, Moves
<1>6. /\ call' = [call EXCEPT !["daemon"] = b] /\ runtime' = runtime /\ file' = file
      /\ db' = db /\ queue' = queue /\ prepared' = prepared /\ UNCHANGED events
  BY <1>1, <1>3 DEF Open, c
<1>7. HandsOK(b) BY <1>2, <1>4, <1>5 DEF HandsOK, Moves
<1>8. Parts(runtime, file, db, b, e)
  <2>1. Parts(runtime, file, db, c, e) BY Given DEF c
  <2>2. b.fd = Stamp(file) BY <1>1, <1>5
  <2>3. db \in Ledgers BY Given
  <2> HIDE DEF e
  <2> QED BY <1>2, <1>4, <1>5, <2>1, <2>2, <2>3, OpenKeeps
<1>11. /\ db \in Ledgers /\ queue \subseteq Queries /\ prepared \in {None} \cup [fresh : BOOLEAN]
       /\ ReadTrue(file, db, prepared)
  BY Given DEF Shapes
<1> QED BY <1>5, <1>6, <1>7, <1>8, <1>11, DaemonStep

LEMMA FailsStep ==
  ASSUME ConstantsOK, UsageInductive, NEW p \in Procs, Fails(p), UNCHANGED events
  PROVE  UsageInductive'
<1>1. /\ db \in Ledgers /\ queue \subseteq Queries /\ prepared \in {None} \cup [fresh : BOOLEAN]
      /\ ReadTrue(file, db, prepared) /\ Parts(runtime, file, db, call["daemon"], call["cli"])
  BY Given DEF Shapes
<1>2. /\ Done(p) /\ runtime' = runtime /\ file' = file /\ db' = db /\ queue' \subseteq Queries
      /\ prepared' = IF call[p].job = "visit" THEN None ELSE prepared
  BY <1>1 DEF Fails
<1>3. PICK pr : pr = prepared' OBVIOUS
<1>4. pr = None \/ pr = prepared BY <1>2, <1>3
<1>5. ReadTrue(file, db, pr) /\ pr \in {None} \cup [fresh : BOOLEAN]
  <2>1. ReadTrue(file, db, None) BY ReadNone
  <2> QED BY <1>1, <1>4, <2>1
<1> QED BY <1>1, <1>2, <1>3, <1>5, DoneStep

\* What is stored is remembered to be another, or is the same.
LEMMA StoredIs ==
  ASSUME ConstantsOK, UsageInductive, NEW u, Store(u)
  PROVE  /\ db' = u /\ prepared' \in {None} \cup [fresh : BOOLEAN]
         /\ ReadTrue(file, u, prepared')
<1>1. prepared \in {None} \cup [fresh : BOOLEAN] /\ ReadTrue(file, db, prepared)
  BY Given DEF Shapes
<1>2. ReadTrue(file, u, None) BY ReadNone
<1>3. CASE u = db BY <1>1, <1>3 DEF Store
<1>4. CASE u # db
  <2>1. db' = u /\ prepared' = None BY <1>4 DEF Store
  <2> QED BY <1>2, <2>1
<1> QED BY <1>3, <1>4

LEMMA DaemonIndexStep ==
  ASSUME ConstantsOK, UsageInductive, Index("daemon")
  PROVE  UsageInductive'
<1> DEFINE c == call["daemon"]
           e == call["cli"]
<1>1. PICK fd, D : fd = c.fd /\ D = Advanced(fd, Slice) OBVIOUS
<1>2. PICK b : b = [c EXCEPT !.at = "read", !.fd = None] OBVIOUS
<1>3. /\ c \in Calls /\ HandsOK(c) /\ runtime \in Runs /\ file \in Files /\ db \in Ledgers
      /\ Sums(runtime, db) /\ FactsTrue(runtime, file, db)
      /\ queue \subseteq Queries /\ Parts(runtime, file, db, c, e)
  BY Given DEF Shapes
<1>4. /\ c.at = "index" /\ Store(D) /\ call' = [call EXCEPT !["daemon"] = b]
      /\ runtime' = runtime /\ file' = file /\ queue' = queue /\ UNCHANGED events
  BY <1>1, <1>2 DEF Index, AfterIndex
<1> HIDE DEF c, e
<1>5. /\ b \in Calls /\ b.at = "read" /\ b.fd = None /\ Moves(c, b) /\ b.index = c.index
      /\ b.self = c.self
  BY <1>2, <1>3 DEF Calls, Moves
<1>6. fd # None /\ fd \in Stamps /\ StampSound(file, fd)
  BY <1>1, <1>3, <1>4 DEF HandsOK, Calls, Parts, LooksTrue
<1>7. HandsOK(b) BY <1>3, <1>4, <1>5 DEF HandsOK, Moves
<1>8. \/ loadStored(fd) /\ D = db
      \/ /\ D \in Ledgers /\ Sums(runtime, D) /\ FactsTrue(runtime, file, D)
         /\ D.index # None /\ StampOf(D.index) = fd
  <2>1. Slice \in Nat BY DEF ConstantsOK
  <2> QED BY <1>1, <1>3, <1>6, <2>1, AdvancedIs
<1>9. D \in Ledgers BY <1>3, <1>8
<1>10. Parts(runtime, file, D, b, e)
  <2>1. CASE loadStored(fd) /\ D = db
    <3>1. db.index # None /\ db.index.head[1] = c.fd.gen
      BY <1>1, <2>1 DEF loadStored, headDigest
    <3>2. c.fd # None BY <1>1, <1>6
    <3>3. Parts(runtime, file, db, b, e) BY <1>3, <1>4, <1>5, <3>1, <3>2, LoadedKeeps
    <3> QED BY <2>1, <3>3
  <2>2. CASE /\ D \in Ledgers /\ Sums(runtime, D) /\ FactsTrue(runtime, file, D)
             /\ D.index # None /\ StampOf(D.index) = fd
    <3>1. D.index \in Indexes BY <2>2 DEF Ledgers
    <3>2. c.fd # None /\ StampOf(D.index) = c.fd BY <1>1, <1>6, <2>2
    <3> QED BY <1>3, <1>4, <1>5, <2>2, <3>1, <3>2, AdvancedKeeps
  <2> QED BY <1>8, <2>1, <2>2
<1>11. PICK pr : pr = prepared' OBVIOUS
<1>12. db' = D /\ pr \in {None} \cup [fresh : BOOLEAN] /\ ReadTrue(file, D, pr)
  BY <1>4, <1>11, StoredIs
<1>13. Parts(runtime, file, D, b, call["cli"]) BY <1>10 DEF e
<1> QED BY <1>3, <1>4, <1>5, <1>7, <1>9, <1>11, <1>12, <1>13, DaemonStep

LEMMA ReaderIndexStep ==
  ASSUME ConstantsOK, UsageInductive, Index("cli")
  PROVE  UsageInductive'
<1> DEFINE c == call["daemon"]
           e == call["cli"]
<1>1. PICK fd, size, D : fd = e.fd /\ size = fd.size /\ D = Advanced(fd, size) OBVIOUS
<1>2. PICK a : a = [e EXCEPT !.at = "idle", !.fd = None] OBVIOUS
<1>3. /\ c \in Calls /\ e \in Calls /\ HandsOK(c) /\ runtime \in Runs /\ file \in Files
      /\ db \in Ledgers /\ Sums(runtime, db) /\ FactsTrue(runtime, file, db)
      /\ queue \subseteq Queries /\ Parts(runtime, file, db, c, e)
      /\ (e.fd # None <=> e.at = "index")
  BY Given DEF Shapes
<1>4. /\ e.at = "index" /\ Store(D) /\ call' = [call EXCEPT !["cli"] = a]
      /\ runtime' = runtime /\ file' = file /\ queue' = queue /\ UNCHANGED events
  BY <1>1, <1>2 DEF Index, AfterIndex
<1> HIDE DEF c, e
<1>5. a \in Calls /\ a.at = "idle" /\ a.fd = None BY <1>2, <1>3 DEF Calls
<1>6. fd # None /\ fd \in Stamps /\ StampSound(file, fd) /\ size \in Nat
  BY <1>1, <1>3, <1>4 DEF Calls, Parts, LooksTrue, Stamps
<1>8. \/ loadStored(fd) /\ D = db
      \/ /\ D \in Ledgers /\ Sums(runtime, D) /\ FactsTrue(runtime, file, D)
         /\ D.index # None /\ StampOf(D.index) = fd
         /\ fd = Stamp(file) => D.index.off = Size(file)
         /\ loadStored(fd) => D.index.off # db.index.off
  BY <1>1, <1>3, <1>6, AdvancedIs
<1>9. D \in Ledgers BY <1>3, <1>8
<1>10. Parts(runtime, file, D, c, a)
  <2>1. CASE loadStored(fd) /\ D = db
    <3>1. Parts(runtime, file, db, c, a) BY <1>3, <1>5, ReaderDoneKeeps
    <3> QED BY <2>1, <3>1
  <2>2. CASE /\ D \in Ledgers /\ Sums(runtime, D) /\ FactsTrue(runtime, file, D)
             /\ D.index # None /\ StampOf(D.index) = fd
             /\ fd = Stamp(file) => D.index.off = Size(file)
             /\ loadStored(fd) => D.index.off # db.index.off
    <3>1. fd = Stamp(file) => ~(OfFile(file, db.index) /\ db.index.off = Size(file))
      <4> SUFFICES ASSUME fd = Stamp(file), OfFile(file, db.index), db.index.off = Size(file)
                   PROVE  FALSE
        OBVIOUS
      <4>1. IndexSound(file, db.index) BY <1>3 DEF FactsTrue, OfFile
      <4>2. loadStored(Stamp(file)) BY <1>3, <4>1, ReadIsLoaded
      <4> QED BY <2>2, <4>2
    <3>2. e.fd # None /\ StampOf(D.index) = e.fd BY <1>1, <1>6, <2>2
    <3>3. e.fd = Stamp(file) => D.index.off = Size(file) BY <1>1, <2>2
    <3>4. e.fd = Stamp(file) => ~(OfFile(file, db.index) /\ db.index.off = Size(file))
      BY <1>1, <3>1
    <3> QED BY <1>3, <1>5, <2>2, <3>2, <3>3, <3>4, ReaderAdvancedKeeps
  <2> QED BY <1>8, <2>1, <2>2
<1>11. PICK pr : pr = prepared' OBVIOUS
<1>12. db' = D /\ pr \in {None} \cup [fresh : BOOLEAN] /\ ReadTrue(file, D, pr)
  BY <1>4, <1>11, StoredIs
<1>13. Parts(runtime, file, D, call["daemon"], a) BY <1>10 DEF c
<1> QED BY <1>3, <1>4, <1>5, <1>9, <1>11, <1>12, <1>13, ReaderStep

LEMMA IndexBusyStep ==
  ASSUME ConstantsOK, UsageInductive, NEW p \in Procs, IndexBusy(p)
  PROVE  UsageInductive'
<1> DEFINE c == call["daemon"]
           e == call["cli"]
<1>1. call[p].at = "index" /\ UNCHANGED events BY DEF IndexBusy, Busy
<1>2. CASE ~loadStored(call[p].fd) BY <1>1, <1>2, FailsStep DEF IndexBusy
<1>3. CASE loadStored(call[p].fd)
  <2>1. /\ call' = [call EXCEPT ![p].at = AfterIndex(p), ![p].fd = None]
        /\ runtime' = runtime /\ file' = file /\ db' = db /\ queue' = queue /\ prepared' = prepared
    BY <1>3 DEF IndexBusy
  <2>2. /\ db \in Ledgers /\ queue \subseteq Queries /\ prepared \in {None} \cup [fresh : BOOLEAN]
        /\ ReadTrue(file, db, prepared) /\ Parts(runtime, file, db, c, e)
        /\ c \in Calls /\ e \in Calls /\ HandsOK(c)
    BY Given DEF Shapes
  <2>3. CASE p = "daemon"
    <3>1. PICK b : b = [c EXCEPT !.at = "read", !.fd = None] OBVIOUS
    <3>2. call' = [call EXCEPT !["daemon"] = b] /\ c.at = "index" /\ loadStored(c.fd)
      BY <1>1, <1>3, <2>1, <2>3, <3>1 DEF AfterIndex
    <3> HIDE DEF c, e
    <3>3. /\ b \in Calls /\ b.at = "read" /\ b.fd = None /\ Moves(c, b) /\ b.index = c.index
          /\ b.self = c.self
      BY <2>2, <3>1 DEF Calls, Moves
    <3>4. HandsOK(b) /\ c.fd # None BY <2>2, <3>2, <3>3 DEF HandsOK, Moves
    <3>5. db.index # None /\ db.index.head[1] = c.fd.gen BY <3>2 DEF loadStored, headDigest
    <3>6. Parts(runtime, file, db, b, e) BY <2>2, <3>2, <3>3, <3>4, <3>5, LoadedKeeps
    <3>7. Parts(runtime, file, db, b, call["cli"]) BY <3>6 DEF e
    <3> QED BY <1>1, <2>1, <2>2, <3>2, <3>3, <3>4, <3>7, DaemonStep
  <2>4. CASE p = "cli"
    <3>1. PICK a : a = [e EXCEPT !.at = "idle", !.fd = None] OBVIOUS
    <3>2. call' = [call EXCEPT !["cli"] = a]
      BY <2>1, <2>4, <3>1 DEF AfterIndex
    <3> HIDE DEF c, e
    <3>3. a \in Calls /\ a.at = "idle" /\ a.fd = None BY <2>2, <3>1 DEF Calls
    <3>6. Parts(runtime, file, db, c, a) BY <2>2, <3>3, ReaderDoneKeeps
    <3>7. Parts(runtime, file, db, call["daemon"], a) BY <3>6 DEF c
    <3> QED BY <1>1, <2>1, <2>2, <3>2, <3>3, <3>7, ReaderStep
  <2> QED BY <2>3, <2>4 DEF Procs
<1> QED BY <1>2, <1>3

LEMMA ReadIndexStep ==
  ASSUME ConstantsOK, UsageInductive, ReadIndex
  PROVE  UsageInductive'
<1> DEFINE c == call["daemon"]
           e == call["cli"]
<1>1. /\ db \in Ledgers /\ queue \subseteq Queries /\ prepared \in {None} \cup [fresh : BOOLEAN]
      /\ ReadTrue(file, db, prepared) /\ Parts(runtime, file, db, c, e)
      /\ c \in Calls /\ e \in Calls /\ HandsOK(c)
  BY Given DEF Shapes
<1>2. c.at = "read" /\ runtime' = runtime /\ file' = file /\ db' = db /\ UNCHANGED events
  BY DEF ReadIndex
<1>3. CASE db.index = None
  <2>0. c.q \in Queries BY <1>1, <1>2 DEF HandsOK
  <2>1. /\ Done("daemon") /\ queue' = IF c.job = "read" THEN queue \cup {c.q} ELSE queue
        /\ prepared' = IF c.job = "visit" THEN None ELSE prepared
    BY <1>3 DEF ReadIndex
  <2>2. queue' \subseteq Queries BY <1>1, <2>0, <2>1
  <2>3. PICK pr : pr = prepared' OBVIOUS
  <2>4. ReadTrue(file, db, None) BY ReadNone
  <2>5. pr \in {None} \cup [fresh : BOOLEAN] /\ ReadTrue(file, db, pr) BY <1>1, <2>1, <2>3, <2>4
  <2>6. "daemon" \in Procs BY DEF Procs
  <2> QED BY <1>1, <1>2, <2>1, <2>2, <2>3, <2>5, <2>6, DoneStep
<1>4. CASE db.index # None
  <2>1. PICK b, i : i = db.index /\ b = [c EXCEPT !.at = "sum", !.index = i] OBVIOUS
  <2>2. call' = [call EXCEPT !["daemon"] = b] /\ queue' = queue /\ prepared' = prepared
    BY <1>4, <2>1 DEF ReadIndex
  <2>3. i \in Indexes BY <1>1, <1>4, <2>1 DEF Ledgers
  <2> HIDE DEF c, e
  <2>4. b \in Calls /\ b.at = "sum" /\ b.index = i /\ Moves(c, b) /\ b.fd = c.fd
    BY <1>1, <2>1, <2>3 DEF Calls, Moves
  <2>5. HandsOK(b) BY <1>1, <1>2, <1>4, <2>1, <2>4 DEF HandsOK, Moves
  <2>6. Parts(runtime, file, db, b, e) BY <1>1, <1>2, <1>4, <2>1, <2>4, IndexReadKeeps
  <2>7. Parts(runtime, file, db, b, call["cli"]) BY <2>6 DEF e
  <2> QED BY <1>1, <1>2, <2>2, <2>4, <2>5, <2>7, DaemonStep
<1> QED BY <1>3, <1>4

LEMMA RestartStep ==
  ASSUME ConstantsOK, UsageInductive, Restart
  PROVE  UsageInductive'
<1>1. db \in Ledgers /\ Parts(runtime, file, db, call["daemon"], call["cli"]) BY Given
<1>2. /\ Disturbed /\ Done("daemon") /\ queue' = {} /\ prepared' = None /\ runtime' = runtime
      /\ file' = file /\ db' = db
  BY DEF Restart
<1>3. ReadTrue(file, db, None) BY ReadNone
<1>4. PICK pr : pr = None OBVIOUS
<1>5. "daemon" \in Procs /\ queue' \subseteq Queries BY <1>2 DEF Procs
<1>6. prepared' = pr /\ pr \in {None} \cup [fresh : BOOLEAN] /\ ReadTrue(file, db, pr)
  BY <1>2, <1>3, <1>4
<1> QED BY <1>1, <1>2, <1>5, <1>6, DoneStep

LEMMA PruneStep ==
  ASSUME ConstantsOK, UsageInductive, Prune
  PROVE  UsageInductive'
<1> DEFINE c == call["daemon"]
           e == call["cli"]
<1>1. /\ queue \subseteq Queries /\ prepared \in {None} \cup [fresh : BOOLEAN]
      /\ Parts(runtime, file, db, c, e) /\ c \in Calls /\ e \in Calls /\ HandsOK(c)
      /\ e.at \in {"idle", "index"} /\ (e.fd # None <=> e.at = "index") /\ call \in [Procs -> Calls]
  BY Given DEF Shapes
<1>2. /\ c.at = "idle" /\ Disturbed /\ Store(Empty) /\ runtime' = runtime /\ file' = file
      /\ call' = call /\ queue' = queue
  BY DEF Prune, Procs
<1>3. c.fd = None /\ e.fd = None
  <2>1. e.at = "idle" BY DEF Prune, Procs
  <2> QED BY <1>1, <1>2, <2>1 DEF HandsOK
<1>4. PICK u, pr : u = Empty /\ pr = prepared' OBVIOUS
<1>5. /\ u \in Ledgers /\ db' = u /\ pr \in {None} \cup [fresh : BOOLEAN] /\ ReadTrue(file, u, pr)
  BY <1>2, <1>4, StoredIs, EmptyIs
<1>6. Sums(runtime, u) /\ FactsTrue(runtime, file, u) BY <1>4, EmptyIs DEF FactsTrue, OfFile
<1>7. ~Summing(c) /\ c.at # "end" BY <1>2 DEF Summing
<1>8. Parts(runtime, file, u, c, e)
  BY <1>2, <1>3, <1>6, <1>7 DEF Parts, LooksTrue, FreshTrue, SelfTrue
<1>9. events' \in Nat /\ events' <= MaxEvents BY <1>2, EventsAre
<1>10. call' \in [Procs -> Calls] /\ c = call'["daemon"] /\ e = call'["cli"]
  BY <1>1, <1>2
<1> HIDE DEF c, e
<1>11. queue' \subseteq Queries BY <1>1, <1>2
<1> QED BY <1>1, <1>2, <1>4, <1>5, <1>8, <1>9, <1>10, <1>11, SteppedInductive

LEMMA TotalIs ==
  ASSUME NEW x \in Caches, NEW t, t = Total(x)
  PROVE  /\ t \in Totals /\ t.sum = x.sum /\ t.amb = (x.amb > 0)
         /\ ~t.building => x.complete
<1>1. PICK a, w : a = (x.amb > 0) /\ w = ~x.complete OBVIOUS
<1>2. a \in BOOLEAN /\ w \in BOOLEAN
  <2>1. a \in BOOLEAN
    <3>1. x.amb \in Nat BY DEF Caches
    <3>2. (x.amb > 0) \in BOOLEAN BY <3>1
    <3> QED BY <1>1, <3>2, Zenon
  <2>2. w \in BOOLEAN BY <1>1, Zenon
  <2> QED BY <2>1, <2>2
<1>3. t = [sum |-> x.sum, amb |-> a, building |-> w] BY <1>1, Zenon DEF Total
<1>4. x.sum \in Nat BY DEF Caches
<1>5. t \in Totals BY <1>2, <1>3, <1>4 DEF Totals
<1>6. t.sum = x.sum /\ t.amb = a /\ t.building = w BY <1>3
<1>7. ~w => x.complete BY <1>1, Zenon
<1> QED BY <1>1, <1>5, <1>6, <1>7, Zenon

\* A call is told a total.
LEMMA ToldStep ==
  ASSUME ConstantsOK, UsageInductive, call["daemon"].at = "sum", NEW t \in Totals,
         call' = [call EXCEPT !["daemon"].at = "end", !["daemon"].self = t],
         runtime' = runtime, file' = file, queue' = queue, UNCHANGED events,
         NEW u \in Ledgers, db' = u, u.index = db.index, u.facts = db.facts, Sums(runtime, u),
         prepared' \in {None} \cup [fresh : BOOLEAN], ReadTrue(file, u, prepared'),
         TotalOf(t, u, call["daemon"].q)
  PROVE  UsageInductive'
<1> DEFINE c == call["daemon"]
           e == call["cli"]
<1>1. /\ runtime \in Runs /\ file \in Files /\ db \in Ledgers /\ queue \subseteq Queries
      /\ Parts(runtime, file, db, c, e) /\ c \in Calls /\ HandsOK(c) /\ c.at = "sum"
  BY Given DEF Shapes
<1>2. PICK b : b = [c EXCEPT !.at = "end", !.self = t] OBVIOUS
<1>3. call' = [call EXCEPT !["daemon"] = b] BY <1>2
<1>4. TotalOf(t, u, c.q) OBVIOUS
<1> HIDE DEF c, e
<1>5. /\ b \in Calls /\ b.at = "end" /\ b.self = t /\ Moves(c, b) /\ b.fd = c.fd /\ b.index = c.index
  BY <1>1, <1>2 DEF Calls, Moves
<1>6. HandsOK(b)
  <2>1. t # None BY DEF ConstantsOK
  <2> QED BY <1>1, <1>5, <2>1 DEF HandsOK, Moves
<1>7. Parts(runtime, file, u, b, e)
  <2>1. TotalOf(b.self, u, c.q) BY <1>4, <1>5
  <2> QED BY <1>1, <1>5, <2>1, SummedKeeps
<1>8. Parts(runtime, file, u, b, call["cli"]) BY <1>7 DEF e
<1>9. PICK pr : pr = prepared' OBVIOUS
<1>10. pr \in {None} \cup [fresh : BOOLEAN] /\ ReadTrue(file, u, pr) BY <1>9
<1>11. queue' \subseteq Queries BY <1>1
<1> QED BY <1>3, <1>5, <1>6, <1>8, <1>9, <1>10, <1>11, DaemonStep

LEMMA SumStep ==
  ASSUME ConstantsOK, UsageInductive, Sum
  PROVE  UsageInductive'
<1> DEFINE q == call["daemon"].q
<1>1. call["daemon"].at = "sum" /\ UNCHANGED events BY DEF Sum
<1>2. CASE Victims(q) = {}
  <2>1. Fails("daemon") BY <1>2 DEF Sum
  <2>2. "daemon" \in Procs BY DEF Procs
  <2> QED BY <1>1, <2>1, <2>2, FailsStep
<1>3. CASE Victims(q) # {}
  <2>1. PICK v \in Victims(q) :
          /\ Store(Summed(q, v))
          /\ call' = [call EXCEPT !["daemon"].at = "end",
                        !["daemon"].self = Total(Summed(q, v).cache[q])]
          /\ UNCHANGED <<runtime, file, queue>>
    BY <1>3 DEF Sum
  <2>2. PICK u : u = Summed(q, v) OBVIOUS
  <2>3. q \in Queries
    <3>1. HandsOK(call["daemon"]) BY Given
    <3> QED BY <1>1, <3>1 DEF HandsOK
  <2>4. runtime \in Runs /\ db \in Ledgers /\ Sums(runtime, db) BY Given
  <2>5. /\ u \in Ledgers /\ Sums(runtime, u) /\ u.index = db.index /\ u.facts = db.facts
        /\ u.cache[q] # None /\ u.cache[q] \in Caches
    <3> HIDE DEF q
    <3> QED BY <2>2, <2>3, <2>4, SummedIs
  <2>6. PICK x, t : x = u.cache[q] /\ t = Total(x) OBVIOUS
  <2>7. x \in Caches BY <2>5, <2>6
  <2>8. /\ t \in Totals /\ t.sum = x.sum /\ t.amb = (x.amb > 0) /\ (~t.building => x.complete)
    BY <2>6, <2>7, TotalIs
  <2>9. TotalOf(t, u, q) BY <2>5, <2>6, <2>8, Zenon DEF TotalOf
  <2>10. /\ Store(u) /\ runtime' = runtime /\ file' = file /\ queue' = queue
         /\ call' = [call EXCEPT !["daemon"].at = "end", !["daemon"].self = t]
    BY <2>1, <2>2, <2>6
  <2>11. db' = u /\ prepared' \in {None} \cup [fresh : BOOLEAN] /\ ReadTrue(file, u, prepared')
    BY <2>10, StoredIs
  <2> QED BY <1>1, <2>5, <2>8, <2>9, <2>10, <2>11, ToldStep
<1> QED BY <1>2, <1>3

LEMMA SumBusyStep ==
  ASSUME ConstantsOK, UsageInductive, SumBusy
  PROVE  UsageInductive'
<1> DEFINE q == call["daemon"].q
           c == db.cache[q]
<1>1. PICK x, t : x = (IF c = None THEN NewCache ELSE c) /\ t = Total(x) OBVIOUS
<1>2. /\ call["daemon"].at = "sum" /\ UNCHANGED events
      /\ call' = [call EXCEPT !["daemon"].at = "end", !["daemon"].self = t]
      /\ runtime' = runtime /\ file' = file /\ db' = db /\ queue' = queue /\ prepared' = prepared
  BY <1>1 DEF SumBusy, Busy
<1>3. /\ runtime \in Runs /\ db \in Ledgers /\ Sums(runtime, db)
      /\ prepared \in {None} \cup [fresh : BOOLEAN] /\ ReadTrue(file, db, prepared)
  BY Given DEF Shapes
<1>4. q \in Queries
  <2>1. HandsOK(call["daemon"]) BY Given
  <2> QED BY <1>2, <2>1 DEF HandsOK
<1>5. NewCache \in Caches /\ ~NewCache.complete BY DEF NewCache, Caches
<1>6. c # None => c \in Caches BY <1>3, <1>4 DEF Ledgers
<1>7. x \in Caches BY <1>1, <1>5, <1>6
<1>8. /\ t \in Totals /\ t.sum = x.sum /\ t.amb = (x.amb > 0) /\ (~t.building => x.complete)
  BY <1>1, <1>7, TotalIs
<1>9. TotalOf(t, db, q) BY <1>1, <1>5, <1>8, Zenon DEF TotalOf
<1>10. PICK u : u = db OBVIOUS
<1>11. /\ u \in Ledgers /\ db' = u /\ u.index = db.index /\ u.facts = db.facts /\ Sums(runtime, u)
       /\ TotalOf(t, u, q) /\ prepared' \in {None} \cup [fresh : BOOLEAN]
       /\ ReadTrue(file, u, prepared')
  BY <1>2, <1>3, <1>9, <1>10
<1> QED BY <1>2, <1>8, <1>11, ToldStep

LEMMA IndexedUsageStep ==
  ASSUME ConstantsOK, UsageInductive, IndexedUsage
  PROVE  UsageInductive'
<1> DEFINE c == call["daemon"]
           e == call["cli"]
<1>1. PICK v \in Victims("all") : Store(Summed("all", v)) BY DEF IndexedUsage
<1>2. PICK u, q : u = Summed(q, v) /\ q = "all" OBVIOUS
<1>3. q \in Queries /\ v \in Victims(q) BY <1>2 DEF Queries
<1>4. /\ runtime \in Runs /\ db \in Ledgers /\ Sums(runtime, db) /\ queue \subseteq Queries
      /\ Parts(runtime, file, db, c, e) /\ c \in Calls /\ e \in Calls /\ HandsOK(c)
      /\ e.at \in {"idle", "index"} /\ (e.fd # None <=> e.at = "index") /\ call \in [Procs -> Calls]
  BY Given DEF Shapes
<1>5. /\ u \in Ledgers /\ Sums(runtime, u) /\ u.index = db.index /\ u.facts = db.facts
      /\ u.cache[q] # None
      /\ db.cache[q] # None /\ db.cache[q].complete => u.cache[q] = db.cache[q]
  BY <1>2, <1>3, <1>4, SummedIs
<1>6. AllComplete(db) => AllComplete(u) BY <1>2, <1>5 DEF AllComplete
<1>7. Parts(runtime, file, u, c, e)
  <2> HIDE DEF c, e
  <2> QED BY <1>4, <1>5, <1>6, OtherSumKeeps
<1>8. /\ runtime' = runtime /\ file' = file /\ call' = call /\ queue' = queue /\ Disturbed /\ Store(u)
  BY <1>1, <1>2 DEF IndexedUsage
<1>9. PICK pr : pr = prepared' OBVIOUS
<1>10. db' = u /\ pr \in {None} \cup [fresh : BOOLEAN] /\ ReadTrue(file, u, pr)
  BY <1>8, <1>9, StoredIs
<1>11. events' \in Nat /\ events' <= MaxEvents BY <1>8, EventsAre
<1>12. call' \in [Procs -> Calls] /\ c = call'["daemon"] /\ e = call'["cli"] /\ queue' \subseteq Queries
  BY <1>4, <1>8
<1> HIDE DEF c, e
<1> QED BY <1>4, <1>5, <1>7, <1>8, <1>9, <1>10, <1>11, <1>12, SteppedInductive

-----------------------------------------------------------------------------
(* The answer *)

Fenced(d, q, x) == [d EXCEPT !.fence[q] = x]
LEMMA FencedIs ==
  ASSUME NEW d \in Ledgers, NEW q \in Queries, NEW x \in {None} \cup Fences
  PROVE  /\ Fenced(d, q, x) \in Ledgers /\ Fenced(d, q, x).index = d.index
         /\ Fenced(d, q, x).facts = d.facts /\ Fenced(d, q, x).cache = d.cache
<1>1. /\ d.index \in {None} \cup Indexes /\ d.facts \in Seq(Records)
      /\ d.fence \in [Queries -> {None} \cup Fences]
      /\ d.cache \in [Queries -> {None} \cup Caches]
  BY DEF Ledgers
<1>2. [d.fence EXCEPT ![q] = x] \in [Queries -> {None} \cup Fences] BY <1>1
<1>3. Fenced(d, q, x) = [index |-> d.index, facts |-> d.facts, cache |-> d.cache,
                         fence |-> [d.fence EXCEPT ![q] = x]]
  BY DEF Fenced, Ledgers
<1> QED BY <1>1, <1>2, <1>3 DEF Ledgers

\* A visit that read all there is now leaves nothing to read.
LEMMA VisitIsRead ==
  ASSUME NEW rt, NEW f \in Files, NEW d \in Ledgers, NEW c \in Calls, NEW e, HandsOK(c),
         Parts(rt, f, d, c, e), c.at = "end", c.job = "visit", c.fresh, ~c.self.building,
         c.index.off = c.src.size, c.src.at = f.at
  PROVE  d.index # None /\ d.index.ino = f.ino /\ d.index.off = Size(f) /\ AllComplete(d)
<1>1. c.at # "idle" /\ Summing(c) /\ c.job # "read" BY DEF Summing
<1>2. StampSound(f, c.src) BY <1>1 DEF Parts, LooksTrue
<1>3. c.src = Stamp(f) BY <1>2 DEF StampSound
<1>4. c.index.off = Size(f) BY <1>3, StampIs
<1>5. OfFile(f, c.index) /\ OfFile(f, d.index) /\ d.index.off >= c.index.off
  BY <1>1 DEF Parts, FreshTrue
<1>6. d.index \in Indexes /\ IndexSound(f, d.index) /\ d.index.head[1] = f.gen /\ d.index # None
  BY <1>5 DEF OfFile, Ledgers, Parts, FactsTrue
<1>7. d.index.off <= Size(f) /\ d.index.ino = f.ino BY <1>6, OffIs
<1>8. d.index.off \in Nat /\ Size(f) \in Nat BY <1>6, IndexIs, SizeIs
<1>9. d.index.off = Size(f) BY <1>4, <1>5, <1>7, <1>8
<1>10. AllComplete(d) BY <1>4 DEF Parts, SelfTrue
<1> QED BY <1>6, <1>7, <1>9, <1>10

LEMMA FenceIs ==
  ASSUME NEW c \in Calls, HandsOK(c), c.at # "idle", db \in Ledgers, NEW wrote
  PROVE  FenceOf(c, wrote) \in {None} \cup Fences
<1>1. c.q \in Queries /\ c.src \in Stamps BY DEF HandsOK, Calls
<1>2. db.fence[c.q] \in {None} \cup Fences BY <1>1 DEF Ledgers
<1>3. [ino |-> c.src.ino, bytes |-> c.src.size] \in Fences BY <1>1 DEF Stamps, Fences
<1> QED BY <1>2, <1>3 DEF FenceOf

LEMMA AnswerStep ==
  ASSUME ConstantsOK, UsageInductive, NEW wrote \in BOOLEAN, Answer(wrote)
  PROVE  UsageInductive'
<1> DEFINE c == call["daemon"]
           e == call["cli"]
<1>1. PICK fence : fence = FenceOf(c, wrote) OBVIOUS
<1>2. PICK x : x = IF NewFence(c) /\ ~wrote THEN db.fence[c.q] ELSE fence OBVIOUS
<1>3. PICK u : u = Fenced(db, c.q, x) OBVIOUS
<1>4. /\ c.at = "end" /\ db' = u /\ Done("daemon") /\ runtime' = runtime /\ file' = file
      /\ prepared' = IF c.job = "visit" THEN complete(c, fence)
                     ELSE IF db' = db THEN prepared ELSE None
      /\ queue' = IF State(c, fence) # "building" THEN queue \ {c.q}
                  ELSE IF c.job = "read" THEN queue \cup {c.q} ELSE queue
      /\ IF wrote THEN UNCHANGED events ELSE NewFence(c) /\ Busy("daemon")
  BY <1>1, <1>2, <1>3 DEF Answer, Fenced
<1>5. UNCHANGED events BY <1>4 DEF Busy
<1>6. /\ db \in Ledgers /\ queue \subseteq Queries /\ prepared \in {None} \cup [fresh : BOOLEAN]
      /\ ReadTrue(file, db, prepared) /\ Parts(runtime, file, db, c, e) /\ file \in Files
      /\ c \in Calls /\ HandsOK(c)
  BY Given DEF Shapes
<1> HIDE DEF c, e
<1>7. c.q \in Queries BY <1>4, <1>6 DEF HandsOK
<1>8. x \in {None} \cup Fences
  <2>1. fence \in {None} \cup Fences BY <1>1, <1>4, <1>6, FenceIs
  <2>2. db.fence[c.q] \in {None} \cup Fences BY <1>6, <1>7 DEF Ledgers
  <2> QED BY <1>2, <2>1, <2>2
<1>9. u \in Ledgers /\ u.index = db.index /\ u.facts = db.facts /\ u.cache = db.cache
  BY <1>3, <1>6, <1>7, <1>8, FencedIs
<1>10. Parts(runtime, file, u, c, e)
  <2>1. Sums(runtime, u) BY <1>6, <1>9 DEF Parts, Sums
  <2>2. AllComplete(db) => AllComplete(u) BY <1>9 DEF AllComplete
  <2> QED BY <1>6, <1>9, <2>1, <2>2, OtherSumKeeps
<1>11. PICK pr : pr = prepared' OBVIOUS
<1>12. ReadTrue(file, u, None) BY ReadNone
<1>13. pr \in {None} \cup [fresh : BOOLEAN] /\ ReadTrue(file, u, pr)
  <2>1. CASE c.job # "visit"
    <3>1. pr = None \/ pr = prepared BY <1>4, <1>11, <2>1
    <3>2. ReadTrue(file, u, prepared) BY <1>6, <1>9 DEF ReadTrue, AllComplete
    <3> QED BY <1>6, <1>12, <3>1, <3>2
  <2>2. CASE c.job = "visit"
    <3>1. pr = complete(c, fence) BY <1>4, <1>11, <2>2
    <3>2. CASE pr = None BY <1>12, <3>2
    <3>3. CASE pr # None
      <4>1. /\ pr = [fresh |-> c.fresh] /\ c.src.at = file.at
            /\ State(c, fence) = "ready" \/ caughtUpPartial(c, fence)
        BY <3>1, <3>3 DEF complete
      <4>2. c.q = "all" BY <1>6, <2>2 DEF HandsOK
      <4>3. c.index.off = c.src.size /\ ~c.self.building
        <5>1. CASE State(c, fence) = "ready"
          <6>1. Ready(c, fence) /\ ~c.self.building BY <5>1 DEF State
          <6>2. ~snapshotReady(c, fence) BY <4>2 DEF snapshotReady
          <6> QED BY <6>1, <6>2 DEF Ready, caughtUp
        <5>2. CASE caughtUpPartial(c, fence) BY <5>2 DEF caughtUpPartial
        <5> QED BY <4>1, <5>1, <5>2
      <4>4. c.fresh \in BOOLEAN BY <1>6 DEF Calls
      <4>5. pr \in [fresh : BOOLEAN] BY <4>1, <4>4
      <4>6. ASSUME pr = [fresh |-> TRUE]
            PROVE  u.index # None /\ u.index.ino = file.ino /\ u.index.off = Size(file) /\ AllComplete(u)
        <5>1. c.fresh
          <6>1. pr.fresh = c.fresh /\ pr.fresh = TRUE BY <4>1, <4>6
          <6> QED BY <6>1
        <5> QED BY <1>4, <1>6, <1>9, <1>10, <2>2, <4>1, <4>3, <5>1, VisitIsRead
      <4> QED BY <4>5, <4>6 DEF ReadTrue
    <3> QED BY <3>2, <3>3
  <2> QED BY <2>1, <2>2
<1>14. queue' \subseteq Queries BY <1>4, <1>6, <1>7
<1>15. "daemon" \in Procs BY DEF Procs
<1>16. Parts(runtime, file, u, call["daemon"], call["cli"]) BY <1>10 DEF c, e
<1> QED BY <1>4, <1>5, <1>9, <1>11, <1>13, <1>14, <1>15, <1>16, DoneStep

-----------------------------------------------------------------------------
(* Always *)

LEMMA UsageStep ==
  ASSUME ConstantsOK, UsageInductive, [Next]_vars
  PROVE  UsageInductive'
<1>1. CASE UNCHANGED vars BY <1>1 DEF vars, UsageInductive
<1>2. ASSUME NEW l \in Lines, Record(l) PROVE UsageInductive' BY <1>2, RecordStep
<1>3. CASE Begin BY <1>3, BeginStep
<1>4. ASSUME NEW ino \in 1..2, NEW lines \in Early, Replace(ino, lines) PROVE UsageInductive'
  BY <1>4, ReplaceStep
<1>5. CASE (\E q \in Queries : UsageRead(q) \/ Requested(q)) \/ Visit BY <1>5, CallsStep
<1>6. CASE TranscriptRead BY <1>6, TranscriptReadStep
<1>7. CASE Open BY <1>7, OpenStep
<1>8. ASSUME NEW p \in Procs, Index(p) PROVE UsageInductive'
  <2>1. p = "daemon" \/ p = "cli" BY DEF Procs
  <2> QED BY <1>8, <2>1, DaemonIndexStep, ReaderIndexStep
<1>9. ASSUME NEW p \in Procs, IndexBusy(p) PROVE UsageInductive' BY <1>9, IndexBusyStep
<1>10. CASE Sum BY <1>10, SumStep
<1>11. CASE IndexedUsage BY <1>11, IndexedUsageStep
<1>12. CASE ReadIndex BY <1>12, ReadIndexStep
<1>13. CASE SumBusy BY <1>13, SumBusyStep
<1>14. ASSUME NEW wrote \in BOOLEAN, Answer(wrote) PROVE UsageInductive' BY <1>14, AnswerStep
<1>15. CASE Restart BY <1>15, RestartStep
<1>16. CASE Prune BY <1>16, PruneStep
<1> QED
  BY <1>1, <1>2, <1>3, <1>4, <1>5, <1>6, <1>7, <1>8, <1>9, <1>10, <1>11, <1>12, <1>13,
     <1>14, <1>15, <1>16 DEF Next

LEMMA UsageStarts ==
  ASSUME ConstantsOK, Init
  PROVE  UsageInductive
<1> DEFINE c == call["daemon"]
           e == call["cli"]
<1>1. PICK lines \in Early :
        file = [gen |-> 1, ino |-> 1, at |-> 0, lines |-> lines, tail |-> FALSE, old |-> <<>>]
  BY DEF Init
<1>2. /\ runtime \in Runtimes /\ db = Empty /\ call = [p \in Procs |-> Idle] /\ queue = {}
      /\ prepared = None /\ events = 0
  BY DEF Init
<1>3. lines \in Seq(Records) /\ Len(lines) <= MaxLines /\ Len(lines) \in Nat /\ MaxLines \in Nat
  BY DEF ConstantsOK
<1>4. PICK gen, ino, at, old, half : gen = 1 /\ ino = 1 /\ at = 0 /\ old = <<>> /\ half = FALSE
  OBVIOUS
<1>5. /\ gen \in Gens /\ ino \in 1..2 /\ at \in Nat /\ old \in Seq(Records) /\ half \in BOOLEAN
  <2>1. 1 \in 1..2 /\ 0 \in Nat OBVIOUS
  <2>2. <<>> \in Seq(Records) OBVIOUS
  <2>3. half \in BOOLEAN BY <1>4
  <2>4. gen \in Gens /\ ino \in 1..2 /\ at \in Nat BY <1>4, <2>1 DEF Gens
  <2>5. old \in Seq(Records) BY <1>4, <2>2
  <2> QED BY <2>3, <2>4, <2>5
<1>6. file = FileOf(gen, ino, at, lines, half, old) BY <1>1, <1>4 DEF FileOf
<1>7. file \in Files /\ (~half => Size(file) = 2 * Len(lines)) /\ file.at = at
  BY <1>3, <1>5, <1>6, FileIs
<1>8. c = Idle /\ e = Idle /\ call \in [Procs -> Calls] BY <1>2, IdleIs DEF Procs
<1>9. HandsOK(Idle) /\ Idle.at = "idle" /\ Idle.fd = None /\ Idle \in Calls
  BY IdleIs DEF ConstantsOK
<1>10. Shapes(runtime, file, db, c, e, queue, prepared, events)
  <2>1. Size(file) <= 2 * MaxLines BY <1>3, <1>4, <1>7
  <2>2. file.at <= MaxChanges /\ events <= MaxEvents /\ events \in Nat
    BY <1>2, <1>4, <1>7 DEF ConstantsOK
  <2> QED BY <1>2, <1>7, <1>8, <1>9, <2>1, <2>2, EmptyIs DEF Shapes
<1>11. Parts(runtime, file, db, c, e)
  <2>1. Sums(runtime, db) /\ FactsTrue(runtime, file, db)
    BY <1>2, EmptyIs DEF FactsTrue, OfFile
  <2>2. ~Summing(Idle) BY <1>9 DEF Summing
  <2> HIDE DEF c, e
  <2> QED BY <1>8, <1>9, <2>1, <2>2 DEF Parts, LooksTrue, FreshTrue, SelfTrue
<1>12. ReadTrue(file, db, prepared) BY <1>2, ReadNone
<1> QED BY <1>8, <1>10, <1>11, <1>12 DEF UsageInductive, UsageInd

\* The index describes the file it was made of, the ledger has the facts of its lines, every
\* total is that of the ledger up to where it was read, and the looks a call has in hand are
\* of one file (agent/transcript/transcriptIndex.ts, usage/store.ts).
THEOREM UsageInvariant ==
  ASSUME ConstantsOK
  PROVE  Spec => []UsageInductive
<1>1. Init => UsageInductive BY UsageStarts
<1>2. UsageInductive /\ [Next]_vars => UsageInductive' BY UsageStep
<1> QED BY <1>1, <1>2, PTL DEF Spec

-----------------------------------------------------------------------------
(* What it says in the words of the model *)

LEMMA TypesFollow ==
  ASSUME ConstantsOK, UsageInductive
  PROVE  TypeOK
BY DEF UsageInductive, UsageInd, Shapes, TypeOK

LEMMA SumsFollow ==
  ASSUME ConstantsOK, UsageInductive
  PROVE  SumsTrue
<1> SUFFICES ASSUME NEW q \in Queries, db.cache[q] # None
             PROVE  [db.cache[q] EXCEPT !.through = 0] =
                      Added([NewCache EXCEPT !.complete = db.cache[q].complete], q, db.facts, 0,
                            IF db.cache[q].complete THEN Len(db.facts) ELSE db.cache[q].through)
  BY DEF SumsTrue
<1>1. runtime \in Runs /\ db \in Ledgers /\ Sums(runtime, db) BY Given
<1>2. PICK c, facts, to : /\ c = db.cache[q] /\ facts = db.facts
                          /\ to = (IF db.cache[q].complete THEN Len(db.facts) ELSE db.cache[q].through)
  OBVIOUS
<1>3. c \in Caches /\ facts \in Seq(Records) BY <1>1, <1>2 DEF Ledgers
<1>4. SumOK(runtime, q, facts, c) BY <1>1, <1>2 DEF Sums
<1>5. /\ to \in 0..Len(facts) /\ c.sum = Tokens(runtime, q, facts, to)
      /\ c.amb = Doubtful(runtime, facts, to)
  <2>1. Len(facts) \in Nat /\ c.through \in Nat /\ c.through <= Len(facts)
    BY <1>3, <1>4 DEF SumOK, Caches
  <2>2. to \in 0..Len(facts) BY <1>2, <2>1
  <2> QED BY <1>2, <1>4, <2>2 DEF SumOK
<1>6. PICK n : n = [NewCache EXCEPT !.complete = c.complete] OBVIOUS
<1>7. n = CacheOf(0, 0, 0, c.complete) BY <1>6 DEF NewCache, CacheOf
<1>8. n \in IntCaches /\ n.sum = 0 /\ n.amb = 0 /\ n.through = 0 /\ n.complete = c.complete
  BY <1>3, <1>7 DEF IntCaches, CacheOf, Caches
<1>9. 0 \in 0..Len(facts) /\ to \in 0..Len(facts) BY <1>3, <1>5
<1>10. Added(n, q, facts, 0, to) =
         CacheOf(n.sum + Tokens(runtime, q, facts, to) - Tokens(runtime, q, facts, 0),
                 n.amb + Doubtful(runtime, facts, to) - Doubtful(runtime, facts, 0),
                 n.through, n.complete)
  BY <1>1, <1>3, <1>8, <1>9, AddedIs
<1>11. Tokens(runtime, q, facts, 0) = 0 /\ Doubtful(runtime, facts, 0) = 0 BY <1>1, <1>3, TokensRec
<1>12. c.sum \in Nat /\ c.amb \in Nat BY <1>3 DEF Caches
<1>13. n.sum + c.sum - 0 = c.sum /\ n.amb + c.amb - 0 = c.amb BY <1>8, <1>12
<1>14. Added(n, q, facts, 0, to) = CacheOf(c.sum, c.amb, 0, c.complete)
  BY <1>5, <1>8, <1>10, <1>11, <1>13
<1>15. [c EXCEPT !.through = 0] = CacheOf(c.sum, c.amb, 0, c.complete)
  BY <1>3 DEF Caches, CacheOf
<1> QED BY <1>2, <1>6, <1>14, <1>15

LEMMA FactsFollow ==
  ASSUME ConstantsOK, UsageInductive
  PROVE  FactsSound
<1>1. runtime \in Runs /\ db \in Ledgers /\ file \in Files /\ Sums(runtime, db)
      /\ FactsTrue(runtime, file, db)
  BY Given
<1>2. IF db.index = None THEN db.facts = <<>>
      ELSE IndexSound(file, db.index) /\ Len(db.facts) <= db.index.off \div 2
  BY <1>1 DEF FactsTrue
<1>3. ASSUME OfFile(file, db.index)
      PROVE  db.facts = PutAll(Empty, SubSeq(file.lines, 1, db.index.off \div 2)).facts
  <2>1. db.facts = FactsOf(runtime, file.lines, db.index.off \div 2) BY <1>1, <1>3 DEF FactsTrue
  <2>2. db.index \in Indexes /\ IndexSound(file, db.index) /\ db.index.head[1] = file.gen
    BY <1>1, <1>3 DEF OfFile, Ledgers, FactsTrue
  <2>3. PICK k, ls, d, ms : /\ k = db.index.off \div 2 /\ ls = file.lines /\ d = Empty
                            /\ ms = SubSeq(file.lines, 1, db.index.off \div 2)
    OBVIOUS
  <2>4. k \in 0..Len(ls) BY <1>1, <2>2, <2>3, OffIs
  <2>5. ls \in Seq(Records) BY <1>1, <2>3 DEF Files
  <2>6. ms \in Seq(Records)
    <3>1. 0 \in Nat /\ k \in Nat /\ 0 <= k /\ k <= Len(ls) /\ 0 + 1 = 1 BY <2>4, <2>5
    <3>2. SubSeq(ls, 0 + 1, k) \in Seq(Records) BY <2>5, <3>1, SubSeqIs
    <3> QED BY <2>3, <3>1, <3>2
  <2>7. d \in SoundLedgers(runtime) /\ d.facts = <<>> BY <2>3, EmptyIs
  <2>8. PutAll(d, ms).facts = FactsAfter(runtime, d.facts, ms) BY <1>1, <2>6, <2>7, PutAllIs
  <2> QED BY <2>1, <2>3, <2>7, <2>8 DEF FactsOf
<1>4. \A q \in Queries : db.cache[q] # None => db.cache[q].through <= Len(db.facts)
  BY <1>1 DEF Sums, SumOK
<1> QED BY <1>2, <1>3, <1>4 DEF FactsSound

LEMMA CallsFollow ==
  ASSUME ConstantsOK, UsageInductive
  PROVE  CallSound
<1> DEFINE c == call["daemon"]
           e == call["cli"]
<1>1. LooksTrue(file, db, c, e) /\ FreshTrue(file, db, c, e) BY Given DEF Parts
<1>2. \A p \in Procs : call[p].fd # None => StampSound(file, call[p].fd)
  BY <1>1 DEF LooksTrue, Procs
<1>3. c.at # "idle" =>
        /\ StampSound(file, c.src)
        /\ \A p \in Procs : call[p].fd # None => (call[p].fd.at = c.src.at => call[p].fd = c.src)
        /\ db.index # None => (StampOf(db.index).at = c.src.at => StampOf(db.index) = c.src)
  BY <1>1 DEF LooksTrue, Procs, SameLook
<1>4. c.at \in {"sum", "end"} =>
        /\ IndexSound(file, c.index)
        /\ StampOf(c.index).at = c.src.at => StampOf(c.index) = c.src
        /\ db.index # None
  BY <1>1 DEF LooksTrue, Summing, SameLook
<1>5. c.at # "idle" /\ c.fresh =>
        /\ c.src.gen = file.gen
        /\ \A p \in Procs : call[p].fd # None => call[p].fd.gen = file.gen
        /\ e.fd # None => e.fd.at = file.at
        /\ c.at \in {"sum", "end"} /\ OfFile(file, c.index) =>
             OfFile(file, db.index) /\ db.index.off >= c.index.off
        /\ c.at \in {"read", "sum", "end"} /\ c.job # "read" => OfFile(file, db.index)
        /\ c.at \in {"sum", "end"} /\ c.job # "read" => OfFile(file, c.index)
  BY <1>1 DEF FreshTrue, Summing, Procs
<1> QED BY <1>2, <1>3, <1>4, <1>5 DEF CallSound

LEMMA SelfFollows ==
  ASSUME ConstantsOK, UsageInductive
  PROVE  SelfSound
<1> DEFINE c == call["daemon"]
           e == call["cli"]
<1>1. /\ runtime \in Runs /\ file \in Files /\ Parts(runtime, file, db, c, e) /\ c \in Calls
      /\ HandsOK(c)
  BY Given
<1> SUFFICES ASSUME c.at = "end", c.fresh, ~c.self.building
             PROVE  /\ OfFile(file, c.index) /\ ~c.self.amb =>
                         \E k \in (c.index.off \div 2)..Len(file.lines) :
                           c.self.sum = Expected(SubSeq(file.lines, 1, k), c.q)
                    /\ c.job = "visit" /\ c.index.off = Size(file) =>
                         db.cache["all"] # None /\ db.cache["all"].complete
  BY DEF SelfSound
<1> HIDE DEF c, e
<1>2. c.job = "visit" /\ c.index.off = Size(file) => AllComplete(db) BY <1>1 DEF Parts, SelfTrue
<1>3. ASSUME OfFile(file, c.index), ~c.self.amb
      PROVE  \E k \in (c.index.off \div 2)..Len(file.lines) :
               c.self.sum = Expected(SubSeq(file.lines, 1, k), c.q)
  <2>1. PICK k \in (c.index.off \div 2)..Len(file.lines) :
          c.self.sum = ExpectedOf(runtime, c.q, file.lines, k)
    BY <1>1, <1>3 DEF Parts, SelfTrue
  <2>2. c.index \in Indexes /\ IndexSound(file, c.index) /\ c.index.head[1] = file.gen
    BY <1>1, <1>3 DEF OfFile, Calls, Parts, LooksTrue, Summing
  <2>3. c.index.off \div 2 \in 0..Len(file.lines) BY <1>1, <2>2, OffIs
  <2>4. PICK ls : ls = file.lines OBVIOUS
  <2>5. ls \in Seq(Records) /\ Len(ls) \in Nat BY <1>1, <2>4 DEF Files
  <2>6. k \in 0..Len(ls) BY <2>3, <2>4, <2>5
  <2>7. Expected(SubSeq(ls, 1, k), c.q) = ExpectedOf(runtime, c.q, ls, k)
    BY <1>1, <2>5, <2>6, ExpectedIs
  <2> QED BY <2>1, <2>4, <2>7
<1> QED BY <1>2, <1>3 DEF AllComplete

LEMMA PassedOverFollows ==
  ASSUME ConstantsOK, UsageInductive
  PROVE  PassedOverIsRead
<1>1. ReadTrue(file, db, prepared) BY Given
<1> QED BY <1>1 DEF ReadTrue, AllComplete, PassedOverIsRead

LEMMA ReadyFollows ==
  ASSUME ConstantsOK, UsageInductive
  PROVE  ReadyIsTrue
<1> DEFINE c == call["daemon"]
           e == call["cli"]
<1>1. /\ runtime \in Runs /\ file \in Files /\ Parts(runtime, file, db, c, e) /\ c \in Calls
      /\ HandsOK(c) /\ SelfSound /\ db \in Ledgers
  BY Given, SelfFollows
<1> SUFFICES ASSUME c.at = "end", c.fresh, NEW wrote \in BOOLEAN, NEW fence,
                    fence = FenceOf(c, wrote), State(c, fence) = "ready", ~c.self.amb,
                    c.q = "all" \/ c.index.head[1] = c.src.gen,
                    NEW need, need = (IF c.q = "all" THEN c.src.size
                                      ELSE IF fence = None THEN c.src.size ELSE fence.bytes)
             PROVE  \E k \in ((need + 1) \div 2)..Len(file.lines) :
                      c.self.sum = Expected(SubSeq(file.lines, 1, k), c.q)
  BY DEF ReadyIsTrue
<1>2. Ready(c, fence) /\ ~c.self.building BY DEF State
<1>3. OfFile(file, c.index) /\ ~c.self.amb =>
        \E k \in (c.index.off \div 2)..Len(file.lines) :
          c.self.sum = Expected(SubSeq(file.lines, 1, k), c.q)
  BY <1>1, <1>2 DEF SelfSound
<1> HIDE DEF c, e
<1>4. c.at # "idle" /\ Summing(c) BY DEF Summing
<1>5. c.index \in Indexes /\ c.index # None /\ c.src \in Stamps /\ c.q \in Queries
  BY <1>1, <1>4 DEF HandsOK, Calls
<1>6. /\ c.src.gen = file.gen /\ SameLook(StampOf(c.index), c.src)
  BY <1>1, <1>4 DEF Parts, LooksTrue, FreshTrue
<1>7. c.index.off \in Nat /\ c.src.size \in Nat BY <1>5, IndexIs DEF Stamps
<1>8. caughtUp(c) => c.index.off = c.src.size /\ c.index.off % 2 = 0 /\ c.index.head[1] = c.src.gen
  BY <1>5, <1>6, IndexIs DEF caughtUp, SameLook
<1>9. c.index.head[1] = c.src.gen
  <2>1. c.q = "all" => ~snapshotReady(c, fence) BY DEF snapshotReady
  <2>2. c.q = "all" => caughtUp(c) BY <1>2, <2>1 DEF Ready
  <2> QED BY <1>8, <2>2
<1>10. OfFile(file, c.index) BY <1>5, <1>6, <1>9 DEF OfFile
<1>11. fence \in {None} \cup Fences BY <1>1, <1>4, FenceIs
<1>12. fence # None /\ c.q = "past" => fence.bytes \in Nat /\ fence.bytes <= c.src.size
  <2> SUFFICES ASSUME fence # None, c.q = "past"
               PROVE  fence.bytes \in Nat /\ fence.bytes <= c.src.size
    OBVIOUS
  <2>1. fence.bytes \in Nat BY <1>11 DEF Fences
  <2>2. CASE NewFence(c)
    <3>1. fence = [ino |-> c.src.ino, bytes |-> c.src.size] BY <2>2 DEF FenceOf
    <3> QED BY <1>7, <3>1
  <2>3. CASE ~NewFence(c)
    <3>1. fence = db.fence[c.q] BY <2>3 DEF FenceOf
    <3>2. ~(fence.bytes > c.src.size) BY <2>3, <3>1 DEF NewFence
    <3> QED BY <1>7, <2>1, <3>2
  <2> QED BY <2>2, <2>3
<1>13. c.q = "all" \/ c.q = "past" BY <1>5 DEF Queries
<1>14. need \in Nat /\ need <= c.src.size BY <1>7, <1>11, <1>12, <1>13
<1>15. (need + 1) \div 2 <= c.index.off \div 2 /\ (need + 1) \div 2 \in Nat
  <2>1. CASE caughtUp(c)
    <3>1. c.index.off = c.src.size /\ c.index.off % 2 = 0 BY <1>8, <2>1
    <3>2. PICK n, s : n = need /\ s = c.index.off OBVIOUS
    <3>3. n \in Nat /\ s \in Nat /\ n <= s /\ s % 2 = 0 BY <1>7, <1>14, <3>1, <3>2
    <3>4. (n + 1) \div 2 <= s \div 2 /\ (n + 1) \div 2 \in Nat BY <3>3
    <3> QED BY <3>2, <3>4
  <2>2. CASE snapshotReady(c, fence)
    <3>1. c.q = "past" /\ fence # None /\ 2 * (c.index.off \div 2) >= fence.bytes
      BY <2>2 DEF snapshotReady
    <3>2. need = fence.bytes BY <3>1
    <3>3. PICK n, s : n = need /\ s = c.index.off OBVIOUS
    <3>4. n \in Nat /\ s \in Nat /\ 2 * (s \div 2) >= n BY <1>7, <1>14, <3>1, <3>2, <3>3
    <3>5. (n + 1) \div 2 <= s \div 2 /\ (n + 1) \div 2 \in Nat BY <3>4
    <3> QED BY <3>3, <3>5
  <2> QED BY <1>2, <2>1, <2>2 DEF Ready
<1>16. PICK k \in (c.index.off \div 2)..Len(file.lines) :
         c.self.sum = Expected(SubSeq(file.lines, 1, k), c.q)
  BY <1>3, <1>10
<1>17. k \in ((need + 1) \div 2)..Len(file.lines)
  <2>1. c.index.off \div 2 \in Int /\ Len(file.lines) \in Nat BY <1>1, <1>7, SizeIs
  <2> QED BY <1>15, <2>1
<1> QED BY <1>16, <1>17

\* Usage collection (usage/aggregate.ts, usage/file.ts, usage/preparation.ts): a total that
\* is kept up is that of its ledger, an answer that calls itself ready leaves nothing out
\* and counts nothing twice, and a source that is passed over has nothing left to read.
THEOREM UsageAlwaysTrue ==
  ASSUME ConstantsOK
  PROVE  Spec => [](TypeOK /\ UsageInv /\ UsageSafe)
<1>1. UsageInductive => TypeOK /\ UsageInv /\ UsageSafe
  BY TypesFollow, SumsFollow, FactsFollow, CallsFollow, SelfFollows, PassedOverFollows, ReadyFollows
     DEF UsageInv, UsageSafe
<1>2. Spec => []UsageInductive BY UsageInvariant
<1> QED BY <1>1, <1>2, PTL
=============================================================================

---------------------------- MODULE ScoringProofs ----------------------------
(***************************************************************************)
(* The points an answer earns, for questions and answers of any size and   *)
(* any time limit.                                                         *)
(***************************************************************************)
EXTENDS ScoringCases, FiniteSetTheorems, SequenceTheorems, TLAPS

(* Division rounds down but never turns an order around.                   *)
LEMMA DivisionIsMonotone ==
  ASSUME NEW n \in Nat \ {0}, NEW a \in Nat, NEW b \in Nat
  PROVE  /\ a \div n \in Nat
         /\ a <= b => a \div n <= b \div n
         /\ a + n <= b => a \div n < b \div n
OBVIOUS

-----------------------------------------------------------------------------
(* The speed bonus.                                                        *)

(* What is added to the base points of a right answer, were an int wide    *)
(* enough for it.                                                          *)
Bonus(limit, remaining) == IF remaining <= 0 THEN 0 ELSE (SpeedBonusMax * remaining) \div limit

(* The bonus never falls with the time that remains, it tells one          *)
(* millisecond from the next while the limit is short, and it stays within *)
(* its maximum when no more remains than there was.                        *)
LEMMA BonusIs ==
  ASSUME NEW limit \in Nat \ {0}, NEW r1 \in Int, NEW r2 \in Int
  PROVE  /\ Bonus(limit, r1) \in Nat
         /\ r1 <= limit => Bonus(limit, r1) <= SpeedBonusMax
         /\ r1 > r2 => Bonus(limit, r1) >= Bonus(limit, r2)
         /\ r1 > r2 /\ r1 > 0 /\ limit <= SpeedBonusMax => Bonus(limit, r1) > Bonus(limit, r2)
<1>1. \A r \in Nat \ {0} : Bonus(limit, r) = (100 * r) \div limit
  BY DEF Bonus, SpeedBonusMax
<1>2. \A r \in Int : r \notin Nat \ {0} => Bonus(limit, r) = 0
  BY DEF Bonus
<1>3. CASE r1 \notin Nat \ {0}
  BY <1>2, <1>3 DEF SpeedBonusMax
<1>4. CASE r1 \in Nat \ {0}
  <2>1. (100 * r1) \div limit \in Nat
    BY <1>4, DivisionIsMonotone
  <2>2. ASSUME r1 <= limit PROVE (100 * r1) \div limit <= 100
    <3>1. 100 * r1 <= 100 * limit
      BY <1>4, <2>2
    <3>2. (100 * limit) \div limit = 100
      OBVIOUS
    <3> QED
      BY <1>4, <3>1, <3>2, DivisionIsMonotone
  <2>3. ASSUME r2 \in Nat \ {0}, r1 > r2
        PROVE  /\ (100 * r2) \div limit <= (100 * r1) \div limit
               /\ limit <= 100 => (100 * r2) \div limit < (100 * r1) \div limit
    <3>1. 100 * r1 \in Nat /\ 100 * r2 \in Nat /\ 100 * r2 + 100 <= 100 * r1
      BY <1>4, <2>3
    <3>2. 100 * r2 <= 100 * r1
      BY <3>1
    <3>3. limit <= 100 => 100 * r2 + limit <= 100 * r1
      BY <3>1
    <3> HIDE DEF SpeedBonusMax
    <3> QED
      BY <3>1, <3>2, <3>3, DivisionIsMonotone
  <2>4. ASSUME r2 \notin Nat \ {0}, limit <= 100 PROVE (100 * r1) \div limit > 0
    <3>1. 100 * r1 \in Nat /\ 0 + limit <= 100 * r1
      BY <1>4, <2>4
    <3>2. 0 \div limit = 0
      OBVIOUS
    <3> QED
      BY <3>1, <3>2, DivisionIsMonotone
  <2>5. CASE r2 \in Nat \ {0}
    BY <1>1, <1>4, <2>1, <2>2, <2>3, <2>5 DEF SpeedBonusMax
  <2>6. CASE r2 \notin Nat \ {0}
    BY <1>1, <1>2, <1>4, <2>1, <2>2, <2>4, <2>6 DEF SpeedBonusMax
  <2> QED
    BY <2>5, <2>6
<1> QED
  BY <1>3, <1>4

(* A number that fits an int is not changed by narrowing it.               *)
LEMMA NarrowKeeps ==
  ASSUME NEW x \in Nat, x < IntLimit
  PROVE  Narrow(x) = x
<1>1. IntLimit \in Nat /\ x + IntLimit \in 0..(2 * IntLimit - 1)
  BY ScoringAssumption
<1>2. ASSUME NEW n \in Nat, NEW y \in 0..(n - 1) PROVE y % n = y
  <2>1. n \in Nat \ {0} /\ y \in Nat /\ y < n
    OBVIOUS
  <2>2. y \div n = 0
    BY <2>1
  <2> QED
    BY <2>1, <2>2
<1>3. 2 * IntLimit \in Nat
  BY <1>1
<1>4. (x + IntLimit) % (2 * IntLimit) = x + IntLimit
  BY <1>1, <1>2, <1>3
<1> QED
  BY <1>1, <1>4 DEF Narrow

(* The bonus is less than k when a fraction of k times the limit remains.  *)
LEMMA DivisionIsBelow ==
  ASSUME NEW n \in Nat \ {0}, NEW a \in Nat, NEW k \in Nat, a < k * n
  PROVE  a \div n < k
<1>1. PICK q : q = a \div n
  OBVIOUS
<1>2. q \in Nat /\ q * n <= a
  BY <1>1
<1>3. SUFFICES ASSUME q >= k PROVE FALSE
  BY <1>1, <1>2
<1>4. PICK d \in Nat : q = k + d
  <2>1. q - k \in Nat /\ q = k + (q - k)
    BY <1>2, <1>3
  <2> QED
    BY <2>1
<1>5. q * n = k * n + d * n
  BY <1>4
<1>6. d * n >= 0 /\ d * n \in Int /\ k * n \in Int
  OBVIOUS
<1> QED
  BY <1>2, <1>5, <1>6

-----------------------------------------------------------------------------
(* Questions and answers.                                                  *)

(* A vector of indices is a sequence of natural numbers.                   *)
LEMMA VectorIsSeq ==
  ASSUME NEW v \in IndexVectors
  PROVE  v \in Seq(Nat) /\ Len(v) \in Nat /\ DOMAIN v = 1..Len(v)
<1>1. PICK n \in 0..MaxOptions : v \in [1..n -> 0..(MaxOptions - 1)]
  BY DEF IndexVectors
<1>2. n \in Nat /\ v \in [1..n -> Nat]
  BY <1>1, CasesAssumption
<1>3. v \in Seq(Nat)
  BY <1>2, SeqDef
<1> QED
  BY <1>3, LenProperties

(* What the variables hold never changes.                                  *)
CasesTyped ==
  /\ question \in Questions
  /\ answer \in SmallAnswers
  /\ other \in SmallAnswers

(* A question has a positive limit and indices; an answer has indices and  *)
(* a time.                                                                 *)
LEMMA CaseIs ==
  ASSUME CasesTyped
  PROVE  /\ question.time_limit_ms \in Nat \ {0}
         /\ question.correct_indices \in IndexVectors
         /\ answer.selected_indices \in IndexVectors
         /\ answer.time_since_question_start_ms \in Int
         /\ other.time_since_question_start_ms \in Int
<1>1. MaxLimit \in Nat /\ Times \subseteq Int
  BY CasesAssumption
<1>2. question.time_limit_ms \in 1..MaxLimit /\ question.correct_indices \in IndexVectors
  BY DEF CasesTyped, Questions
<1>3. answer.selected_indices \in IndexVectors /\ answer.time_since_question_start_ms \in Times
      /\ other.time_since_question_start_ms \in Times
  BY DEF CasesTyped, SmallAnswers
<1>4. question.time_limit_ms \in Nat \ {0}
  BY <1>1, <1>2
<1>5. answer.time_since_question_start_ms \in Int /\ other.time_since_question_start_ms \in Int
  BY <1>1, <1>3
<1> QED
  BY <1>2, <1>3, <1>4, <1>5

(* The points, where they fit an int, are none, or the base points and the *)
(* bonus.                                                                  *)
LEMMA PointsAre ==
  ASSUME CasesTyped, NEW a, a.time_since_question_start_ms \in Int, PointsFit(a)
  PROVE  Points(a) = IF IsCorrect(question, a)
                     THEN BasePoints + Bonus(question.time_limit_ms,
                            question.time_limit_ms - a.time_since_question_start_ms)
                     ELSE 0
<1>1. question.time_limit_ms \in Nat \ {0}
  BY CaseIs
<1> DEFINE limit == question.time_limit_ms
           remaining == limit - a.time_since_question_start_ms
<1>2. remaining \in Int /\ ~(limit <= 0)
  BY <1>1
<1>3. Points(a) = IF ~IsCorrect(question, a) THEN 0
                  ELSE IF remaining <= 0 THEN BasePoints
                  ELSE BasePoints + SpeedBonus(remaining, limit)
  BY <1>2 DEF Points, CalculatePoints
<1> HIDE DEF limit, remaining
<1>4. CASE remaining <= 0
  BY <1>3, <1>4 DEF Bonus, BasePoints, limit, remaining
<1>5. CASE ~(remaining <= 0)
  <2>1. limit \in Nat \ {0} /\ remaining \in Nat \ {0}
    BY <1>1, <1>2, <1>5 DEF limit
  <2>2. IntLimit \in Nat /\ IntLimit - 100 \in Nat
    BY ScoringAssumption DEF BasePoints, SpeedBonusMax
  <2>3. 100 * remaining < (IntLimit - 100) * limit
    BY DEF PointsFit, limit, remaining, BasePoints, SpeedBonusMax
  <2>4. (100 * remaining) \div limit \in Nat
    BY <2>1, DivisionIsMonotone
  <2>5. (100 * remaining) \div limit < IntLimit - 100
    BY <2>1, <2>2, <2>3, DivisionIsBelow
  <2>6. PICK bonus : bonus = (100 * remaining) \div limit
    OBVIOUS
  <2>7. bonus \in Nat /\ bonus < IntLimit
    BY <2>2, <2>4, <2>5, <2>6
  <2>8. Narrow(bonus) = bonus
    BY <2>7, NarrowKeeps
  <2>9. SpeedBonus(remaining, limit) = Bonus(limit, remaining)
    BY <1>5, <2>6, <2>8 DEF SpeedBonus, Bonus, SpeedBonusMax
  <2> QED
    BY <1>3, <1>5, <2>9 DEF limit, remaining
<1> QED
  BY <1>4, <1>5

(* A right answer whose points fit is worth the base points at least.      *)
LEMMA RightIsPositive ==
  ASSUME CasesTyped, PointsFit(answer)
  PROVE  Points(answer) > 0 <=> IsCorrect(question, answer)
<1>1. PICK bonus : bonus = Bonus(question.time_limit_ms,
                     question.time_limit_ms - answer.time_since_question_start_ms)
  OBVIOUS
<1>2. bonus \in Nat
  BY <1>1, CaseIs, BonusIs
<1>3. Points(answer) = IF IsCorrect(question, answer) THEN BasePoints + bonus ELSE 0
  BY <1>1, CaseIs, PointsAre
<1> QED
  BY <1>2, <1>3 DEF BasePoints

(* The cases are typed, in every state.                                    *)
LEMMA AlwaysCases == CasesSpec => []CasesTyped
<1>1. CasesInit => CasesTyped
  BY DEF CasesInit, CasesTyped
<1>2. CasesTyped /\ [CasesNext]_casesVars => CasesTyped'
  BY DEF CasesTyped, CasesNext, casesVars, Questions, SmallAnswers, IndexVectors
<1> QED
  BY <1>1, <1>2, PTL DEF CasesSpec

(* A right answer earns the base points and at most the maximal bonus on   *)
(* top, a wrong one nothing, whatever the time limit.                      *)
THEOREM PointsStayInRange == CasesSpec => []PointsInRange
<1>1. CasesTyped => PointsInRange
  <2> SUFFICES ASSUME CasesTyped, answer.time_since_question_start_ms >= 0
               PROVE  Points(answer) \in {0} \cup BasePoints..(BasePoints + SpeedBonusMax)
    BY DEF PointsInRange
  <2> DEFINE limit == question.time_limit_ms
             remaining == limit - answer.time_since_question_start_ms
  <2>1. limit \in Nat \ {0} /\ remaining \in Int /\ remaining <= limit
    BY CaseIs
  <2>5. PointsFit(answer)
    <3>1. IntLimit \in Nat /\ IntLimit - 100 \in Int /\ IntLimit - 100 > 100
      BY ScoringAssumption DEF BasePoints, SpeedBonusMax
    <3>2. 100 * remaining <= 100 * limit
      BY <2>1
    <3>3. PICK d \in Nat \ {0} : IntLimit - 100 = 100 + d
      <4>1. IntLimit - 200 \in Nat \ {0} /\ IntLimit - 100 = 100 + (IntLimit - 200)
        BY <3>1
      <4> QED
        BY <4>1
    <3>4. (IntLimit - 100) * limit = 100 * limit + d * limit
      BY <2>1, <3>3
    <3>5. d * limit \in Int /\ d * limit > 0
      BY <2>1, <3>3
    <3>6. 100 * remaining < (IntLimit - 100) * limit
      BY <2>1, <3>2, <3>4, <3>5
    <3> QED
      BY <3>6 DEF PointsFit, BasePoints, SpeedBonusMax
  <2>2. Points(answer) = IF IsCorrect(question, answer) THEN BasePoints + Bonus(limit, remaining)
                         ELSE 0
    BY <2>5, CaseIs, PointsAre
  <2> HIDE DEF limit, remaining
  <2>3. PICK bonus : bonus = Bonus(limit, remaining)
    OBVIOUS
  <2>4. bonus \in Nat /\ bonus <= SpeedBonusMax
    BY <2>1, <2>3, BonusIs
  <2> QED
    BY <2>2, <2>3, <2>4 DEF BasePoints, SpeedBonusMax
<1> QED
  BY <1>1, AlwaysCases, PTL

(* Of two answers that choose the same options the earlier earns no less   *)
(* if its points fit an int, and more when the bonus can tell the two      *)
(* times apart.                                                            *)
THEOREM FasterNeverEarnsLess == CasesSpec => []FasterEarnsMore
<1>1. CasesTyped => FasterEarnsMore
  <2> DEFINE limit == question.time_limit_ms
             t1 == answer.time_since_question_start_ms
             t2 == other.time_since_question_start_ms
             b1 == Bonus(limit, limit - t1)
             b2 == Bonus(limit, limit - t2)
  <2> SUFFICES ASSUME CasesTyped, answer.selected_indices = other.selected_indices, t1 < t2,
                      PointsFit(answer)
               PROVE  /\ Points(answer) >= Points(other)
                      /\ Points(other) > 0 /\ t1 < limit /\ limit <= SpeedBonusMax
                           => Points(answer) > Points(other)
    BY DEF FasterEarnsMore
  <2>1. limit \in Nat \ {0} /\ t1 \in Int /\ t2 \in Int
    BY CaseIs
  <2>2. IsCorrect(question, answer) <=> IsCorrect(question, other)
    BY DEF IsCorrect
  <2>6. PointsFit(other)
    <3>1. IntLimit \in Nat /\ (IntLimit - 100) * limit \in Int
      BY <2>1, ScoringAssumption
    <3>2. 100 * (limit - t2) < 100 * (limit - t1)
      BY <2>1
    <3> QED
      BY <2>1, <3>1, <3>2 DEF PointsFit, BasePoints, SpeedBonusMax
  <2>3. /\ Points(answer) = IF IsCorrect(question, answer) THEN BasePoints + b1 ELSE 0
        /\ Points(other) = IF IsCorrect(question, answer) THEN BasePoints + b2 ELSE 0
    BY <2>1, <2>2, <2>6, PointsAre
  <2> HIDE DEF limit, t1, t2
  <2>4. limit - t1 \in Int /\ limit - t2 \in Int /\ limit - t1 > limit - t2
        /\ (t1 < limit => limit - t1 > 0)
    BY <2>1
  <2>5. b1 \in Nat /\ b2 \in Nat /\ b1 >= b2
        /\ (t1 < limit /\ limit <= SpeedBonusMax => b1 > b2)
    BY <2>1, <2>4, BonusIs
  <2> HIDE DEF b1, b2
  <2> QED
    BY <2>3, <2>5 DEF BasePoints
<1> QED
  BY <1>1, AlwaysCases, PTL

-----------------------------------------------------------------------------
(* Right answers.                                                          *)

(* Where x occurs in v.                                                    *)
Places(v, x) == {i \in DOMAIN v : v[i] = x}

(* They are some of its positions.                                         *)
LEMMA PlacesAreFinite ==
  ASSUME NEW n \in Nat, NEW v, DOMAIN v = 1..n, NEW x
  PROVE  IsFiniteSet(Places(v, x)) /\ Places(v, x) \subseteq 1..n
<1>1. IsFiniteSet(1..n)
  BY FS_Interval
<1>2. Places(v, x) \in SUBSET (1..n)
  BY DEF Places
<1> QED
  BY <1>1, <1>2, FS_Subset

(* A permutation takes the places of x in one vector to those in the other *)
(* one to one: x occurs equally often in both.                             *)
LEMMA PermutedOccursEqually ==
  ASSUME NEW n \in Nat, NEW c, DOMAIN c = 1..n, NEW d, DOMAIN d = 1..n,
         NEW pi \in Bijection(1..n, 1..n), \A i \in 1..n : d[i] = c[pi[i]], NEW x
  PROVE  Occurrences(d, x) = Occurrences(c, x)
<1> DEFINE h == [i \in Places(d, x) |-> pi[i]]
<1>1. /\ pi \in [1..n -> 1..n] /\ \A i, j \in 1..n : pi[i] = pi[j] => i = j
      /\ \A j \in 1..n : \E i \in 1..n : pi[i] = j
  BY DEF Bijection, Injection, IsInjective, Surjection
<1>2. IsFiniteSet(Places(d, x)) /\ Places(d, x) \subseteq 1..n /\ Places(c, x) \subseteq 1..n
  BY PlacesAreFinite
<1>3. h \in [Places(d, x) -> Places(c, x)]
  BY <1>1, <1>2 DEF Places
<1>4. \A i, j \in Places(d, x) : h[i] = h[j] => i = j
  BY <1>1, <1>2
<1>5. \A j \in Places(c, x) : \E i \in Places(d, x) : h[i] = j
  BY <1>1, <1>2 DEF Places
<1> HIDE DEF h
<1>6. h \in Bijection(Places(d, x), Places(c, x))
  BY <1>3, <1>4, <1>5 DEF Bijection, Injection, IsInjective, Surjection
<1>7. ExistsBijection(Places(d, x), Places(c, x))
  BY <1>6 DEF ExistsBijection
<1>8. Cardinality(Places(c, x)) = Cardinality(Places(d, x))
  BY <1>2, <1>7, FS_Bijection
<1> QED
  BY <1>8 DEF Occurrences, Places

(* The converse, where the comparison of sorted vectors hides a counting   *)
(* argument.  Pairing off the places of each value of c with its places in *)
(* d is one to one; as d has no more places than c, nothing of d is left   *)
(* over, so that the pairing, turned around, is a permutation.             *)
LEMMA EquallyOftenIsPermuted ==
  ASSUME NEW n \in Nat, NEW c, DOMAIN c = 1..n, NEW d, DOMAIN d = 1..n,
         \A i \in 1..n : Occurrences(d, c[i]) = Occurrences(c, c[i])
  PROVE  \E pi \in Bijection(1..n, 1..n) : \A i \in 1..n : d[i] = c[pi[i]]
<1> DEFINE pairing == [x \in {c[i] : i \in 1..n} |->
                         CHOOSE f : f \in Bijection(Places(c, x), Places(d, x))]
           g == [i \in 1..n |-> pairing[c[i]][i]]
           pi == [j \in 1..n |-> CHOOSE i \in 1..n : g[i] = j]
<1>1. ASSUME NEW i \in 1..n
      PROVE  pairing[c[i]] \in Bijection(Places(c, c[i]), Places(d, c[i]))
  <2>1. IsFiniteSet(Places(c, c[i])) /\ IsFiniteSet(Places(d, c[i]))
    BY PlacesAreFinite
  <2>2. Cardinality(Places(c, c[i])) = Cardinality(Places(d, c[i]))
    BY DEF Occurrences, Places
  <2>3. Bijection(Places(c, c[i]), Places(d, c[i])) # {}
    BY <2>1, <2>2, FS_SameCardinalityBij DEF ExistsBijection
  <2> QED
    BY <2>3
<1>2. ASSUME NEW i \in 1..n
      PROVE  g[i] \in 1..n /\ d[g[i]] = c[i]
  <2>1. pairing[c[i]] \in [Places(c, c[i]) -> Places(d, c[i])]
    BY <1>1 DEF Bijection, Injection, IsInjective
  <2>2. i \in Places(c, c[i])
    BY DEF Places
  <2>3. pairing[c[i]][i] \in Places(d, c[i])
    BY <2>1, <2>2
  <2> QED
    BY <2>3 DEF Places
<1>3. ASSUME NEW i \in 1..n, NEW j \in 1..n, g[i] = g[j]
      PROVE  i = j
  <2>1. c[i] = c[j]
    BY <1>2, <1>3
  <2>2. pairing[c[i]][i] = pairing[c[i]][j]
    BY <1>3, <2>1
  <2>3. i \in Places(c, c[i]) /\ j \in Places(c, c[i])
    BY <2>1 DEF Places
  <2>4. \A a, b \in Places(c, c[i]) : pairing[c[i]][a] = pairing[c[i]][b] => a = b
    BY <1>1 DEF Bijection, Injection, IsInjective
  <2> HIDE DEF pairing
  <2> QED
    BY <2>2, <2>3, <2>4
<1> HIDE DEF pairing
<1>4. g \in [1..n -> 1..n]
  BY <1>2
<1>5. g \in Injection(1..n, 1..n)
  <2> HIDE DEF g
  <2> QED BY <1>3, <1>4 DEF Injection, IsInjective
<1> HIDE DEF g
<1>6. g \in Surjection(1..n, 1..n)
  <2>1. IsFiniteSet(1..n)
    BY FS_Interval
  <2> QED
    BY <1>5, <2>1, FS_Injection
<1>7. \A j \in 1..n : pi[j] \in 1..n /\ g[pi[j]] = j
  BY <1>6 DEF Surjection
<1>8. pi \in [1..n -> 1..n]
  BY <1>7
<1> HIDE DEF pi
<1>9. \A i, j \in 1..n : pi[i] = pi[j] => i = j
  BY <1>7
<1>10. \A i \in 1..n : pi[g[i]] = i /\ g[i] \in 1..n
  BY <1>2, <1>3, <1>7
<1>11. pi \in Bijection(1..n, 1..n)
  BY <1>8, <1>9, <1>10 DEF Bijection, Injection, IsInjective, Surjection
<1>12. \A j \in 1..n : d[j] = c[pi[j]]
  BY <1>2, <1>7
<1> QED
  BY <1>11, <1>12

(* An answer whose points fit an int earns some exactly when it is a       *)
(* permutation of the right indices: a repeated index, a missing one or    *)
(* one too many earns nothing, however many options the question has.      *)
THEOREM RightIsPermutation == CasesSpec => []CorrectIffPermutation
<1>1. CasesTyped => CorrectIffPermutation
  <2> DEFINE c == question.correct_indices
             d == answer.selected_indices
             n == Len(c)
  <2> SUFFICES ASSUME CasesTyped, PointsFit(answer)
               PROVE  Points(answer) > 0 <=>
                        /\ Len(d) = n
                        /\ \E pi \in Bijection(1..n, 1..n) : \A i \in 1..n : d[i] = c[pi[i]]
    BY DEF CorrectIffPermutation
  <2>1. n \in Nat /\ DOMAIN c = 1..n /\ DOMAIN d = 1..Len(d)
    BY CaseIs, VectorIsSeq
  <2>2. Points(answer) > 0 <=>
          Len(d) = n /\ \A i \in 1..n : Occurrences(d, c[i]) = Occurrences(c, c[i])
    BY <2>1, RightIsPositive DEF IsCorrect
  <2> HIDE DEF c, d, n
  <2>3. ASSUME Len(d) = n, \A i \in 1..n : Occurrences(d, c[i]) = Occurrences(c, c[i])
        PROVE  \E pi \in Bijection(1..n, 1..n) : \A i \in 1..n : d[i] = c[pi[i]]
    BY <2>1, <2>3, EquallyOftenIsPermuted
  <2>4. ASSUME Len(d) = n, NEW pi \in Bijection(1..n, 1..n), \A i \in 1..n : d[i] = c[pi[i]],
               NEW i \in 1..n
        PROVE  Occurrences(d, c[i]) = Occurrences(c, c[i])
    BY <2>1, <2>4, PermutedOccursEqually
  <2> QED
    BY <2>2, <2>3, <2>4
<1> QED
  BY <1>1, AlwaysCases, PTL
=============================================================================

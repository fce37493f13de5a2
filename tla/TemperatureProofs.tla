-------------------------- MODULE TemperatureProofs --------------------------
(***************************************************************************)
(* What holds of the temperature of a level for windows of any length: the *)
(* types, that a lasting fire raises the alarm, and that normal            *)
(* temperatures raise none.  The median and the two lists come first: what *)
(* qsort leaves in the middle, and what adding a node does.                *)
(***************************************************************************)
EXTENDS Temperature, FiniteSetTheorems, SequenceTheorems, WellFoundedInduction,
        TLAPS

-----------------------------------------------------------------------------
(* The middle of a list                                                    *)

\* Every nonempty set of naturals has a least element.
LEMMA LeastNatural ==
  ASSUME NEW S, S \subseteq Nat, S # {}
  PROVE  \E m \in S : \A k \in S : m <= k
<1> DEFINE R == OpToRel(<, Nat)
<1>1. PICK m \in S : \A k \in S : ~ (<<k, m>> \in R)
  <2> HIDE DEF R
  <2>1. IsWellFoundedOn(R, Nat)
    BY NatLessThanWellFounded DEF R
  <2>2. QED
    BY <2>1, WFMin
<1>2. \A k \in S : ~ (k < m)
  BY <1>1 DEF OpToRel
<1>3. QED
  BY <1>2

\* A function to the integers is greatest somewhere on a finite set: where the
\* most elements are no greater.
LEMMA GreatestElement ==
  ASSUME NEW S, IsFiniteSet(S), S # {}, NEW f \in [S -> Int]
  PROVE  \E i \in S : \A j \in S : f[j] <= f[i]
<1> DEFINE W == [i \in S |-> {j \in S : f[j] <= f[i]}]
           n == Cardinality(S)
           N == {n - Cardinality(W[i]) : i \in S}
<1>1. n \in Nat
  BY FS_CardinalityType
<1>2. \A i \in S : W[i] \in SUBSET S
  OBVIOUS
<1>3. \A i \in S : IsFiniteSet(W[i]) /\ Cardinality(W[i]) \in Nat
      /\ Cardinality(W[i]) <= n
  <2> TAKE i \in S
  <2>1. W[i] \in SUBSET S
    BY <1>2
  <2> HIDE DEF W
  <2>2. IsFiniteSet(W[i]) /\ Cardinality(W[i]) <= n
    BY <2>1, FS_Subset
  <2>3. QED
    BY <2>2, FS_CardinalityType
<1>4. N \subseteq Nat /\ N # {}
  <2> HIDE DEF W, n
  <2>1. \A i \in S : n - Cardinality(W[i]) \in Nat
    BY <1>1, <1>3
  <2>2. QED
    BY <2>1
<1>5. PICK m \in N : \A k \in N : m <= k
  BY <1>4, LeastNatural
<1>6. PICK i \in S : m = n - Cardinality(W[i])
  OBVIOUS
<1>7. SUFFICES ASSUME NEW j \in S, ~ (f[j] <= f[i])
               PROVE  FALSE
  OBVIOUS
<1>8. W[i] \in SUBSET W[j] /\ W[i] # W[j]
  <2>1. f[i] \in Int /\ f[j] \in Int /\ f[i] < f[j]
    BY <1>7
  <2>2. j \in W[j] /\ j \notin W[i]
    BY <2>1
  <2>3. \A k \in W[i] : k \in W[j]
    BY <2>1
  <2>4. QED
    BY <2>2, <2>3
<1>9. Cardinality(W[i]) < Cardinality(W[j])
  <2> HIDE DEF W
  <2>1. /\ IsFiniteSet(W[j])
        /\ Cardinality(W[i]) \in Nat /\ Cardinality(W[j]) \in Nat
    BY <1>3
  <2>2. Cardinality(W[i]) <= Cardinality(W[j])
        /\ Cardinality(W[i]) # Cardinality(W[j])
    BY <1>8, <2>1, FS_Subset
  <2>3. QED
    BY <2>1, <2>2
<1>10. n - Cardinality(W[j]) \in N
  OBVIOUS
<1>11. n - Cardinality(W[j]) < m
  <2> HIDE DEF W, n
  <2>1. Cardinality(W[i]) \in Nat /\ Cardinality(W[j]) \in Nat
    BY <1>3
  <2>2. QED
    BY <1>1, <1>6, <1>9, <2>1
<1>12. m \in Nat /\ n - Cardinality(W[j]) \in Nat
  <2> HIDE DEF N
  <2>1. QED
    BY <1>4, <1>10
<1>13. m <= n - Cardinality(W[j])
  <2> HIDE DEF N
  <2>1. QED
    BY <1>5, <1>10
<1>14. QED
  <2> HIDE DEF N, W, n
  <2>1. QED
    BY <1>11, <1>12, <1>13

\* Where a list is below x, and where it is not above it.
Below(list, x) == {i \in DOMAIN list : list[i] < x}
UpTo(list, x)  == {i \in DOMAIN list : list[i] <= x}

\* Whatever the list, there is something in its k-th place when it is sorted.
LEMMA PlaceExists ==
  ASSUME NEW list \in Seq(Int), NEW k \in Nat, k < Len(list)
  PROVE  \E x \in {list[i] : i \in DOMAIN list} :
           Cardinality(Below(list, x)) <= k /\ Cardinality(UpTo(list, x)) > k
<1> DEFINE D == 1 .. Len(list)
           C == [i \in D |-> Cardinality(UpTo(list, list[i]))]
           S == {i \in D : C[i] > k}
<1>1. D = DOMAIN list /\ D # {} /\ IsFiniteSet(D) /\ Cardinality(D) = Len(list)
  <2>1. Len(list) \in Nat /\ D = DOMAIN list
    OBVIOUS
  <2>2. IsFiniteSet(D)
        /\ Cardinality(D) = IF 1 > Len(list) THEN 0 ELSE Len(list) - 1 + 1
    BY <2>1, FS_Interval
  <2>3. Len(list) >= 1
    BY <2>1
  <2>4. QED
    BY <2>1, <2>2, <2>3
<1>2. \A i \in D : list[i] \in Int
  OBVIOUS
<1>3. \A x : IsFiniteSet(UpTo(list, x)) /\ IsFiniteSet(Below(list, x))
             /\ Cardinality(UpTo(list, x)) \in Nat /\ Cardinality(Below(list, x)) \in Nat
  <2> TAKE x
  <2>1. UpTo(list, x) \in SUBSET D /\ Below(list, x) \in SUBSET D
    BY <1>1 DEF UpTo, Below
  <2>2. QED
    BY <1>1, <2>1, FS_Subset, FS_CardinalityType
<1>4. S # {}
  <2>1. list \in [D -> Int]
    OBVIOUS
  <2>2. PICK i \in D : \A j \in D : list[j] <= list[i]
    BY <1>1, <2>1, GreatestElement
  <2>3. UpTo(list, list[i]) = D
    BY <1>1, <2>2 DEF UpTo
  <2>4. QED
    BY <1>1, <2>3
<1>5. PICK i \in S : \A j \in S : C[i] <= C[j]
  <2> DEFINE f == [j \in S |-> 0 - C[j]]
  <2>1. IsFiniteSet(S)
    BY <1>1, FS_Subset
  <2>2. f \in [S -> Int] /\ \A j \in S : C[j] \in Nat
    BY <1>3
  <2>3. \E i \in S : \A j \in S : f[j] <= f[i]
    <3> HIDE DEF f, S
    <3>1. QED
      BY <1>4, <2>1, <2>2, GreatestElement
  <2>4. QED
    BY <2>2, <2>3
<1>6. Cardinality(Below(list, list[i])) <= k
  <2>1. CASE Below(list, list[i]) = {}
    BY <2>1, FS_EmptySet
  <2>2. CASE Below(list, list[i]) # {}
    <3> DEFINE B == Below(list, list[i])
               f == [j \in B |-> list[j]]
    <3>1. B \subseteq D /\ f \in [B -> Int] /\ IsFiniteSet(B)
      BY <1>1, <1>2, <1>3 DEF Below
    <3>2. \E j \in B : \A l \in B : f[l] <= f[j]
      <4> HIDE DEF f, B
      <4>1. QED
        BY <2>2, <3>1, GreatestElement DEF B
    <3>3. PICK j \in B : \A l \in B : list[l] <= list[j]
      BY <3>2
    <3>4. j \in D /\ list[j] < list[i]
      BY <3>1 DEF Below
    <3>5. UpTo(list, list[j]) = B
      BY <1>1, <1>2, <3>1, <3>3, <3>4 DEF UpTo, Below
    <3>6. B \in SUBSET UpTo(list, list[i]) /\ B # UpTo(list, list[i])
      BY <1>1, <1>2 DEF UpTo, Below
    <3>7. Cardinality(B) < Cardinality(UpTo(list, list[i]))
      BY <1>3, <3>6, FS_Subset
    <3>8. C[j] < C[i]
      BY <3>4, <3>5, <3>7
    <3>9. j \notin S
      <4>1. C[j] \in Nat /\ C[i] \in Nat
        BY <1>3, <3>4
      <4>2. QED
        BY <1>5, <3>8, <4>1
    <3>10. QED
      BY <1>3, <3>4, <3>5, <3>9
  <2>3. QED
    BY <2>1, <2>2
<1>7. Cardinality(UpTo(list, list[i])) > k
      /\ list[i] \in {list[j] : j \in DOMAIN list}
  BY <1>1, <1>5
<1>8. QED
  BY <1>6, <1>7

\* tempmonitor's median is one of the samples, and as many are below it as the
\* middle index of the sorted array says (firealarm.c:108-109).
LEMMA MedianIsMiddle ==
  ASSUME NEW list \in Seq(Int), Len(list) > 0
  PROVE  /\ \E i \in 1 .. Len(list) : Median(list) = list[i]
         /\ Median(list) \in Int
         /\ Cardinality(UpTo(list, Median(list))) > (Len(list) - 1) \div 2
<1> DEFINE mid == (Len(list) - 1) \div 2
           Middle(x) == Cardinality(Below(list, x)) <= mid
           /\ Cardinality(UpTo(list, x)) > mid
           V == {list[i] : i \in DOMAIN list}
<1>1. mid \in Nat /\ mid < Len(list)
  OBVIOUS
<1>2. \E x \in V : Middle(x)
  BY <1>1, PlaceExists
<1>3. Median(list) = CHOOSE x \in V : Middle(x)
  BY DEF Median, Below, UpTo
<1>4. Median(list) \in V /\ Middle(Median(list))
  BY <1>2, <1>3
<1>5. QED
  BY <1>4

\* The index of the median, counted from 0.
Half == MEDIAN_WINDOW \div 2

\* When more than half of the window is hot, so is its median.
LEMMA MedianIsHot ==
  ASSUME NEW list \in Seq(Int), Len(list) = MEDIAN_WINDOW,
         \A i \in 1 .. Half + 1 : list[i] >= HOT
  PROVE  Median(list) >= HOT
<1> DEFINE x == Median(list)
           A == Half + 2 .. MEDIAN_WINDOW
<1>1. /\ Half \in Nat /\ MEDIAN_WINDOW = 2 * Half + 1
      /\ (MEDIAN_WINDOW - 1) \div 2 = Half
  BY TemperatureAssumption DEF Half
<1>2. x \in Int /\ Cardinality(UpTo(list, x)) > Half
  <2>1. Len(list) > 0
    BY TemperatureAssumption
  <2>2. x \in Int /\ Cardinality(UpTo(list, x)) > (Len(list) - 1) \div 2
    BY <2>1, MedianIsMiddle
  <2>3. QED
    BY <1>1, <2>2
<1>3. SUFFICES ASSUME x < HOT
               PROVE  FALSE
  BY <1>2 DEF HOT
<1>4. \A i \in 1 .. Len(list) : list[i] \in Int
  OBVIOUS
<1>5. UpTo(list, x) \in SUBSET A
  <2> SUFFICES ASSUME NEW i \in UpTo(list, x)
               PROVE  i \in A
    OBVIOUS
  <2>1. i \in 1 .. MEDIAN_WINDOW /\ list[i] <= x /\ list[i] \in Int
    BY <1>4 DEF UpTo
  <2>2. ~ (i \in 1 .. Half + 1)
    <3> HIDE DEF x
    <3>1. QED
      BY <1>2, <1>3, <2>1 DEF HOT
  <2>3. QED
    BY <1>1, <2>1, <2>2
<1>6. IsFiniteSet(A) /\ Cardinality(A) = Half
  <2>1. Half + 2 \in Int /\ MEDIAN_WINDOW \in Int
    BY <1>1
  <2>2. IsFiniteSet(A) /\ Cardinality(A) = IF Half + 2 > MEDIAN_WINDOW THEN 0
                                           ELSE MEDIAN_WINDOW - (Half + 2) + 1
    BY <2>1, FS_Interval
  <2>3. QED
    BY <1>1, <2>2, TemperatureAssumption
<1>7. Cardinality(UpTo(list, x)) <= Half
  BY <1>5, <1>6, FS_Subset
<1>8. Cardinality(UpTo(list, x)) \in Nat
  BY <1>5, <1>6, FS_Subset, FS_CardinalityType
<1>9. QED
  BY <1>1, <1>2, <1>7, <1>8

-----------------------------------------------------------------------------
(* The two lists                                                           *)

AtMost(a, b) == IF a <= b THEN a ELSE b

\* deletenodes: the new node comes first, and no more than n stay.
LEMMA PushProperties ==
  ASSUME NEW list \in Seq(Int), NEW x \in Int, NEW n \in Nat \ {0},
         Len(list) \in 1 .. n
  PROVE  /\ Push(list, x, n) \in Seq(Int)
         /\ Len(Push(list, x, n)) = AtMost(Len(list) + 1, n)
         /\ Push(list, x, n)[1] = x
         /\ \A i \in 2 .. Len(Push(list, x, n)) : Push(list, x, n)[i] = list[i - 1]
<1> DEFINE whole == <<x>> \o list
           k == IF Len(list) < n THEN Len(list) + 1 ELSE n
<1>1. Push(list, x, n) = SubSeq(whole, 1, k)
  BY DEF Push
<1>2. /\ whole \in Seq(Int) /\ Len(whole) = Len(list) + 1
      /\ whole[1] = x /\ \A i \in 2 .. Len(whole) : whole[i] = list[i - 1]
  <2>1. <<x>> \in Seq(Int) /\ Len(<<x>>) = 1 /\ <<x>>[1] = x
    OBVIOUS
  <2>2. /\ whole \in Seq(Int) /\ Len(whole) = 1 + Len(list)
        /\ \A i \in 1 .. 1 + Len(list) :
             whole[i] = IF i <= 1 THEN <<x>>[i] ELSE list[i - 1]
    BY <2>1, ConcatProperties
  <2>3. QED
    <3> HIDE DEF whole
    <3>1. QED
      BY <2>1, <2>2
<1>3. k \in 1 .. Len(whole) /\ k = AtMost(Len(list) + 1, n)
  BY <1>2 DEF AtMost
<1>4. /\ SubSeq(whole, 1, k) \in Seq(Int) /\ Len(SubSeq(whole, 1, k)) = k
      /\ \A i \in 1 .. k : SubSeq(whole, 1, k)[i] = whole[i]
  <2> HIDE DEF whole, k
  <2>1. k \in Int /\ k >= 1 /\ \A i \in 1 .. k : whole[i] \in Int
    BY <1>2, <1>3, ElementOfSeq
  <2>2. /\ SubSeq(whole, 1, k) \in Seq(Int)
        /\ Len(SubSeq(whole, 1, k)) = IF 1 <= k THEN k - 1 + 1 ELSE 0
        /\ \A i \in 1 .. k - 1 + 1 : SubSeq(whole, 1, k)[i] = whole[1 + i - 1]
    BY <2>1, SubSeqProperties
  <2>3. QED
    BY <2>1, <2>2
<1>5. Len(Push(list, x, n)) = AtMost(Len(list) + 1, n) /\ Push(list, x, n) \in Seq(Int)
  BY <1>1, <1>3, <1>4
<1>6. \A i \in 1 .. k : i \in 1 .. Len(whole) /\ Push(list, x, n)[i] = whole[i]
  <2> HIDE DEF whole, k
  <2>1. k \in Int /\ Len(whole) \in Int
    BY <1>2, <1>3
  <2>2. QED
    BY <1>1, <1>3, <1>4, <2>1
<1>7. QED
  <2> HIDE DEF whole, k
  <2>1. k \in Nat /\ k >= 1 /\ Len(Push(list, x, n)) = k
    BY <1>2, <1>3, <1>5
  <2>2. Push(list, x, n)[1] = x
    BY <1>2, <1>6, <2>1
  <2>3. \A i \in 2 .. k : Push(list, x, n)[i] = list[i - 1]
    BY <1>2, <1>6, <2>1
  <2>4. QED
    BY <1>5, <2>1, <2>2, <2>3

\* What MonSample computes.
Samples == Push(templist, temp, MEDIAN_WINDOW)
Counted == Len(Samples) = MEDIAN_WINDOW
Medians == IF Counted THEN Push(medianlist, Median(Samples), TEMPCHANGE_WINDOW)
           ELSE medianlist
Raised  == /\ Counted
           /\ Len(Medians) = TEMPCHANGE_WINDOW
           /\ HighTemperature(Medians) \/ HighRateOfRise(Samples, Medians)

\* The lists after a sample: what was in them has moved on by one place.
LEMMA SampleProperties ==
  ASSUME TypeOK
  PROVE  /\ Samples \in Seq(Int) /\ Samples[1] = temp
         /\ Len(Samples) = AtMost(Len(templist) + 1, MEDIAN_WINDOW)
         /\ \A i \in 2 .. Len(Samples) : Samples[i] = templist[i - 1]
         /\ Median(Samples) \in Int
         /\ \E i \in 1 .. Len(Samples) : Median(Samples) = Samples[i]
         /\ Medians \in Seq(Int)
         /\ Counted =>
              /\ Len(Medians) = AtMost(Len(medianlist) + 1, TEMPCHANGE_WINDOW)
              /\ Medians[1] = Median(Samples)
              /\ \A i \in 2 .. Len(Medians) : Medians[i] = medianlist[i - 1]
         /\ ~Counted => Medians = medianlist
<1>1. /\ temp \in Int
      /\ templist \in Seq(Int) /\ Len(templist) \in 1 .. MEDIAN_WINDOW
      /\ medianlist \in Seq(Int) /\ Len(medianlist) \in 1 .. TEMPCHANGE_WINDOW
  BY DEF TypeOK
<1>2. MEDIAN_WINDOW \in Nat \ {0} /\ TEMPCHANGE_WINDOW \in Nat \ {0}
  BY TemperatureAssumption
<1>3. /\ Samples \in Seq(Int) /\ Samples[1] = temp
      /\ Len(Samples) = AtMost(Len(templist) + 1, MEDIAN_WINDOW)
      /\ \A i \in 2 .. Len(Samples) : Samples[i] = templist[i - 1]
  BY <1>1, <1>2, PushProperties DEF Samples
<1>4. Len(Samples) > 0
  BY <1>1, <1>2, <1>3 DEF AtMost
<1>5. Median(Samples) \in Int
      /\ \E i \in 1 .. Len(Samples) : Median(Samples) = Samples[i]
  BY <1>3, <1>4, MedianIsMiddle
<1>6. ASSUME Counted
      PROVE  /\ Medians \in Seq(Int)
             /\ Len(Medians) = AtMost(Len(medianlist) + 1, TEMPCHANGE_WINDOW)
             /\ Medians[1] = Median(Samples)
             /\ \A i \in 2 .. Len(Medians) : Medians[i] = medianlist[i - 1]
  <2>1. Medians = Push(medianlist, Median(Samples), TEMPCHANGE_WINDOW)
    BY <1>6 DEF Medians
  <2> DEFINE m == Median(Samples)
  <2>2. m \in Int
    BY <1>5
  <2>3. QED
    <3> HIDE DEF m
    <3>1. /\ Push(medianlist, m, TEMPCHANGE_WINDOW) \in Seq(Int)
          /\ Len(Push(medianlist, m, TEMPCHANGE_WINDOW))
               = AtMost(Len(medianlist) + 1, TEMPCHANGE_WINDOW)
          /\ Push(medianlist, m, TEMPCHANGE_WINDOW)[1] = m
          /\ \A i \in 2 .. Len(Push(medianlist, m, TEMPCHANGE_WINDOW)) :
               Push(medianlist, m, TEMPCHANGE_WINDOW)[i] = medianlist[i - 1]
      BY <1>1, <1>2, <2>2, PushProperties
    <3>2. Medians = Push(medianlist, m, TEMPCHANGE_WINDOW)
      BY <2>1 DEF m
    <3>3. QED
      BY <3>1, <3>2 DEF m
<1>7. ~Counted => Medians = medianlist
  BY DEF Medians
<1>8. QED
  BY <1>1, <1>3, <1>5, <1>6, <1>7

\* MonSample in terms of these.
LEMMA SampleStep ==
  ASSUME MonSample
  PROVE  /\ mon_pc = "sample"
         /\ templist' = Samples /\ medianlist' = Medians
         /\ alarm_active' = Raised
         /\ mon_pc' = IF Raised THEN "mark" ELSE "tens"
         /\ taken' = IF taken < Enough THEN taken + 1 ELSE taken
         /\ hot' = IF temp < HOT THEN 0 ELSE IF hot < HotEnough THEN hot + 1 ELSE hot
         /\ temp' = 0 /\ tens' = tens /\ alarm' = alarm /\ unclear' = unclear
         /\ UNCHANGED simVars
BY DEF MonSample, Samples, Medians, Counted, Raised

-----------------------------------------------------------------------------
(* The invariant                                                           *)

\* The monitor has raised the alarm, or it is at work.
AlarmInv == alarm_active <=> mon_pc \in {"mark", "done"}

\* How far the lists are filled, and how far hot samples have got into them:
\* a median is hot once half a window of hot samples has followed the first.
CountInv ==
  mon_pc # "done" =>
    /\ Len(templist) = AtMost(taken + 1, MEDIAN_WINDOW)
    /\ Len(medianlist) =
         IF taken + 1 < MEDIAN_WINDOW THEN 1
         ELSE AtMost(taken - MEDIAN_WINDOW + 3, TEMPCHANGE_WINDOW)
    /\ taken < Enough => hot <= taken
    /\ \A i \in 1 .. Len(templist) : i <= hot => templist[i] >= HOT
    /\ \A i \in 1 .. Len(medianlist) :
         /\ i + MEDIAN_WINDOW <= hot + 2 \/ i + MEDIAN_WINDOW <= taken + 2
         /\ i + Half <= hot
         => medianlist[i] >= HOT

\* What sim_fire_sensors writes in the normal mode.
Calm == 20 .. 25

\* Without a fire the simulator writes a 2 and a digit up to 5, and that is all
\* the monitor has seen, if it has not sampled a sensor that is not set.
CalmInv ==
  ~unclear =>
    /\ ~alarm_active
    /\ sensor[1] \in {NUL, 2} /\ sensor[2] \in {NUL} \cup 0 .. 5
    /\ \A i \in 1 .. Len(pending) :
         IF (Len(pending) - i) % 2 = 1
         THEN pending[i] = 2 ELSE pending[i] \in 0 .. 5
    /\ mon_pc = "units" => tens = 2
    /\ mon_pc \in {"quiet", "sample"} => temp \in Calm
    /\ \A i \in 1 .. Len(templist) : templist[i] \in {0} \cup Calm
    /\ \A i \in 1 .. Len(medianlist) : medianlist[i] \in {0} \cup Calm

\* The inductive invariant.
IInv == TypeOK /\ AlarmInv /\ CountInv /\ CalmInv /\ FireDetected

\* What the assumptions say of the numbers.
LEMMA Numbers ==
  /\ MEDIAN_WINDOW \in Nat /\ MEDIAN_WINDOW >= 3 /\ MEDIAN_WINDOW = 2 * Half + 1
  /\ Half \in Nat /\ Half >= 1
  /\ TEMPCHANGE_WINDOW \in Nat /\ TEMPCHANGE_WINDOW >= 2
  /\ Enough = MEDIAN_WINDOW + TEMPCHANGE_WINDOW - 3 /\ Enough \in Nat \ {0}
  /\ Enough >= MEDIAN_WINDOW - 1
  /\ HotEnough \in Nat /\ HotEnough > Half
<1>1. MEDIAN_WINDOW \in Nat /\ MEDIAN_WINDOW > 1 /\ MEDIAN_WINDOW % 2 = 1
      /\ TEMPCHANGE_WINDOW \in Nat /\ TEMPCHANGE_WINDOW > 1
  BY TemperatureAssumption
<1>2. MEDIAN_WINDOW = 2 * Half + 1 /\ Half \in Nat
  BY <1>1 DEF Half
<1>3. (9 * TEMPCHANGE_WINDOW + 9) \div 10 \in Nat
      /\ (9 * TEMPCHANGE_WINDOW + 9) \div 10 > 0
  BY <1>1
<1>4. HotEnough = (9 * TEMPCHANGE_WINDOW + 9) \div 10 + Half
  BY DEF HotEnough, Half
<1>5. QED
  BY <1>1, <1>2, <1>3, <1>4 DEF Enough

\* Both lists start with a zeroed node, which is neither hot nor counted.
LEMMA InitIInv == Init => IInv
<1> SUFFICES ASSUME Init
             PROVE  IInv
  OBVIOUS
<1>1. /\ templist = <<0>> /\ medianlist = <<0>> /\ taken = 0 /\ hot = 0
      /\ mon_pc = "tens" /\ pending = <<>> /\ sensor = <<NUL, NUL>>
      /\ alarm_active = FALSE /\ unclear = FALSE
  BY DEF Init
<1>2. TypeOK
  <2>1. sensor \in Seq(Digits \cup {NUL}) /\ Len(sensor) = 2
    BY <1>1
  <2>2. {temp_high, burnt_out, alarm_active, unclear} \subseteq BOOLEAN
    BY DEF Init
  <2>3. /\ templist \in Seq(Int) /\ Len(templist) \in 1 .. MEDIAN_WINDOW
        /\ medianlist \in Seq(Int) /\ Len(medianlist) \in 1 .. TEMPCHANGE_WINDOW
        /\ taken \in 0 .. Enough /\ hot \in 0 .. HotEnough
    BY <1>1, Numbers
  <2>4. oldtemp = 0 /\ tens = 0 /\ temp = 0 /\ alarm = NUL /\ sim_pc = "default"
    BY DEF Init
  <2>5. pending \in Seq(Digits) /\ 0 \in Digits
    BY <1>1 DEF Digits
  <2>6. QED
    BY <1>1, <2>1, <2>2, <2>3, <2>4, <2>5 DEF TypeOK
<1>3. AlarmInv
  BY <1>1 DEF AlarmInv
<1>4. CountInv
  BY <1>1, Numbers DEF CountInv, AtMost
<1>5. CalmInv
  BY <1>1 DEF CalmInv
<1>6. FireDetected
  BY <1>1, Numbers DEF FireDetected
<1>7. QED
  BY <1>2, <1>3, <1>4, <1>5, <1>6 DEF IInv

-----------------------------------------------------------------------------
(* The types                                                               *)

\* The bytes that are still to be written are a sequence.
LEMMA Pairs ==
  ASSUME NEW S, NEW a \in S, NEW b \in S
  PROVE  <<a, b>> \in Seq(S)
OBVIOUS

LEMMA Fours ==
  ASSUME NEW S, NEW a \in S, NEW b \in S, NEW c \in S, NEW d \in S
  PROVE  <<a, b, c, d>> \in Seq(S)
OBVIOUS

LEMMA Sixes ==
  ASSUME NEW S, NEW a \in S, NEW b \in S, NEW c \in S, NEW d \in S,
         NEW e \in S, NEW f \in S
  PROVE  <<a, b, c, d, e, f>> \in Seq(S)
OBVIOUS

\* The bytes of the sensor.
LEMMA SensorBytes ==
  TypeOK => sensor[1] \in Digits \cup {NUL} /\ sensor[2] \in Digits \cup {NUL}
<1>1. SUFFICES ASSUME TypeOK
               PROVE  sensor[1] \in Digits \cup {NUL} /\ sensor[2] \in Digits \cup {NUL}
  OBVIOUS
<1>2. sensor \in Seq(Digits \cup {NUL}) /\ 1 \in 1 .. Len(sensor)
      /\ 2 \in 1 .. Len(sensor)
  BY <1>1 DEF TypeOK
<1>3. QED
  BY <1>2, ElementOfSeq

\* atoi reads at most three digits, the last of them the alarm of the level.
LEMMA AtoiRange == TypeOK => Atoi \in 0 .. 991
<1> SUFFICES ASSUME TypeOK
             PROVE  Atoi \in 0 .. 991
  OBVIOUS
<1>1. sensor[1] \in Digits \cup {NUL} /\ sensor[2] \in Digits \cup {NUL}
      /\ alarm \in {NUL, One, 0, 1}
  BY SensorBytes DEF TypeOK
<1>2. QED
  BY <1>1 DEF Atoi, Digits, NUL, One

\* toArray writes digits.
LEMMA FirstDigitsAreDigits ==
  ASSUME NEW n \in 0 .. 995
  PROVE  FirstDigits(n) \in Seq(Digits)
<1>1. n < 100 => n \div 10 \in Digits /\ n % 10 \in Digits
  BY DEF Digits
<1>2. ~(n < 100) => n \div 100 \in Digits /\ (n \div 10) % 10 \in Digits
  BY DEF Digits
<1>3. QED
  BY <1>1, <1>2 DEF FirstDigits

\* One step per thread; the digits and the lengths of the lists are what matters.
LEMMA NextTypeOK ==
  ASSUME TypeOK, [Next]_vars
  PROVE  TypeOK'
<1>0. \A i \in 0 .. 9 : i \in Digits
  BY DEF Digits
<1>1. CASE SimWrite
  <2>1. /\ pending \in Seq(Digits) /\ pending # <<>>
        /\ sensor \in Seq(Digits \cup {NUL}) /\ Len(sensor) = 2
    BY <1>1 DEF SimWrite, TypeOK
  <2>2. Head(pending) \in Digits /\ Tail(pending) \in Seq(Digits)
    BY <2>1
  <2>3. sensor' \in Seq(Digits \cup {NUL}) /\ Len(sensor') = 2
    <3> DEFINE i == IF Len(pending) % 2 = 0 THEN 1 ELSE 2
    <3>1. sensor' = [sensor EXCEPT ![i] = Head(pending)]
      BY <1>1 DEF SimWrite
    <3>2. i \in 1 .. Len(sensor)
      BY <2>1
    <3>3. Head(pending) \in Digits \cup {NUL}
      BY <2>2
    <3> DEFINE S == Digits \cup {NUL}
               new == [sensor EXCEPT ![i] = Head(pending)]
    <3>4. new \in Seq(S) /\ Len(new) = Len(sensor)
      <4> HIDE DEF i, S
      <4>1. sensor \in Seq(S) /\ Head(pending) \in S
        BY <2>1, <3>3 DEF S
      <4>2. QED
        BY <3>2, <4>1, ExceptSeq
    <3>5. QED
      BY <2>1, <3>1, <3>4
  <2>4. QED
    BY <1>1, <2>2, <2>3 DEF SimWrite, TypeOK, monVars
<1>2. CASE SimDefault
  <2>1. pending' \in Seq(Digits) /\ oldtemp' \in {0, 25} /\ sim_pc' = "mode"
    <3>1. <<2, 5>> \in Seq(Digits) /\ pending \in Seq(Digits)
      BY <1>0, Pairs DEF TypeOK
    <3>2. QED
      BY <1>2, <3>1 DEF SimDefault
  <2>2. QED
    BY <1>2, <2>1 DEF SimDefault, TypeOK, monVars
<1>3. CASE SimMode
  <2>1. /\ pending \in Seq(Digits) /\ oldtemp \in {0, 25}
        /\ temp_high \in BOOLEAN
        /\ burnt_out \in BOOLEAN /\ unclear \in BOOLEAN
    BY DEF TypeOK
  <2>2. \A u \in NormalUnits : u \in Digits
    BY TemperatureAssumption DEF Digits
  <2>3. SimNormal => pending' \in Seq(Digits)
    <3>1. <<2, 3>> \in Seq(Digits) /\ <<2, 3, 6, 1>> \in Seq(Digits)
      BY <1>0, Pairs, Fours
    <3>2. \A u \in NormalUnits : <<2, 3, 2, u>> \in Seq(Digits)
      BY <1>0, <2>2, Fours
    <3>3. \A u \in {0, 2} : <<2, 3, 6, 1, 6, u>> \in Seq(Digits)
      BY <1>0, Sixes
    <3>4. QED
      BY <3>1, <3>2, <3>3 DEF SimNormal
  <2>4. SimRaising => pending' \in Seq(Digits)
    <3> DEFINE n == (IF oldtemp # 0 THEN oldtemp ELSE Atoi) + 4
    <3>1. n \in 0 .. 995
      <4>1. Atoi \in 0 .. 991
        BY AtoiRange
      <4>2. QED
        BY <2>1, <4>1
    <3>2. FirstDigits(n) \in Seq(Digits)
      <4> HIDE DEF n
      <4>1. QED
        BY <3>1, FirstDigitsAreDigits
    <3>3. QED
      BY <2>1, <3>2 DEF SimRaising
  <2>5. SimFixed \/ SimOther => pending' \in Seq(Digits)
    <3>1. <<2, 0>> \in Seq(Digits)
      BY <1>0, Pairs
    <3>2. QED
      BY <2>1, <3>1 DEF SimFixed, SimOther
  <2>6. temp_high' \in BOOLEAN /\ burnt_out' \in BOOLEAN
    BY <1>3, <2>1, Zenon DEF SimMode, SimNormal, SimRaising, SimFixed, SimOther
  <2>7. unclear' \in BOOLEAN
    BY <1>3, Zenon DEF SimMode
  <2>8. pending' \in Seq(Digits)
    BY <1>3, <2>3, <2>4, <2>5 DEF SimMode
  <2>9. {temp_high', burnt_out', alarm_active', unclear'} \subseteq BOOLEAN
    <3>1. alarm_active' \in BOOLEAN
      BY <1>3 DEF SimMode, TypeOK
    <3>2. QED
      BY <2>6, <2>7, <3>1
  <2>10. QED
    BY <1>3, <2>8, <2>9 DEF SimMode, TypeOK, monVars
<1>4. CASE MonReadTens
  <2>1. tens' \in Digits \cup {NUL}
    BY <1>4, SensorBytes DEF MonReadTens
  <2>2. {temp_high', burnt_out', alarm_active', unclear'} \subseteq BOOLEAN
    BY <1>4 DEF MonReadTens, TypeOK, simVars
  <2>3. QED
    BY <1>4, <2>1, <2>2 DEF MonReadTens, TypeOK, simVars
<1>5. CASE MonReadUnits
  <2>1. tens' = 0 /\ temp' \in Int
    <3>1. tens \in Digits \cup {NUL} /\ sensor[2] \in Digits \cup {NUL}
      BY SensorBytes DEF TypeOK
    <3>2. tens * 10 + sensor[2] \in Int
      BY <3>1 DEF Digits, NUL
    <3>3. QED
      BY <1>5, <3>2 DEF MonReadUnits
  <2>2. {temp_high', burnt_out', alarm_active', unclear'} \subseteq BOOLEAN
    BY <1>5 DEF MonReadUnits, TypeOK, simVars
  <2>3. QED
    BY <1>5, <2>1, <2>2 DEF MonReadUnits, TypeOK, simVars, Digits
<1>6. CASE MonQuiet
  BY <1>6 DEF MonQuiet, TypeOK, simVars
<1>7. CASE MonSample
  <2>0. /\ templist \in Seq(Int) /\ Len(templist) \in 1 .. MEDIAN_WINDOW
        /\ medianlist \in Seq(Int) /\ Len(medianlist) \in 1 .. TEMPCHANGE_WINDOW
        /\ taken \in 0 .. Enough /\ hot \in 0 .. HotEnough
    BY DEF TypeOK
  <2>1. templist' \in Seq(Int) /\ Len(templist') \in 1 .. MEDIAN_WINDOW
    <3>1. templist' = Samples /\ Samples \in Seq(Int)
          /\ Len(Samples) = AtMost(Len(templist) + 1, MEDIAN_WINDOW)
      BY <1>7, SampleStep, SampleProperties
    <3>2. AtMost(Len(templist) + 1, MEDIAN_WINDOW) \in 1 .. MEDIAN_WINDOW
      BY <2>0, Numbers DEF AtMost
    <3>3. QED
      BY <3>1, <3>2
  <2>2. medianlist' \in Seq(Int) /\ Len(medianlist') \in 1 .. TEMPCHANGE_WINDOW
    <3>1. /\ medianlist' = Medians /\ Medians \in Seq(Int)
          /\ \/ Len(Medians) = AtMost(Len(medianlist) + 1, TEMPCHANGE_WINDOW)
             \/ Medians = medianlist
      BY <1>7, SampleStep, SampleProperties
    <3>2. AtMost(Len(medianlist) + 1, TEMPCHANGE_WINDOW)
          \in 1 .. TEMPCHANGE_WINDOW
      BY <2>0, Numbers DEF AtMost
    <3>3. QED
      BY <2>0, <3>1, <3>2
  <2>3. taken' \in 0 .. Enough /\ hot' \in 0 .. HotEnough
    <3>1. /\ taken' = IF taken < Enough THEN taken + 1 ELSE taken
          /\ hot' = IF temp < HOT THEN 0 ELSE IF hot < HotEnough THEN hot + 1 ELSE hot
      BY <1>7, SampleStep
    <3>2. Enough \in Nat /\ HotEnough \in Nat
      BY Numbers
    <3>3. taken' \in 0 .. Enough
      BY <2>0, <3>1, <3>2
    <3>4. hot' \in 0 .. HotEnough
      BY <2>0, <3>1, <3>2
    <3>5. QED
      BY <3>3, <3>4
  <2>4. alarm_active' \in BOOLEAN
    BY <1>7, SampleStep, Zenon DEF Raised
  <2>5. {temp_high', burnt_out', alarm_active', unclear'} \subseteq BOOLEAN
    BY <1>7, <2>4, SampleStep DEF TypeOK, simVars
  <2>6. QED
    BY <1>7, <2>1, <2>2, <2>3, <2>5, SampleStep DEF TypeOK, simVars
<1>8. CASE MonMark
  <2>1. <<0>> \in Seq(Int) /\ Len(<<0>>) \in 1 .. MEDIAN_WINDOW
        /\ Len(<<0>>) \in 1 .. TEMPCHANGE_WINDOW
    BY Numbers
  <2>2. QED
    BY <1>8, <2>1 DEF MonMark, TypeOK, simVars
<1>9. CASE MainAlarm
  BY <1>9 DEF MainAlarm, TypeOK, simVars, monVars
<1>10. CASE UNCHANGED vars
  BY <1>10 DEF vars, TypeOK, simVars, monVars
<1>11. QED
  BY <1>1, <1>2, <1>3, <1>4, <1>5, <1>6, <1>7, <1>8, <1>9, <1>10
  DEF Next, Simulator, Monitor

\* The alarm is up when the monitor has left its loop.
LEMMA NextAlarmInv ==
  ASSUME TypeOK, AlarmInv, [Next]_vars
  PROVE  AlarmInv'
<1> USE DEF AlarmInv
<1>1. CASE SimWrite \/ SimDefault \/ SimMode
  BY <1>1 DEF SimWrite, SimDefault, SimMode, monVars
<1>2. CASE MonReadTens \/ MonReadUnits \/ MonQuiet \/ MonMark
  BY <1>2 DEF MonReadTens, MonReadUnits, MonQuiet, MonMark
<1>3. CASE MonSample
  BY <1>3, SampleStep
<1>4. CASE MainAlarm \/ UNCHANGED vars
  BY <1>4 DEF MainAlarm, vars, monVars
<1>5. QED
  BY <1>1, <1>2, <1>3, <1>4 DEF Next, Simulator, Monitor

-----------------------------------------------------------------------------
(* A lasting fire                                                          *)

\* The number of hot medians from which a full window is alarming.
HotMedians == (9 * TEMPCHANGE_WINDOW + 9) \div 10

\* Enough hot medians make 90% of the window.
LEMMA EnoughHotMedians ==
  ASSUME NEW medians \in Seq(Int), Len(medians) = TEMPCHANGE_WINDOW,
         \A i \in 1 .. HotMedians : medians[i] >= HOT
  PROVE  HighTemperature(medians)
<1> DEFINE H == {i \in DOMAIN medians : medians[i] >= HOT}
           C == 1 .. HotMedians
<1>1. /\ HotMedians \in Nat /\ HotMedians >= 1
      /\ HotMedians <= TEMPCHANGE_WINDOW
      /\ 10 * HotMedians >= 9 * TEMPCHANGE_WINDOW
  BY Numbers DEF HotMedians
<1>2. DOMAIN medians = 1 .. TEMPCHANGE_WINDOW
  OBVIOUS
<1>3. C \in SUBSET H
  BY <1>1, <1>2, Numbers
<1>4. IsFiniteSet(H)
  <2>1. IsFiniteSet(1 .. TEMPCHANGE_WINDOW)
    BY Numbers, FS_Interval
  <2>2. H \in SUBSET (1 .. TEMPCHANGE_WINDOW)
    BY <1>2
  <2>3. QED
    <3> HIDE DEF H
    <3>1. QED
      BY <2>1, <2>2, FS_Subset
<1>5. Cardinality(C) = HotMedians
  BY <1>1, FS_Interval
<1>6. Cardinality(C) <= Cardinality(H) /\ Cardinality(H) \in Nat
  <2> HIDE DEF C, H
  <2>1. QED
    BY <1>3, <1>4, FS_Subset, FS_CardinalityType
<1>7. 10 * Cardinality(H) >= 9 * TEMPCHANGE_WINDOW
  <2> HIDE DEF C, H
  <2>1. QED
    BY <1>1, <1>5, <1>6, Numbers
<1>8. QED
  BY <1>7 DEF HighTemperature

\* A sample moves the counters and the lists on together.
LEMMA SampleCountInv ==
  ASSUME TypeOK, CountInv, MonSample
  PROVE  CountInv'
<1> DEFINE L == Len(templist)
           M == Len(medianlist)
<1>1. /\ L = AtMost(taken + 1, MEDIAN_WINDOW)
      /\ M = IF taken + 1 < MEDIAN_WINDOW THEN 1
             ELSE AtMost(taken - MEDIAN_WINDOW + 3, TEMPCHANGE_WINDOW)
      /\ taken < Enough => hot <= taken
      /\ \A i \in 1 .. L : i <= hot => templist[i] >= HOT
      /\ \A i \in 1 .. M :
           /\ i + MEDIAN_WINDOW <= hot + 2 \/ i + MEDIAN_WINDOW <= taken + 2
           /\ i + Half <= hot
           => medianlist[i] >= HOT
  BY SampleStep DEF CountInv
<1>2. /\ taken \in Nat /\ taken <= Enough /\ hot \in Nat /\ temp \in Int
      /\ L \in Nat /\ M \in Nat
  BY Numbers DEF TypeOK
<1>3. /\ taken' = IF taken < Enough THEN taken + 1 ELSE taken
      /\ hot' = IF temp < HOT THEN 0 ELSE IF hot < HotEnough THEN hot + 1 ELSE hot
      /\ templist' = Samples /\ medianlist' = Medians
  BY SampleStep
<1>4. PICK t \in Nat, h \in Nat :
        /\ t = taken' /\ h = hot'
        /\ t = IF taken < Enough THEN taken + 1 ELSE taken
        /\ h = IF temp < HOT THEN 0 ELSE IF hot < HotEnough THEN hot + 1 ELSE hot
        /\ t <= taken + 1 /\ h <= hot + 1 /\ (h > 0 => temp >= HOT)
  <2> DEFINE t == IF taken < Enough THEN taken + 1 ELSE taken
             h == IF temp < HOT THEN 0 ELSE IF hot < HotEnough
             THEN hot + 1 ELSE hot
  <2>1. t \in Nat /\ h \in Nat /\ t <= taken + 1 /\ h <= hot + 1 /\ (h > 0 =>
          temp >= HOT)
    BY <1>2 DEF HOT
  <2>2. t = taken' /\ h = hot'
    BY <1>3
  <2>3. QED
    BY <2>1, <2>2
<1>5. Len(Samples) = AtMost(L + 1, MEDIAN_WINDOW)
  BY SampleProperties
<1>6. Len(Samples) = AtMost(t + 1, MEDIAN_WINDOW)
  BY <1>1, <1>2, <1>4, <1>5, Numbers DEF AtMost
<1>7. Counted <=> t + 1 >= MEDIAN_WINDOW
  <2>1. t \in Nat /\ MEDIAN_WINDOW \in Nat
    BY Numbers
  <2>2. AtMost(t + 1, MEDIAN_WINDOW) = MEDIAN_WINDOW
          <=> t + 1 >= MEDIAN_WINDOW
    BY <2>1 DEF AtMost
  <2>3. QED
    BY <1>6, <2>2 DEF Counted
<1>8. Len(Medians) = IF t + 1 < MEDIAN_WINDOW THEN 1
                     ELSE AtMost(t - MEDIAN_WINDOW + 3, TEMPCHANGE_WINDOW)
  <2>1. CASE Counted
    <3>1. Len(Medians) = AtMost(M + 1, TEMPCHANGE_WINDOW)
      BY <2>1, SampleProperties
    <3>2. CASE taken + 1 < MEDIAN_WINDOW
      <4>1. M = 1 /\ t = MEDIAN_WINDOW - 1
        BY <1>1, <1>2, <1>4, <1>7, <2>1, <3>2, Numbers
      <4>2. QED
        BY <3>1, <4>1, Numbers DEF AtMost
    <3>3. CASE ~(taken + 1 < MEDIAN_WINDOW)
      <4>1. M = AtMost(taken - MEDIAN_WINDOW + 3, TEMPCHANGE_WINDOW)
        BY <1>1, <3>3
      <4>2. CASE taken < Enough
        <5>1. t = taken + 1
          BY <1>4, <4>2
        <5>2. QED
          BY <1>2, <3>1, <3>3, <4>1, <5>1, Numbers DEF AtMost
      <4>3. CASE ~(taken < Enough)
        <5>1. t = taken /\ taken = MEDIAN_WINDOW + TEMPCHANGE_WINDOW - 3
          BY <1>2, <1>4, <4>3, Numbers
        <5>2. QED
          BY <1>2, <3>1, <3>3, <4>1, <5>1, Numbers DEF AtMost
      <4>4. QED
        BY <4>2, <4>3
    <3>4. QED
      BY <3>2, <3>3
  <2>2. CASE ~Counted
    <3>1. Medians = medianlist
      BY <2>2, SampleProperties
    <3>2. t + 1 < MEDIAN_WINDOW /\ taken + 1 < MEDIAN_WINDOW
      BY <1>2, <1>4, <1>7, <2>2, Numbers
    <3>3. QED
      BY <1>1, <3>1, <3>2
  <2>3. QED
    BY <2>1, <2>2
<1>9. t < Enough => h <= t
  BY <1>1, <1>2, <1>4, Numbers
<1>10. ASSUME NEW i \in 1 .. Len(Samples), i <= h
       PROVE  Samples[i] >= HOT
  <2>1. i \in Nat /\ i >= 1 /\ i <= L + 1
    BY <1>2, <1>5, <1>10, Numbers DEF AtMost
  <2>2. CASE i = 1
    BY <1>4, <1>10, <2>2, SampleProperties
  <2>3. CASE i > 1
    <3>1. Samples[i] = templist[i - 1]
      BY <1>10, <2>1, <2>3, SampleProperties
    <3>2. i - 1 \in 1 .. L /\ i - 1 <= hot
      BY <1>2, <1>4, <1>10, <2>1, <2>3
    <3>3. QED
      BY <1>1, <3>1, <3>2
  <2>4. QED
    BY <2>1, <2>2, <2>3
<1>11. ASSUME NEW i \in 1 .. Len(Medians),
              i + MEDIAN_WINDOW <= h + 2 \/ i + MEDIAN_WINDOW <= t + 2,
              i + Half <= h
       PROVE  Medians[i] >= HOT
  <2>1. i \in Nat /\ i >= 1
    OBVIOUS
  <2>2. CASE ~Counted
    <3>1. t \in Nat /\ h \in Nat /\ MEDIAN_WINDOW \in Nat /\ Enough \in Nat
          /\ Enough >= MEDIAN_WINDOW - 1
      BY <1>4, Numbers
    <3>2. t + 1 < MEDIAN_WINDOW
      BY <1>7, <2>2, <3>1
    <3>3. t < Enough
      BY <3>1, <3>2
    <3>4. h <= t
      BY <1>9, <3>3
    <3>5. ~(i + MEDIAN_WINDOW <= h + 2) /\ ~(i + MEDIAN_WINDOW <= t + 2)
      BY <2>1, <3>1, <3>2, <3>4
    <3>6. QED
      BY <1>11, <3>5
  <2>3. CASE Counted /\ i = 1
    <3>1. \A j \in 1 .. Half + 1 : Samples[j] >= HOT
      <4>1. Half + 1 <= Len(Samples) /\ Half + 1 <= h
        BY <1>4, <1>11, <2>3, Numbers DEF Counted
      <4>2. QED
        BY <1>4, <1>10, <4>1, Numbers
    <3>2. Samples \in Seq(Int) /\ Len(Samples) = MEDIAN_WINDOW
      BY <2>3, SampleProperties DEF Counted
    <3>3. Median(Samples) >= HOT
      BY <3>1, <3>2, MedianIsHot
    <3>4. QED
      BY <2>3, <3>3, SampleProperties
  <2>4. CASE Counted /\ i > 1
    <3>1. /\ Len(Medians) = AtMost(M + 1, TEMPCHANGE_WINDOW)
          /\ Medians[i] = medianlist[i - 1]
      BY <1>11, <2>1, <2>4, SampleProperties
    <3>2. i - 1 \in 1 .. M
      BY <1>2, <1>11, <2>1, <2>4, <3>1, Numbers DEF AtMost
    <3>3. /\ (i - 1) + Half <= hot
          /\ \/ (i - 1) + MEDIAN_WINDOW <= hot + 2
             \/ (i - 1) + MEDIAN_WINDOW <= taken + 2
      <4>1. /\ t \in Nat /\ h \in Nat /\ taken \in Nat /\ hot \in Nat
            /\ t <= taken + 1 /\ h <= hot + 1
            /\ MEDIAN_WINDOW \in Nat /\ Half \in Nat
        BY <1>2, <1>4, Numbers
      <4>2. i + Half <= h => (i - 1) + Half <= hot
        BY <2>1, <4>1
      <4>3. i + MEDIAN_WINDOW <= h + 2 => (i - 1) + MEDIAN_WINDOW <= hot + 2
        BY <2>1, <4>1
      <4>4. i + MEDIAN_WINDOW <= t + 2 => (i - 1) + MEDIAN_WINDOW <= taken + 2
        BY <2>1, <4>1
      <4>5. QED
        BY <1>11, <4>2, <4>3, <4>4
    <3>4. QED
      BY <1>1, <3>1, <3>2, <3>3
  <2>5. QED
    BY <2>1, <2>2, <2>3, <2>4
<1>12. QED
  BY <1>3, <1>4, <1>6, <1>8, <1>9, <1>10, <1>11 DEF CountInv

\* Only a sample changes what CountInv speaks of.
LEMMA NextCountInv ==
  ASSUME TypeOK, CountInv, [Next]_vars
  PROVE  CountInv'
<1>1. CASE MonSample
  BY <1>1, SampleCountInv
<1>2. CASE MonMark
  BY <1>2 DEF MonMark, CountInv
<1>3. CASE SimWrite \/ SimDefault \/ SimMode
  BY <1>3 DEF SimWrite, SimDefault, SimMode, monVars, CountInv
<1>4. CASE MonReadTens \/ MonReadUnits \/ MonQuiet
  BY <1>4 DEF MonReadTens, MonReadUnits, MonQuiet, CountInv
<1>5. CASE MainAlarm \/ UNCHANGED vars
  BY <1>5 DEF MainAlarm, vars, monVars, CountInv
<1>6. QED
  BY <1>1, <1>2, <1>3, <1>4, <1>5 DEF Next, Simulator, Monitor

\* The sample that completes a lasting fire raises the alarm; before that, and
\* after it, nothing changes what FireDetected says.
LEMMA NextFireDetected ==
  ASSUME TypeOK, AlarmInv, CountInv, FireDetected, [Next]_vars
  PROVE  FireDetected'
<1>1. CASE MonSample
  <2>1. SUFFICES ASSUME taken' = Enough, hot' = HotEnough
                 PROVE  Raised
    BY <1>1, SampleStep DEF FireDetected
  <2>2. mon_pc' # "done" /\ templist' = Samples /\ medianlist' = Medians
    BY <1>1, SampleStep
  <2>3. CountInv'
    BY <1>1, SampleCountInv
  <2>4. /\ Len(Samples) = AtMost(taken' + 1, MEDIAN_WINDOW)
        /\ Len(Medians) = IF taken' + 1 < MEDIAN_WINDOW THEN 1
                          ELSE AtMost(taken' - MEDIAN_WINDOW + 3, TEMPCHANGE_WINDOW)
        /\ \A i \in 1 .. Len(Medians) :
             /\ i + MEDIAN_WINDOW <= hot' + 2 \/ i + MEDIAN_WINDOW <= taken' + 2
             /\ i + Half <= hot'
             => Medians[i] >= HOT
    BY <2>2, <2>3 DEF CountInv
  <2>5. Counted /\ Len(Medians) = TEMPCHANGE_WINDOW
    BY <2>1, <2>4, Numbers DEF Counted, AtMost
  <2>6. HotEnough = HotMedians + Half /\ HotMedians \in Nat
        /\ HotMedians <= TEMPCHANGE_WINDOW
        /\ (TEMPCHANGE_WINDOW >= 10 => HotMedians <= TEMPCHANGE_WINDOW - 1)
    BY Numbers DEF HotEnough, HotMedians, Half
  <2>7. \A i \in 1 .. HotMedians : Medians[i] >= HOT
    <3> TAKE i \in 1 .. HotMedians
    <3>1. i \in 1 .. Len(Medians) /\ i + Half <= hot'
      BY <2>1, <2>5, <2>6, Numbers
    <3>2. i + MEDIAN_WINDOW <= hot' + 2 \/ i + MEDIAN_WINDOW <= taken' + 2
      <4>1. CASE TEMPCHANGE_WINDOW >= 10
        BY <2>1, <2>6, <4>1, Numbers
      <4>2. CASE MEDIAN_WINDOW = 3
        BY <2>1, <2>6, <4>2, Numbers
      <4>3. QED
        BY <4>1, <4>2, DetectionAssumption
    <3>3. QED
      BY <2>4, <3>1, <3>2
  <2>8. Medians \in Seq(Int)
    BY SampleProperties
  <2>9. QED
    BY <2>5, <2>7, <2>8, EnoughHotMedians DEF Raised
<1>2. CASE SimWrite \/ SimDefault \/ SimMode
  BY <1>2 DEF SimWrite, SimDefault, SimMode, monVars, FireDetected
<1>3. CASE MonReadTens \/ MonReadUnits \/ MonQuiet \/ MonMark
  BY <1>3 DEF MonReadTens, MonReadUnits, MonQuiet, MonMark, FireDetected
<1>4. CASE MainAlarm \/ UNCHANGED vars
  BY <1>4 DEF MainAlarm, vars, monVars, FireDetected
<1>5. QED
  BY <1>1, <1>2, <1>3, <1>4 DEF Next, Simulator, Monitor

-----------------------------------------------------------------------------
(* No fire                                                                 *)

\* Calm samples raise no alarm: they are not hot, and none is far above a
\* median that is one of them.
LEMMA CalmRaisesNothing ==
  ASSUME NEW samples \in Seq(Int), Len(samples) > 0,
         \A i \in 1 .. Len(samples) : samples[i] \in {0} \cup Calm,
         NEW medians \in Seq(Int), Len(medians) = TEMPCHANGE_WINDOW,
         \A i \in 1 .. Len(medians) : medians[i] \in {0} \cup Calm
  PROVE  ~HighTemperature(medians) /\ ~HighRateOfRise(samples, medians)
<1>1. ~HighTemperature(medians)
  <2>1. \A i \in 1 .. Len(medians) : ~(medians[i] >= HOT)
    <3>1. \A v \in {0} \cup Calm : ~(v >= HOT)
      BY DEF HOT, Calm
    <3>2. QED
      BY <3>1
  <2> DOMAIN medians = 1 .. Len(medians)
    OBVIOUS
  <2>2. Cardinality({i \in DOMAIN medians : medians[i] >= HOT}) = 0
    <3>1. {i \in DOMAIN medians : medians[i] >= HOT} = {}
      BY <2>1
    <3>2. QED
      BY <3>1, FS_EmptySet
  <2>3. ~(10 * 0 >= 9 * TEMPCHANGE_WINDOW)
    BY Numbers
  <2>4. QED
    BY <2>2, <2>3 DEF HighTemperature
<1>2. ~HighRateOfRise(samples, medians)
  <2>1. samples[1] \in {0} \cup Calm
    OBVIOUS
  <2>2. Last(medians) \in {0} \cup Calm
    BY Numbers DEF Last
  <2>3. QED
    BY <2>1, <2>2 DEF HighRateOfRise, RISE, Calm
<1>3. QED
  BY <1>1, <1>2

\* What tempmonitor's sample makes of calm lists.
LEMMA SampleCalmInv ==
  ASSUME TypeOK, CalmInv, MonSample, ~unclear
  PROVE  /\ ~Raised
         /\ \A i \in 1 .. Len(Samples) : Samples[i] \in {0} \cup Calm
         /\ \A i \in 1 .. Len(Medians) : Medians[i] \in {0} \cup Calm
<1>1. /\ temp \in Calm
      /\ \A i \in 1 .. Len(templist) : templist[i] \in {0} \cup Calm
      /\ \A i \in 1 .. Len(medianlist) : medianlist[i] \in {0} \cup Calm
  BY SampleStep DEF CalmInv
<1>2. Len(templist) \in Nat /\ Len(medianlist) \in Nat /\ Len(templist) >= 1
  BY DEF TypeOK
<1>3. \A i \in 1 .. Len(Samples) : Samples[i] \in {0} \cup Calm
  <2> TAKE i \in 1 .. Len(Samples)
  <2>1. CASE i = 1
    BY <1>1, <2>1, SampleProperties
  <2>2. CASE i # 1
    <3>1. i \in 2 .. Len(Samples) /\ i - 1 \in 1 .. Len(templist)
      BY <1>2, <2>2, SampleProperties, Numbers DEF AtMost
    <3>2. QED
      BY <1>1, <3>1, SampleProperties
  <2>3. QED
    BY <2>1, <2>2
<1>4. \A i \in 1 .. Len(Medians) : Medians[i] \in {0} \cup Calm
  <2>1. CASE Counted
    <3> TAKE i \in 1 .. Len(Medians)
    <3>1. CASE i = 1
      BY <1>3, <2>1, <3>1, SampleProperties
    <3>2. CASE i # 1
      <4>1. i \in 2 .. Len(Medians) /\ i - 1 \in 1 .. Len(medianlist)
        BY <1>2, <2>1, <3>2, SampleProperties, Numbers DEF AtMost
      <4>2. QED
        BY <1>1, <2>1, <4>1, SampleProperties
    <3>3. QED
      BY <3>1, <3>2
  <2>2. CASE ~Counted
    BY <1>1, <2>2, SampleProperties
  <2>3. QED
    BY <2>1, <2>2
<1>5. ASSUME Raised
      PROVE  FALSE
  <2>1. Len(Samples) > 0 /\ Len(Medians) = TEMPCHANGE_WINDOW
    BY <1>5, Numbers DEF Raised, Counted
  <2>2. Samples \in Seq(Int) /\ Medians \in Seq(Int)
    BY SampleProperties
  <2>3. ~HighTemperature(Medians) /\ ~HighRateOfRise(Samples, Medians)
    BY <1>3, <1>4, <2>1, <2>2, CalmRaisesNothing
  <2>4. QED
    BY <1>5, <2>3 DEF Raised
<1>6. QED
  BY <1>3, <1>4, <1>5

\* Bytes of calm temperatures: every other one, from the last, is a 2.
CalmBytes(p) ==
  \A i \in 1 .. Len(p) : IF (Len(p) - i) % 2 = 1
  THEN p[i] = 2 ELSE p[i] \in 0 .. 5

\* The simulator writes calm temperatures byte by byte, the monitor reads them so.
LEMMA NextCalmInv ==
  ASSUME TypeOK, AlarmInv, CalmInv, [Next]_vars
  PROVE  CalmInv'
<1>1. CASE SimWrite
  <2>1. SUFFICES ASSUME ~unclear
                 PROVE  /\ sensor'[1] \in {NUL, 2} /\ sensor'[2] \in {NUL} \cup 0 .. 5
                        /\ CalmBytes(pending')
    BY <1>1 DEF SimWrite, monVars, CalmInv, CalmBytes
  <2>2. /\ sensor[1] \in {NUL, 2} /\ sensor[2] \in {NUL} \cup 0 .. 5
        /\ CalmBytes(pending)
    BY <2>1 DEF CalmInv, CalmBytes
  <2>3. /\ pending \in Seq(Digits) /\ Len(pending) >= 1
        /\ pending' = Tail(pending)
        /\ sensor \in Seq(Digits \cup {NUL}) /\ Len(sensor) = 2
    BY <1>1 DEF SimWrite, TypeOK
  <2>4. /\ Len(pending') = Len(pending) - 1
        /\ \A i \in 1 .. Len(pending') : pending'[i] = pending[i + 1]
    BY <2>3
  <2>5. CalmBytes(pending')
    <3> SUFFICES ASSUME NEW i \in 1 .. Len(pending')
                 PROVE  IF (Len(pending') - i) % 2 = 1 THEN pending'[i] = 2
                        ELSE pending'[i] \in 0 .. 5
      BY DEF CalmBytes
    <3>1. /\ i + 1 \in 1 .. Len(pending)
          /\ Len(pending') - i = Len(pending) - (i + 1)
          /\ pending'[i] = pending[i + 1]
      BY <2>3, <2>4
    <3>2. QED
      BY <2>2, <3>1 DEF CalmBytes
  <2>6. sensor'[1] \in {NUL, 2} /\ sensor'[2] \in {NUL} \cup 0 .. 5
    <3>1. Head(pending) = pending[1] /\ 1 \in 1 .. Len(pending)
      BY <2>3
    <3>2. CASE Len(pending) % 2 = 0
      <4>1. (Len(pending) - 1) % 2 = 1
        BY <2>3, <3>2
      <4>2. pending[1] = 2
        BY <2>2, <3>1, <4>1 DEF CalmBytes
      <4>3. sensor' = [sensor EXCEPT ![1] = 2]
        BY <1>1, <3>1, <3>2, <4>2 DEF SimWrite
      <4>4. QED
        BY <2>2, <2>3, <4>3
    <3>3. CASE Len(pending) % 2 # 0
      <4>1. (Len(pending) - 1) % 2 # 1
        BY <2>3, <3>3
      <4>2. pending[1] \in 0 .. 5
        BY <2>2, <3>1, <4>1 DEF CalmBytes
      <4>3. sensor' = [sensor EXCEPT ![2] = pending[1]]
        BY <1>1, <3>1, <3>3 DEF SimWrite
      <4>4. QED
        BY <2>2, <2>3, <4>2, <4>3
    <3>4. QED
      BY <3>2, <3>3
  <2>7. QED
    BY <2>5, <2>6
<1>2. CASE SimDefault
  <2>1. CalmBytes(<<2, 5>>)
    BY DEF CalmBytes
  <2>2. CalmBytes(pending) => CalmBytes(pending')
    BY <1>2, <2>1 DEF SimDefault
  <2>3. QED
    BY <1>2, <2>2 DEF SimDefault, monVars, CalmInv, CalmBytes
<1>3. CASE SimMode
  <2>1. SUFFICES ASSUME ~unclear'
                 PROVE  CalmBytes(pending')
    BY <1>3 DEF SimMode, monVars, CalmInv, CalmBytes
  <2>2. ~unclear /\ ~temp_high /\ ~temp_high' /\ temp_mode # "R"
    BY <1>3, <2>1 DEF SimMode
  <2>3. CASE SimNormal
    <3>1. PICK u \in NormalUnits : pending' = <<2, 3, 2, u>>
      BY <2>2, <2>3 DEF SimNormal
    <3>2. u \in 0 .. 5
      BY TemperatureAssumption
    <3>3. CalmBytes(<<2, 3, 2, u>>)
      BY <3>2 DEF CalmBytes
    <3>4. QED
      BY <3>1, <3>3
  <2>4. CASE SimFixed
    <3>1. CalmBytes(<<2, 0>>)
      BY DEF CalmBytes
    <3>2. QED
      BY <2>4, <3>1 DEF SimFixed
  <2>5. CASE SimOther
    BY <2>2, <2>5 DEF SimOther, CalmInv, CalmBytes
  <2>6. QED
    BY <1>3, <2>2, <2>3, <2>4, <2>5 DEF SimMode, SimRaising
<1>4. CASE MonReadTens
  BY <1>4 DEF MonReadTens, simVars, CalmInv
<1>5. CASE MonReadUnits
  <2>1. ~unclear' =>
          tens = 2 /\ sensor[2] \in 0 .. 5 /\ temp' = tens * 10 + sensor[2]
    BY <1>5 DEF MonReadUnits, CalmInv
  <2>2. ~unclear' => temp' \in Calm
    <3>1. \A d \in 0 .. 5 : 2 * 10 + d \in Calm
      BY DEF Calm
    <3>2. QED
      BY <2>1, <3>1
  <2>3. QED
    BY <1>5, <2>2 DEF MonReadUnits, simVars, CalmInv
<1>6. CASE MonQuiet
  BY <1>6 DEF MonQuiet, simVars, CalmInv
<1>7. CASE MonSample
  <2>1. SUFFICES ASSUME ~unclear
                 PROVE  CalmInv'
    BY <1>7, SampleStep DEF CalmInv
  <2>2. /\ ~Raised
        /\ \A i \in 1 .. Len(Samples) : Samples[i] \in {0} \cup Calm
        /\ \A i \in 1 .. Len(Medians) : Medians[i] \in {0} \cup Calm
    BY <1>7, <2>1, SampleCalmInv
  <2>3. QED
    BY <1>7, <2>1, <2>2, SampleStep DEF simVars, CalmInv
<1>8. CASE MonMark
  BY <1>8 DEF MonMark, AlarmInv, CalmInv
<1>9. CASE MainAlarm
  BY <1>9 DEF MainAlarm, simVars, monVars, CalmInv
<1>10. CASE UNCHANGED vars
  BY <1>10 DEF vars, simVars, monVars, CalmInv
<1>11. QED
  BY <1>1, <1>2, <1>3, <1>4, <1>5, <1>6, <1>7, <1>8, <1>9, <1>10
  DEF Next, Simulator, Monitor

-----------------------------------------------------------------------------
(* The theorems                                                            *)

\* The inductive step, and the invariant.
LEMMA NextIInv == IInv /\ [Next]_vars => IInv'
BY NextTypeOK, NextAlarmInv, NextCountInv, NextCalmInv,
   NextFireDetected DEF IInv

\* The three theorems follow from this.
LEMMA Invariance == Spec => []IInv
<1>1. QED
  BY InitIInv, NextIInv, PTL DEF Spec

\* The bytes stay digits, whatever toArray makes of atoi's number, and the lists
\* as long as deletenodes leaves them.
THEOREM TemperatureTypeOK == Spec => []TypeOK
<1>1. IInv => TypeOK
  BY DEF IInv
<1>2. QED
  BY <1>1, Invariance, PTL

\* tempmonitor raises the alarm in a fire that lasts, for windows of any length
\* that DetectionAssumption allows.
THEOREM TemperatureFireDetected == Spec => []FireDetected
<1>1. IInv => FireDetected
  BY DEF IInv
<1>2. QED
  BY <1>1, Invariance, PTL

\* tempmonitor raises no alarm over normal and fixed temperatures.
THEOREM TemperatureNoFalseAlarm == Spec => []NoFalseAlarm
<1>1. IInv => NoFalseAlarm
  BY DEF IInv, CalmInv, NoFalseAlarm
<1>2. QED
  BY <1>1, Invariance, PTL

=============================================================================

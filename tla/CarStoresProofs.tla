--------------------------- MODULE CarStoresProofs ---------------------------
(***************************************************************************)
(* What holds of the table and the queue with their pointers, for every    *)
(* number of plates and chunks: that they are a set and a queue, that      *)
(* nothing linked is ever freed, and that the walk of htab_find with no    *)
(* mutex does not miss a plate.                                            *)
(***************************************************************************)
EXTENDS CarStores, FunctionTheorems, FiniteSetTheorems, WellFoundedInduction,
        TLAPS

-----------------------------------------------------------------------------
(* Chains                                                                  *)

\* The chunks of s follow each other from start to NULL, none of them twice.
IsChain(next, start, s) ==
  /\ s \in Seq(Chunk)
  /\ \A m, n \in DOMAIN s : s[m] = s[n] => m = n
  /\ start = IF s = <<>> THEN NULL ELSE s[1]
  /\ \A n \in DOMAIN s : next[s[n]] = IF n = Len(s) THEN NULL ELSE s[n + 1]

\* Every nonempty set of naturals has a least element.
LEMMA LeastNatural ==
  ASSUME NEW S, S \subseteq Nat, S # {}
  PROVE  \E m \in S : \A k \in S : m <= k
<1> DEFINE R == OpToRel(<, Nat)
<1>1. PICK m \in S : \A k \in S : ~ (<<k, m>> \in R)
  <2> HIDE DEF R
  <2>1. IsWellFoundedOn(R, Nat)
    BY NatLessThanWellFounded DEF R
  <2>2. QED
    BY <2>1, WFMin
<1>2. \A k \in S : ~ (k < m)
  BY <1>1 DEF OpToRel
<1>3. QED
  BY <1>2

\* A chain is no longer than there are chunks.
LEMMA ShortChain ==
  ASSUME NEW s \in Seq(Chunk), \A m, n \in DOMAIN s : s[m] = s[n] => m = n
  PROVE  Len(s) <= MaxNodes
<1>1. s \in Injection(1 .. Len(s), Chunk)
  BY DEF Injection, IsInjective
<1>2. IsFiniteSet(Chunk) /\ Cardinality(Chunk) = MaxNodes
  BY CarStoresAssumption, FS_Interval DEF Chunk
<1>3. Len(s) \in Nat /\ Cardinality(1 .. Len(s)) = Len(s)
  <2> DEFINE n == Len(s)
  <2>1. n \in Nat
    OBVIOUS
  <2> HIDE DEF n
  <2>2. Cardinality(1 .. n) = n
    BY <2>1, FS_Interval
  <2>3. QED
    BY <2>1, <2>2 DEF n
<1>4. Cardinality(1 .. Len(s)) <= Cardinality(Chunk)
  BY <1>1, <1>2, FS_Injection
<1>5. QED
  BY <1>2, <1>3, <1>4

\* A chain is what the walk along the pointers finds.
LEMMA ChainFound ==
  ASSUME NEW next, NEW start, NEW s, IsChain(next, start, s)
  PROVE  Chain(next, start) = s
<1> DEFINE H == [n \in Chunk |-> IF n <= Len(s) THEN s[n] ELSE NULL]
           Hops(h) == [n \in Chunk |->
             IF n = 1 THEN start
             ELSE IF h[n - 1] = NULL THEN NULL ELSE next[h[n - 1]]]
<1>1. s \in Seq(Chunk) /\ Len(s) <= MaxNodes
  BY ShortChain DEF IsChain
<1>2. H = Hops(H)
  <2>1. SUFFICES ASSUME NEW n \in Chunk
                 PROVE  H[n] = Hops(H)[n]
    <3>1. H = [n \in Chunk |-> H[n]] /\ Hops(H) = [n \in Chunk |-> Hops(H)[n]]
      OBVIOUS
    <3>2. QED
      <4> HIDE DEF H, Hops
      <4>1. QED
        BY <3>1
  <2>2. CASE n = 1
    BY <1>1, <2>2, CarStoresAssumption DEF IsChain, Chunk, NULL
  <2>3. CASE n # 1
    <3>1. n - 1 \in Chunk /\ n - 1 \in Nat /\ n \in Nat
      BY <2>3, CarStoresAssumption DEF Chunk
    <3>2. CASE n - 1 <= Len(s)
      <4>1. n - 1 \in DOMAIN s /\ s[n - 1] \in Chunk /\ s[n - 1] # NULL
        BY <1>1, <3>1, <3>2, CarStoresAssumption DEF Chunk, NULL
      <4>2. next[s[n - 1]] = IF n - 1 = Len(s) THEN NULL ELSE s[n]
        BY <3>1, <4>1 DEF IsChain
      <4>3. QED
        BY <1>1, <2>3, <3>1, <3>2, <4>1, <4>2
    <3>3. CASE ~ (n - 1 <= Len(s))
      BY <1>1, <2>3, <3>1, <3>3
    <3>4. QED
      BY <3>2, <3>3
  <2>4. QED
    BY <2>2, <2>3
<1>3. ASSUME NEW h, h = Hops(h)
      PROVE  h = H
  <2> DEFINE Wrong == {n \in Chunk : h[n] # H[n]}
  <2>1. Wrong = {}
    <3>1. SUFFICES ASSUME Wrong # {}
                   PROVE  FALSE
      OBVIOUS
    <3>2. Wrong \subseteq Nat
      BY CarStoresAssumption DEF Chunk
    <3>3. PICK m \in Wrong : \A k \in Wrong : m <= k
      <4> HIDE DEF Wrong
      <4>1. QED
        BY <3>1, <3>2, LeastNatural
    <3>4. m # 1
      <4>1. 1 \in Chunk => Hops(h)[1] = start /\ Hops(H)[1] = start
        OBVIOUS
      <4>2. QED
        <5> HIDE DEF H, Hops
        <5>1. QED
          BY <1>2, <1>3, <3>3, <4>1
    <3>5. m - 1 \in Chunk /\ m - 1 \notin Wrong
      BY <3>3, <3>4, CarStoresAssumption DEF Chunk
    <3>6. h[m - 1] = H[m - 1]
      BY <3>5
    <3>7. h[m] = Hops(h)[m] /\ H[m] = Hops(H)[m]
      BY <1>2, <1>3
    <3>8. Hops(h)[m] = Hops(H)[m]
      <4> HIDE DEF H
      <4>1. QED
        BY <3>3, <3>6
    <3>9. QED
      BY <3>3, <3>7, <3>8
  <2>2. h = [n \in Chunk |-> h[n]] /\ H = [n \in Chunk |-> H[n]]
    <3> HIDE DEF H
    <3>1. h = [n \in Chunk |-> h[n]]
      BY <1>3
    <3>2. QED
      BY <3>1, <1>2
  <2>3. QED
    <3> HIDE DEF H
    <3>1. QED
      BY <2>1, <2>2
<1>4. Chain(next, start) = [n \in {k \in Chunk : H[k] # NULL} |-> H[n]]
  <2> DEFINE hop == CHOOSE h : h = Hops(h)
  <2>1. hop = Hops(hop)
    <3> HIDE DEF H, Hops
    <3>1. QED
      BY <1>2
  <2>2. hop = H
    BY <1>3, <2>1
  <2>3. Chain(next, start) = [n \in {k \in Chunk : hop[k] # NULL} |-> hop[n]]
    BY DEF Chain
  <2>4. QED
    <3> HIDE DEF H, hop
    <3>1. QED
      BY <2>2, <2>3
<1>5. \A k \in Chunk : H[k] # NULL <=> k <= Len(s)
  BY <1>1, CarStoresAssumption DEF Chunk, NULL
<1>6. {k \in Chunk : H[k] # NULL} = 1 .. Len(s)
  <2>1. \A k \in 1 .. Len(s) : k \in Chunk
    BY <1>1, CarStoresAssumption DEF Chunk
  <2>2. \A k \in Chunk : k <= Len(s) => k \in 1 .. Len(s)
    BY <1>1, CarStoresAssumption DEF Chunk
  <2>3. QED
    <3> HIDE DEF H
    <3>1. QED
      BY <1>5, <2>1, <2>2
<1>7. \A n \in 1 .. Len(s) : H[n] = s[n]
  BY <1>1, CarStoresAssumption DEF Chunk
<1>8. QED
  <2> HIDE DEF H
  <2>1. Chain(next, start) = [n \in 1 .. Len(s) |-> s[n]]
    BY <1>4, <1>6, <1>7
  <2>2. QED
    BY <1>1, <2>1

\* The chain of a pointer that has one, and its first chunk.
LEMMA ChainTail ==
  ASSUME NEW next, NEW start, NEW s, IsChain(next, start, s), start # NULL
  PROVE  /\ IsChain(next, next[start], Tail(s))
         /\ start \in Range(s) /\ Range(s) \subseteq Chunk
         /\ Range(Tail(s)) = Range(s) \ {start}
         /\ s # <<>> /\ start = s[1]
<1>1. /\ s \in Seq(Chunk) /\ s # <<>> /\ Len(s) \in Nat /\ Len(s) >= 1 /\ start = s[1]
      /\ \A m, n \in 1 .. Len(s) : s[m] = s[n] => m = n
      /\ \A n \in 1 .. Len(s) : next[s[n]] = IF n = Len(s) THEN NULL ELSE s[n + 1]
  BY DEF IsChain
<1> DEFINE t == Tail(s)
<1>2. /\ t \in Seq(Chunk) /\ Len(t) = Len(s) - 1 /\ DOMAIN t = 1 .. Len(s) - 1
      /\ \A n \in 1 .. Len(s) - 1 : t[n] = s[n + 1]
  BY <1>1
<1> HIDE DEF t
<1>3. IsChain(next, next[start], t)
  <2>1. \A m, n \in DOMAIN t : t[m] = t[n] => m = n
    BY <1>1, <1>2
  <2>2. next[start] = IF t = <<>> THEN NULL ELSE t[1]
    <3>1. CASE Len(s) = 1
      <4>1. t = <<>>
        BY <1>2, <3>1
      <4>2. QED
        BY <1>1, <3>1, <4>1
    <3>2. CASE Len(s) # 1
      <4>1. t # <<>> /\ t[1] = s[2]
        BY <1>1, <1>2, <3>2
      <4>2. next[s[1]] = s[2]
        <5>1. 1 \in 1 .. Len(s) /\ 1 + 1 = 2
          BY <1>1
        <5>2. next[s[1]] = IF 1 = Len(s) THEN NULL ELSE s[1 + 1]
          BY <1>1, <5>1
        <5>3. QED
          BY <3>2, <5>1, <5>2
      <4>3. QED
        BY <1>1, <4>1, <4>2
    <3>3. QED
      BY <3>1, <3>2
  <2>3. \A n \in DOMAIN t : next[t[n]] = IF n = Len(t) THEN NULL ELSE t[n + 1]
    BY <1>1, <1>2
  <2>4. QED
    BY <1>2, <2>1, <2>2, <2>3 DEF IsChain
<1>4. Range(t) = Range(s) \ {start}
  <2>1. ASSUME NEW i \in Range(t)
        PROVE  i \in Range(s) /\ i # start
    BY <1>1, <1>2, <2>1 DEF Range
  <2>2. ASSUME NEW i \in Range(s), i # start
        PROVE  i \in Range(t)
    <3>1. PICK n \in 1 .. Len(s) : i = s[n]
      BY <1>1 DEF Range
    <3>2. n # 1 /\ n - 1 \in DOMAIN t /\ t[n - 1] = s[n]
      BY <1>1, <1>2, <2>2, <3>1
    <3>3. QED
      BY <3>1, <3>2 DEF Range
  <2>3. QED
    BY <2>1, <2>2
<1>5. start \in Range(s) /\ Range(s) \subseteq Chunk
  BY <1>1 DEF Range
<1>6. QED
  BY <1>1, <1>3, <1>4, <1>5 DEF t

\* A chunk that is not in a chain may point anywhere.
LEMMA ChainElsewhere ==
  ASSUME NEW next, NEW start, NEW s, IsChain(next, start, s),
         NEW i \in Chunk, i \notin Range(s),
         NEW after, \A c \in Chunk : c # i => after[c] = next[c]
  PROVE  IsChain(after, start, s)
<1>1. \A n \in DOMAIN s : s[n] \in Chunk /\ s[n] # i
  BY DEF Range, IsChain
<1>2. QED
  BY <1>1 DEF IsChain

\* htab_add: a new chunk before the first one.
LEMMA ChainPush ==
  ASSUME NEW next, NEW start, NEW s, IsChain(next, start, s),
         NEW i \in Chunk, i \notin Range(s),
         NEW after, after[i] = start, \A c \in Chunk : c # i => after[c] = next[c]
  PROVE  IsChain(after, i, <<i>> \o s) /\ Range(<<i>> \o s) = Range(s) \cup {i}
<1> DEFINE t == <<i>> \o s
<1>1. /\ s \in Seq(Chunk) /\ Len(s) \in Nat /\ start = IF s = <<>> THEN NULL ELSE s[1]
      /\ \A m, n \in 1 .. Len(s) : s[m] = s[n] => m = n
      /\ \A n \in 1 .. Len(s) : s[n] \in Chunk /\ s[n] # i
      /\ s = <<>> <=> Len(s) = 0
  BY DEF IsChain, Range
<1>2. /\ t \in Seq(Chunk) /\ Len(t) = Len(s) + 1 /\ DOMAIN t = 1 .. Len(s) + 1 /\ t # <<>>
      /\ t[1] = i /\ \A n \in 1 .. Len(s) : t[n + 1] = s[n]
  BY <1>1
<1>3. /\ after[i] = start
      /\ \A n \in 1 .. Len(s) : after[s[n]] = IF n = Len(s) THEN NULL ELSE s[n + 1]
  BY <1>1 DEF IsChain
<1> HIDE DEF t
<1>4. \A n \in DOMAIN t : n = 1 \/ (n - 1 \in 1 .. Len(s) /\ t[n] = s[n - 1])
  <2>1. ASSUME NEW n \in DOMAIN t, n # 1
        PROVE  n - 1 \in 1 .. Len(s) /\ t[n] = s[n - 1]
    <3>1. n - 1 \in 1 .. Len(s) /\ (n - 1) + 1 = n
      BY <1>1, <1>2, <2>1
    <3>2. QED
      BY <1>2, <3>1
  <2>2. QED
    BY <2>1
<1>5. ASSUME NEW m \in DOMAIN t, NEW n \in DOMAIN t, t[m] = t[n]
      PROVE  m = n
  <2>1. CASE m = 1 \/ n = 1
    BY <1>1, <1>2, <1>4, <1>5, <2>1
  <2>2. CASE m # 1 /\ n # 1
    <3>1. m - 1 = n - 1 /\ m \in Int /\ n \in Int
      BY <1>1, <1>2, <1>4, <1>5, <2>2
    <3>2. QED
      BY <3>1
  <2>3. QED
    BY <2>1, <2>2
<1>6. ASSUME NEW n \in DOMAIN t
      PROVE  after[t[n]] = IF n = Len(t) THEN NULL ELSE t[n + 1]
  <2>1. CASE n = 1
    BY <1>1, <1>2, <1>3, <2>1
  <2>2. CASE n # 1
    <3>1. n - 1 \in 1 .. Len(s) /\ t[n] = s[n - 1] /\ n \in 1 .. Len(s) + 1
      BY <1>2, <1>4, <2>2
    <3>2. n # Len(t) => n \in 1 .. Len(s) /\ t[n + 1] = s[n]
      <4>1. n # Len(t) => n \in 1 .. Len(s)
        BY <1>1, <1>2, <3>1
      <4>2. QED
        BY <1>2, <4>1
    <3>3. QED
      BY <1>1, <1>2, <1>3, <3>1, <3>2
  <2>3. QED
    BY <2>1, <2>2
<1>7. IsChain(after, i, t)
  BY <1>2, <1>5, <1>6 DEF IsChain
<1>8. Range(t) = Range(s) \cup {i}
  <2>1. ASSUME NEW k \in Range(t)
        PROVE  k \in Range(s) \cup {i}
    BY <1>1, <1>2, <1>4, <2>1 DEF Range
  <2>2. ASSUME NEW k \in Range(s)
        PROVE  k \in Range(t)
    <3>1. PICK n \in 1 .. Len(s) : k = s[n]
      BY <1>1, <2>2 DEF Range
    <3>2. n + 1 \in DOMAIN t /\ t[n + 1] = k
      BY <1>1, <1>2, <3>1
    <3>3. QED
      BY <3>2 DEF Range
  <2>3. i \in Range(t)
    BY <1>1, <1>2 DEF Range
  <2>4. QED
    BY <2>1, <2>2, <2>3
<1>9. QED
  BY <1>7, <1>8 DEF t

\* enqueue: a new chunk after the last one, or the only one.
LEMMA ChainAppend ==
  ASSUME NEW next, NEW start, NEW s, IsChain(next, start, s),
         NEW i \in Chunk, i \notin Range(s), s # <<>>,
         NEW after, after[i] = NULL, after[s[Len(s)]] = i,
         \A c \in Chunk : c # i /\ c # s[Len(s)] => after[c] = next[c]
  PROVE  /\ IsChain(after, start, Append(s, i))
         /\ Range(Append(s, i)) = Range(s) \cup {i}
<1> DEFINE t == Append(s, i)
           last == s[Len(s)]
<1>1. /\ s \in Seq(Chunk) /\ Len(s) \in Nat /\ Len(s) >= 1 /\ start = s[1]
      /\ \A m, n \in 1 .. Len(s) : s[m] = s[n] => m = n
      /\ \A n \in 1 .. Len(s) : s[n] \in Chunk /\ s[n] # i
      /\ \A n \in 1 .. Len(s) : next[s[n]] = IF n = Len(s) THEN NULL ELSE s[n + 1]
      /\ Len(s) \in 1 .. Len(s)
  BY DEF IsChain, Range
<1>2. /\ t \in Seq(Chunk) /\ Len(t) = Len(s) + 1 /\ DOMAIN t = 1 .. Len(s) + 1 /\ t # <<>>
      /\ t[Len(s) + 1] = i /\ \A n \in 1 .. Len(s) : t[n] = s[n]
  BY <1>1
<1>3. last \in Chunk /\ last # i
  BY <1>1
<1>4. /\ after[i] = NULL /\ after[last] = i
      /\ \A c \in Chunk : c # i /\ c # last => after[c] = next[c]
  OBVIOUS
<1> HIDE DEF t
<1>5. \A n \in 1 .. Len(s) + 1 : n = Len(s) + 1 \/ n \in 1 .. Len(s)
  BY <1>1
<1>6. ASSUME NEW m \in DOMAIN t, NEW n \in DOMAIN t, t[m] = t[n]
      PROVE  m = n
  BY <1>1, <1>2, <1>5, <1>6
<1>7. ASSUME NEW n \in DOMAIN t
      PROVE  after[t[n]] = IF n = Len(t) THEN NULL ELSE t[n + 1]
  <2>1. CASE n = Len(s) + 1
    BY <1>2, <1>4, <2>1
  <2>2. CASE n = Len(s)
    BY <1>1, <1>2, <1>4, <2>2
  <2>3. CASE n \in 1 .. Len(s) /\ n # Len(s)
    <3>1. n + 1 \in 1 .. Len(s) /\ n # Len(s) + 1
      BY <1>1, <2>3
    <3>2. t[n] = s[n] /\ t[n + 1] = s[n + 1] /\ s[n] \in Chunk
      BY <1>1, <1>2, <2>3, <3>1
    <3>3. s[n] # i /\ s[n] # last
      BY <1>1, <2>3
    <3>4. after[s[n]] = s[n + 1]
      BY <1>1, <1>4, <2>3, <3>2, <3>3
    <3>5. QED
      BY <1>2, <3>1, <3>2, <3>4
  <2>4. QED
    BY <1>2, <1>5, <2>1, <2>2, <2>3
<1>8. start = t[1]
  BY <1>1, <1>2
<1>9. IsChain(after, start, t)
  BY <1>2, <1>6, <1>7, <1>8 DEF IsChain
<1>10. Range(t) = Range(s) \cup {i}
  <2>1. ASSUME NEW k \in Range(t)
        PROVE  k \in Range(s) \cup {i}
    BY <1>1, <1>2, <1>5, <2>1 DEF Range
  <2>2. ASSUME NEW k \in Range(s)
        PROVE  k \in Range(t)
    <3>1. PICK n \in 1 .. Len(s) : k = s[n]
      BY <1>1, <2>2 DEF Range
    <3>2. n \in DOMAIN t /\ t[n] = k
      BY <1>1, <1>2, <3>1
    <3>3. QED
      BY <3>2 DEF Range
  <2>3. i \in Range(t)
    <3>1. Len(s) + 1 \in DOMAIN t
      BY <1>1, <1>2
    <3>2. QED
      BY <1>2, <3>1 DEF Range
  <2>4. QED
    BY <2>1, <2>2, <2>3
<1>11. QED
  BY <1>9, <1>10 DEF t

\* A function on the first k numbers is a sequence of length k.
LEMMA SequenceOf ==
  ASSUME NEW k \in Nat, k >= 1, NEW t \in [1 .. k -> Chunk]
  PROVE  t \in Seq(Chunk) /\ Len(t) = k /\ DOMAIN t = 1 .. k /\ t # <<>>
<1>1. t \in Seq(Chunk) /\ Len(t) = k /\ DOMAIN t = 1 .. k
  OBVIOUS
<1>2. QED
  BY <1>1

\* htab_delete: the chunk after p is taken out, of this chain as of every other
\* one that p is in.
LEMMA ChainUnlink ==
  ASSUME NEW next, NEW start, NEW s, IsChain(next, start, s),
         NEW p \in Chunk, next[p] \in Chunk,
         NEW after, after[p] = next[next[p]],
         \A c \in Chunk : c # p => after[c] = next[c]
  PROVE  \E t :
           /\ IsChain(after, start, t)
           /\ Range(t) = IF p \in Range(s) THEN Range(s) \ {next[p]} ELSE Range(s)
<1>1. CASE p \notin Range(s)
  BY <1>1, ChainElsewhere
<1>2. CASE p \in Range(s)
  <2>1. /\ s \in Seq(Chunk) /\ Len(s) \in Nat
        /\ start = IF s = <<>> THEN NULL ELSE s[1]
        /\ \A m, n \in 1 .. Len(s) : s[m] = s[n] => m = n
        /\ \A n \in 1 .. Len(s) : s[n] \in Chunk
        /\ \A n \in 1 .. Len(s) : next[s[n]] = IF n = Len(s) THEN NULL ELSE s[n + 1]
    BY DEF IsChain
  <2>2. PICK m \in 1 .. Len(s) : s[m] = p
    BY <1>2, <2>1 DEF Range
  <2>3. NULL \notin Chunk
    BY CarStoresAssumption DEF Chunk, NULL
  <2>4. m + 1 \in 1 .. Len(s) /\ next[p] = s[m + 1] /\ m \in Nat
    BY <2>1, <2>2, <2>3
  <2> DEFINE t == [n \in 1 .. Len(s) - 1 |-> IF n <= m THEN s[n] ELSE s[n + 1]]
  <2>5. \A n \in 1 .. Len(s) - 1 : n \in 1 .. Len(s) /\ n + 1 \in 1 .. Len(s)
    BY <2>1
  <2>6. /\ t \in Seq(Chunk) /\ Len(t) = Len(s) - 1 /\ DOMAIN t = 1 .. Len(s) - 1
        /\ \A n \in 1 .. Len(s) - 1 : n <= m => t[n] = s[n]
        /\ \A n \in 1 .. Len(s) - 1 : ~ (n <= m) => t[n] = s[n + 1]
        /\ t # <<>>
    <3>1. \A n \in 1 .. Len(s) - 1 : t[n] \in Chunk
      BY <2>1, <2>5
    <3>2. Len(s) - 1 \in Nat /\ Len(s) - 1 >= 1
      BY <2>1, <2>4
    <3>3. t \in [1 .. Len(s) - 1 -> Chunk]
      BY <3>1
    <3>4. /\ \A n \in 1 .. Len(s) - 1 : n <= m => t[n] = s[n]
          /\ \A n \in 1 .. Len(s) - 1 : ~ (n <= m) => t[n] = s[n + 1]
      OBVIOUS
    <3> HIDE DEF t
    <3>5. QED
      BY <3>2, <3>3, <3>4, SequenceOf
  <2> HIDE DEF t
  <2>7. \A n \in 1 .. Len(s) : s[n] # p => after[s[n]] = next[s[n]]
    BY <2>1
  <2>8. after[p] = next[s[m + 1]]
    BY <2>4
  <2>9. ASSUME NEW j \in DOMAIN t, NEW n \in DOMAIN t, t[j] = t[n]
        PROVE  j = n
    <3>1. /\ j \in Int /\ n \in Int /\ j \in 1 .. Len(s) /\ j + 1 \in 1 .. Len(s)
          /\ n \in 1 .. Len(s) /\ n + 1 \in 1 .. Len(s)
      BY <2>5, <2>6
    <3>2. CASE j <= m /\ n <= m
      BY <2>1, <2>6, <2>9, <3>1, <3>2
    <3>3. CASE ~ (j <= m) /\ ~ (n <= m)
      <4>1. j + 1 = n + 1
        BY <2>1, <2>6, <2>9, <3>1, <3>3
      <4>2. QED
        BY <3>1, <4>1
    <3>4. CASE j <= m /\ ~ (n <= m)
      <4>1. j = n + 1
        BY <2>1, <2>6, <2>9, <3>1, <3>4
      <4>2. QED
        BY <2>4, <3>1, <3>4, <4>1
    <3>5. CASE ~ (j <= m) /\ n <= m
      <4>1. j + 1 = n
        BY <2>1, <2>6, <2>9, <3>1, <3>5
      <4>2. QED
        BY <2>4, <3>1, <3>5, <4>1
    <3>6. QED
      BY <3>2, <3>3, <3>4, <3>5
  <2>10. ASSUME NEW n \in DOMAIN t
         PROVE  after[t[n]] = IF n = Len(t) THEN NULL ELSE t[n + 1]
    <3>1. /\ n \in Int /\ n \in 1 .. Len(s) - 1 /\ n \in 1 .. Len(s) /\ n + 1 \in 1 .. Len(s)
          /\ n # Len(s)
      BY <2>1, <2>5, <2>6
    <3>2. n # Len(t) => n + 1 \in 1 .. Len(s) - 1 /\ (n + 1) + 1 \in 1 .. Len(s)
      BY <2>1, <2>6, <3>1
    <3>3. n = Len(t) => n + 1 = Len(s)
      BY <2>1, <2>6, <3>1
    <3>4. next[s[n + 1]] = IF n + 1 = Len(s) THEN NULL ELSE s[(n + 1) + 1]
      BY <2>1, <3>1
    <3>5. n # Len(t) => n + 1 # Len(s)
      BY <2>1, <2>6, <3>1
    <3>6. CASE n < m
      <4>1. s[n] # p
        BY <2>1, <2>2, <3>1, <3>6, <2>4
      <4>2. after[t[n]] = s[n + 1]
        BY <2>1, <2>4, <2>6, <2>7, <3>1, <3>6, <4>1
      <4>3. n + 1 <= m /\ n + 1 \in 1 .. Len(s) - 1 /\ n # Len(t)
        BY <2>1, <2>4, <2>6, <3>1, <3>6
      <4>4. QED
        BY <2>6, <4>2, <4>3
    <3>7. CASE n = m
      <4>1. after[t[n]] = next[s[n + 1]]
        BY <2>2, <2>4, <2>6, <2>8, <3>1, <3>7
      <4>2. n # Len(t) => t[n + 1] = s[(n + 1) + 1]
        BY <2>4, <2>6, <3>1, <3>2, <3>7
      <4>3. QED
        BY <3>3, <3>4, <3>5, <4>1, <4>2
    <3>8. CASE n > m
      <4>1. t[n] = s[n + 1] /\ s[n + 1] # p
        BY <2>1, <2>2, <2>4, <2>6, <3>1, <3>8
      <4>2. after[t[n]] = next[s[n + 1]]
        BY <2>7, <3>1, <4>1
      <4>3. n # Len(t) => t[n + 1] = s[(n + 1) + 1]
        BY <2>4, <2>6, <3>1, <3>2, <3>8
      <4>4. QED
        BY <3>3, <3>4, <3>5, <4>2, <4>3
    <3>9. QED
      BY <2>4, <3>1, <3>6, <3>7, <3>8
  <2>11. start = t[1] /\ t # <<>>
    <3>1. 1 \in 1 .. Len(s) - 1 /\ 1 <= m /\ s # <<>>
      BY <2>1, <2>4
    <3>2. QED
      BY <2>1, <2>6, <3>1
  <2>12. IsChain(after, start, t)
    BY <2>6, <2>9, <2>10, <2>11 DEF IsChain
  <2>13. Range(t) = Range(s) \ {next[p]}
    <3>1. ASSUME NEW k \in Range(t)
          PROVE  k \in Range(s) /\ k # s[m + 1]
      <4>1. PICK n \in 1 .. Len(s) - 1 : k = t[n]
        BY <2>6, <3>1 DEF Range
      <4>2. n \in Int /\ n \in 1 .. Len(s) /\ n + 1 \in 1 .. Len(s)
        BY <2>5
      <4>3. CASE n <= m
        <5>1. k = s[n] /\ n # m + 1
          BY <2>4, <2>6, <4>1, <4>2, <4>3
        <5>2. QED
          BY <2>1, <2>4, <4>2, <5>1 DEF Range
      <4>4. CASE ~ (n <= m)
        <5>1. k = s[n + 1] /\ n + 1 # m + 1
          BY <2>4, <2>6, <4>1, <4>2, <4>4
        <5>2. QED
          BY <2>1, <2>4, <4>2, <5>1 DEF Range
      <4>5. QED
        BY <4>3, <4>4
    <3>2. ASSUME NEW k \in Range(s), k # s[m + 1]
          PROVE  k \in Range(t)
      <4>1. PICK n \in 1 .. Len(s) : k = s[n]
        BY <2>1, <3>2 DEF Range
      <4>2. n \in Int /\ n # m + 1
        BY <3>2, <4>1
      <4>3. CASE n <= m
        <5>1. n \in 1 .. Len(s) - 1 /\ t[n] = k
          BY <2>1, <2>4, <2>6, <4>1, <4>2, <4>3
        <5>2. QED
          BY <2>6, <5>1 DEF Range
      <4>4. CASE ~ (n <= m)
        <5>1. n - 1 \in 1 .. Len(s) - 1 /\ ~ (n - 1 <= m) /\ (n - 1) + 1 = n
          BY <2>1, <2>4, <4>1, <4>2, <4>4
        <5>2. t[n - 1] = k
          BY <2>6, <4>1, <5>1
        <5>3. QED
          BY <2>6, <5>1, <5>2 DEF Range
      <4>5. QED
        BY <4>3, <4>4
    <3>3. QED
      BY <2>4, <3>1, <3>2
  <2>14. QED
    BY <1>2, <2>12, <2>13
<1>3. QED
  BY <1>1, <1>2

-----------------------------------------------------------------------------
(* The inductive invariant                                                 *)

\* The bucket: every item that is allocated is linked, but the one that is being
\* deleted, and no two have the same plate.
ItemInv ==
  /\ IsChain(item_next, head, Items)
  /\ Range(Items) = items \ {deleting}
  /\ deleting # NULL => deleting \in items
  /\ \A i \in Range(Items) : item_key[i] \in Plates
  /\ \A i, j \in Range(Items) : item_key[i] = item_key[j] => i = j

\* The queue: every node that is allocated is linked, and rear is the last one.
NodeInv ==
  /\ IsChain(node_next, front, Queue)
  /\ Range(Queue) = nodes
  /\ rear = IF Queue = <<>> THEN NULL ELSE Queue[Len(Queue)]
  /\ \A n \in nodes : node_plate[n] \in Plates

\* What is still before the walk of htab_find.
Walk == Chain(item_next, gen_item)

\* The walk comes to NULL, through items that may have been freed, and an item
\* with the plate it looks for is still before it.
WalkInv ==
  gen_pc \in {"compare", "next"} =>
    /\ IsChain(item_next, gen_item, Walk)
    /\ \A i \in Range(Items) : item_key[i] = gen_plate => i \in Range(Walk)
    /\ gen_pc = "next" => gen_item # NULL /\ item_key[gen_item] # gen_plate

GenInv == gen_pc # "draw" => gen_plate \in Plates

IInv == TypeOK /\ ItemInv /\ NodeInv /\ WalkInv /\ GenInv /\ NewPlateIsAbsent

\* No chunk is NULL.
LEMMA NullIsNoChunk == NULL \notin Chunk /\ Pointer = Chunk \cup {NULL}
  BY CarStoresAssumption DEF Chunk, NULL, Pointer

\* An empty chain, and the chunks of any.
LEMMA ChainEnds ==
  ASSUME NEW next, NEW start, NEW s, IsChain(next, start, s)
  PROVE  /\ start = NULL <=> s = <<>>
         /\ start = NULL => Range(s) = {}
         /\ Range(s) \subseteq Chunk
  BY NullIsNoChunk DEF IsChain, Range

\* Everything is empty at first.
LEMMA InitIInv == Init => IInv
<1> SUFFICES ASSUME Init
             PROVE  IInv
  OBVIOUS
<1>1. TypeOK
  BY DEF Init, TypeOK, NULL, Pointer
<1>2. ASSUME NEW next
      PROVE  IsChain(next, NULL, <<>>) /\ Chain(next, NULL) = <<>>
  <2>1. IsChain(next, NULL, <<>>)
    BY DEF IsChain
  <2>2. QED
    BY <2>1, ChainFound
<1>3. Range(<<>>) = {}
  BY DEF Range
<1>4. ItemInv
  BY <1>2, <1>3 DEF Init, ItemInv, Items
<1>5. NodeInv
  BY <1>2, <1>3 DEF Init, NodeInv, Queue
<1>6. WalkInv /\ GenInv /\ NewPlateIsAbsent
  BY DEF Init, WalkInv, GenInv, NewPlateIsAbsent
<1>7. QED
  BY <1>1, <1>4, <1>5, <1>6 DEF IInv

-----------------------------------------------------------------------------
(* The table                                                               *)

\* Taking an item out of its bucket takes it out of every chain it is in, and
\* no other item out of any.
LEMMA UnlinkStep ==
  ASSUME TypeOK, ItemInv, NEW i \in Range(Items), Unlink(i)
  PROVE  /\ IsChain(item_next', head', Items')
         /\ Range(Items') = Range(Items) \ {i}
         /\ item_next' \in [Chunk -> Pointer] /\ head' \in Pointer
         /\ \A start, s : IsChain(item_next, start, s) =>
              \E t : IsChain(item_next', start, t) /\ Range(s) \ {i} \subseteq Range(t)
<1>1. /\ IsChain(item_next, head, Items) /\ Range(Items) \subseteq Chunk
      /\ item_next \in [Chunk -> Pointer] /\ head \in Pointer /\ i \in Chunk /\ i # NULL
  BY ChainEnds, NullIsNoChunk DEF TypeOK, ItemInv
<1>2. CASE head = i /\ head' = item_next[i] /\ UNCHANGED item_next
  <2>1. /\ IsChain(item_next, item_next[head], Tail(Items))
        /\ Range(Tail(Items)) = Range(Items) \ {head}
    BY <1>1, <1>2, ChainTail
  <2>2. Items' = Tail(Items)
    BY <1>2, <2>1, ChainFound DEF Items
  <2>3. QED
    BY <1>1, <1>2, <2>1, <2>2
<1>3. ASSUME NEW previous \in Range(Items), item_next[previous] = i,
             item_next' = [item_next EXCEPT ![previous] = item_next[i]], head' = head
      PROVE  /\ IsChain(item_next', head', Items')
             /\ Range(Items') = Range(Items) \ {i}
             /\ item_next' \in [Chunk -> Pointer] /\ head' \in Pointer
             /\ \A start, s : IsChain(item_next, start, s) =>
                  \E t : IsChain(item_next', start, t) /\ Range(s) \ {i} \subseteq Range(t)
  <2>1. previous \in Chunk /\ item_next[previous] \in Chunk /\ item_next[i] \in Pointer
    BY <1>1, <1>3
  <2>2. \A start, s : IsChain(item_next, start, s) =>
          \E t : /\ IsChain(item_next', start, t)
                 /\ Range(t) = IF previous \in Range(s) THEN Range(s) \ {i} ELSE Range(s)
    <3>1. SUFFICES ASSUME NEW start, NEW s, IsChain(item_next, start, s)
                   PROVE  \E t : /\ IsChain(item_next', start, t)
                                 /\ Range(t) = IF previous \in Range(s)
                                               THEN Range(s) \ {i} ELSE Range(s)
      OBVIOUS
    <3>2. /\ item_next'[previous] = item_next[item_next[previous]]
          /\ \A c \in Chunk : c # previous => item_next'[c] = item_next[c]
      BY <1>1, <1>3, <2>1
    <3>3. \E t : /\ IsChain(item_next', start, t)
                 /\ Range(t) = IF previous \in Range(s)
                               THEN Range(s) \ {item_next[previous]} ELSE Range(s)
      BY <2>1, <3>1, <3>2, ChainUnlink
    <3>4. QED
      BY <1>3, <3>3
  <2>3. PICK t : IsChain(item_next', head, t) /\ Range(t) = Range(Items) \ {i}
    BY <1>1, <1>3, <2>2
  <2>4. Items' = t
    BY <1>3, <2>3, ChainFound DEF Items
  <2>5. item_next' \in [Chunk -> Pointer]
    BY <1>1, <1>3, <2>1
  <2>6. \A start, s : IsChain(item_next, start, s) =>
          \E u : IsChain(item_next', start, u) /\ Range(s) \ {i} \subseteq Range(u)
    BY <2>2
  <2>7. QED
    BY <1>1, <1>3, <2>3, <2>4, <2>5, <2>6
<1>4. QED
  BY <1>2, <1>3 DEF Unlink

\* What a car's deletion leaves of the bucket.
LEMMA DeleteStep ==
  ASSUME TypeOK, ItemInv, NEW p \in Plates, CarDelete(p)
  PROVE  /\ ItemInv'
         /\ Range(Items') = {i \in Range(Items) : item_key[i] # p}
         /\ item_next' \in [Chunk -> Pointer] /\ head' \in Pointer /\ deleting' \in Pointer
         /\ item_key' = item_key
         /\ \A start, s : IsChain(item_next, start, s) =>
              \E t : /\ IsChain(item_next', start, t)
                     /\ \A i \in Range(s) : i \in Range(Items') => i \in Range(t)
<1>1. CASE \E i \in Range(Items) : item_key[i] = p /\ Unlink(i) /\ deleting' = i
  <2>1. PICK i \in Range(Items) : item_key[i] = p /\ Unlink(i) /\ deleting' = i
    BY <1>1
  <2>2. /\ IsChain(item_next', head', Items')
        /\ Range(Items') = Range(Items) \ {i}
        /\ item_next' \in [Chunk -> Pointer] /\ head' \in Pointer
        /\ \A start, s : IsChain(item_next, start, s) =>
             \E t : IsChain(item_next', start, t) /\ Range(s) \ {i} \subseteq Range(t)
    BY <2>1, UnlinkStep
  <2>3. /\ deleting = NULL /\ item_key' = item_key /\ items' = items
        /\ i \in items /\ i \in Chunk /\ NULL \notin items
    BY <2>1, NullIsNoChunk DEF CarDelete, ItemInv, TypeOK
  <2>4. ItemInv'
    BY <2>1, <2>2, <2>3 DEF ItemInv
  <2>5. Range(Items') = {k \in Range(Items) : item_key[k] # p}
    BY <2>1, <2>2 DEF ItemInv
  <2>6. QED
    BY <2>1, <2>2, <2>3, <2>4, <2>5, NullIsNoChunk
<1>2. CASE /\ \A i \in Range(Items) : item_key[i] # p
           /\ UNCHANGED <<head, item_next, deleting>>
  <2>1. item_key' = item_key /\ items' = items /\ Items' = Items
    BY <1>2 DEF CarDelete, Items
  <2>2. ItemInv'
    BY <1>2, <2>1 DEF ItemInv
  <2>3. QED
    BY <1>2, <2>1, <2>2 DEF TypeOK
<1>3. QED
  BY <1>1, <1>2 DEF CarDelete

\* htab_add links the new item first.
LEMMA AddStep ==
  ASSUME IInv, GenAdd
  PROVE  /\ ItemInv'
         /\ \E i \in Chunk \ Range(Items) :
              /\ Range(Items') = Range(Items) \cup {i} /\ item_key'[i] = gen_plate
              /\ \A k \in Range(Items) : item_key'[k] = item_key[k]
         /\ item_next' \in [Chunk -> Pointer] /\ head' \in Pointer
<1>1. PICK i \in Chunk \ items :
         /\ items' = items \cup {i}
         /\ item_key' = [item_key EXCEPT ![i] = gen_plate]
         /\ item_next' = [item_next EXCEPT ![i] = head]
         /\ head' = i
  BY DEF GenAdd
<1>2. /\ IsChain(item_next, head, Items) /\ item_next \in [Chunk -> Pointer]
      /\ head \in Pointer /\ item_key \in [Chunk -> Plates \cup {NoPlate}]
      /\ Range(Items) = items \ {deleting} /\ Range(Items) \subseteq Chunk
      /\ deleting = NULL /\ deleting' = NULL
      /\ NULL \notin items /\ NULL \notin Chunk /\ i # NULL /\ i \notin Range(Items)
      /\ gen_plate \in Plates
      /\ \A k \in Range(Items) : item_key[k] # gen_plate
  BY <1>1, ChainEnds, NullIsNoChunk
  DEF IInv, TypeOK, ItemInv, GenInv, GenAdd, NewPlateIsAbsent
<1>3. /\ IsChain(item_next', head', <<i>> \o Items)
      /\ Range(<<i>> \o Items) = Range(Items) \cup {i}
  <2>1. /\ item_next'[i] = head /\ i \in Chunk /\ head' = i
        /\ \A c \in Chunk : c # i => item_next'[c] = item_next[c]
    BY <1>1, <1>2
  <2>2. QED
    BY <1>2, <2>1, ChainPush
<1>4. Items' = <<i>> \o Items
  BY <1>3, ChainFound DEF Items
<1>5. item_key'[i] = gen_plate /\ \A k \in Range(Items) : item_key'[k] = item_key[k]
  BY <1>1, <1>2
<1>6. item_next' \in [Chunk -> Pointer] /\ head' \in Pointer
  BY <1>1, <1>2, NullIsNoChunk
<1>7. Range(Items') = items' \ {deleting'}
  BY <1>1, <1>2, <1>3, <1>4
<1>8. /\ \A k \in Range(Items') : item_key'[k] \in Plates
      /\ \A k, j \in Range(Items') : item_key'[k] = item_key'[j] => k = j
  BY <1>2, <1>3, <1>4, <1>5 DEF IInv, ItemInv
<1>9. ItemInv'
  BY <1>2, <1>3, <1>4, <1>7, <1>8 DEF ItemInv
<1>10. QED
  BY <1>2, <1>3, <1>4, <1>5, <1>6, <1>9

\* free takes nothing that is linked.
LEMMA FreeStep ==
  ASSUME TypeOK, ItemInv, CarFree
  PROVE  /\ ItemInv'
         /\ Items' = Items /\ \A i \in Range(Items) : item_key'[i] = item_key[i]
<1>1. /\ Items' = Items /\ deleting \in Chunk /\ deleting \notin Range(Items)
      /\ Range(Items) \subseteq Chunk /\ NULL \notin items
  BY ChainEnds, NullIsNoChunk DEF TypeOK, ItemInv, CarFree, Items
<1>2. \A i \in Range(Items) : item_key'[i] = item_key[i]
  BY <1>1 DEF CarFree, TypeOK
<1>3. Range(Items') = items' \ {deleting'}
  BY <1>1 DEF CarFree, ItemInv
<1>4. ItemInv'
  BY <1>1, <1>2, <1>3 DEF CarFree, ItemInv
<1>5. QED
  BY <1>1, <1>2, <1>4

-----------------------------------------------------------------------------
(* The queue                                                               *)

\* enqueue links the new node last.
LEMMA EnqueueStep ==
  ASSUME IInv, GenEnqueue
  PROVE  /\ NodeInv' /\ node_next' \in [Chunk -> Pointer]
         /\ {front', rear'} \subseteq Pointer /\ nodes' \subseteq Chunk
         /\ node_plate' \in [Chunk -> Plates \cup {NoPlate}]
         /\ \E n \in Chunk : Queue' = Append(Queue, n) /\ node_plate'[n] = gen_plate
         /\ \A n \in Range(Queue) : node_plate'[n] = node_plate[n]
<1>1. PICK n \in Chunk \ nodes :
         /\ nodes' = nodes \cup {n}
         /\ node_plate' = [node_plate EXCEPT ![n] = gen_plate]
         /\ rear' = n
         /\ IF rear = NULL
            THEN front' = n /\ node_next' = [node_next EXCEPT ![n] = NULL]
            ELSE front' = front /\ node_next' = [node_next EXCEPT ![n] = NULL, ![rear] = n]
  BY DEF GenEnqueue
<1>2. /\ IsChain(node_next, front, Queue) /\ Range(Queue) = nodes /\ nodes \subseteq Chunk
      /\ rear = IF Queue = <<>> THEN NULL ELSE Queue[Len(Queue)]
      /\ node_next \in [Chunk -> Pointer] /\ front \in Pointer /\ rear \in Pointer
      /\ node_plate \in [Chunk -> Plates \cup {NoPlate}] /\ gen_plate \in Plates
      /\ n \in Chunk /\ n \notin Range(Queue) /\ NULL \notin Chunk
      /\ \A m \in nodes : node_plate[m] \in Plates
  BY <1>1, NullIsNoChunk DEF IInv, TypeOK, NodeInv, GenInv, GenEnqueue
<1>3. Queue \in Seq(Chunk)
  BY <1>2 DEF IsChain
<1>4. rear = NULL <=> Queue = <<>>
  <2>1. ASSUME Queue # <<>>
        PROVE  Len(Queue) \in DOMAIN Queue /\ Queue[Len(Queue)] \in Chunk
    BY <1>3, <2>1
  <2>2. QED
    BY <1>2, <2>1
<1>5. /\ IsChain(node_next', front', Append(Queue, n))
      /\ Range(Append(Queue, n)) = nodes \cup {n}
      /\ node_next' \in [Chunk -> Pointer] /\ front' \in Pointer
  <2>1. CASE rear = NULL
    <3>1. Queue = <<>> /\ Append(Queue, n) = <<n>> /\ nodes = {}
      <4>1. Queue = <<>>
        BY <1>4, <2>1
      <4>2. Append(Queue, n) = <<n>>
        BY <4>1
      <4>3. Range(Queue) = {}
        BY <4>1 DEF Range
      <4>4. QED
        BY <1>2, <4>1, <4>2, <4>3
    <3>2. node_next'[n] = NULL /\ front' = n /\ node_next' \in [Chunk -> Pointer]
      BY <1>1, <1>2, <2>1, NullIsNoChunk
    <3>3. IsChain(node_next', n, <<n>>)
      <4>1. /\ <<n>> \in Seq(Chunk) /\ Len(<<n>>) = 1 /\ <<n>>[1] = n
            /\ <<n>> # <<>> /\ DOMAIN <<n>> = {1}
        BY <1>2
      <4>2. QED
        BY <3>2, <4>1 DEF IsChain
    <3>4. Range(<<n>>) = {n}
      BY DEF Range
    <3>5. QED
      BY <1>2, <3>1, <3>2, <3>3, <3>4, NullIsNoChunk
  <2>2. CASE rear # NULL
    <3>1. Queue # <<>> /\ rear = Queue[Len(Queue)] /\ rear \in nodes /\ rear # n
      <4>1. Queue # <<>> /\ rear = Queue[Len(Queue)]
        BY <1>2, <1>4, <2>2
      <4>2. Len(Queue) \in DOMAIN Queue
        BY <1>3, <4>1
      <4>3. QED
        BY <1>2, <4>1, <4>2 DEF Range
    <3>2. /\ node_next'[n] = NULL /\ node_next'[rear] = n /\ front' = front
          /\ \A c \in Chunk : c # n /\ c # rear => node_next'[c] = node_next[c]
          /\ node_next' \in [Chunk -> Pointer]
      BY <1>1, <1>2, <2>2, <3>1, NullIsNoChunk
    <3>3. /\ IsChain(node_next', front, Append(Queue, n))
          /\ Range(Append(Queue, n)) = Range(Queue) \cup {n}
      BY <1>2, <3>1, <3>2, ChainAppend
    <3>4. QED
      BY <1>2, <3>2, <3>3
  <2>3. QED
    BY <2>1, <2>2
<1>6. Queue' = Append(Queue, n)
  BY <1>5, ChainFound DEF Queue
<1>7. /\ node_plate'[n] = gen_plate /\ \A m \in nodes : node_plate'[m] = node_plate[m]
      /\ node_plate' \in [Chunk -> Plates \cup {NoPlate}]
  BY <1>1, <1>2
<1>8. rear' = IF Queue' = <<>> THEN NULL ELSE Queue'[Len(Queue')]
  <2>1. Append(Queue, n) # <<>> /\ Append(Queue, n)[Len(Append(Queue, n))] = n
    BY <1>3
  <2>2. QED
    BY <1>1, <1>6, <2>1
<1>9. NodeInv'
  <2>1. \A m \in nodes' : node_plate'[m] \in Plates
    BY <1>1, <1>2, <1>7
  <2>2. QED
    BY <1>1, <1>5, <1>6, <1>8, <2>1 DEF NodeInv
<1>10. QED
  BY <1>1, <1>2, <1>5, <1>6, <1>7, <1>9, NullIsNoChunk

\* dequeue unlinks the first node.
LEMMA DequeueStep ==
  ASSUME TypeOK, NodeInv, Dequeue
  PROVE  /\ NodeInv' /\ node_next' \in [Chunk -> Pointer]
         /\ {front', rear'} \subseteq Pointer /\ nodes' \subseteq Chunk
         /\ node_plate' \in [Chunk -> Plates \cup {NoPlate}]
         /\ node_plate[front] \in Plates
         /\ Queue # <<>> /\ Queue' = Tail(Queue)
         /\ \A n \in Range(Queue') : node_plate'[n] = node_plate[n]
<1>1. /\ front # NULL /\ front' = node_next[front]
      /\ rear' = IF front' = NULL THEN NULL ELSE rear
      /\ nodes' = nodes \ {front}
      /\ node_plate' = [node_plate EXCEPT ![front] = NoPlate]
      /\ node_next' = [node_next EXCEPT ![front] = NULL]
  BY DEF Dequeue
<1>2. /\ IsChain(node_next, front, Queue) /\ Range(Queue) = nodes /\ nodes \subseteq Chunk
      /\ rear = IF Queue = <<>> THEN NULL ELSE Queue[Len(Queue)]
      /\ node_next \in [Chunk -> Pointer] /\ front \in Chunk /\ rear \in Pointer
      /\ node_plate \in [Chunk -> Plates \cup {NoPlate}]
      /\ NULL \in Pointer
      /\ \A m \in nodes : node_plate[m] \in Plates
  BY <1>1, NullIsNoChunk DEF TypeOK, NodeInv
<1>3. /\ IsChain(node_next, front', Tail(Queue))
      /\ front \in Range(Queue)
      /\ Range(Tail(Queue)) = nodes'
      /\ Queue # <<>>
  BY <1>1, <1>2, ChainTail
<1>4. IsChain(node_next', front', Tail(Queue))
  <2>1. front \notin Range(Tail(Queue))
    BY <1>1, <1>3
  <2>2. \A c \in Chunk : c # front => node_next'[c] = node_next[c]
    BY <1>1, <1>2
  <2>3. QED
    BY <1>2, <1>3, <2>1, <2>2, ChainElsewhere
<1>5. Queue' = Tail(Queue)
  BY <1>4, ChainFound DEF Queue
<1>6. \A n \in nodes' : node_plate'[n] = node_plate[n]
  BY <1>1, <1>2
<1>7. rear' = IF Queue' = <<>> THEN NULL ELSE Queue'[Len(Queue')]
  <2>1. front' = NULL <=> Tail(Queue) = <<>>
    <3> DEFINE q == Tail(Queue)
    <3>1. IsChain(node_next', front', q)
      BY <1>4
    <3> HIDE DEF q
    <3>2. front' = NULL <=> q = <<>>
      BY <3>1, ChainEnds
    <3>3. QED
      BY <3>2 DEF q
  <2>2. Queue \in Seq(Chunk)
    BY <1>2 DEF IsChain
  <2>3. ASSUME Tail(Queue) # <<>>
        PROVE  Tail(Queue)[Len(Tail(Queue))] = Queue[Len(Queue)]
    <3>1. Len(Queue) \in Nat /\ Len(Tail(Queue)) = Len(Queue) - 1 /\ Len(Tail(Queue)) >= 1
      BY <1>3, <2>2, <2>3
    <3>2. QED
      BY <1>3, <2>2, <3>1
  <2>4. QED
    BY <1>1, <1>2, <1>3, <1>5, <2>1, <2>3
<1>8. NodeInv'
  <2>1. \A m \in nodes' : node_plate'[m] \in Plates
    BY <1>1, <1>2, <1>6
  <2>2. IsChain(node_next', front', Queue') /\ Range(Queue') = nodes'
    BY <1>3, <1>4, <1>5
  <2>3. QED
    BY <1>7, <2>1, <2>2 DEF NodeInv
<1>9. /\ node_next' \in [Chunk -> Pointer] /\ {front', rear'} \subseteq Pointer
      /\ nodes' \subseteq Chunk /\ node_plate' \in [Chunk -> Plates \cup {NoPlate}]
  BY <1>1, <1>2
<1>10. QED
  BY <1>2, <1>3, <1>5, <1>6, <1>8, <1>9

-----------------------------------------------------------------------------
(* The walk, and the invariant                                             *)

\* A deletion leaves before the walk what was before it and is still linked.
LEMMA DeleteKeepsWalk ==
  ASSUME IInv, NEW p \in Plates, CarDelete(p)
  PROVE  WalkInv'
<1>1. /\ gen_pc' = gen_pc /\ gen_plate' = gen_plate /\ gen_item' = gen_item
  BY DEF CarDelete, genVars
<1>2. /\ Range(Items') \subseteq Range(Items) /\ item_key' = item_key
      /\ \A start, s : IsChain(item_next, start, s) =>
           \E t : /\ IsChain(item_next', start, t)
                  /\ \A i \in Range(s) : i \in Range(Items') => i \in Range(t)
  BY DeleteStep DEF IInv
<1>3. CASE gen_pc \in {"compare", "next"}
  <2>1. /\ IsChain(item_next, gen_item, Walk)
        /\ \A i \in Range(Items) : item_key[i] = gen_plate => i \in Range(Walk)
        /\ gen_pc = "next" => gen_item # NULL /\ item_key[gen_item] # gen_plate
    BY <1>3 DEF IInv, WalkInv
  <2>2. PICK t : /\ IsChain(item_next', gen_item, t)
                 /\ \A i \in Range(Walk) : i \in Range(Items') => i \in Range(t)
    BY <1>2, <2>1
  <2>3. Walk' = t
    BY <1>1, <2>2, ChainFound DEF Walk
  <2>4. \A i \in Range(Items') : item_key'[i] = gen_plate' => i \in Range(Walk')
    BY <1>1, <1>2, <2>1, <2>2, <2>3
  <2>5. IsChain(item_next', gen_item', Walk')
    BY <1>1, <2>2, <2>3
  <2>6. QED
    BY <1>1, <1>2, <2>1, <2>4, <2>5 DEF WalkInv
<1>4. CASE gen_pc \notin {"compare", "next"}
  BY <1>1, <1>4 DEF WalkInv
<1>5. QED
  BY <1>3, <1>4

\* One step per action, and under it one per part that it can disturb.
LEMMA NextIInv == IInv /\ [Next]_vars => IInv'
<1> SUFFICES ASSUME IInv, [Next]_vars
             PROVE  IInv'
  OBVIOUS
<1>1. TypeOK /\ ItemInv /\ NodeInv /\ WalkInv /\ GenInv /\ NewPlateIsAbsent
  BY DEF IInv
<1>2. ASSUME NEW p \in Plates, GenDraw(p)
      PROVE  IInv'
  <2>1. Items' = Items /\ Queue' = Queue /\ Walk' = Items
    BY <1>2 DEF GenDraw, tableVars, queueVars, Items, Queue, Walk
  <2>2. TypeOK'
    BY <1>1, <1>2 DEF TypeOK, GenDraw, tableVars, queueVars
  <2>3. ItemInv' /\ NodeInv'
    BY <1>1, <1>2, <2>1 DEF ItemInv, NodeInv, GenDraw, tableVars, queueVars
  <2>4. WalkInv'
    BY <1>1, <1>2, <2>1 DEF ItemInv, WalkInv, GenDraw, tableVars
  <2>5. GenInv'
    BY <1>2 DEF GenInv, GenDraw
  <2>6. NewPlateIsAbsent'
    <3>1. gen_item' = NULL => Range(Items') = {}
      BY <1>1, <1>2, <2>1, ChainEnds DEF ItemInv, GenDraw
    <3>2. QED
      BY <1>2, <3>1 DEF NewPlateIsAbsent, GenDraw
  <2>7. QED
    BY <2>2, <2>3, <2>4, <2>5, <2>6 DEF IInv
<1>3. CASE GenCompare
  <2>1. Items' = Items /\ Queue' = Queue /\ Walk' = Walk
    BY <1>3 DEF GenCompare, tableVars, queueVars, Items, Queue, Walk
  <2>2. TypeOK'
    BY <1>1, <1>3 DEF TypeOK, GenCompare, tableVars, queueVars
  <2>3. ItemInv' /\ NodeInv'
    BY <1>1, <1>3, <2>1 DEF ItemInv, NodeInv, GenCompare, tableVars, queueVars
  <2>4. WalkInv'
    BY <1>1, <1>3, <2>1 DEF WalkInv, GenCompare, tableVars
  <2>5. GenInv'
    BY <1>1, <1>3 DEF GenInv, GenCompare
  <2>6. NewPlateIsAbsent'
    BY <1>1, <1>3, <2>1 DEF NewPlateIsAbsent, GenCompare, tableVars
  <2>7. QED
    BY <2>2, <2>3, <2>4, <2>5, <2>6 DEF IInv
<1>4. CASE GenNext
  <2>1. /\ gen_pc = "next" /\ gen_pc' = "compare" /\ gen_item' = item_next[gen_item]
        /\ gen_plate' = gen_plate /\ item_next' = item_next /\ item_key' = item_key
        /\ head' = head
    BY <1>4 DEF GenNext, tableVars
  <2>2. Items' = Items /\ Queue' = Queue
    BY <1>4 DEF GenNext, tableVars, queueVars, Items, Queue
  <2>3. /\ gen_item # NULL /\ gen_item \in Chunk /\ item_key[gen_item] # gen_plate
        /\ IsChain(item_next, gen_item, Walk)
        /\ \A i \in Range(Items) : item_key[i] = gen_plate => i \in Range(Walk)
    BY <1>1, <2>1, NullIsNoChunk DEF WalkInv, TypeOK
  <2>4. /\ IsChain(item_next, item_next[gen_item], Tail(Walk))
        /\ Range(Tail(Walk)) = Range(Walk) \ {gen_item}
    BY <2>3, ChainTail
  <2>5. Walk' = Tail(Walk)
    BY <2>1, <2>4, ChainFound DEF Walk
  <2>6. TypeOK'
    BY <1>1, <1>4, <2>1, <2>3 DEF TypeOK, GenNext, tableVars, queueVars
  <2>7. ItemInv' /\ NodeInv'
    BY <1>1, <1>4, <2>2 DEF ItemInv, NodeInv, GenNext, tableVars, queueVars
  <2>8. WalkInv'
    BY <2>1, <2>2, <2>3, <2>4, <2>5 DEF WalkInv
  <2>9. GenInv'
    BY <1>1, <2>1 DEF GenInv
  <2>10. NewPlateIsAbsent'
    <3>1. gen_item' = NULL => Range(Walk') = {}
      BY <2>1, <2>4, <2>5, ChainEnds
    <3>2. QED
      BY <2>1, <2>2, <2>3, <2>4, <2>5, <3>1 DEF NewPlateIsAbsent
  <2>11. QED
    BY <2>6, <2>7, <2>8, <2>9, <2>10 DEF IInv
<1>5. CASE GenEnqueue
  <2>1. Items' = Items
    BY <1>5 DEF GenEnqueue, tableVars, Items
  <2>2. NodeInv' /\ TypeOK'
    <3>1. /\ NodeInv' /\ node_next' \in [Chunk -> Pointer]
          /\ {front', rear'} \subseteq Pointer /\ nodes' \subseteq Chunk
          /\ node_plate' \in [Chunk -> Plates \cup {NoPlate}]
      BY <1>5, EnqueueStep
    <3>2. TypeOK'
      BY <1>1, <1>5, <3>1 DEF TypeOK, GenEnqueue, tableVars
    <3>3. QED
      BY <3>1, <3>2
  <2>3. ItemInv'
    BY <1>1, <1>5, <2>1 DEF ItemInv, GenEnqueue, tableVars
  <2>4. WalkInv' /\ GenInv'
    BY <1>1, <1>5 DEF WalkInv, GenInv, GenEnqueue
  <2>5. NewPlateIsAbsent'
    BY <1>1, <1>5, <2>1 DEF NewPlateIsAbsent, GenEnqueue, tableVars
  <2>6. QED
    BY <2>2, <2>3, <2>4, <2>5 DEF IInv
<1>6. CASE GenAdd
  <2>1. Queue' = Queue
    BY <1>6 DEF GenAdd, queueVars, Queue
  <2>2. TypeOK'
    <3>1. item_next' \in [Chunk -> Pointer] /\ head' \in Pointer
      BY <1>6, AddStep
    <3>2. items' \subseteq Chunk /\ item_key' \in [Chunk -> Plates \cup {NoPlate}]
      BY <1>1, <1>6 DEF TypeOK, GenAdd
    <3>3. QED
      BY <1>1, <1>6, <3>1, <3>2 DEF TypeOK, GenAdd, queueVars
  <2>3. ItemInv'
    BY <1>6, AddStep
  <2>4. NodeInv'
    BY <1>1, <1>6, <2>1 DEF NodeInv, GenAdd, queueVars
  <2>5. WalkInv' /\ GenInv' /\ NewPlateIsAbsent'
    BY <1>6 DEF WalkInv, GenInv, NewPlateIsAbsent, GenAdd
  <2>6. QED
    BY <2>2, <2>3, <2>4, <2>5 DEF IInv
<1>7. CASE ServeCar
  <2>1. Items' = Items /\ Walk' = Walk
    BY <1>7 DEF ServeCar, tableVars, genVars, Items, Walk
  <2>2. Dequeue
    BY <1>7 DEF ServeCar
  <2>3. NodeInv'
    BY <1>1, <2>2, DequeueStep
  <2>4. TypeOK'
    <3>1. cars' \subseteq Plates
      BY <1>1, <1>7, <2>2, DequeueStep DEF TypeOK, ServeCar
    <3>2. QED
      BY <1>1, <1>7, <2>2, <3>1, DequeueStep DEF TypeOK, ServeCar, tableVars, genVars
  <2>5. ItemInv' /\ WalkInv' /\ GenInv' /\ NewPlateIsAbsent'
    BY <1>1, <1>7, <2>1
    DEF ItemInv, WalkInv, GenInv, NewPlateIsAbsent, ServeCar, tableVars, genVars
  <2>6. QED
    BY <2>3, <2>4, <2>5 DEF IInv
<1>8. CASE CarFree
  <2>1. /\ ItemInv'
        /\ Items' = Items /\ \A i \in Range(Items) : item_key'[i] = item_key[i]
    BY <1>1, <1>8, FreeStep
  <2>2. Queue' = Queue /\ Walk' = Walk
    BY <1>8 DEF CarFree, queueVars, genVars, Queue, Walk
  <2>3. TypeOK'
    BY <1>1, <1>8, NullIsNoChunk DEF TypeOK, CarFree, genVars, queueVars
  <2>4. NodeInv'
    BY <1>1, <1>8, <2>2 DEF NodeInv, CarFree, queueVars
  <2>5. GenInv' /\ NewPlateIsAbsent'
    BY <1>1, <1>8, <2>1 DEF GenInv, NewPlateIsAbsent, CarFree, genVars
  <2>6. WalkInv'
    <3>1. CASE gen_pc \in {"compare", "next"}
      <4>1. gen_pc = "next" => item_key'[gen_item] # gen_plate
        BY <1>1, <1>8, <3>1, CarStoresAssumption, NullIsNoChunk
        DEF WalkInv, GenInv, TypeOK, CarFree
      <4>2. QED
        BY <1>1, <1>8, <2>1, <2>2, <3>1, <4>1 DEF WalkInv, CarFree, genVars
    <3>2. CASE gen_pc \notin {"compare", "next"}
      BY <1>8, <3>2 DEF WalkInv, CarFree, genVars
    <3>3. QED
      BY <3>1, <3>2
  <2>7. QED
    BY <2>1, <2>3, <2>4, <2>5, <2>6 DEF IInv
<1>9. ASSUME NEW p \in Plates, CarDelete(p)
      PROVE  IInv'
  <2>1. /\ ItemInv'
        /\ Range(Items') = {i \in Range(Items) : item_key[i] # p}
        /\ item_next' \in [Chunk -> Pointer] /\ head' \in Pointer /\ deleting' \in Pointer
        /\ item_key' = item_key
    BY <1>1, <1>9, DeleteStep
  <2>2. Queue' = Queue
    BY <1>9 DEF CarDelete, queueVars, Queue
  <2>3. TypeOK'
    BY <1>1, <1>9, <2>1 DEF TypeOK, CarDelete, genVars, queueVars
  <2>4. NodeInv' /\ GenInv'
    BY <1>1, <1>9, <2>2 DEF NodeInv, GenInv, CarDelete, queueVars, genVars
  <2>5. NewPlateIsAbsent'
    BY <1>1, <1>9, <2>1 DEF NewPlateIsAbsent, CarDelete, genVars
  <2>6. WalkInv'
    BY <1>9, DeleteKeepsWalk
  <2>7. QED
    BY <2>1, <2>3, <2>4, <2>5, <2>6 DEF IInv
<1>10. CASE UNCHANGED vars
  <2>1. Items' = Items /\ Queue' = Queue /\ Walk' = Walk
    BY <1>10 DEF vars, tableVars, genVars, queueVars, Items, Queue, Walk
  <2>2. TypeOK' /\ ItemInv' /\ NodeInv' /\ WalkInv' /\ GenInv' /\ NewPlateIsAbsent'
    BY <1>1, <1>10, <2>1
    DEF vars, tableVars, genVars, queueVars, TypeOK, ItemInv, NodeInv, WalkInv, GenInv,
        NewPlateIsAbsent
  <2>3. QED
    BY <2>2 DEF IInv
<1>11. QED
  BY <1>2, <1>3, <1>4, <1>5, <1>6, <1>7, <1>8, <1>9, <1>10 DEF Next, Generator

\* The theorems follow from this.
LEMMA Invariance == Spec => []IInv
  BY InitIInv, NextIInv, PTL DEF Spec

-----------------------------------------------------------------------------
(* The table is a set and the queue is a queue                             *)

\* The refinement mapping.
TableOf == {item_key[i] : i \in Range(Items)}
QueueOf == [n \in DOMAIN Queue |-> node_plate[Queue[n]]]

\* The plates of the queue are as long as its chain.
LEMMA QueueOfQueue ==
  ASSUME NodeInv
  PROVE  /\ Queue \in Seq(Chunk) /\ Len(QueueOf) = Len(Queue)
         /\ \A n \in 1 .. Len(Queue) : Queue[n] \in nodes /\ QueueOf[n] = node_plate[Queue[n]]
         /\ QueueOf \in Seq(Plates)
<1>1. Queue \in Seq(Chunk) /\ Range(Queue) = nodes /\ \A n \in nodes : node_plate[n] \in Plates
  BY DEF NodeInv, IsChain
<1>2. \A n \in 1 .. Len(Queue) : Queue[n] \in nodes
  BY <1>1 DEF Range
<1>3. QueueOf \in Seq(Plates) /\ Len(QueueOf) = Len(Queue)
  <2>1. QueueOf = [n \in 1 .. Len(Queue) |-> node_plate[Queue[n]]]
    BY <1>1 DEF QueueOf
  <2>2. \A n \in 1 .. Len(Queue) : node_plate[Queue[n]] \in Plates
    BY <1>1, <1>2
  <2>3. QED
    BY <1>1, <2>1, <2>2
<1>4. QED
  BY <1>1, <1>2, <1>3 DEF QueueOf

\* A sequence is the function of its elements.
LEMMA SequenceIsFunction ==
  ASSUME NEW S, NEW q \in Seq(S)
  PROVE  q = [m \in DOMAIN q |-> q[m]]
OBVIOUS

\* enqueue is Enqueue: the plate the generator has drawn comes last.
LEMMA EnqueueImplements ==
  ASSUME IInv, GenEnqueue
  PROVE  QueueOf' = Append(QueueOf, gen_plate) /\ TableOf' = TableOf /\ gen_plate \in Plates
<1>1. PICK n \in Chunk : Queue' = Append(Queue, n) /\ node_plate'[n] = gen_plate
  BY EnqueueStep
<1>2. \A m \in Range(Queue) : node_plate'[m] = node_plate[m]
  BY EnqueueStep
<1>3. NodeInv /\ NodeInv' /\ gen_plate \in Plates
  BY EnqueueStep DEF IInv, GenInv, GenEnqueue
<1>4. /\ Queue \in Seq(Chunk) /\ Len(QueueOf) = Len(Queue) /\ QueueOf \in Seq(Plates)
      /\ \A m \in 1 .. Len(Queue) : Queue[m] \in nodes /\ QueueOf[m] = node_plate[Queue[m]]
  BY <1>3, QueueOfQueue
<1>5. DOMAIN Queue' = 1 .. Len(Queue) + 1
  BY <1>1, <1>4
<1>6. QueueOf' = [m \in DOMAIN Queue' |-> node_plate'[Queue'[m]]]
  BY DEF QueueOf
<1>7. \A m \in 1 .. Len(Queue) + 1 : node_plate'[Queue'[m]] = Append(QueueOf, gen_plate)[m]
  <2>1. ASSUME NEW m \in 1 .. Len(Queue)
        PROVE  node_plate'[Queue'[m]] = Append(QueueOf, gen_plate)[m]
    <3>1. Queue'[m] = Queue[m] /\ Append(QueueOf, gen_plate)[m] = QueueOf[m]
      BY <1>1, <1>3, <1>4
    <3>2. Queue[m] \in Range(Queue)
      BY <1>4 DEF Range
    <3>3. QED
      BY <1>2, <1>4, <3>1, <3>2
  <2>2. node_plate'[Queue'[Len(Queue) + 1]] = Append(QueueOf, gen_plate)[Len(Queue) + 1]
    BY <1>1, <1>3, <1>4
  <2>3. \A m \in 1 .. Len(Queue) + 1 : m \in 1 .. Len(Queue) \/ m = Len(Queue) + 1
    BY <1>4
  <2>4. QED
    BY <2>1, <2>2, <2>3
<1>8. /\ Append(QueueOf, gen_plate) \in Seq(Plates)
      /\ DOMAIN Append(QueueOf, gen_plate) = 1 .. Len(Queue) + 1
  BY <1>3, <1>4
<1>9. Append(QueueOf, gen_plate)
        = [m \in 1 .. Len(Queue) + 1 |-> Append(QueueOf, gen_plate)[m]]
  BY <1>8, SequenceIsFunction
<1>10. QueueOf' = Append(QueueOf, gen_plate)
  BY <1>5, <1>6, <1>7, <1>9
<1>11. TableOf' = TableOf
  BY DEF GenEnqueue, tableVars, TableOf, Items
<1>12. QED
  BY <1>3, <1>10, <1>11

\* dequeue is Dequeue.
LEMMA DequeueImplements ==
  ASSUME IInv, ServeCar
  PROVE  QueueOf # <<>> /\ QueueOf' = Tail(QueueOf) /\ TableOf' = TableOf
<1>1. /\ Queue # <<>> /\ Queue' = Tail(Queue) /\ NodeInv
      /\ \A n \in Range(Queue') : node_plate'[n] = node_plate[n]
  BY DequeueStep DEF IInv, ServeCar
<1>2. /\ Queue \in Seq(Chunk) /\ Len(QueueOf) = Len(Queue) /\ QueueOf \in Seq(Plates)
      /\ \A m \in 1 .. Len(Queue) : QueueOf[m] = node_plate[Queue[m]]
  BY <1>1, QueueOfQueue
<1>3. QueueOf # <<>> /\ Len(Queue) \in Nat /\ Len(Queue) >= 1
  BY <1>1, <1>2
<1>4. DOMAIN Queue' = 1 .. Len(Queue) - 1
  BY <1>1, <1>2
<1>5. QueueOf' = [m \in DOMAIN Queue' |-> node_plate'[Queue'[m]]]
  BY DEF QueueOf
<1>6. ASSUME NEW m \in 1 .. Len(Queue) - 1
      PROVE  node_plate'[Queue'[m]] = Tail(QueueOf)[m]
  <2>1. m + 1 \in 1 .. Len(Queue) /\ m \in DOMAIN Queue'
    BY <1>3, <1>4
  <2>2. Queue'[m] = Queue[m + 1] /\ Tail(QueueOf)[m] = QueueOf[m + 1]
    BY <1>1, <1>2, <1>3, <1>6
  <2>3. Queue'[m] \in Range(Queue')
    BY <2>1 DEF Range
  <2>4. QED
    BY <1>1, <1>2, <2>1, <2>2, <2>3
<1>7. Tail(QueueOf) = [m \in 1 .. Len(Queue) - 1 |-> Tail(QueueOf)[m]]
  <2>1. Tail(QueueOf) \in Seq(Plates) /\ DOMAIN Tail(QueueOf) = 1 .. Len(Queue) - 1
    BY <1>2, <1>3
  <2>2. QED
    BY <2>1, SequenceIsFunction
<1>8. QueueOf' = Tail(QueueOf)
  BY <1>4, <1>5, <1>6, <1>7
<1>9. TableOf' = TableOf
  BY DEF ServeCar, tableVars, TableOf, Items
<1>10. QED
  BY <1>3, <1>8, <1>9

\* Every step is one of Stores, or changes neither the set nor the queue.
LEMMA NextStores == IInv /\ [Next]_vars => [Refined!Next]_<<TableOf, QueueOf>>
<1> SUFFICES ASSUME IInv, [Next]_vars
             PROVE  Refined!Next \/ (TableOf' = TableOf /\ QueueOf' = QueueOf)
  OBVIOUS
<1>1. CASE GenEnqueue
  BY <1>1, EnqueueImplements DEF Refined!Next, Refined!Enqueue, TableOf, QueueOf
<1>2. CASE ServeCar
  BY <1>2, DequeueImplements DEF Refined!Next, Refined!Dequeue, TableOf, QueueOf
<1>3. CASE GenAdd
  <2>1. QueueOf' = QueueOf
    BY <1>3 DEF GenAdd, queueVars, QueueOf, Queue
  <2>2. gen_plate \in Plates /\ gen_plate \notin TableOf
    BY <1>3 DEF IInv, GenInv, NewPlateIsAbsent, GenAdd, TableOf
  <2>3. TableOf' = TableOf \cup {gen_plate}
    <3>1. PICK i \in Chunk \ Range(Items) :
             /\ Range(Items') = Range(Items) \cup {i} /\ item_key'[i] = gen_plate
             /\ \A k \in Range(Items) : item_key'[k] = item_key[k]
      BY <1>3, AddStep
    <3>2. TableOf' = {item_key'[k] : k \in Range(Items')}
      BY DEF TableOf
    <3>3. QED
      BY <3>1, <3>2 DEF TableOf
  <2>4. QED
    BY <2>1, <2>2, <2>3 DEF Refined!Next, Refined!Add, TableOf, QueueOf
<1>4. ASSUME NEW p \in Plates, CarDelete(p)
      PROVE  Refined!Next
  <2>1. QueueOf' = QueueOf
    BY <1>4 DEF CarDelete, queueVars, QueueOf, Queue
  <2>2. TableOf' = TableOf \ {p}
    <3>1. /\ Range(Items') = {i \in Range(Items) : item_key[i] # p}
          /\ item_key' = item_key
      BY <1>4, DeleteStep DEF IInv
    <3>2. TableOf' = {item_key'[k] : k \in Range(Items')}
      BY DEF TableOf
    <3>3. QED
      BY <3>1, <3>2 DEF TableOf
  <2>3. QED
    BY <2>1, <2>2 DEF Refined!Next, Refined!Delete, TableOf, QueueOf
<1>5. CASE CarFree
  <2>1. QueueOf' = QueueOf
    BY <1>5 DEF CarFree, queueVars, QueueOf, Queue
  <2>2. Items' = Items /\ \A i \in Range(Items) : item_key'[i] = item_key[i]
    BY <1>5, FreeStep DEF IInv
  <2>3. TableOf' = {item_key'[k] : k \in Range(Items')}
    BY DEF TableOf
  <2>4. QED
    BY <2>1, <2>2, <2>3 DEF TableOf
<1>6. CASE UNCHANGED <<tableVars, queueVars>>
  BY <1>6 DEF tableVars, queueVars, TableOf, QueueOf, Items, Queue
<1>7. QED
  BY <1>1, <1>2, <1>3, <1>4, <1>5, <1>6
  DEF Next, Generator, GenDraw, GenCompare, GenNext, vars

\* htab_init and create_queue make an empty set and an empty queue.
LEMMA InitStores == Init => TableOf = {} /\ QueueOf = <<>>
<1> SUFFICES ASSUME Init
             PROVE  TableOf = {} /\ QueueOf = <<>>
  OBVIOUS
<1>1. IInv
  BY InitIInv
<1>2. Range(Items) = {} /\ Queue = <<>>
  BY <1>1, ChainEnds DEF IInv, ItemInv, NodeInv, Init
<1>3. QED
  BY <1>2 DEF TableOf, QueueOf

-----------------------------------------------------------------------------

\* The types: what dequeue and htab_delete free is gone, what they follow is not.
THEOREM CarStoresTypeOK == Spec => []TypeOK
<1>1. IInv => TypeOK
  BY DEF IInv
<1>2. QED
  BY <1>1, Invariance, PTL

\* htab_find, with no mutex, never misses the plate it looks for, though cars
\* unlink and free the items it stands on.
THEOREM CarStoresNewPlateIsAbsent == Spec => []NewPlateIsAbsent
<1>1. IInv => NewPlateIsAbsent
  BY DEF IInv
<1>2. QED
  BY <1>1, Invariance, PTL

\* Nothing that is linked was freed, and rear is the last node of the queue.
THEOREM CarStoresLinksAreLive == Spec => []LinksAreLive
<1>1. ASSUME IInv
      PROVE  LinksAreLive
  <2>1. Range(Items) \subseteq items /\ Range(Queue) \subseteq nodes
    BY <1>1 DEF IInv, ItemInv, NodeInv
  <2>2. front = NULL <=> Queue = <<>>
    BY <1>1, ChainEnds DEF IInv, NodeInv
  <2>3. rear = IF front = NULL THEN NULL ELSE Last(Queue)
    BY <1>1, <2>2 DEF IInv, NodeInv, Last
  <2>4. QED
    BY <2>1, <2>3 DEF LinksAreLive
<1>2. QED
  BY <1>1, Invariance, PTL

\* The bucket implements a set and the linked list a queue: Stores.
THEOREM CarStoresImplementsStores == Spec => StoresImplemented
<1>1. Init => Refined!Init
  BY InitStores DEF Refined!Init, TableOf, QueueOf
<1>2. IInv /\ [Next]_vars =>
        [Refined!Next]_<<{item_key[i] : i \in Range(Items)},
                         [n \in DOMAIN Queue |-> node_plate[Queue[n]]]>>
  BY NextStores DEF TableOf, QueueOf
<1>3. QED
  BY <1>1, <1>2, Invariance, PTL DEF Spec, StoresImplemented, Refined!Spec

=============================================================================

------------------------ MODULE RedisFeaturesProofs ------------------------
(***************************************************************************)
(* The Redis features for any number of callers, requests, sessions,       *)
(* faults and evictions, any limit, window and times to live: one loader,  *)
(* no card replaced by an older one, no ended session revived, a limiter   *)
(* that is exact at both edges of its window.                              *)
(***************************************************************************)
EXTENDS RedisFeatures, TLAPS, FiniteSetTheorems, SequenceTheorems

-----------------------------------------------------------------------------
(* The limiter.  The log that the script trims only when it is run, and    *)
(* that expires with its key, stands for the requests it let through,      *)
(* exactly, at every instant.                                              *)

\* Oldest first.
Falling(ages) == \A i, j \in 1 .. Len(ages) : i <= j => ages[i] >= ages[j]

Ages(ages) == ages \in Seq(0 .. Window) /\ Falling(ages)

\* The log is full of what was let through, besides what is too old to count;
\* its key lives exactly as long as its newest entry counts.
WindowInv ==
    /\ WindowTypeOK
    /\ Falling(log) /\ Falling(admitted)
    /\ log # <<>> => keyTtl + log[Len(log)] = Window
    /\ admitted = Inside(log)

\* A downward closed set of positions is the first of them.
LEMMA Prefix ==
    ASSUME NEW n \in Nat, NEW D \in SUBSET (1 .. n),
           \A i \in D : \A j \in 1 .. i : j \in D
    PROVE  /\ Cardinality(D) \in 0 .. n
           /\ D = 1 .. Cardinality(D)
  <1> DEFINE k == Cardinality(D)
  <1>1. IsFiniteSet(1 .. n) /\ Cardinality(1 .. n) = n
    BY FS_Interval
  <1>2. IsFiniteSet(D) /\ k <= n
    BY <1>1, FS_Subset
  <1>3. k \in Nat
    BY <1>2, FS_CardinalityType
  <1>4. ASSUME NEW i \in D PROVE i \in 1 .. k
    <2>1. 1 .. i \subseteq D /\ i \in Nat /\ i >= 1
      OBVIOUS
    <2>2. Cardinality(1 .. i) <= k
      BY <1>2, <2>1, FS_Subset
    <2>3. Cardinality(1 .. i) = i
      BY <2>1, FS_Interval
    <2> QED
      BY <1>3, <2>1, <2>2, <2>3
  <1>5. IsFiniteSet(1 .. k) /\ Cardinality(1 .. k) = k
    BY <1>3, FS_Interval
  <1>6. D \in SUBSET (1 .. k)
    BY <1>4
  <1>7. D = 1 .. k
    BY <1>5, <1>6, FS_Subset
  <1> QED
    BY <1>2, <1>3, <1>7

LEMMA AgesAre ==
    ASSUME NEW ages, Ages(ages)
    PROVE  /\ Len(ages) \in Nat /\ DOMAIN ages = 1 .. Len(ages) /\ Window \in Nat \ {0}
           /\ \A i \in 1 .. Len(ages) : ages[i] \in 0 .. Window
           /\ ages = [i \in 1 .. Len(ages) |-> ages[i]]
  <1>1. ages \in Seq(0 .. Window)
    BY DEF Ages
  <1>2. Len(ages) \in Nat /\ ages \in [1 .. Len(ages) -> 0 .. Window]
    BY <1>1, LenProperties
  <1> QED
    BY <1>2, WindowAssumption

\* Where the log is cut.
LEMMA Cut ==
    ASSUME NEW ages, Ages(ages), NEW w \in Nat
    PROVE  \E k \in 0 .. Len(ages) :
             /\ Younger(ages, w) = SubSeq(ages, k + 1, Len(ages))
             /\ \A i \in 1 .. Len(ages) : ages[i] >= w <=> i <= k
  <1> DEFINE D == {i \in DOMAIN ages : ages[i] >= w}
  <1>1. /\ Len(ages) \in Nat /\ DOMAIN ages = 1 .. Len(ages)
        /\ \A i \in 1 .. Len(ages) : ages[i] \in 0 .. Window
    BY AgesAre
  <1>2. D \in SUBSET (1 .. Len(ages))
    BY <1>1
  <1>3. \A i \in D : \A j \in 1 .. i : j \in D
    <2> SUFFICES ASSUME NEW i \in D, NEW j \in 1 .. i PROVE j \in D
      OBVIOUS
    <2>1. i \in 1 .. Len(ages) /\ j \in 1 .. Len(ages) /\ j <= i /\ ages[i] >= w
      BY <1>1
    <2>2. ages[j] >= ages[i]
      BY <2>1 DEF Ages, Falling
    <2>3. ages[i] \in Nat /\ ages[j] \in Nat
      BY <1>1, <2>1, WindowAssumption
    <2> QED
      BY <1>1, <2>1, <2>2, <2>3
  <1>4. Cardinality(D) \in 0 .. Len(ages) /\ D = 1 .. Cardinality(D)
    BY <1>1, <1>2, <1>3, Prefix
  <1>5. Younger(ages, w) = SubSeq(ages, Cardinality(D) + 1, Len(ages))
    BY DEF Younger
  <1>6. \A i \in 1 .. Len(ages) : ages[i] >= w <=> i <= Cardinality(D)
    BY <1>1, <1>4
  <1> QED
    BY <1>4, <1>5, <1>6

\* And only there.
LEMMA CutThere ==
    ASSUME NEW ages, Ages(ages), NEW w \in Nat, NEW k \in 0 .. Len(ages),
           \A i \in 1 .. Len(ages) : ages[i] >= w <=> i <= k
    PROVE  Younger(ages, w) = SubSeq(ages, k + 1, Len(ages))
  <1>0. Len(ages) \in Nat
    BY DEF Ages
  <1>1. PICK m \in 0 .. Len(ages) :
          /\ Younger(ages, w) = SubSeq(ages, m + 1, Len(ages))
          /\ \A i \in 1 .. Len(ages) : ages[i] >= w <=> i <= m
    BY Cut
  <1>2. m = k
    <2>1. \A i \in 1 .. Len(ages) : i <= m <=> i <= k
      BY <1>1
    <2>2. CASE m < k
      <3>1. k \in 1 .. Len(ages) /\ ~(k <= m)
        BY <1>0, <2>2
      <3> QED
        BY <2>1, <3>1
    <2>3. CASE k < m
      <3>1. m \in 1 .. Len(ages) /\ ~(m <= k)
        BY <1>0, <2>3
      <3> QED
        BY <2>1, <3>1
    <2> QED
      BY <1>0, <2>2, <2>3
  <1> QED
    BY <1>1, <1>2

\* The rest of a log from a position on.
LEMMA Rest ==
    ASSUME NEW ages, Ages(ages), NEW k \in 0 .. Len(ages)
    PROVE  LET rest == SubSeq(ages, k + 1, Len(ages))
           IN  /\ Ages(rest) /\ Len(rest) = Len(ages) - k
               /\ \A i \in 1 .. Len(rest) : rest[i] = ages[i + k]
  <1> DEFINE n == Len(ages)
             rest == SubSeq(ages, k + 1, n)
  <1>0. n \in Nat /\ k \in Nat /\ k <= n /\ \A i \in 1 .. n : ages[i] \in 0 .. Window
    BY AgesAre
  <1>1. /\ rest \in Seq(0 .. Window)
        /\ Len(rest) = IF k + 1 <= n THEN n - (k + 1) + 1 ELSE 0
        /\ \A i \in 1 .. n - (k + 1) + 1 : rest[i] = ages[k + 1 + i - 1]
    BY <1>0, SubSeqProperties
  <1>2. Len(rest) = n - k
    BY <1>0, <1>1
  <1>3. \A i \in 1 .. n - k : rest[i] = ages[i + k]
    BY <1>0, <1>1
  <1>4. Falling(rest)
    <2> SUFFICES ASSUME NEW i \in 1 .. Len(rest), NEW j \in 1 .. Len(rest), i <= j
                 PROVE  rest[i] >= rest[j]
      BY DEF Falling
    <2>1. i + k \in 1 .. n /\ j + k \in 1 .. n /\ i + k <= j + k
      BY <1>0, <1>2
    <2>2. ages[i + k] >= ages[j + k]
      BY <2>1 DEF Ages, Falling
    <2> QED
      BY <1>2, <1>3, <2>2
  <1> QED
    BY <1>1, <1>2, <1>3, <1>4 DEF Ages

\* What ZREMRANGEBYSCORE leaves.
LEMMA InsideIs ==
    ASSUME NEW ages, Ages(ages)
    PROVE  \E k \in 0 .. Len(ages) :
             /\ \A i \in 1 .. Len(ages) : ages[i] >= Window <=> i <= k
             /\ Ages(Inside(ages)) /\ Len(Inside(ages)) = Len(ages) - k
             /\ \A i \in 1 .. Len(Inside(ages)) : Inside(ages)[i] = ages[i + k]
             /\ \A i \in 1 .. Len(Inside(ages)) : Inside(ages)[i] < Window
  <1>0. Window \in Nat
    BY WindowAssumption
  <1>1. PICK k \in 0 .. Len(ages) :
          /\ Younger(ages, Window) = SubSeq(ages, k + 1, Len(ages))
          /\ \A i \in 1 .. Len(ages) : ages[i] >= Window <=> i <= k
    BY <1>0, Cut
  <1>2. /\ Ages(Inside(ages)) /\ Len(Inside(ages)) = Len(ages) - k
        /\ \A i \in 1 .. Len(Inside(ages)) : Inside(ages)[i] = ages[i + k]
    BY <1>1, Rest DEF Inside
  <1>3. ASSUME NEW i \in 1 .. Len(Inside(ages))
        PROVE  Inside(ages)[i] < Window
    <2>1. i + k \in 1 .. Len(ages) /\ ~(i + k <= k)
      BY <1>2, AgesAre
    <2>2. ages[i + k] \in Nat
      BY <2>1, AgesAre
    <2> QED
      BY <1>0, <1>1, <1>2, <2>1, <2>2
  <1> QED
    BY <1>1, <1>2, <1>3

\* ZADD of a request that came now.
LEMMA AddedIs ==
    ASSUME NEW ages, Ages(ages)
    PROVE  /\ Ages(Append(ages, 0)) /\ Len(Append(ages, 0)) = Len(ages) + 1
           /\ \A i \in 1 .. Len(ages) : Append(ages, 0)[i] = ages[i]
           /\ Append(ages, 0)[Len(ages) + 1] = 0
  <1>0. /\ Len(ages) \in Nat /\ 0 \in 0 .. Window /\ ages \in Seq(0 .. Window)
        /\ \A i \in 1 .. Len(ages) : ages[i] \in 0 .. Window
    BY AgesAre, WindowAssumption DEF Ages
  <1>1. /\ Append(ages, 0) \in Seq(0 .. Window)
        /\ Len(Append(ages, 0)) = Len(ages) + 1
        /\ \A i \in 1 .. Len(ages) : Append(ages, 0)[i] = ages[i]
        /\ Append(ages, 0)[Len(ages) + 1] = 0
    BY <1>0, AppendProperties
  <1>2. Falling(Append(ages, 0))
    <2> SUFFICES ASSUME NEW i \in 1 .. Len(ages) + 1, NEW j \in 1 .. Len(ages) + 1, i <= j
                 PROVE  Append(ages, 0)[i] >= Append(ages, 0)[j]
      BY <1>1 DEF Falling
    <2>1. CASE j = Len(ages) + 1
      <3>1. Append(ages, 0)[i] \in Nat
        BY <1>0, <1>1
      <3> QED
        BY <1>1, <2>1, <3>1
    <2>2. CASE j # Len(ages) + 1
      <3>1. i \in 1 .. Len(ages) /\ j \in 1 .. Len(ages)
        BY <1>0, <2>2
      <3> QED
        BY <1>1, <3>1 DEF Ages, Falling
    <2> QED
      BY <2>1, <2>2
  <1> QED
    BY <1>1, <1>2 DEF Ages

LEMMA SameAges ==
    ASSUME NEW s, NEW t, Ages(s), Ages(t), Len(s) = Len(t),
           \A i \in 1 .. Len(s) : s[i] = t[i]
    PROVE  s = t
  BY SeqEqual DEF Ages

LEMMA InsideOfAdded ==
    ASSUME NEW ages, Ages(ages)
    PROVE  Inside(Append(ages, 0)) = Append(Inside(ages), 0)
  <1> DEFINE n == Len(ages)
             more == Append(ages, 0)
  <1>0. Window \in Nat \ {0} /\ n \in Nat
    BY AgesAre
  <1>1. PICK k \in 0 .. n :
          /\ \A i \in 1 .. n : ages[i] >= Window <=> i <= k
          /\ Ages(Inside(ages)) /\ Len(Inside(ages)) = n - k
          /\ \A i \in 1 .. Len(Inside(ages)) : Inside(ages)[i] = ages[i + k]
    BY InsideIs
  <1>2. /\ Ages(more) /\ Len(more) = n + 1 /\ more[n + 1] = 0
        /\ \A i \in 1 .. n : more[i] = ages[i]
    BY AddedIs
  <1>3. \A i \in 1 .. n + 1 : more[i] >= Window <=> i <= k
    <2> SUFFICES ASSUME NEW i \in 1 .. n + 1 PROVE more[i] >= Window <=> i <= k
      OBVIOUS
    <2>1. CASE i = n + 1
      BY <1>0, <1>2, <2>1
    <2>2. CASE i # n + 1
      BY <1>0, <1>1, <1>2, <2>2
    <2> QED
      BY <2>1, <2>2
  <1> HIDE DEF more
  <1>4. k \in 0 .. Len(more) /\ Inside(more) = SubSeq(more, k + 1, Len(more))
    <2>1. k \in 0 .. Len(more)
      BY <1>0, <1>2
    <2>2. \A i \in 1 .. Len(more) : more[i] >= Window <=> i <= k
      BY <1>2, <1>3
    <2>3. Younger(more, Window) = SubSeq(more, k + 1, Len(more))
      BY <1>0, <1>2, <2>1, <2>2, CutThere
    <2> QED
      BY <2>1, <2>3 DEF Inside
  <1>5. /\ Ages(Inside(more)) /\ Len(Inside(more)) = n + 1 - k
        /\ \A i \in 1 .. n + 1 - k : Inside(more)[i] = more[i + k]
    BY <1>2, <1>4, Rest
  <1>6. /\ Ages(Append(Inside(ages), 0)) /\ Len(Append(Inside(ages), 0)) = n - k + 1
        /\ \A i \in 1 .. n - k : Append(Inside(ages), 0)[i] = Inside(ages)[i]
        /\ Append(Inside(ages), 0)[n - k + 1] = 0
    BY <1>1, AddedIs
  <1>7. ASSUME NEW i \in 1 .. n + 1 - k
        PROVE  Inside(more)[i] = Append(Inside(ages), 0)[i]
    <2>1. CASE i = n + 1 - k
      <3>1. i + k = n + 1 /\ i = n - k + 1
        BY <1>0, <2>1
      <3> QED
        BY <1>2, <1>5, <1>6, <3>1
    <2>2. CASE i # n + 1 - k
      <3>1. i \in 1 .. n - k /\ i + k \in 1 .. n
        BY <1>0, <2>2
      <3> QED
        BY <1>1, <1>2, <1>5, <1>6, <3>1
    <2> QED
      BY <2>1, <2>2
  <1>8. n - k + 1 = n + 1 - k
    BY <1>0
  <1>9. Inside(more) = Append(Inside(ages), 0)
    BY <1>5, <1>6, <1>7, <1>8, SameAges
  <1> QED
    BY <1>9 DEF more

\* A tick later.
LEMMA AgedIs ==
    ASSUME NEW ages, Ages(ages)
    PROVE  /\ Ages(Aged(ages)) /\ Len(Aged(ages)) = Len(ages)
           /\ \A i \in 1 .. Len(ages) :
                Aged(ages)[i] = IF ages[i] = Window THEN Window ELSE ages[i] + 1
  <1>0. /\ Len(ages) \in Nat /\ DOMAIN ages = 1 .. Len(ages) /\ Window \in Nat \ {0}
        /\ \A i \in 1 .. Len(ages) : ages[i] \in 0 .. Window
    BY AgesAre
  <1>1. Aged(ages) = [i \in 1 .. Len(ages) |->
                        IF ages[i] = Window THEN Window ELSE ages[i] + 1]
    BY <1>0 DEF Aged
  <1>2. \A i \in 1 .. Len(ages) :
          (IF ages[i] = Window THEN Window ELSE ages[i] + 1) \in 0 .. Window
    BY <1>0
  <1>3. /\ Aged(ages) \in [1 .. Len(ages) -> 0 .. Window]
        /\ \A i \in 1 .. Len(ages) :
             Aged(ages)[i] = IF ages[i] = Window THEN Window ELSE ages[i] + 1
    BY <1>1, <1>2
  <1>4. Aged(ages) \in Seq(0 .. Window) /\ Len(Aged(ages)) = Len(ages)
    <2>1. Aged(ages) \in Seq(0 .. Window)
      BY <1>0, <1>3
    <2>2. DOMAIN Aged(ages) = 1 .. Len(Aged(ages)) /\ Len(Aged(ages)) \in Nat
      BY <2>1, LenProperties
    <2>3. 1 .. Len(ages) = 1 .. Len(Aged(ages))
      BY <1>3, <2>2
    <2>4. \A m \in Nat : Cardinality(1 .. m) = m
      BY FS_Interval
    <2> QED
      BY <1>0, <2>1, <2>2, <2>3, <2>4
  <1>5. Falling(Aged(ages))
    <2> SUFFICES ASSUME NEW i \in 1 .. Len(ages), NEW j \in 1 .. Len(ages), i <= j
                 PROVE  Aged(ages)[i] >= Aged(ages)[j]
      BY <1>4 DEF Falling
    <2>1. ages[i] >= ages[j]
      BY DEF Ages, Falling
    <2> QED
      BY <1>0, <1>3, <2>1
  <1> QED
    BY <1>3, <1>4, <1>5 DEF Ages

\* What was too old before a tick is after it.
LEMMA InsideOfAged ==
    ASSUME NEW ages, Ages(ages)
    PROVE  Inside(Aged(Inside(ages))) = Inside(Aged(ages))
  <1> DEFINE n == Len(ages)
             inn == Inside(ages)
             aged == Aged(ages)
             both == Aged(inn)
  <1>0. /\ Window \in Nat \ {0} /\ n \in Nat
        /\ \A i \in 1 .. n : ages[i] \in 0 .. Window
    BY AgesAre
  <1>1. PICK k \in 0 .. n :
          /\ \A i \in 1 .. n : ages[i] >= Window <=> i <= k
          /\ Ages(inn) /\ Len(inn) = n - k
          /\ \A i \in 1 .. Len(inn) : inn[i] = ages[i + k]
    BY InsideIs
  <1> HIDE DEF inn
  <1>2. /\ Ages(aged) /\ Len(aged) = n
        /\ \A i \in 1 .. n : aged[i] = IF ages[i] = Window THEN Window ELSE ages[i] + 1
    BY AgedIs
  <1>3. /\ Ages(both) /\ Len(both) = n - k
        /\ \A i \in 1 .. n - k : both[i] = IF inn[i] = Window THEN Window ELSE inn[i] + 1
    BY <1>1, AgedIs
  <1> HIDE DEF aged, both
  <1>4. \A i \in 1 .. n - k : i + k \in 1 .. n /\ both[i] = aged[i + k]
    BY <1>0, <1>1, <1>2, <1>3
  <1>5. PICK m \in 0 .. n :
          /\ \A i \in 1 .. n : aged[i] >= Window <=> i <= m
          /\ Ages(Inside(aged)) /\ Len(Inside(aged)) = n - m
          /\ \A i \in 1 .. Len(Inside(aged)) : Inside(aged)[i] = aged[i + m]
    <2>1. \E m \in 0 .. Len(aged) :
            /\ \A i \in 1 .. Len(aged) : aged[i] >= Window <=> i <= m
            /\ Ages(Inside(aged)) /\ Len(Inside(aged)) = Len(aged) - m
            /\ \A i \in 1 .. Len(Inside(aged)) : Inside(aged)[i] = aged[i + m]
      BY <1>2, InsideIs
    <2> QED
      BY <1>2, <2>1
  <1>6. k <= m
    <2>1. CASE k = 0
      BY <2>1
    <2>2. CASE k # 0
      <3>1. k \in 1 .. n /\ ages[k] >= Window
        BY <1>0, <1>1, <2>2
      <3>2. aged[k] >= Window
        BY <1>0, <1>2, <3>1
      <3> QED
        BY <1>5, <3>1, <3>2
    <2> QED
      BY <2>1, <2>2
  <1>7. Inside(both) = SubSeq(both, m - k + 1, n - k)
    <2>1. m - k \in 0 .. Len(both)
      BY <1>0, <1>3, <1>6
    <2>2. \A i \in 1 .. Len(both) : both[i] >= Window <=> i <= m - k
      <3> SUFFICES ASSUME NEW i \in 1 .. n - k PROVE both[i] >= Window <=> i <= m - k
        BY <1>3
      <3>1. i + k <= m <=> i <= m - k
        BY <1>0
      <3> QED
        BY <1>4, <1>5, <3>1
    <2>3. Younger(both, Window) = SubSeq(both, m - k + 1, Len(both))
      BY <1>0, <1>3, <2>1, <2>2, CutThere
    <2> QED
      BY <1>3, <2>3 DEF Inside
  <1>8. /\ Ages(Inside(both)) /\ Len(Inside(both)) = n - m
        /\ \A i \in 1 .. n - m : Inside(both)[i] = both[i + (m - k)]
    <2>1. m - k \in 0 .. Len(both) /\ Len(both) - (m - k) = n - m
      BY <1>0, <1>3, <1>6
    <2>2. LET rest == SubSeq(both, (m - k) + 1, Len(both))
          IN  /\ Ages(rest) /\ Len(rest) = Len(both) - (m - k)
              /\ \A i \in 1 .. Len(rest) : rest[i] = both[i + (m - k)]
      BY <1>3, <2>1, Rest
    <2> QED
      BY <1>3, <1>7, <2>1, <2>2
  <1>9. ASSUME NEW i \in 1 .. n - m
        PROVE  Inside(both)[i] = Inside(aged)[i]
    <2>1. /\ i + (m - k) \in 1 .. n - k /\ (i + (m - k)) + k = i + m
      BY <1>0, <1>6
    <2> QED
      BY <1>4, <1>5, <1>8, <2>1
  <1>10. Inside(both) = Inside(aged)
    BY <1>5, <1>8, <1>9, SameAges
  <1> QED
    BY <1>10 DEF both, inn, aged

-----------------------------------------------------------------------------
(* The script and the clock.                                               *)

LEMMA WindowFacts ==
    ASSUME WindowInv
    PROVE  /\ Ages(log) /\ Ages(admitted) /\ Len(log) <= Limit /\ keyTtl \in 0 .. Window
           /\ Limit \in Nat \ {0} /\ Window \in Nat \ {0}
           /\ keyTtl = 0 <=> log = <<>>
           /\ log # <<>> => Len(log) \in Nat \ {0} /\ keyTtl + log[Len(log)] = Window
           /\ admitted = Inside(log)
  BY WindowAssumption, EmptySeq DEF WindowInv, WindowTypeOK, Ages

LEMMA NoAges ==
    /\ Ages(<<>>) /\ Len(<<>>) = 0
    /\ \A ages : Ages(ages) /\ Len(ages) = 0 => ages = <<>>
  <1>1. Ages(<<>>) /\ Len(<<>>) = 0
    BY EmptySeq DEF Ages, Falling
  <1> QED
    BY <1>1, SameAges

LEMMA NothingInside == Inside(<<>>) = <<>>
  <1>1. PICK k \in 0 .. Len(<<>>) : Ages(Inside(<<>>)) /\ Len(Inside(<<>>)) = Len(<<>>) - k
    BY NoAges, InsideIs
  <1> QED
    BY <1>1, NoAges

\* The five parts of the invariant, after a step.
LEMMA InvAfter ==
    ASSUME Ages(log'), Ages(admitted'), Len(log') <= Limit, keyTtl' \in 0 .. Window,
           keyTtl' = 0 <=> log' = <<>>,
           log' # <<>> => keyTtl' + log'[Len(log')] = Window,
           admitted' = Inside(log')
    PROVE  WindowInv'
  BY DEF WindowInv, WindowTypeOK, Ages, Falling, Inside, Younger

LEMMA WindowInvInit == WindowInit => WindowInv
  <1> SUFFICES ASSUME WindowInit PROVE WindowInv
    OBVIOUS
  <1>1. log = <<>> /\ keyTtl = 0 /\ admitted = <<>>
    BY DEF WindowInit
  <1>2. Ages(log) /\ Ages(admitted) /\ Len(log) = 0 /\ admitted = Inside(log)
    BY <1>1, NoAges, NothingInside
  <1> QED
    BY <1>1, <1>2, WindowAssumption DEF WindowInv, WindowTypeOK, Ages

LEMMA RunScriptKeeps == WindowInv /\ RunScript => WindowInv'
  <1> SUFFICES ASSUME WindowInv, RunScript PROVE WindowInv'
    OBVIOUS
  <1> DEFINE n == Len(log)
             inn == Inside(log)
  <1>0. /\ Ages(log) /\ Ages(admitted) /\ n <= Limit /\ keyTtl \in 0 .. Window
        /\ Limit \in Nat \ {0} /\ Window \in Nat \ {0}
        /\ keyTtl = 0 <=> log = <<>>
        /\ log # <<>> => n \in Nat \ {0} /\ keyTtl + log[n] = Window
        /\ admitted = inn
    BY WindowFacts
  <1>1. PICK k \in 0 .. n :
          /\ \A i \in 1 .. n : log[i] >= Window <=> i <= k
          /\ Ages(inn) /\ Len(inn) = n - k
          /\ \A i \in 1 .. Len(inn) : inn[i] = log[i + k]
    BY <1>0, InsideIs
  <1>2. Trimmed(log) = inn /\ n \in Nat /\ \A ages : Trimmed(ages) = Inside(ages)
    BY <1>0, AgesAre DEF Trimmed, Inside
  <1> HIDE DEF inn
  <1>3. CASE HasRoom(log)
    <2>1. /\ log' = Append(inn, 0) /\ keyTtl' = Window
          /\ admitted' = Append(Inside(inn), 0) /\ Len(inn) < Limit
      BY <1>0, <1>2, <1>3 DEF RunScript, HasRoom
    <2>2. /\ Ages(log') /\ Len(log') = Len(inn) + 1 /\ log'[Len(log')] = 0
      BY <1>1, <2>1, AddedIs
    <2>3. admitted' = Inside(log')
      BY <1>1, <2>1, InsideOfAdded
    <2>4. Ages(admitted')
      BY <2>2, <2>3, InsideIs
    <2>5. log' # <<>> /\ Len(log') <= Limit
      <3>1. Len(inn) \in Nat
        BY <1>1, <1>2
      <3>2. Len(log') # 0 /\ Len(log') <= Limit
        BY <1>0, <2>1, <2>2, <3>1
      <3> QED
        BY <3>2, NoAges
    <2> QED
      BY <1>0, <2>1, <2>2, <2>3, <2>4, <2>5, InvAfter
  <1>4. CASE ~HasRoom(log)
    <2>1. /\ log' = inn /\ keyTtl' = keyTtl /\ admitted' = Inside(inn) /\ ~(Len(inn) < Limit)
      BY <1>0, <1>2, <1>4 DEF RunScript, HasRoom
    <2>2. n >= 1 /\ Len(inn) >= 1 /\ Len(inn) <= n
      BY <1>0, <1>1, <1>2, <2>1
    <2>3. log # <<>> /\ inn # <<>>
      BY <1>0, <2>2, NoAges
    <2>4. inn[Len(inn)] = log[n]
      BY <1>1, <1>2, <2>2
    <2>5. Ages(Inside(inn))
      BY <1>1, InsideIs
    <2> QED
      BY <1>0, <1>1, <1>2, <2>1, <2>2, <2>3, <2>4, <2>5, InvAfter
  <1> QED
    BY <1>3, <1>4

LEMMA WindowTickKeeps == WindowInv /\ WindowTick => WindowInv'
  <1> SUFFICES ASSUME WindowInv, WindowTick PROVE WindowInv'
    OBVIOUS
  <1> DEFINE n == Len(log)
             aged == Aged(log)
  <1>0. /\ Ages(log) /\ Ages(admitted) /\ n <= Limit /\ keyTtl \in 0 .. Window
        /\ Limit \in Nat \ {0} /\ Window \in Nat \ {0}
        /\ keyTtl = 0 <=> log = <<>>
        /\ log # <<>> => n \in Nat \ {0} /\ keyTtl + log[n] = Window
        /\ admitted = Inside(log)
        /\ n \in Nat /\ \A i \in 1 .. n : log[i] \in 0 .. Window
    BY WindowFacts, AgesAre
  <1>1. /\ Ages(aged) /\ Len(aged) = n
        /\ \A i \in 1 .. n : aged[i] = IF log[i] = Window THEN Window ELSE log[i] + 1
    BY <1>0, AgedIs
  <1>2. /\ admitted' = Inside(aged)
        /\ keyTtl' = (IF keyTtl = 0 THEN 0 ELSE keyTtl - 1)
        /\ log' = (IF keyTtl <= 1 THEN <<>> ELSE aged)
    BY <1>0, InsideOfAged DEF WindowTick
  <1> HIDE DEF aged
  <1>3. Ages(admitted')
    BY <1>1, <1>2, InsideIs
  <1>4. CASE keyTtl <= 1
    <2>1. log' = <<>> /\ keyTtl' = 0
      BY <1>0, <1>2, <1>4
    <2>2. \A i \in 1 .. n : aged[i] >= Window
      <3> SUFFICES ASSUME NEW i \in 1 .. n PROVE aged[i] >= Window
        OBVIOUS
      <3>1. n \in 1 .. n /\ i <= n /\ log # <<>>
        BY <1>0, NoAges
      <3>2. keyTtl = 1 /\ log[n] = Window - 1
        BY <1>0, <1>4, <3>1
      <3>3. log[i] >= log[n]
        BY <1>0, <3>1 DEF Ages, Falling
      <3> QED
        BY <1>0, <1>1, <3>2, <3>3
    <2>3. Inside(aged) = <<>>
      <3>1. PICK k \in 0 .. Len(aged) :
              /\ \A i \in 1 .. Len(aged) : aged[i] >= Window <=> i <= k
              /\ Ages(Inside(aged)) /\ Len(Inside(aged)) = Len(aged) - k
        BY <1>1, InsideIs
      <3>2. k = n
        <4>1. CASE n = 0
          BY <1>1, <3>1, <4>1
        <4>2. CASE n # 0
          <5>1. n \in 1 .. n
            BY <1>0, <4>2
          <5>2. n <= k
            BY <1>1, <2>2, <3>1, <5>1
          <5> QED
            BY <1>0, <1>1, <5>2
        <4> QED
          BY <4>1, <4>2
      <3> QED
        BY <1>0, <1>1, <3>1, <3>2, NoAges
    <2>4. admitted' = Inside(log')
      BY <1>2, <2>1, <2>3, NothingInside
    <2> QED
      BY <1>0, <1>3, <2>1, <2>4, NoAges, InvAfter
  <1>5. CASE ~(keyTtl <= 1)
    <2>1. /\ log' = aged /\ keyTtl' = keyTtl - 1 /\ keyTtl' \in 1 .. Window
          /\ log # <<>> /\ n \in 1 .. n
      BY <1>0, <1>2, <1>5
    <2>2. keyTtl' + aged[n] = Window
      <3>1. log[n] = Window - keyTtl /\ log[n] # Window /\ keyTtl \in Nat
        BY <1>0, <1>5, <2>1
      <3>2. aged[n] = log[n] + 1
        BY <1>1, <2>1, <3>1
      <3> QED
        BY <1>0, <2>1, <3>1, <3>2
    <2>3. aged # <<>>
      BY <1>1, <2>1, NoAges
    <2> QED
      BY <1>0, <1>1, <1>2, <1>3, <2>1, <2>2, <2>3, InvAfter
  <1> QED
    BY <1>4, <1>5

LEMMA WindowStays == WindowInv /\ UNCHANGED windowVars => WindowInv'
  BY DEF windowVars, WindowInv, WindowTypeOK, Falling, Inside, Younger

-----------------------------------------------------------------------------
\* The invariant says what the limiter promises: neither too many in a window,
\* nor a tick too long to wait.
LEMMA WindowInvMeans == WindowInv => WindowExact
  <1> SUFFICES ASSUME WindowInv PROVE WindowExact
    OBVIOUS
  <1> DEFINE n == Len(log)
             adm == Len(admitted)
  <1>0. /\ Ages(log) /\ Ages(admitted) /\ n <= Limit /\ n \in Nat /\ adm \in Nat
        /\ Limit \in Nat \ {0} /\ Window \in Nat \ {0}
        /\ admitted = Inside(log) /\ DOMAIN admitted = 1 .. adm
        /\ \A i \in 1 .. adm : admitted[i] \in 0 .. Window
    BY WindowFacts, AgesAre
  <1>1. adm <= Limit /\ \A i \in 1 .. adm : admitted[i] < Window
    BY <1>0, InsideIs
  <1>2. NeverOverLimit
    <2>1. PICK k \in 0 .. adm : Ages(Inside(admitted)) /\ Len(Inside(admitted)) = adm - k
      BY <1>0, InsideIs
    <2> QED
      BY <1>0, <1>1, <2>1 DEF NeverOverLimit
  <1>3. RetryAfterExact
    <2> SUFFICES ASSUME ~HasRoom(log)
                 PROVE  LET r == RetryAfter(log) IN
                          r \in 1 .. Window /\ AdmittedIn(r) < Limit
                          /\ AdmittedIn(r - 1) = Limit
      BY DEF RetryAfterExact
    <2>1. Trimmed(log) = admitted
      BY <1>0 DEF Trimmed, Inside
    <2>2. adm = Limit /\ 1 \in 1 .. adm
      <3>1. ~(adm < Limit)
        BY <2>1 DEF HasRoom
      <3>2. adm \in Nat /\ Limit \in Nat \ {0} /\ adm <= Limit
        BY <1>0, <1>1
      <3> HIDE DEF adm
      <3> QED
        BY <3>1, <3>2
    <2> DEFINE oldest == admitted[1]
               r == Window - oldest
    <2>3. RetryAfter(log) = r
      BY <2>1 DEF RetryAfter
    <2>4. oldest \in Nat /\ oldest < Window /\ r \in 1 .. Window
      BY <1>0, <1>1, <2>2
    <2>5. AdmittedIn(r) < Limit
      <3>1. {i \in DOMAIN admitted : admitted[i] + r < Window} \in SUBSET (2 .. Limit)
        <4> SUFFICES ASSUME NEW i \in 1 .. adm, admitted[i] + r < Window
                     PROVE  i \in 2 .. Limit
          BY <1>0
        <4>1. i # 1
          BY <1>0, <2>4
        <4> QED
          BY <1>0, <2>2, <4>1
      <3>2. IsFiniteSet(2 .. Limit) /\ Cardinality(2 .. Limit) <= Limit - 1
        <4>1. 2 \in Int /\ Limit \in Int
          BY <1>0
        <4>2. /\ IsFiniteSet(2 .. Limit)
              /\ Cardinality(2 .. Limit) = IF 2 > Limit THEN 0 ELSE Limit - 2 + 1
          BY <4>1, FS_Interval
        <4> QED
          BY <1>0, <4>2
      <3>3. AdmittedIn(r) <= Limit - 1 /\ AdmittedIn(r) \in Nat
        BY <1>0, <3>1, <3>2, FS_Subset, FS_CardinalityType DEF AdmittedIn
      <3> QED
        BY <1>0, <3>3
    <2>6. AdmittedIn(r - 1) = Limit
      <3>1. {i \in DOMAIN admitted : admitted[i] + (r - 1) < Window} = 1 .. Limit
        <4> SUFFICES ASSUME NEW i \in 1 .. adm PROVE admitted[i] + (r - 1) < Window
          BY <1>0, <2>2
        <4>1. 1 <= i /\ oldest >= admitted[i]
          BY <1>0, <2>2 DEF Ages, Falling
        <4> QED
          BY <1>0, <2>4, <4>1
      <3>2. 1 \in Int /\ Limit \in Int
        BY <1>0
      <3>3. Cardinality(1 .. Limit) = IF 1 > Limit THEN 0 ELSE Limit - 1 + 1
        BY <3>2, FS_Interval
      <3>4. Cardinality(1 .. Limit) = Limit
        BY <1>0, <3>3
      <3> QED
        BY <3>1, <3>4 DEF AdmittedIn
    <2> QED
      BY <2>3, <2>4, <2>5, <2>6
  <1> QED
    BY <1>2, <1>3 DEF WindowExact

-----------------------------------------------------------------------------
(* The product card: one loader, and what it may write.                    *)

\* A loader that has not outlived its lock owns it, and loaded nothing older
\* than the card that is cached.
FlightInv ==
    /\ \A c \in Callers : Loading(c) /\ c \notin late => lock.owner = c
    /\ \A c \in Callers : flight[c].pc = "write" => flight[c].version \in 0 .. version
    /\ value # NoValue => value.version <= version
    /\ \A c \in Callers :
         flight[c].pc = "write" /\ c \notin late /\ value # NoValue /\ ~value.late =>
             value.version <= flight[c].version

FlightPcs == {"out", "read", "acquire", "again", "load", "write", "release", "poll"}
FlightType == [pc : FlightPcs, version : 0 .. MaxVersion \union {None}]
ValueType == [version : 0 .. MaxVersion, ttl : 1 .. ValueTTL, late : BOOLEAN]
LockType == [owner : Callers \union {"ghost"}, ttl : 1 .. LockTTL]

\* FlightTypeOK by the names of its records.
FlightTyped ==
    /\ version \in 0 .. MaxVersion
    /\ value \in ValueType \union {NoValue}
    /\ lock \in LockType \union {NoLock}
    /\ flight \in [Callers -> FlightType]
    /\ late \subseteq Callers

LEMMA FlightIsTyped == (FlightTypeOK <=> FlightTyped) /\ (FlightTypeOK' <=> FlightTyped')
  BY DEF FlightTypeOK, FlightTyped, FlightType, FlightPcs, ValueType, LockType

LEMMA FlightFacts ==
    /\ LockTTL \in Nat \ {0} /\ ValueTTL \in Nat \ {0} /\ MaxVersion \in Nat
    /\ None \notin Callers /\ "ghost" \notin Callers /\ None # "ghost" /\ None \notin Nat
    /\ \A pc \in {"out", "read", "acquire", "again", "load", "write", "release", "poll"} :
         pc \in FlightPcs
    /\ Landed \in FlightType /\ Landed.pc = "out"
    /\ NoLock.owner = None /\ NoLock.ttl = 0 /\ NoValue.ttl = 0
    /\ NoValue \notin ValueType /\ NoLock \notin LockType
  BY FlightAssumption
  DEF FlightPcs, FlightType, Landed, NoLock, NoValue, ValueType, LockType

LEMMA GotoSets ==
    ASSUME FlightTyped, NEW c \in Callers, NEW pc \in FlightPcs, Goto(c, pc)
    PROVE  /\ flight' \in [Callers -> FlightType]
           /\ flight'[c].pc = pc /\ flight'[c].version = flight[c].version
           /\ \A d \in Callers \ {c} : flight'[d] = flight[d]
  BY DEF Goto, FlightTyped, FlightType

LEMMA LandSets ==
    ASSUME FlightTyped, NEW c \in Callers, Land(c)
    PROVE  /\ flight' \in [Callers -> FlightType]
           /\ flight'[c] = Landed /\ flight'[c].pc = "out"
           /\ \A d \in Callers \ {c} : flight'[d] = flight[d]
           /\ late' = late \ {c}
  BY FlightFacts DEF Land, FlightTyped

\* One command of a caller.
FlightKept == FlightTyped' /\ FlightInv'

LEMMA ReadKeeps ==
    ASSUME FlightTyped, FlightInv, NEW c \in Callers, Read(c)
    PROVE  FlightKept /\ UNCHANGED value /\ \A d \in Callers \ {c} : flight'[d] = flight[d]
  <1>0. UNCHANGED <<version, value, lock>>
    BY DEF Read
  <1>1. CASE /\ flight[c].pc \in {"read", "poll"} /\ Goto(c, "acquire") /\ UNCHANGED late
    BY <1>0, <1>1, GotoSets, FlightFacts DEF FlightTyped, FlightInv, FlightKept, Loading
  <1>2. CASE /\ flight[c].pc = "again" /\ Goto(c, "load") /\ UNCHANGED late
    BY <1>0, <1>2, GotoSets, FlightFacts DEF FlightTyped, FlightInv, FlightKept, Loading
  <1>3. CASE /\ flight[c].pc \in {"read", "poll"} /\ Land(c)
    BY <1>0, <1>3, LandSets, FlightFacts DEF FlightTyped, FlightInv, FlightKept, Loading
  <1>4. CASE /\ flight[c].pc = "again" /\ Goto(c, "release") /\ UNCHANGED late
    BY <1>0, <1>4, GotoSets, FlightFacts DEF FlightTyped, FlightInv, FlightKept, Loading
  <1> QED
    BY <1>0, <1>1, <1>2, <1>3, <1>4 DEF Read

LEMMA AcquireKeeps ==
    ASSUME FlightTyped, FlightInv, NEW c \in Callers, Acquire(c)
    PROVE  FlightKept /\ UNCHANGED value /\ \A d \in Callers \ {c} : flight'[d] = flight[d]
  <1>0. UNCHANGED <<version, value, late>> /\ flight[c].pc = "acquire"
    BY DEF Acquire
  <1>1. CASE lock = NoLock
    <2>1. lock' = [owner |-> c, ttl |-> LockTTL] /\ Goto(c, "again")
      BY <1>1 DEF Acquire
    <2>2. lock' \in LockType /\ lock'.owner = c
      BY <2>1, FlightFacts DEF LockType
    <2>3. \A d \in Callers : ~Loading(d) \/ d \in late
      BY <1>1, FlightFacts DEF FlightInv
    <2> QED
      BY <1>0, <2>1, <2>2, <2>3, GotoSets, FlightFacts
      DEF FlightTyped, FlightInv, FlightKept, Loading
  <1>2. CASE lock # NoLock
    BY <1>0, <1>2, GotoSets, FlightFacts
    DEF Acquire, FlightTyped, FlightInv, FlightKept, Loading
  <1> QED
    BY <1>1, <1>2

LEMMA LoadKeeps ==
    ASSUME FlightTyped, FlightInv, NEW c \in Callers, Load(c)
    PROVE  FlightKept /\ UNCHANGED value /\ \A d \in Callers \ {c} : flight'[d] = flight[d]
  <1>1. /\ UNCHANGED <<version, value, lock, late>> /\ flight[c].pc = "load"
        /\ flight' = [flight EXCEPT ![c] = [pc |-> "write", version |-> version]]
    BY DEF Load
  <1>2. [pc |-> "write", version |-> version] \in FlightType
    BY FlightFacts DEF FlightTyped, FlightType
  <1>3. /\ flight' \in [Callers -> FlightType]
        /\ flight'[c].pc = "write" /\ flight'[c].version = version
        /\ \A d \in Callers \ {c} : flight'[d] = flight[d]
    BY <1>1, <1>2 DEF FlightTyped
  <1>4. Loading(c)
    BY <1>1 DEF Loading
  <1>5. version \in 0 .. version
    BY FlightFacts DEF FlightTyped
  <1> QED
    BY <1>1, <1>3, <1>4, <1>5, FlightFacts DEF FlightTyped, FlightInv, FlightKept, Loading

LEMMA WriteKeeps ==
    ASSUME FlightTyped, FlightInv, NEW c \in Callers, Write(c)
    PROVE  /\ FlightKept /\ \A d \in Callers \ {c} : flight'[d] = flight[d]
           /\ value # NoValue /\ value' # NoValue /\ value'.version < value.version
                => value.late \/ value'.late
  <1>1. /\ UNCHANGED <<version, lock, late>> /\ flight[c].pc = "write" /\ Goto(c, "release")
        /\ value' = [version |-> flight[c].version, ttl |-> ValueTTL, late |-> c \in late]
    BY DEF Write, Stored
  <1>2. /\ flight[c].version \in 0 .. version /\ version \in 0 .. MaxVersion
        /\ flight[c].version \in 0 .. MaxVersion
    BY <1>1, FlightFacts DEF FlightInv, FlightTyped
  <1>3. /\ value' \in ValueType /\ value'.version = flight[c].version
        /\ value'.late = (c \in late) /\ value' # NoValue
    BY <1>1, <1>2, FlightFacts DEF ValueType
  <1>4. FlightTyped'
    BY <1>1, <1>3, GotoSets, FlightFacts DEF FlightTyped
  <1>5. ASSUME NEW d \in Callers, flight'[d].pc = "write", d \notin late'
        PROVE  value'.late
    <2>1. d # c /\ flight'[d] = flight[d] /\ d \notin late
      BY <1>1, <1>5, GotoSets, FlightFacts
    <2>2. lock.owner = d
      BY <1>5, <2>1 DEF FlightInv, Loading
    <2>3. c \in late
      BY <1>1, <2>1, <2>2 DEF FlightInv, Loading
    <2> QED
      BY <1>3, <2>3
  <1>6. FlightInv'
    BY <1>1, <1>2, <1>3, <1>5, GotoSets, FlightFacts DEF FlightInv, Loading
  <1>7. value # NoValue /\ value'.version < value.version => value.late \/ value'.late
    <2> SUFFICES ASSUME value # NoValue, ~value.late, c \notin late
                 PROVE  ~(value'.version < value.version)
      BY <1>3
    <2>1. value.version <= flight[c].version
      BY <1>1 DEF FlightInv
    <2>2. value.version \in Nat /\ flight[c].version \in Nat
      BY <1>2 DEF FlightTyped, ValueType
    <2> QED
      BY <1>3, <2>1, <2>2
  <1> QED
    BY <1>1, <1>3, <1>4, <1>6, <1>7, GotoSets, FlightFacts DEF FlightKept

LEMMA ReleaseKeeps ==
    ASSUME FlightTyped, FlightInv, NEW c \in Callers, Release(c)
    PROVE  FlightKept /\ UNCHANGED value /\ \A d \in Callers \ {c} : flight'[d] = flight[d]
  <1>1. /\ UNCHANGED <<version, value>> /\ flight[c].pc = "release" /\ Land(c)
        /\ lock' = IF lock.owner = c THEN NoLock ELSE lock
    BY DEF Release
  <1> QED
    BY <1>1, LandSets, FlightFacts DEF FlightTyped, FlightInv, FlightKept, Loading

LEMMA CommandFailsKeeps ==
    ASSUME FlightTyped, FlightInv, NEW c \in Callers, CommandFails(c)
    PROVE  FlightKept /\ UNCHANGED value /\ \A d \in Callers \ {c} : flight'[d] = flight[d]
  <1>0. UNCHANGED <<version, value>>
    BY DEF CommandFails
  <1>1. CASE Land(c) /\ UNCHANGED lock
    BY <1>0, <1>1, LandSets, FlightFacts DEF FlightTyped, FlightInv, FlightKept, Loading
  <1>2. CASE /\ flight[c].pc = "acquire" /\ lock = NoLock
             /\ lock' = [owner |-> "ghost", ttl |-> LockTTL]
             /\ Land(c) \/ (Goto(c, "poll") /\ UNCHANGED late)
    <2>1. lock' \in LockType
      BY <1>2, FlightFacts DEF LockType
    <2>2. \A d \in Callers : ~Loading(d) \/ d \in late
      BY <1>2, FlightFacts DEF FlightInv
    <2>3. CASE Land(c)
      BY <1>0, <1>2, <2>1, <2>2, <2>3, LandSets, FlightFacts
      DEF FlightTyped, FlightInv, FlightKept, Loading
    <2>4. CASE Goto(c, "poll") /\ UNCHANGED late
      BY <1>0, <1>2, <2>1, <2>2, <2>4, GotoSets, FlightFacts
      DEF FlightTyped, FlightInv, FlightKept, Loading
    <2> QED
      BY <1>2, <2>3, <2>4
  <1>3. CASE flight[c].pc = "again" /\ Goto(c, "load") /\ UNCHANGED <<lock, late>>
    BY <1>0, <1>3, GotoSets, FlightFacts DEF FlightTyped, FlightInv, FlightKept, Loading
  <1>4. CASE Goto(c, "release") /\ UNCHANGED <<lock, late>>
    BY <1>0, <1>4, GotoSets, FlightFacts DEF FlightTyped, FlightInv, FlightKept, Loading
  <1> QED
    BY <1>1, <1>2, <1>3, <1>4 DEF CommandFails

LEMMA EnterKeeps ==
    ASSUME FlightTyped, FlightInv, NEW c \in Callers, Enter(c)
    PROVE  /\ FlightKept /\ UNCHANGED value
           /\ flight'[c].pc = "read" /\ \A d \in Callers \ {c} : flight'[d] = flight[d]
  <1>1. Goto(c, "read") /\ UNCHANGED <<version, value, lock, late>>
    BY DEF Enter
  <1> QED
    BY <1>1, GotoSets, FlightFacts DEF FlightTyped, FlightInv, FlightKept, Loading

\* The product, the cache Redis, time, and a death.
LEMMA AroundKeeps ==
    ASSUME FlightTyped, FlightInv, Changes \/ Evict
    PROVE  FlightKept /\ UNCHANGED flight /\ (value' = value \/ value' = NoValue)
  <1>1. CASE Changes
    <2>1. /\ UNCHANGED <<value, lock, flight, late>>
          /\ version' = version + 1 /\ version' \in 0 .. MaxVersion
      BY <1>1, FlightFacts DEF Changes, FlightTyped
    <2>2. FlightTyped'
      BY <2>1 DEF FlightTyped
    <2>3. 0 .. version \subseteq 0 .. version'
      BY <2>1 DEF FlightTyped
    <2>4. value # NoValue => value.version <= version'
      BY <2>1 DEF FlightTyped, FlightInv, ValueType
    <2> QED
      BY <2>1, <2>2, <2>3, <2>4 DEF FlightInv, FlightKept, Loading
  <1>2. CASE Evict
    BY <1>2, FlightFacts DEF Evict, Orphaned, FlightTyped, FlightInv, FlightKept, Loading
  <1> QED
    BY <1>1, <1>2

LEMMA FlightTickKeeps ==
    ASSUME FlightTyped, FlightInv, FlightTick
    PROVE  /\ FlightKept /\ UNCHANGED flight
           /\ \/ value' = NoValue
              \/ value' # NoValue /\ value # NoValue /\ value'.version = value.version
  <1>0. UNCHANGED <<version, flight>>
    BY DEF FlightTick
  <1>1. \/ value' = NoValue
        \/ /\ value # NoValue /\ value' \in ValueType /\ value' # NoValue
           /\ value'.version = value.version /\ value'.late = value.late
    <2>1. CASE value.ttl <= 1
      BY <2>1 DEF FlightTick
    <2>2. CASE ~(value.ttl <= 1)
      <3>1. value # NoValue /\ value \in ValueType
        BY <2>2, FlightFacts DEF FlightTyped
      <3>2. value' = [value EXCEPT !.ttl = value.ttl - 1]
        BY <2>2 DEF FlightTick
      <3>3. value.ttl - 1 \in 1 .. ValueTTL
        BY <2>2, <3>1, FlightFacts DEF ValueType
      <3>4. value' \in ValueType /\ value'.version = value.version /\ value'.late = value.late
        BY <3>1, <3>2, <3>3 DEF ValueType
      <3> QED
        BY <3>1, <3>4, FlightFacts
    <2> QED
      BY <2>1, <2>2
  <1>2. /\ lock' \in LockType \union {NoLock}
        /\ lock'.owner = lock.owner \/ late' = late \union Orphaned
    <2>1. CASE lock = NoLock
      BY <2>1, FlightFacts DEF FlightTick
    <2>2. CASE lock \in LockType /\ lock.ttl = 1
      BY <2>2 DEF FlightTick
    <2>3. CASE lock \in LockType /\ lock.ttl # 1
      <3>1. lock.ttl - 1 \in 1 .. LockTTL /\ ~(lock.ttl <= 1)
        BY <2>3, FlightFacts DEF LockType
      <3>2. lock' = [lock EXCEPT !.ttl = lock.ttl - 1]
        BY <3>1 DEF FlightTick
      <3> QED
        BY <2>3, <3>1, <3>2 DEF LockType
    <2> QED
      BY <2>1, <2>2, <2>3 DEF FlightTyped
  <1>3. late \subseteq late' /\ late' \subseteq Callers
    BY DEF FlightTick, FlightTyped, Orphaned
  <1>4. FlightTyped'
    BY <1>0, <1>1, <1>2, <1>3 DEF FlightTyped
  <1>5. FlightInv'
    BY <1>0, <1>1, <1>2, <1>3 DEF FlightInv, Orphaned, Loading
  <1> QED
    BY <1>0, <1>1, <1>4, <1>5 DEF FlightKept

LEMMA AbandonKeeps ==
    ASSUME FlightTyped, FlightInv, NEW c \in Callers, Abandon({c})
    PROVE  /\ FlightKept /\ UNCHANGED value
           /\ flight'[c] = Landed /\ \A d \in Callers \ {c} : flight'[d] = flight[d]
  <1>1. /\ flight' = [d \in Callers |-> IF d \in {c} THEN Landed ELSE flight[d]]
        /\ late' = late \ {c} /\ UNCHANGED <<version, value>>
        /\ lock' = IF lock.owner \in {c} THEN [lock EXCEPT !.owner = "ghost"] ELSE lock
    BY DEF Abandon
  <1>2. lock' \in LockType \union {NoLock} /\ (lock.owner = c \/ lock' = lock)
    BY <1>1, FlightFacts DEF FlightTyped, LockType
  <1>3. FlightTyped'
    BY <1>1, <1>2, FlightFacts DEF FlightTyped
  <1> QED
    BY <1>1, <1>2, <1>3, FlightFacts DEF FlightTyped, FlightInv, FlightKept, Loading

-----------------------------------------------------------------------------
(* Sessions.                                                               *)

RequestType == [at : {"idle", "touch", "guard", "card", "destroy", "create"},
                kind : Traffic \union {None}, sid : Sids \union {None}, session : BOOLEAN]

\* A handler works on a session that was created; the one a login has found and
\* destroyed is gone before the next is created.
SessionInv ==
    /\ \A c \in Callers : request[c].at # "idle" => request[c].kind \in Traffic
    /\ \A c \in Callers :
         \/ request[c].at \in {"touch", "destroy"}
         \/ request[c].at = "create" /\ request[c].session
         => request[c].sid \in 1 .. created
    /\ \A c \in Callers :
         request[c].at = "create" /\ request[c].session => ~Live(request[c].sid)
    /\ EndedStaysEnded

RequestsTyped == request \in [Callers -> RequestType]

\* Only a caller on the card route is inside getOrLoad.
OnCardOnly == \A c \in Callers : request[c].at # "card" <=> flight[c] = Landed

\* What a request may look like after the middleware.
LEMMA HandledIs ==
    ASSUME NEW r \in RequestType, r.kind \in Traffic, NEW found \in BOOLEAN
    PROVE  /\ Handled(r, found) \in RequestType
           /\ Handled(r, found).at \in {"idle", "guard", "destroy", "create"}
           /\ Handled(r, found).at # "idle" =>
                Handled(r, found).kind = r.kind /\ Handled(r, found).sid = r.sid
           /\ Handled(r, found).at \in {"destroy"} => found
           /\ Handled(r, found).at = "create" => ~Handled(r, found).session
  <1>1. r.kind \in {"card", "login", "logout"}
    BY TrafficAssumption
  <1>2. Idle \in RequestType /\ Idle.at = "idle"
    BY DEF Idle, RequestType
  <1>3. CASE r.kind = "card"
    BY <1>3 DEF Handled, Handler, RequestType
  <1>4. CASE r.kind = "login"
    <2>1. CASE found
      BY <1>4, <2>1 DEF Handled, Handler, RequestType
    <2>2. CASE ~found
      BY <1>4, <2>2 DEF Handled, Handler, RequestType
    <2> QED
      BY <2>1, <2>2
  <1>5. CASE r.kind = "logout"
    <2>1. CASE found
      BY <1>5, <2>1 DEF Handled, Handler, RequestType
    <2>2. CASE ~found
      BY <1>2, <1>5, <2>2 DEF Handled, Handler
    <2> QED
      BY <2>1, <2>2
  <1> QED
    BY <1>1, <1>3, <1>4, <1>5

\* No step revives a session that is not live, and ended ones are not.
NoneRevived ==
    /\ created <= created'
    /\ \A s \in 1 .. created : session[s] = 0 => session'[s] = 0
    /\ \A s \in ended' : session'[s] = 0

LEMMA DeadOrLive ==
    /\ SessionTypeOK =>
         \A s \in Sids : (~Live(s) <=> session[s] = 0) /\ session[s] \in Nat
    /\ SessionTypeOK' =>
         \A s \in Sids : (~Live(s)' <=> session'[s] = 0) /\ session'[s] \in Nat
  BY SessionAssumption DEF SessionTypeOK, Live

LEMMA SidsGrow ==
    ASSUME SessionTypeOK, SessionTypeOK', NoneRevived
    PROVE  1 .. created \subseteq 1 .. created' /\ 1 .. created' \subseteq Sids
  BY SessionAssumption DEF SessionTypeOK, NoneRevived, Sids

\* A step of one caller.
LEMMA CallerMoves ==
    ASSUME SessionTypeOK, SessionTypeOK', RequestsTyped, SessionInv, NoneRevived,
           NEW c \in Callers, NEW r \in RequestType,
           request' = [request EXCEPT ![c] = r],
           r.at # "idle" => r.kind \in Traffic,
           r.at \in {"touch", "destroy"} \/ (r.at = "create" /\ r.session) =>
             r.sid \in 1 .. created',
           r.at = "create" /\ r.session => session'[r.sid] = 0
    PROVE  RequestsTyped' /\ SessionInv'
  <1>1. /\ request' \in [Callers -> RequestType] /\ request'[c] = r
        /\ \A d \in Callers \ {c} : request'[d] = request[d]
    BY DEF RequestsTyped
  <1>2. \A s \in Sids : (~Live(s)' <=> session'[s] = 0) /\ (~Live(s) <=> session[s] = 0)
    BY DeadOrLive
  <1>3. 1 .. created \subseteq 1 .. created' /\ 1 .. created' \subseteq Sids
        /\ ended' \subseteq Sids
    BY SidsGrow DEF SessionTypeOK
  <1>4. \A d \in Callers : request'[d].at # "idle" => request'[d].kind \in Traffic
    BY <1>1 DEF SessionInv
  <1>5. \A d \in Callers :
          \/ request'[d].at \in {"touch", "destroy"}
          \/ request'[d].at = "create" /\ request'[d].session
          => request'[d].sid \in 1 .. created'
    BY <1>1, <1>3 DEF SessionInv
  <1>6. \A d \in Callers :
          request'[d].at = "create" /\ request'[d].session => session'[request'[d].sid] = 0
    BY <1>1, <1>2, <1>3 DEF SessionInv, NoneRevived
  <1>7. EndedStaysEnded'
    BY <1>2, <1>3 DEF EndedStaysEnded, NoneRevived
  <1> QED
    BY <1>1, <1>2, <1>3, <1>4, <1>5, <1>6, <1>7 DEF RequestsTyped, SessionInv, Live

\* A step of nobody's.
LEMMA NobodyMoves ==
    ASSUME SessionTypeOK, SessionTypeOK', RequestsTyped, SessionInv, NoneRevived,
           UNCHANGED request
    PROVE  RequestsTyped' /\ SessionInv'
  <1>1. \A s \in Sids : (~Live(s)' <=> session'[s] = 0) /\ (~Live(s) <=> session[s] = 0)
    BY DeadOrLive
  <1>2. 1 .. created \subseteq 1 .. created' /\ 1 .. created' \subseteq Sids
        /\ ended' \subseteq Sids
    BY SidsGrow DEF SessionTypeOK
  <1>3. EndedStaysEnded'
    BY <1>1, <1>2 DEF EndedStaysEnded, NoneRevived
  <1> QED
    BY <1>1, <1>2, <1>3 DEF RequestsTyped, SessionInv, NoneRevived, Live

\* Where nothing is done to a session.
LEMMA SessionsStay ==
    ASSUME SessionTypeOK, SessionInv, UNCHANGED sessionVars
    PROVE  SessionTypeOK' /\ NoneRevived
  <1>1. SessionTypeOK' /\ ended \subseteq Sids /\ created \in Nat
    BY SessionAssumption DEF SessionTypeOK, sessionVars, Sids
  <1> QED
    BY <1>1, DeadOrLive DEF SessionInv, EndedStaysEnded, NoneRevived, sessionVars

\* One session is touched if it is live, or ended; ended sids are not live.
LEMMA OneSessionMoves ==
    ASSUME SessionTypeOK, SessionInv, UNCHANGED created, NEW s \in 1 .. created,
           \/ Touch(s) /\ UNCHANGED ended
           \/ Destroy(s) /\ ended' \in {ended, ended \union {s}}
    PROVE  SessionTypeOK' /\ NoneRevived
  <1>0. /\ SessionTTL \in Nat \ {0} /\ session \in [Sids -> 0 .. SessionTTL]
        /\ 1 .. created \subseteq Sids /\ created \in Nat /\ ended \subseteq 1 .. created
        /\ \A t \in ended : session[t] = 0
        /\ \A t \in Sids : session[t] \in Nat
    BY SessionAssumption, DeadOrLive
    DEF SessionTypeOK, SessionInv, EndedStaysEnded, Sids
  <1>1. /\ session' \in [Sids -> 0 .. SessionTTL]
        /\ \A t \in Sids : session[t] = 0 => session'[t] = 0
        /\ \A t \in Sids \ {s} : session'[t] = session[t]
    BY <1>0 DEF Touch, Destroy, Live
  <1>2. SessionTypeOK'
    <2>1. ended' \subseteq 1 .. created
      BY <1>0
    <2>2. \A t \in Sids : session'[t] > 0 => t <= created
      <3>1. \A t \in Sids : session[t] > 0 => t <= created
        BY DEF SessionTypeOK
      <3>2. s <= created
        OBVIOUS
      <3> QED
        BY <1>1, <3>1, <3>2
    <2> QED
      BY <1>0, <1>1, <2>1, <2>2 DEF SessionTypeOK
  <1>3. \A t \in ended' : session'[t] = 0
    BY <1>0, <1>1 DEF Destroy
  <1> QED
    BY <1>0, <1>1, <1>2, <1>3 DEF NoneRevived

LEMMA NewSession ==
    ASSUME SessionTypeOK, SessionInv, Create,
           \/ ended' = ended
           \/ \E s \in 1 .. created : session[s] = 0 /\ ended' = ended \union {s}
    PROVE  SessionTypeOK' /\ NoneRevived
  <1>0. /\ SessionTTL \in Nat \ {0} /\ session \in [Sids -> 0 .. SessionTTL]
        /\ created \in Nat /\ ended \subseteq 1 .. created
        /\ \A t \in Sids : session[t] > 0 => t <= created
        /\ created < MaxSids /\ MaxSids \in Nat
        /\ created' = created + 1 /\ session' = [session EXCEPT ![created + 1] = SessionTTL]
    BY SessionAssumption DEF SessionTypeOK, Create
  <1>1. created + 1 \in Sids /\ 1 .. created \subseteq Sids
    BY <1>0 DEF Sids
  <1>2. /\ session' \in [Sids -> 0 .. SessionTTL]
        /\ \A t \in Sids \ {created + 1} : session'[t] = session[t]
    BY <1>0, <1>1
  <1>3. \A t \in 1 .. created : t # created + 1
    BY <1>0
  <1>4. \A t \in ended : session[t] = 0
    BY <1>0, <1>1, DeadOrLive DEF SessionInv, EndedStaysEnded
  <1>5. ended' \subseteq 1 .. created /\ \A t \in ended' : session'[t] = 0
    BY <1>0, <1>1, <1>2, <1>3, <1>4
  <1>6. 1 .. created \subseteq 1 .. created'
    BY <1>0
  <1>7. \A t \in Sids : session'[t] > 0 => t <= created'
    <2> SUFFICES ASSUME NEW t \in Sids, session'[t] > 0 PROVE t <= created'
      OBVIOUS
    <2>1. t \in Nat
      BY DEF Sids
    <2> QED
      BY <1>0, <1>2, <2>1
  <1>8. created' \in 0 .. MaxSids
    BY <1>0
  <1>9. SessionTypeOK'
    BY <1>2, <1>5, <1>6, <1>7, <1>8 DEF SessionTypeOK
  <1> QED
    BY <1>0, <1>1, <1>2, <1>3, <1>5, <1>9 DEF NoneRevived

LEMMA SessionTickKeeps ==
    ASSUME SessionTypeOK, SessionInv, SessionTick
    PROVE  SessionTypeOK' /\ NoneRevived
  <1>0. /\ SessionTTL \in Nat \ {0} /\ session \in [Sids -> 0 .. SessionTTL]
        /\ created \in Nat /\ ended \subseteq 1 .. created /\ 1 .. created \subseteq Sids
        /\ \A t \in Sids : session[t] > 0 => t <= created
        /\ session' = [s \in Sids |-> IF session[s] > 0 THEN session[s] - 1 ELSE 0]
        /\ ended' = ended \union {s \in Sids : session[s] = 1} /\ created' = created
        /\ \A t \in ended : session[t] = 0
    BY SessionAssumption, DeadOrLive
    DEF SessionTypeOK, SessionTick, SessionInv, EndedStaysEnded, Live, Sids
  <1>1. session' \in [Sids -> 0 .. SessionTTL]
    <2>1. \A s \in Sids : (IF session[s] > 0 THEN session[s] - 1 ELSE 0) \in 0 .. SessionTTL
      BY <1>0
    <2> QED
      BY <1>0, <2>1
  <1>2. \A s \in Sids : session[s] = 0 \/ session[s] = 1 => session'[s] = 0
    BY <1>0
  <1>3. \A s \in Sids : session'[s] > 0 => session[s] > 0
    BY <1>0
  <1>4. ended' \subseteq 1 .. created
    <2> SUFFICES ASSUME NEW s \in Sids, session[s] = 1 PROVE s \in 1 .. created
      BY <1>0
    <2> QED
      BY <1>0 DEF Sids
  <1>5. \A s \in ended' : session'[s] = 0
    BY <1>0, <1>2
  <1>6. SessionTypeOK'
    BY <1>0, <1>1, <1>3, <1>4 DEF SessionTypeOK
  <1> QED
    BY <1>0, <1>2, <1>5, <1>6 DEF NoneRevived

\* The sessions of a step, and the requests.
SessionSide == SessionTypeOK /\ RequestsTyped /\ SessionInv

LEMMA AnswerKeeps ==
    ASSUME SessionSide, SessionTypeOK', NoneRevived, NEW c \in Callers, Answer(c)
    PROVE  SessionSide'
  <1>1. request' = [request EXCEPT ![c] = Idle]
    BY DEF Answer
  <1>2. Idle \in RequestType /\ Idle.at = "idle"
    BY DEF Idle, RequestType
  <1> QED
    BY <1>1, <1>2, CallerMoves DEF SessionSide

LEMMA GoKeeps ==
    ASSUME SessionSide, SessionTypeOK', NoneRevived, NEW c \in Callers,
           request[c].at # "idle",
           \/ Go(c, "card")
           \/ /\ Go(c, "create") /\ request[c].sid \in 1 .. created'
              /\ session'[request[c].sid] = 0
    PROVE  SessionSide'
  <1> DEFINE r(place) == [request[c] EXCEPT !.at = place]
  <1>1. request[c] \in RequestType /\ request[c].kind \in Traffic
    BY DEF SessionSide, RequestsTyped, SessionInv
  <1>2. \A place \in {"card", "create"} :
          /\ r(place) \in RequestType /\ r(place).at = place
          /\ r(place).kind = request[c].kind /\ r(place).sid = request[c].sid
    BY <1>1 DEF RequestType
  <1>3. ASSUME NEW place \in {"card", "create"}, Go(c, place)
        PROVE  request' = [request EXCEPT ![c] = r(place)]
    BY <1>3 DEF Go, SessionSide, RequestsTyped
  <1> HIDE DEF r
  <1>4. CASE Go(c, "card")
    BY <1>1, <1>2, <1>3, <1>4, CallerMoves DEF SessionSide
  <1>5. CASE /\ Go(c, "create") /\ request[c].sid \in 1 .. created'
             /\ session'[request[c].sid] = 0
    BY <1>1, <1>2, <1>3, <1>5, CallerMoves DEF SessionSide
  <1> QED
    BY <1>4, <1>5

LEMMA HandledKeeps ==
    ASSUME SessionSide, SessionTypeOK', NoneRevived, NEW c \in Callers,
           NEW r \in RequestType, r.kind \in Traffic, NEW found \in BOOLEAN,
           found => r.sid \in 1 .. created',
           request' = [request EXCEPT ![c] = Handled(r, found)]
    PROVE  SessionSide'
  <1>1. /\ Handled(r, found) \in RequestType
        /\ Handled(r, found).at \in {"idle", "guard", "destroy", "create"}
        /\ Handled(r, found).at # "idle" =>
             Handled(r, found).kind = r.kind /\ Handled(r, found).sid = r.sid
        /\ Handled(r, found).at \in {"destroy"} => found
        /\ Handled(r, found).at = "create" => ~Handled(r, found).session
    BY HandledIs
  <1> DEFINE h == Handled(r, found)
  <1>2. /\ h.at # "idle" => h.kind \in Traffic
        /\ h.at \in {"touch", "destroy"} \/ (h.at = "create" /\ h.session) =>
             h.sid \in 1 .. created'
        /\ h.at = "create" /\ h.session => session'[h.sid] = 0
    BY <1>1
  <1> HIDE DEF h
  <1>3. h \in RequestType /\ request' = [request EXCEPT ![c] = h]
    BY <1>1 DEF h
  <1> QED
    BY <1>2, <1>3, CallerMoves DEF SessionSide

LEMMA ArriveSessions ==
    ASSUME SessionSide, NEW c \in Callers, NEW kind \in Traffic, NEW sid \in Sids \union {None},
           Arrive(c, kind, sid)
    PROVE  SessionSide'
  <1> DEFINE r == [Idle EXCEPT !.at = "touch", !.kind = kind, !.sid = sid]
  <1>1. /\ r \in RequestType /\ r.at = "touch" /\ r.kind = kind /\ r.sid = sid
    BY DEF Idle, RequestType
  <1>2. /\ UNCHANGED sessionVars
        /\ sid # None => sid <= created
        /\ request' = [request EXCEPT ![c] = IF sid = None THEN Handled(r, FALSE) ELSE r]
    BY DEF Arrive
  <1> HIDE DEF r
  <1>3. SessionTypeOK' /\ NoneRevived /\ created' = created
    BY <1>2, SessionsStay DEF SessionSide, sessionVars
  <1>4. CASE sid = None
    <2>1. request' = [request EXCEPT ![c] = Handled(r, FALSE)]
      BY <1>2, <1>4
    <2> QED
      BY <1>1, <1>3, <2>1, HandledKeeps
  <1>5. CASE sid # None
    <2>1. request' = [request EXCEPT ![c] = r]
      BY <1>2, <1>5
    <2>2. sid \in 1 .. created'
      BY <1>2, <1>3, <1>5 DEF Sids, SessionSide, SessionTypeOK
    <2> QED
      BY <1>1, <1>3, <2>1, <2>2, CallerMoves DEF SessionSide
  <1> QED
    BY <1>4, <1>5

LEMMA TouchingHandles ==
    ASSUME NEW c \in Callers, Touching(c)
    PROVE  \E found \in BOOLEAN :
             request' = [request EXCEPT ![c] = Handled(request[c], found)]
  <1>1. \/ request' = [request EXCEPT ![c] = Handled(request[c], Live(request[c].sid))]
        \/ request' = [request EXCEPT ![c] = Handled(request[c], FALSE)]
    BY DEF Touching
  <1>2. Live(request[c].sid) \in BOOLEAN
    BY DEF Live
  <1> QED
    BY <1>1, <1>2

LEMMA TouchingSessions ==
    ASSUME SessionSide, NEW c \in Callers, Touching(c)
    PROVE  SessionSide'
  <1> DEFINE s == request[c].sid
  <1>1. /\ request[c] \in RequestType /\ request[c].kind \in Traffic /\ s \in 1 .. created
    BY DEF Touching, At, SessionSide, RequestsTyped, SessionInv
  <1>2. UNCHANGED <<created, ended>> /\ (Touch(s) \/ UNCHANGED session)
    BY DEF Touching
  <1>3. SessionTypeOK' /\ NoneRevived
    BY <1>1, <1>2, OneSessionMoves, SessionsStay DEF SessionSide, sessionVars
  <1>4. \E found \in BOOLEAN : request' = [request EXCEPT ![c] = Handled(request[c], found)]
    BY TouchingHandles
  <1> QED
    BY <1>1, <1>2, <1>3, <1>4, HandledKeeps

LEMMA GuardingSessions ==
    ASSUME SessionSide, NEW c \in Callers, Guarding(c)
    PROVE  SessionSide'
  <1>1. SessionTypeOK' /\ NoneRevived
    BY SessionsStay DEF SessionSide, Guarding
  <1>2. request[c].at # "idle" /\ (Go(c, "card") \/ Answer(c))
    BY DEF Guarding, At
  <1> QED
    BY <1>1, <1>2, GoKeeps, AnswerKeeps

LEMMA DestroyingSessions ==
    ASSUME SessionSide, NEW c \in Callers, Destroying(c)
    PROVE  SessionSide'
  <1> DEFINE s == request[c].sid
  <1>1. request[c].at = "destroy" /\ s \in 1 .. created /\ UNCHANGED created
    BY DEF Destroying, At, SessionSide, SessionInv
  <1>2. /\ \/ Destroy(s) /\ ended' \in {ended, ended \union {s}}
           \/ UNCHANGED sessionVars
        /\ Answer(c) \/ (Go(c, "create") /\ Destroy(s))
    BY DEF Destroying, sessionVars
  <1>3. SessionTypeOK' /\ NoneRevived
    BY <1>1, <1>2, OneSessionMoves, SessionsStay DEF SessionSide
  <1>4. Destroy(s) => session'[s] = 0
    BY <1>1, SidsGrow, <1>3 DEF Destroy, SessionSide, SessionTypeOK
  <1> QED
    BY <1>1, <1>2, <1>3, <1>4, AnswerKeeps, GoKeeps

LEMMA CreatingSessions ==
    ASSUME SessionSide, NEW c \in Callers, Creating(c)
    PROVE  SessionSide'
  <1>1. request[c].at = "create" /\ Answer(c)
    BY DEF Creating, At
  <1>2. request[c].session =>
          request[c].sid \in 1 .. created /\ session[request[c].sid] = 0
    <2>1. 1 .. created \subseteq Sids
      BY SessionAssumption DEF SessionSide, SessionTypeOK, Sids
    <2> QED
      BY <1>1, <2>1, DeadOrLive DEF SessionSide, SessionInv
  <1>3. \/ UNCHANGED sessionVars
        \/ /\ Create
           /\ \/ ended' = ended
              \/ request[c].session /\ ended' = ended \union {request[c].sid}
    BY DEF Creating, sessionVars
  <1>4. SessionTypeOK' /\ NoneRevived
    BY <1>2, <1>3, NewSession, SessionsStay DEF SessionSide
  <1> QED
    BY <1>1, <1>4, AnswerKeeps

LEMMA SessionSideNext == SessionSide /\ [Next]_vars => SessionSide'
  <1> SUFFICES ASSUME SessionSide, [Next]_vars PROVE SessionSide'
    OBVIOUS
  <1>s. ASSUME UNCHANGED <<sessionVars, request>> PROVE SessionSide'
    BY <1>s, SessionsStay, NobodyMoves DEF SessionSide
  <1>1. ASSUME NEW c \in Callers, OnCard(c) \/ Crash(c) PROVE SessionSide'
    <2>1. UNCHANGED sessionVars /\ (Answer(c) \/ UNCHANGED request)
      BY <1>1 DEF OnCard, Crash
    <2> QED
      BY <1>s, <2>1, SessionsStay, AnswerKeeps DEF SessionSide
  <1>2. CASE Around
    BY <1>s, <1>2 DEF Around
  <1>3. CASE Tick
    BY <1>3, SessionTickKeeps, NobodyMoves DEF Tick, SessionSide
  <1>4. CASE UNCHANGED vars
    BY <1>s, <1>4 DEF vars
  <1> QED
    BY <1>1, <1>2, <1>3, <1>4, ArriveSessions, TouchingSessions, GuardingSessions,
       DestroyingSessions, CreatingSessions DEF Next, RequestStep

-----------------------------------------------------------------------------
(* getOrLoad.                                                              *)

FlightSide == FlightTyped /\ FlightInv /\ OnCardOnly

\* No step replaces a card by an older one without a late loader.
ValueMoves ==
    value # NoValue /\ value' # NoValue /\ value'.version < value.version =>
      value.late \/ value'.late

LEMMA FlightSideNext == SessionSide /\ FlightSide /\ [Next]_vars => FlightSide' /\ ValueMoves
  <1> SUFFICES ASSUME SessionSide, FlightSide, [Next]_vars PROVE FlightSide' /\ ValueMoves
    OBVIOUS
  <1>0. FlightTyped /\ FlightInv /\ OnCardOnly /\ request \in [Callers -> RequestType]
    BY DEF SessionSide, RequestsTyped, FlightSide
  <1>v. ASSUME UNCHANGED value PROVE ValueMoves
    <2>1. value # NoValue => value.version \in Nat
      BY <1>0 DEF FlightTyped, ValueType
    <2> QED
      BY <1>v, <2>1 DEF ValueMoves
  <1>s. ASSUME UNCHANGED flightVars PROVE FlightTyped' /\ FlightInv' /\ ValueMoves
    BY <1>0, <1>s, <1>v DEF flightVars, FlightTyped, FlightInv, Loading
  <1>a. ASSUME NEW c \in Callers, Answer(c)
        PROVE  request'[c].at = "idle" /\ \A d \in Callers \ {c} : request'[d] = request[d]
    BY <1>0, <1>a DEF Answer, Idle
  <1>n. ASSUME NEW c \in Callers, ~At(c, "card"), UNCHANGED flightVars,
               request'[c].at # "card", \A d \in Callers \ {c} : request'[d] = request[d]
        PROVE  FlightSide' /\ ValueMoves
    BY <1>0, <1>n, <1>s DEF FlightSide, OnCardOnly, At, flightVars
  <1>c. ASSUME NEW c \in Callers, FlightKept, flight'[c] = Landed <=> request'[c].at # "card",
               \A d \in Callers \ {c} : request'[d] = request[d] /\ flight'[d] = flight[d]
        PROVE  FlightSide'
    BY <1>0, <1>c DEF FlightSide, FlightKept, OnCardOnly
  <1>h. ASSUME NEW r \in RequestType, r.kind \in Traffic, NEW found \in BOOLEAN
        PROVE  Handled(r, found).at # "card"
    <2>1. Handled(r, found).at \in {"idle", "guard", "destroy", "create"}
      BY <1>h, HandledIs
    <2> QED
      BY <2>1
  <1>1. ASSUME NEW c \in Callers, NEW kind \in Traffic, NEW sid \in Sids \union {None},
               Arrive(c, kind, sid)
        PROVE  FlightSide' /\ ValueMoves
    <2> DEFINE r == [Idle EXCEPT !.at = "touch", !.kind = kind, !.sid = sid]
    <2>1. r \in RequestType /\ r.at = "touch" /\ r.kind = kind
      BY DEF Idle, RequestType
    <2>2. /\ request' = [request EXCEPT ![c] = IF sid = None THEN Handled(r, FALSE) ELSE r]
          /\ UNCHANGED flightVars /\ ~At(c, "card")
      BY <1>1 DEF Arrive, At
    <2>3. Handled(r, FALSE).at # "card"
      BY <1>h, <2>1
    <2> HIDE DEF r
    <2>4. request'[c].at # "card" /\ \A d \in Callers \ {c} : request'[d] = request[d]
      BY <1>0, <2>1, <2>2, <2>3
    <2> QED
      BY <1>n, <2>2, <2>4
  <1>2. ASSUME NEW c \in Callers, Touching(c) PROVE FlightSide' /\ ValueMoves
    <2>1. PICK found \in BOOLEAN :
            request' = [request EXCEPT ![c] = Handled(request[c], found)]
      BY <1>2, TouchingHandles
    <2>2. ~At(c, "card") /\ UNCHANGED flightVars
      BY <1>2 DEF Touching, At
    <2>3. request[c].kind \in Traffic
      BY <1>2 DEF Touching, At, SessionSide, SessionInv
    <2> QED
      BY <1>0, <1>h, <1>n, <2>1, <2>2, <2>3
  <1>3. ASSUME NEW c \in Callers, Guarding(c) PROVE FlightSide' /\ ValueMoves
    <2>1. ~At(c, "card")
      BY <1>3 DEF Guarding, At
    <2>2. CASE Answer(c) /\ UNCHANGED flightVars
      BY <1>a, <1>n, <2>1, <2>2
    <2>3. CASE Go(c, "card") /\ Enter(c)
      <3>1. request'[c].at = "card" /\ \A d \in Callers \ {c} : request'[d] = request[d]
        BY <1>0, <2>3 DEF Go, RequestType
      <3>2. flight'[c] # Landed
        BY <1>0, <2>3, EnterKeeps, FlightFacts
      <3> QED
        BY <1>0, <1>c, <1>v, <2>3, <3>1, <3>2, EnterKeeps
    <2> QED
      BY <1>3, <2>2, <2>3 DEF Guarding
  <1>4. ASSUME NEW c \in Callers, OnCard(c) PROVE FlightSide' /\ ValueMoves
    <2>1. /\ FlightKept /\ ValueMoves
          /\ \A d \in Callers \ {c} : flight'[d] = flight[d]
      <3>1. CASE Read(c) \/ Acquire(c) \/ Load(c) \/ Release(c) \/ CommandFails(c)
        BY <1>0, <1>v, <3>1, ReadKeeps, AcquireKeeps, LoadKeeps, ReleaseKeeps,
           CommandFailsKeeps
      <3>2. CASE Write(c)
        BY <1>0, <3>2, WriteKeeps DEF ValueMoves
      <3> QED
        BY <1>4, <3>1, <3>2 DEF OnCard, FlightStep
    <2>2. request[c].at = "card" /\ IF flight'[c] = Landed THEN Answer(c) ELSE UNCHANGED request
      BY <1>4 DEF OnCard, At
    <2>3. flight'[c] = Landed <=> request'[c].at # "card"
      BY <1>a, <2>2
    <2> QED
      BY <1>a, <1>c, <2>1, <2>2, <2>3
  <1>5. ASSUME NEW c \in Callers, Destroying(c) PROVE FlightSide' /\ ValueMoves
    <2>1. ~At(c, "card") /\ UNCHANGED flightVars /\ (Answer(c) \/ Go(c, "create"))
      BY <1>5 DEF Destroying, At
    <2>2. request'[c].at # "card" /\ \A d \in Callers \ {c} : request'[d] = request[d]
      BY <1>0, <1>a, <2>1 DEF Go, RequestType
    <2> QED
      BY <1>n, <2>1, <2>2
  <1>6. ASSUME NEW c \in Callers, Creating(c) PROVE FlightSide' /\ ValueMoves
    <2>1. ~At(c, "card") /\ UNCHANGED flightVars /\ Answer(c)
      BY <1>6 DEF Creating, At
    <2> QED
      BY <1>a, <1>n, <2>1
  <1>7. ASSUME NEW c \in Callers, Crash(c) PROVE FlightSide' /\ ValueMoves
    <2>1. Answer(c) /\ Abandon({c})
      BY <1>7 DEF Crash
    <2> QED
      BY <1>0, <1>a, <1>c, <1>v, <2>1, AbandonKeeps
  <1>8. CASE Around
    <2>1. FlightKept /\ UNCHANGED flight /\ (value' = value \/ value' = NoValue)
      BY <1>0, <1>8, AroundKeeps DEF Around
    <2> QED
      BY <1>0, <1>8, <1>v, <2>1 DEF Around, FlightSide, FlightKept, OnCardOnly, ValueMoves
  <1>9. CASE Tick
    <2>1. /\ FlightKept /\ UNCHANGED flight
          /\ \/ value' = NoValue
             \/ value' # NoValue /\ value # NoValue /\ value'.version = value.version
      BY <1>0, <1>9, FlightTickKeeps DEF Tick
    <2>2. ValueMoves
      <3>1. value # NoValue => value.version \in Nat
        BY <1>0 DEF FlightTyped, ValueType
      <3> QED
        BY <2>1, <3>1 DEF ValueMoves
    <2> QED
      BY <1>0, <1>9, <2>1, <2>2 DEF Tick, FlightSide, FlightKept, OnCardOnly
  <1>10. CASE UNCHANGED vars
    BY <1>0, <1>10, <1>s DEF vars, FlightSide, OnCardOnly, flightVars
  <1> QED
    BY <1>1, <1>2, <1>3, <1>4, <1>5, <1>6, <1>7, <1>8, <1>9, <1>10 DEF Next, RequestStep

-----------------------------------------------------------------------------
(* The features together.                                                  *)

Bounds == requests \in 0 .. MaxRequests /\ faults \in 0 .. MaxFaults

IInv == WindowInv /\ SessionSide /\ FlightSide /\ Bounds

LEMMA Initially == Init => IInv
  <1> SUFFICES ASSUME Init PROVE IInv
    OBVIOUS
  <1>1. WindowInv
    BY WindowInvInit DEF Init
  <1>2. SessionSide
    <2>1. Idle \in RequestType /\ Idle.at = "idle"
      BY DEF Idle, RequestType
    <2> QED
      BY <2>1, SessionAssumption
      DEF Init, SessionInit, SessionSide, SessionTypeOK, RequestsTyped, SessionInv,
          EndedStaysEnded
  <1>3. FlightSide
    <2>1. Idle.at # "card"
      BY DEF Idle
    <2> QED
      BY <2>1, FlightFacts
      DEF Init, FlightInit, FlightSide, FlightTyped, FlightInv, OnCardOnly, Loading
  <1>4. Bounds
    BY TrafficAssumption DEF Init, Bounds
  <1> QED
    BY <1>1, <1>2, <1>3, <1>4 DEF IInv

LEMMA WindowNext == WindowInv /\ [Next]_vars => WindowInv'
  <1> SUFFICES ASSUME WindowInv, [Next]_vars PROVE WindowInv'
    OBVIOUS
  <1>1. RunScript \/ WindowTick \/ UNCHANGED windowVars
    <2>1. ASSUME NEW c \in Callers, NEW kind \in Traffic, NEW sid \in Sids \union {None},
                 Arrive(c, kind, sid)
          PROVE  UNCHANGED windowVars
      BY <2>1 DEF Arrive
    <2>2. ASSUME NEW c \in Callers, Guarding(c)
          PROVE  RunScript \/ UNCHANGED windowVars
      BY <2>2 DEF Guarding
    <2>3. ASSUME NEW c \in Callers,
                 Touching(c) \/ OnCard(c) \/ Destroying(c) \/ Creating(c) \/ Crash(c)
          PROVE  UNCHANGED windowVars
      BY <2>3 DEF Touching, OnCard, Destroying, Creating, Crash
    <2>4. Around => UNCHANGED windowVars
      BY DEF Around
    <2>5. Tick => WindowTick
      BY DEF Tick
    <2>6. UNCHANGED vars => UNCHANGED windowVars
      BY DEF vars
    <2> QED
      BY <2>1, <2>2, <2>3, <2>4, <2>5, <2>6 DEF Next, RequestStep
  <1> QED
    BY <1>1, RunScriptKeeps, WindowTickKeeps, WindowStays

LEMMA BoundsNext == Bounds /\ [Next]_vars => Bounds'
  <1> SUFFICES ASSUME Bounds, [Next]_vars PROVE Bounds'
    OBVIOUS
  <1>f. Fault \/ UNCHANGED faults => faults' \in 0 .. MaxFaults
    BY TrafficAssumption DEF Fault, Bounds
  <1>1. ASSUME NEW c \in Callers, NEW kind \in Traffic, NEW sid \in Sids \union {None},
               Arrive(c, kind, sid)
        PROVE  Bounds'
    BY <1>1, TrafficAssumption DEF Arrive, Bounds
  <1>2. ASSUME NEW c \in Callers, RequestStep(c) \/ Crash(c)
        PROVE  UNCHANGED requests /\ (Fault \/ UNCHANGED faults)
    BY <1>2 DEF RequestStep, Touching, Guarding, OnCard, Destroying, Creating, Crash, Heard
  <1>3. Around \/ Tick \/ UNCHANGED vars => UNCHANGED <<requests, faults>>
    BY DEF Around, Tick, vars
  <1> QED
    BY <1>f, <1>1, <1>2, <1>3 DEF Next, Bounds

\* The inductive invariant.
THEOREM Invariance == Spec => []IInv
  <1>1. IInv /\ [Next]_vars => IInv'
    BY WindowNext, SessionSideNext, FlightSideNext, BoundsNext DEF IInv
  <1> QED
    BY <1>1, Initially, PTL DEF Spec

\* Keys, requests and calls stay in their types; only a request on the card
\* route is inside getOrLoad().
THEOREM TypeCorrect == Spec => []TypeOK
  <1>1. IInv => TypeOK
    BY FlightIsTyped
    DEF IInv, TypeOK, WindowInv, SessionSide, RequestsTyped, RequestType, FlightSide,
        OnCardOnly, Bounds
  <1> QED
    BY <1>1, Invariance, PTL

\* The sliding window lets nobody through too many and keeps nobody out too
\* long, whatever the mix of hits, hits sent again and waiting.
THEOREM LimiterIsExact == Spec => []WindowExact
  <1>1. IInv => WindowExact
    BY WindowInvMeans DEF IInv
  <1> QED
    BY <1>1, Invariance, PTL

\* The TOUCH script revives no session that expired or was ended while the
\* request that touches it was under way.
THEOREM EndedForGood == Spec => []EndedStaysEnded
  <1>1. IInv => EndedStaysEnded
    BY DEF IInv, SessionSide, SessionInv
  <1> QED
    BY <1>1, Invariance, PTL

\* withLock: of the callers inside getOrLoad() one at most is loading, but for
\* those that have outlived their lock.
THEOREM OneLoads == Spec => []OneLoader
  <1>1. IInv => OneLoader
    <2> SUFFICES ASSUME IInv PROVE OneLoader
      OBVIOUS
    <2> DEFINE loaders == {c \in Callers : Loading(c) /\ c \notin late}
    <2>1. loaders \in SUBSET {lock.owner}
      BY DEF IInv, FlightSide, FlightInv
    <2>2. IsFiniteSet({lock.owner}) /\ Cardinality({lock.owner}) = 1
      BY FS_Singleton
    <2>3. IsFiniteSet(loaders) /\ Cardinality(loaders) <= 1
      BY <2>1, <2>2, FS_Subset
    <2> QED
      BY <2>3 DEF OneLoader
  <1> QED
    BY <1>1, Invariance, PTL

\* getOrLoad() replaces a card by an older one only when one of the two was
\* written by a loader that had outlived its lock.
THEOREM NoneOlder == Spec => OlderOnlyFromLate
  <1>1. IInv /\ [Next]_vars =>
          [value # NoValue /\ value' # NoValue /\ value'.version < value.version
             => value.late \/ value'.late]_flightVars
    BY FlightSideNext DEF IInv, ValueMoves
  <1> QED
    BY <1>1, Invariance, PTL DEF Spec, OlderOnlyFromLate

=============================================================================

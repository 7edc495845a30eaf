-------------------------- MODULE EdgeCacheProofs ---------------------------
(***************************************************************************)
(* The edge for any assets, any number of requests at once, any lengths,   *)
(* lifetimes and budgets: its byte count is what its Map holds and within  *)
(* the budget, one fetch per key, the least recently used goes first, and  *)
(* the loop that evicts comes to an end before what it was run for.        *)
(***************************************************************************)
EXTENDS EdgeCache, SumTheorems

\* An order of the elements of S, one after the other.
Linear(R, S) ==
    /\ \A a \in S : <<a, a>> \notin R
    /\ \A a, b \in S : a # b => <<a, b>> \in R \/ <<b, a>> \in R
    /\ \A a, b, c \in S : <<a, b>> \in R /\ <<b, c>> \in R => <<a, c>> \in R

MapTyped ==
    /\ cached \subseteq Assets /\ IsFiniteSet(cached) /\ entry \in [Assets -> Objects]
    /\ older \subseteq cached \X cached /\ cachedBytes \in Nat

Held == cachedBytes = Total(Size, cached)

MapInv == MapTyped /\ Held /\ WithinBudget /\ Linear(older, cached)

VisitType ==
    {Gone} \union [at : {"waiting"}, key : Assets]
           \union [at : {"resumed"}, key : Assets, answer : Objects]

TrafficTyped ==
    /\ inflight \subseteq Assets /\ fetching \in [Assets -> Nat]
    /\ visit \in [Visits -> VisitType] /\ used \subseteq Assets \X Assets

\* While an asset is fetched it is not in the Map, and those that go on after
\* one fetch do so before there is another, so they agree on its answer.
Apart ==
    /\ inflight \intersect cached = {}
    /\ \A v \in Visits : visit[v].at = "resumed" =>
         /\ visit[v].key \notin inflight
         /\ ~Cacheable(visit[v].answer) => visit[v].key \notin cached
    /\ \A v, w \in Visits :
         /\ visit[v].at = "resumed" /\ visit[w].at = "resumed"
         /\ visit[v].key = visit[w].key
         => visit[v].answer = visit[w].answer

TrafficInv == TrafficTyped /\ OneFetchPerKey /\ NobodyForgotten /\ Apart

IInv == MapInv /\ TrafficInv /\ OrderIsUse

-----------------------------------------------------------------------------
(* The Map.                                                                *)

\* Setting a key counts its new length instead of the old one.
LEMMA CountIs ==
    ASSUME MapTyped, Held, NEW k \in Assets, NEW obj \in Objects
    PROVE  /\ IsFiniteSet(cached \union {k})
           /\ \A j \in cached \union {k} : SizeWith(k, obj)[j] \in Nat
           /\ CountWith(k, obj) = Total(SizeWith(k, obj), cached \union {k})
           /\ CountWith(k, obj) = obj.size + Total(SizeWith(k, obj), cached \ {k})
  <1> DEFINE rest == cached \ {k}  held == cached \union {k}  sizes == SizeWith(k, obj)
  <1>1. /\ IsFiniteSet(rest) /\ IsFiniteSet(held)
        /\ k \in held /\ held \ {k} = rest /\ held \subseteq Assets
    BY FS_Subset, FS_AddElement DEF MapTyped
  <1>2. Size \in [Assets -> Nat] /\ sizes \in [Assets -> Nat] /\ obj.size \in Nat
    BY DEF Size, SizeWith, MapTyped, Objects
  <1>3. sizes[k] = obj.size /\ \A j \in rest : sizes[j] = Size[j]
    BY <1>1 DEF Size, SizeWith
  <1> HIDE DEF rest, held, sizes
  <1>4. Total(sizes, rest) = Total(Size, rest)
    BY <1>1, <1>3, TotalSame
  <1>5. Total(sizes, held) = obj.size + Total(Size, rest)
    <2>1. \A j \in held : sizes[j] \in Nat
      BY <1>1, <1>2
    <2>2. Total(sizes, held) = sizes[k] + Total(sizes, held \ {k})
      BY <1>1, <2>1, TotalTakes
    <2> QED
      BY <1>1, <1>3, <1>4, <2>2
  <1>6. \A j \in rest : Size[j] \in Nat
    BY <1>1, <1>2
  <1>7. Total(Size, rest) \in Nat
    BY <1>1, <1>6, TotalType
  <1>8. cachedBytes = Counted(k) + Total(Size, rest) /\ Counted(k) \in Nat
    <2>1. CASE k \in cached
      <3>1. \A j \in cached : Size[j] \in Nat
        BY <1>2 DEF MapTyped
      <3>2. Total(Size, cached) = Size[k] + Total(Size, rest)
        BY <2>1, <3>1, TotalTakes DEF rest, MapTyped
      <3>3. Size[k] = Counted(k) /\ Size[k] \in Nat
        BY <1>2, <2>1 DEF Size, Counted
      <3> QED
        BY <3>2, <3>3 DEF Held
    <2>2. CASE k \notin cached
      <3>1. rest = cached /\ Counted(k) = 0
        BY <2>2 DEF rest, Counted
      <3> QED
        BY <1>7, <3>1 DEF Held
    <2> QED
      BY <2>1, <2>2
  <1>9. CountWith(k, obj) = obj.size + Total(Size, rest)
    BY <1>2, <1>7, <1>8 DEF CountWith
  <1> QED
    BY <1>1, <1>2, <1>4, <1>5, <1>9 DEF rest, held, sizes

\* The key that was set comes last in the order.
LEMMA OrderIs ==
    ASSUME MapInv, NEW k \in Assets
    PROVE  /\ Linear(Order(k), cached \union {k})
           /\ \A j \in cached \union {k} : <<k, j>> \notin Order(k)
           /\ Order(k) \subseteq (cached \union {k}) \X (cached \union {k})
  <1>1. \A a, b : <<a, b>> \in Order(k) <=>
                    \/ <<a, b>> \in older /\ a \in cached \ {k} /\ b \in cached \ {k}
                    \/ a \in cached \ {k} /\ b = k
    BY DEF Order, Without
  <1>2. Linear(older, cached)
    BY DEF MapInv
  <1>3. Order(k) \subseteq (cached \union {k}) \X (cached \union {k})
    BY DEF Order, Without
  <1> QED
    BY <1>1, <1>2, <1>3 DEF Linear

\* Evictions, by the total they leave.
LEMMA EvictionsAre ==
    ASSUME NEW k, NEW obj, NEW out
    PROVE  out \in Evictions(k, obj) <=>
             /\ out \in SUBSET (cached \union {k})
             /\ \A e \in Order(k) : e[2] \in out => e[1] \in out
             /\ CountWith(k, obj) - Total(SizeWith(k, obj), out) <= MaxBytes
             /\ \A j \in out :
                  CountWith(k, obj)
                    - Total(SizeWith(k, obj), {i \in out : <<i, j>> \in Order(k)}) > MaxBytes
  BY TotalIsSum DEF Evictions

\* store() leaves the count exact and within the budget.
LEMMA StoreKeeps ==
    ASSUME MapInv, NEW k \in Assets, NEW obj \in Objects, Store(k, obj)
    PROVE  MapInv'
  <1> DEFINE held == cached \union {k}  sizes == SizeWith(k, obj)
  <1>1. PICK out \in Evictions(k, obj) :
          /\ cached' = held \ out
          /\ entry' = [j \in Assets |-> IF j \in out THEN Nothing
                                        ELSE IF j = k THEN obj ELSE entry[j]]
          /\ older' = Order(k) \intersect (cached' \X cached')
          /\ cachedBytes' = CountWith(k, obj) - Total(sizes, out)
    BY TotalIsSum DEF Store
  <1>2. /\ IsFiniteSet(held) /\ \A j \in held : sizes[j] \in Nat
        /\ CountWith(k, obj) = Total(sizes, held)
    BY CountIs DEF MapInv
  <1>3. out \in SUBSET held /\ cachedBytes' <= MaxBytes
    BY <1>1, EvictionsAre
  <1>4. /\ IsFiniteSet(out) /\ IsFiniteSet(held \ out)
        /\ Total(sizes, out) \in Nat /\ Total(sizes, held \ out) \in Nat
    <2>1. IsFiniteSet(out) /\ IsFiniteSet(held \ out)
      BY <1>2, <1>3, FS_Subset
    <2>2. (\A j \in out : sizes[j] \in Nat) /\ (\A j \in held \ out : sizes[j] \in Nat)
      BY <1>2, <1>3
    <2> QED
      BY <2>1, <2>2, TotalType
  <1>5. cachedBytes' = Total(sizes, cached')
    <2>1. Total(sizes, held) = Total(sizes, out) + Total(sizes, held \ out)
      BY <1>2, <1>3, TotalSplit
    <2> QED
      BY <1>1, <1>2, <1>4, <2>1
  <1>6. entry' \in [Assets -> Objects]
    <2>1. Nothing \in Objects /\ entry \in [Assets -> Objects]
      BY DEF Nothing, Objects, MapInv, MapTyped
    <2> QED
      BY <1>1, <2>1
  <1>7. Held'
    <2>1. \A j \in cached' : sizes[j] = Size'[j]
      BY <1>1, <1>3 DEF Size, SizeWith, MapInv, MapTyped
    <2>2. Total(sizes, cached') = Total(Size', cached')
      BY <1>1, <1>4, <2>1, TotalSame
    <2> QED
      BY <1>5, <2>2 DEF Held
  <1>8. MapTyped'
    BY <1>1, <1>4, <1>5, <1>6 DEF MapTyped, MapInv
  <1>9. Linear(older', cached')
    BY <1>1, OrderIs DEF Linear
  <1>10. WithinBudget'
    BY <1>3 DEF WithinBudget
  <1> QED
    BY <1>7, <1>8, <1>9, <1>10 DEF MapInv

\* So does drop().
LEMMA DropKeeps ==
    ASSUME MapInv, NEW k \in Assets, Drop(k)
    PROVE  MapInv'
  <1>1. /\ cached' = cached \ {k} /\ entry' = [entry EXCEPT ![k] = Nothing]
        /\ older' = Without(k) /\ cachedBytes' = cachedBytes - Counted(k)
    BY DEF Drop
  <1>2. Nothing \in Objects /\ Nothing.size = 0
    BY DEF Nothing, Objects
  <1>3. /\ CountWith(k, Nothing) = Total(SizeWith(k, Nothing), cached \ {k})
        /\ IsFiniteSet(cached \ {k})
        /\ Total(SizeWith(k, Nothing), cached \ {k}) \in Nat
    <2>1. /\ IsFiniteSet(cached \union {k})
          /\ \A j \in cached \union {k} : SizeWith(k, Nothing)[j] \in Nat
          /\ CountWith(k, Nothing) = 0 + Total(SizeWith(k, Nothing), cached \ {k})
      BY <1>2, CountIs DEF MapInv
    <2>2. IsFiniteSet(cached \ {k}) /\ \A j \in cached \ {k} : SizeWith(k, Nothing)[j] \in Nat
      BY <2>1, FS_Subset
    <2>3. Total(SizeWith(k, Nothing), cached \ {k}) \in Nat
      BY <2>2, TotalType
    <2> QED
      BY <2>1, <2>2, <2>3
  <1>4. Counted(k) \in Nat /\ cachedBytes' = CountWith(k, Nothing)
    BY <1>1, <1>2 DEF CountWith, Counted, MapInv, MapTyped, Objects
  <1>5. Held'
    <2>1. \A j \in cached' : SizeWith(k, Nothing)[j] = Size'[j]
      BY <1>1, <1>2 DEF Size, SizeWith, MapInv, MapTyped
    <2>2. Total(SizeWith(k, Nothing), cached') = Total(Size', cached')
      BY <1>1, <1>3, <2>1, TotalSame
    <2> QED
      BY <1>1, <1>3, <1>4, <2>2 DEF Held
  <1>6. MapTyped'
    BY <1>1, <1>2, <1>3, <1>4 DEF MapTyped, MapInv, Without
  <1>7. Linear(older', cached')
    BY <1>1 DEF Linear, Without, MapInv
  <1>8. WithinBudget'
    BY <1>1, <1>4, <1>6, EdgeAssumption DEF WithinBudget, MapInv, MapTyped
  <1> QED
    BY <1>5, <1>6, <1>7, <1>8 DEF MapInv

\* Time takes no bytes.
LEMMA AgeingKeeps ==
    ASSUME MapInv, EdgeTick
    PROVE  MapInv'
  <1>1. /\ UNCHANGED <<cached, older, cachedBytes>>
        /\ entry' = [k \in Assets |-> [entry[k] EXCEPT !.ttl = IF @ > 0 THEN @ - 1 ELSE 0]]
    BY DEF EdgeTick
  <1>2. entry' \in [Assets -> Objects] /\ \A k \in Assets : entry'[k].size = entry[k].size
    BY <1>1 DEF MapInv, MapTyped, Objects
  <1>3. Size' = Size
    BY <1>2 DEF Size
  <1> QED
    BY <1>1, <1>2, <1>3 DEF MapInv, MapTyped, Held, WithinBudget, Linear

\* The loop of store() ends, before it comes to the key it was run for: of the
\* keys that it would take at least, none is one too many.
LEMMA LoopEnds ==
    ASSUME MapInv, NEW k \in Assets, NEW obj \in Objects, Cacheable(obj)
    PROVE  \E out \in Evictions(k, obj) : k \notin out
  <1> DEFINE rest == cached \ {k}  held == cached \union {k}
             sizes == SizeWith(k, obj)  count == CountWith(k, obj)
             Enough == {A \in SUBSET rest : /\ \A e \in Order(k) : e[2] \in A => e[1] \in A
                                            /\ count - Total(sizes, A) <= MaxBytes}
  <1>1. /\ IsFiniteSet(held) /\ \A j \in held : sizes[j] \in Nat
        /\ count = obj.size + Total(sizes, rest) /\ count = Total(sizes, held)
    BY CountIs DEF MapInv
  <1>2. /\ Linear(Order(k), held) /\ \A j \in held : <<k, j>> \notin Order(k)
        /\ Order(k) \subseteq held \X held
    BY OrderIs
  <1>3. ASSUME NEW A \in SUBSET held
        PROVE  IsFiniteSet(A) /\ Total(sizes, A) \in Nat
    <2>1. IsFiniteSet(A) /\ \A j \in A : sizes[j] \in Nat
      BY <1>1, FS_Subset
    <2> QED
      BY <2>1, TotalType
  <1>4. rest \in SUBSET held /\ count \in Nat
    BY <1>1, <1>3
  <1>5. rest \in Enough
    <2>1. \A e \in Order(k) : e[2] \in rest => e[1] \in rest
      BY <1>2
    <2>2. count - Total(sizes, rest) <= MaxBytes
      <3>1. obj.size \in Nat /\ obj.size <= MaxObjectBytes
        BY DEF Cacheable, Objects
      <3>2. Total(sizes, rest) \in Nat
        BY <1>3, <1>4
      <3> HIDE DEF rest, sizes, count
      <3> QED
        BY <1>1, <3>1, <3>2, EdgeAssumption
    <2> QED
      BY <2>1, <2>2
  <1>6. Enough \in SUBSET SUBSET rest /\ \A A \in Enough : IsFiniteSet(A)
    BY <1>3, <1>4
  <1> HIDE DEF Enough
  <1>7. PICK A \in Enough : \A B \in Enough : Cardinality(A) <= Cardinality(B)
    BY <1>5, <1>6, LeastSet
  <1>8. /\ A \in SUBSET rest /\ IsFiniteSet(A)
        /\ \A e \in Order(k) : e[2] \in A => e[1] \in A
        /\ count - Total(sizes, A) <= MaxBytes
    BY <1>6 DEF Enough
  <1>9. ASSUME NEW j \in A
        PROVE  count - Total(sizes, {i \in A : <<i, j>> \in Order(k)}) > MaxBytes
    <2> DEFINE B == {i \in A : <<i, j>> \in Order(k)}
    <2>1. B \in SUBSET rest /\ B \in SUBSET held /\ j \notin B /\ B \subseteq A \ {j}
      BY <1>2, <1>8 DEF Linear
    <2>2. \A e \in Order(k) : e[2] \in B => e[1] \in B
      <3> SUFFICES ASSUME NEW a \in held, NEW b \in B, <<a, b>> \in Order(k)
                   PROVE  a \in B
        BY <1>2
      <3>1. b \in A /\ <<b, j>> \in Order(k) /\ b \in held /\ j \in held
        BY <1>8
      <3>2. a \in A
        BY <1>8, <3>1
      <3>3. <<a, j>> \in Order(k)
        BY <1>2, <3>1 DEF Linear
      <3> QED
        BY <3>2, <3>3
    <2>3. /\ IsFiniteSet(A \ {j}) /\ Cardinality(A \ {j}) < Cardinality(A)
          /\ Cardinality(A \ {j}) \in Nat /\ Cardinality(A) \in Nat
      BY <1>8, Shrinks
    <2>4. Cardinality(B) <= Cardinality(A \ {j}) /\ Cardinality(B) \in Nat
      BY <2>1, <2>3, FS_Subset, FS_CardinalityType
    <2> HIDE DEF B
    <2>5. B \notin Enough
      BY <1>7, <2>3, <2>4
    <2>6. Total(sizes, B) \in Nat
      BY <1>3, <2>1
    <2>7. ~(count - Total(sizes, B) <= MaxBytes)
      BY <2>1, <2>2, <2>5 DEF Enough
    <2>8. count - Total(sizes, B) > MaxBytes
      <3> HIDE DEF count, sizes
      <3> QED
        BY <1>4, <2>6, <2>7, EdgeAssumption
    <2> QED
      BY <2>8 DEF B
  <1>10. A \in Evictions(k, obj)
    BY <1>4, <1>8, <1>9, EvictionsAre
  <1> QED
    BY <1>8, <1>10

\* store() adds no key but the one it is run for; what was last answered is
\* last in the order.
LEMMA StoreOrders ==
    ASSUME MapInv, OrderIsUse, NEW k \in Assets, NEW obj, Store(k, obj), Answered(k)
    PROVE  cached' \subseteq cached \union {k} /\ OrderIsUse'
  <1>1. /\ cached' \subseteq cached \union {k}
        /\ older' = Order(k) \intersect (cached' \X cached')
    BY DEF Store
  <1>2. cached \subseteq Assets
    BY DEF MapInv, MapTyped
  <1>3. used' = {e \in used : e[1] # k} \union ((Assets \ {k}) \X {k})
    BY DEF Answered
  <1>4. older = used \intersect (cached \X cached)
    BY DEF OrderIsUse
  <1>5. ASSUME NEW a \in cached', NEW b \in cached'
        PROVE  <<a, b>> \in Order(k) <=> <<a, b>> \in used'
    <2>1. <<a, b>> \in Order(k) <=>
            a \in cached \ {k} /\ (b = k \/ (b \in cached \ {k} /\ <<a, b>> \in older))
      BY DEF Order, Without
    <2>2. <<a, b>> \in used' <=> a # k /\ (<<a, b>> \in used \/ (a \in Assets /\ b = k))
      BY <1>3
    <2> QED
      BY <1>1, <1>2, <1>4, <2>1, <2>2
  <1> QED
    BY <1>1, <1>5 DEF OrderIsUse

\* An answer that is not cached changes nothing in the order of those that are.
LEMMA PassingOrders ==
    ASSUME OrderIsUse, NEW k, k \notin cached, Answered(k), UNCHANGED <<cached, older>>
    PROVE  OrderIsUse'
  BY DEF OrderIsUse, Answered

\* Nor does a drop.
LEMMA DropOrders ==
    ASSUME OrderIsUse, NEW k, Drop(k), UNCHANGED used
    PROVE  cached' = cached \ {k} /\ OrderIsUse'
  BY DEF OrderIsUse, Drop, Without

-----------------------------------------------------------------------------
(* The requests, one action at a time.                                     *)

LEMMA VisitsAre ==
    ASSUME TrafficTyped, NEW v \in Visits
    PROVE  /\ visit[v].at = "waiting" => visit[v].key \in Assets
           /\ visit[v].at = "resumed" => visit[v].key \in Assets /\ visit[v].answer \in Objects
           /\ visit[v] = Gone => visit[v].at = "gone"
  BY DEF TrafficTyped, VisitType, Gone

LEMMA HitKeeps ==
    ASSUME IInv, NEW k \in Assets, EdgeHit(k)
    PROVE  IInv'
  <1>1. Quiet /\ Fresh(k) /\ Store(k, entry[k]) /\ Answered(k)
        /\ UNCHANGED <<inflight, fetching, visit>>
    BY DEF EdgeHit
  <1>2. MapInv /\ TrafficInv /\ OrderIsUse /\ entry[k] \in Objects
    BY DEF IInv, MapInv, MapTyped
  <1>3. MapInv'
    BY <1>1, <1>2, StoreKeeps
  <1>4. cached' \subseteq cached /\ OrderIsUse'
    BY <1>1, <1>2, StoreOrders DEF Fresh
  <1>5. TrafficTyped'
    BY <1>1, <1>2 DEF TrafficInv, TrafficTyped, Answered
  <1>6. (OneFetchPerKey /\ NobodyForgotten /\ Apart)'
    BY <1>1, <1>2, <1>4 DEF TrafficInv, OneFetchPerKey, NobodyForgotten, Apart, Quiet
  <1> QED
    BY <1>3, <1>4, <1>5, <1>6 DEF IInv, TrafficInv

LEMMA MissKeeps ==
    ASSUME IInv, NEW v \in Visits, NEW k \in Assets, EdgeMiss(v, k)
    PROVE  IInv'
  <1>1. /\ Quiet /\ Drop(k) /\ UNCHANGED used
        /\ inflight' = inflight \union {k}
        /\ fetching' = [fetching EXCEPT ![k] = IF k \in inflight THEN @ ELSE @ + 1]
        /\ visit' = [visit EXCEPT ![v] = [at |-> "waiting", key |-> k]]
    BY DEF EdgeMiss
  <1>2. MapInv /\ TrafficInv /\ OrderIsUse
    BY DEF IInv
  <1>3. MapInv'
    BY <1>1, <1>2, DropKeeps
  <1>4. cached' = cached \ {k} /\ OrderIsUse'
    BY <1>1, <1>2, DropOrders
  <1>5. [at |-> "waiting", key |-> k] \in VisitType
    BY DEF VisitType
  <1>6. TrafficTyped'
    BY <1>1, <1>2, <1>5 DEF TrafficInv, TrafficTyped
  <1>7. OneFetchPerKey'
    BY <1>1, <1>2 DEF TrafficInv, TrafficTyped, OneFetchPerKey
  <1>8. \A w \in Visits : \/ visit'[w] = visit[w] /\ visit'[w].at # "resumed"
                          \/ visit'[w].at = "waiting" /\ visit'[w].key = k
    BY <1>1, <1>2 DEF Quiet, TrafficInv, TrafficTyped
  <1>9. NobodyForgotten'
    BY <1>1, <1>2, <1>8 DEF TrafficInv, NobodyForgotten
  <1>10. Apart'
    BY <1>1, <1>2, <1>4, <1>8 DEF TrafficInv, Apart
  <1> QED
    BY <1>3, <1>4, <1>6, <1>7, <1>9, <1>10 DEF IInv, TrafficInv

LEMMA AnswerKeeps ==
    ASSUME IInv, NEW k \in Assets, NEW obj \in Objects, OriginAnswers(k, obj)
    PROVE  IInv'
  <1> DEFINE on == [at |-> "resumed", key |-> k, answer |-> obj]
  <1>1. /\ fetching[k] > 0
        /\ fetching' = [fetching EXCEPT ![k] = @ - 1]
        /\ inflight' = inflight \ {k}
        /\ visit' = [w \in Visits |-> IF visit[w] = [at |-> "waiting", key |-> k]
                                      THEN on ELSE visit[w]]
        /\ UNCHANGED <<cached, entry, older, cachedBytes, used>>
    BY DEF OriginAnswers
  <1>2. MapInv /\ TrafficInv /\ OrderIsUse
    BY DEF IInv
  <1>3. MapInv'
    BY <1>1, <1>2 DEF MapInv, MapTyped, Held, Size, WithinBudget, Linear
  <1>4. OrderIsUse'
    BY <1>1, <1>2 DEF OrderIsUse
  <1>5. k \in inflight /\ fetching[k] = 1 /\ k \notin cached
    BY <1>1, <1>2 DEF TrafficInv, OneFetchPerKey, Apart
  <1>6. on \in VisitType
    BY DEF VisitType
  <1>7. TrafficTyped'
    BY <1>1, <1>2, <1>5, <1>6 DEF TrafficInv, TrafficTyped
  <1>8. OneFetchPerKey'
    BY <1>1, <1>2, <1>5 DEF TrafficInv, TrafficTyped, OneFetchPerKey
  <1> HIDE DEF on
  <1>9. on.at = "resumed" /\ on.key = k /\ on.answer = obj
    BY DEF on
  <1>10. ASSUME NEW w \in Visits
         PROVE  \/ visit'[w] = on
                \/ visit'[w] = visit[w] /\ (visit[w].at = "waiting" => visit[w].key # k)
    <2>1. visit[w].at = "waiting" => visit[w] = [at |-> "waiting", key |-> visit[w].key]
      BY <1>2 DEF TrafficInv, TrafficTyped, VisitType, Gone
    <2> QED
      BY <1>1, <2>1
  <1>11. NobodyForgotten'
    BY <1>1, <1>2, <1>9, <1>10 DEF TrafficInv, NobodyForgotten
  <1>12. \A w \in Visits : visit[w].at = "resumed" => visit[w].key # k
    BY <1>2, <1>5 DEF TrafficInv, Apart
  <1>13. Apart'
    BY <1>1, <1>2, <1>5, <1>9, <1>10, <1>12 DEF TrafficInv, Apart
  <1> QED
    BY <1>3, <1>4, <1>7, <1>8, <1>11, <1>13 DEF IInv, TrafficInv

LEMMA ContinueKeeps ==
    ASSUME IInv, NEW v \in Visits, Continue(v)
    PROVE  IInv'
  <1> DEFINE k == visit[v].key  obj == visit[v].answer
  <1>1. /\ visit[v].at = "resumed"
        /\ \/ Cacheable(obj) /\ Store(k, obj)
           \/ ~Cacheable(obj) /\ UNCHANGED <<cached, entry, older, cachedBytes>>
        /\ Answered(k)
        /\ visit' = [visit EXCEPT ![v] = Gone]
        /\ UNCHANGED <<inflight, fetching>>
    BY DEF Continue
  <1>2. MapInv /\ TrafficInv /\ OrderIsUse
    BY DEF IInv
  <1>3. k \in Assets /\ obj \in Objects /\ k \notin inflight
        /\ (~Cacheable(obj) => k \notin cached)
    BY <1>1, <1>2, VisitsAre DEF TrafficInv, Apart
  <1>4. \A w \in Visits : visit[w].at = "resumed" /\ visit[w].key = k => visit[w].answer = obj
    BY <1>1, <1>2 DEF TrafficInv, Apart
  <1> HIDE DEF k, obj
  <1>5. MapInv'
    <2>1. CASE Cacheable(obj) /\ Store(k, obj)
      BY <1>2, <1>3, <2>1, StoreKeeps
    <2>2. CASE UNCHANGED <<cached, entry, older, cachedBytes>>
      BY <1>2, <2>2 DEF MapInv, MapTyped, Held, Size, WithinBudget, Linear
    <2> QED
      BY <1>1, <2>1, <2>2
  <1>6. /\ cached' \subseteq cached \union {k} /\ OrderIsUse'
        /\ ~Cacheable(obj) => cached' = cached
    <2>1. CASE Cacheable(obj) /\ Store(k, obj)
      BY <1>1, <1>2, <1>3, <2>1, StoreOrders
    <2>2. CASE ~Cacheable(obj) /\ UNCHANGED <<cached, entry, older, cachedBytes>>
      BY <1>1, <1>2, <1>3, <2>2, PassingOrders
    <2> QED
      BY <1>1, <2>1, <2>2
  <1>7. TrafficTyped'
    BY <1>1, <1>2, <1>3 DEF TrafficInv, TrafficTyped, Answered, VisitType
  <1>8. \A w \in Visits : visit'[w] = visit[w] \/ visit'[w].at = "gone"
    BY <1>1, <1>2 DEF TrafficInv, TrafficTyped, Gone
  <1>9. (OneFetchPerKey /\ NobodyForgotten)'
    BY <1>1, <1>2, <1>8 DEF TrafficInv, OneFetchPerKey, NobodyForgotten
  <1>10. Apart'
    <2>1. (inflight \intersect cached = {})'
      BY <1>1, <1>2, <1>3, <1>6 DEF TrafficInv, Apart
    <2>2. ASSUME NEW w \in Visits, visit'[w].at = "resumed", ~Cacheable(visit'[w].answer)
          PROVE  visit'[w].key \notin cached'
      <3>1. visit'[w] = visit[w]
        BY <1>8, <2>2
      <3>2. visit[w].key \notin cached
        BY <1>2, <2>2, <3>1 DEF TrafficInv, Apart
      <3>3. visit[w].key = k => ~Cacheable(obj)
        BY <1>4, <2>2, <3>1
      <3> QED
        BY <1>6, <3>1, <3>2, <3>3
    <2>3. \A w \in Visits : (visit[w].at = "resumed" => visit[w].key \notin inflight)'
      BY <1>1, <1>2, <1>8 DEF TrafficInv, Apart
    <2>4. \A u, w \in Visits :
            (visit[u].at = "resumed" /\ visit[w].at = "resumed" /\ visit[u].key = visit[w].key
               => visit[u].answer = visit[w].answer)'
      BY <1>2, <1>8 DEF TrafficInv, Apart
    <2>5. \A w \in Visits : (visit[w].at = "resumed" =>
                               (~Cacheable(visit[w].answer) => visit[w].key \notin cached))'
      BY <2>2 DEF Cacheable
    <2> QED
      BY <2>1, <2>3, <2>4, <2>5 DEF Apart
  <1> QED
    BY <1>5, <1>6, <1>7, <1>9, <1>10 DEF IInv, TrafficInv

LEMMA TickKeeps ==
    ASSUME IInv, EdgeTick
    PROVE  IInv'
  <1>1. UNCHANGED <<cached, older, cachedBytes, inflight, fetching, visit, used>>
    BY DEF EdgeTick
  <1>2. MapInv /\ TrafficInv /\ OrderIsUse
    BY DEF IInv
  <1>3. MapInv'
    BY <1>2, AgeingKeeps
  <1>4. TrafficInv' /\ OrderIsUse'
    BY <1>1, <1>2 DEF TrafficInv, TrafficTyped, OneFetchPerKey, NobodyForgotten, Apart,
                     Cacheable, OrderIsUse
  <1> QED
    BY <1>3, <1>4 DEF IInv

-----------------------------------------------------------------------------
(* The theorems.                                                           *)

LEMMA EmptyEdge ==
    ASSUME EdgeInit
    PROVE  IInv
  <1>1. /\ cached = {} /\ entry = [k \in Assets |-> Nothing] /\ older = {} /\ cachedBytes = 0
        /\ inflight = {} /\ fetching = [k \in Assets |-> 0]
        /\ visit = [v \in Visits |-> Gone] /\ used = {}
    BY DEF EdgeInit
  <1>2. MapTyped
    BY <1>1, FS_EmptySet DEF MapTyped, Nothing, Objects
  <1>3. Held
    BY <1>1, TotalOfNone DEF Held
  <1>4. WithinBudget /\ Linear(older, cached) /\ OrderIsUse
    BY <1>1, EdgeAssumption DEF WithinBudget, Linear, OrderIsUse
  <1>5. TrafficTyped
    BY <1>1 DEF TrafficTyped, VisitType
  <1>6. OneFetchPerKey /\ NobodyForgotten /\ Apart
    BY <1>1 DEF OneFetchPerKey, NobodyForgotten, Apart, Gone
  <1> QED
    BY <1>2, <1>3, <1>4, <1>5, <1>6 DEF IInv, MapInv, TrafficInv

LEMMA NextKeeps ==
    ASSUME IInv, [EdgeNext]_edgeVars
    PROVE  IInv'
  <1>1. CASE \E k \in Assets : EdgeHit(k)
    BY <1>1, HitKeeps
  <1>2. CASE \E v \in Visits, k \in Assets : EdgeMiss(v, k)
    BY <1>2, MissKeeps
  <1>3. ASSUME NEW k \in Assets, NEW size \in BodyLengths, NEW ttl \in TTLs,
               OriginAnswers(k, [size |-> size, ttl |-> ttl])
        PROVE  IInv'
    <2>1. [size |-> size, ttl |-> ttl] \in Objects
      BY EdgeAssumption DEF Objects
    <2> QED
      BY <1>3, <2>1, AnswerKeeps
  <1>4. CASE \E v \in Visits : Continue(v)
    BY <1>4, ContinueKeeps
  <1>5. CASE EdgeTick
    BY <1>5, TickKeeps
  <1>6. CASE UNCHANGED edgeVars
    BY <1>6 DEF edgeVars, IInv, MapInv, MapTyped, Held, Size, WithinBudget, Linear, TrafficInv,
                TrafficTyped, OneFetchPerKey, NobodyForgotten, Apart, Cacheable, OrderIsUse
  <1> QED
    BY <1>1, <1>2, <1>3, <1>4, <1>5, <1>6 DEF EdgeNext

\* The inductive invariant holds in every behaviour of the edge.
THEOREM Invariance == EdgeSpec => []IInv
  BY EmptyEdge, NextKeeps, PTL DEF EdgeSpec

\* What a state of the invariant promises: the count is what the Map holds, and
\* whatever is stored next, the loop has something to evict until it may stop.
LEMMA SoundState ==
    ASSUME IInv
    PROVE  EdgeSound
  <1>1. MapInv /\ TrafficInv /\ OrderIsUse
    BY DEF IInv
  <1>2. EdgeTypeOK
    BY <1>1 DEF EdgeTypeOK, MapInv, MapTyped, TrafficInv, TrafficTyped, VisitType
  <1>3. BytesExact
    BY <1>1, TotalIsSum DEF BytesExact, MapInv, Held
  <1>4. EvictionEnds
    <2> SUFFICES ASSUME NEW k \in Assets, NEW size \in BodyLengths, NEW ttl \in TTLs,
                        Cacheable([size |-> size, ttl |-> ttl])
                 PROVE  \E out \in Evictions(k, [size |-> size, ttl |-> ttl]) : k \notin out
      BY DEF EvictionEnds
    <2>1. [size |-> size, ttl |-> ttl] \in Objects
      BY EdgeAssumption DEF Objects
    <2> QED
      BY <1>1, <2>1, LoopEnds
  <1> QED
    BY <1>1, <1>2, <1>3, <1>4 DEF EdgeSound, MapInv, TrafficInv

\* src/src/cdn/edge.ts keeps its promises, for any assets, requests, lengths and
\* lifetimes: "never above maxBytes" with a count that is exact, "one origin
\* fetch per key, however many requests miss at once" and nobody left waiting,
\* "the Map's first key is the least recently used", and an eviction loop that
\* ends before it throws out what it was run for.
THEOREM EdgeIsSound == EdgeSpec => []EdgeSound
  BY Invariance, SoundState, PTL

=============================================================================

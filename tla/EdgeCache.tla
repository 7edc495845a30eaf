----------------------------- MODULE EdgeCache ------------------------------
(***************************************************************************)
(* src/src/cdn/edge.ts: the cache in front of the bucket.  One process:    *)
(* a request runs to its end or to the one await it has, on the fetch of   *)
(* its asset, and when a fetch settles all that await it go on before the  *)
(* next request is looked at.  What the program counts, keeps in order and *)
(* joins is modelled; bodies are their lengths, headers the seconds that   *)
(* cacheableSeconds reads from them.  The origin is external.  What is     *)
(* refused before the Map is looked at (400, 405, 404) changes nothing.    *)
(***************************************************************************)
EXTENDS Integers, FiniteSets, Functions

CONSTANTS
    Assets,          \* keys under assets/
    Visits,          \* requests that may be open at once
    BodyLengths,     \* of the objects in the bucket
    TTLs,            \* what their Cache-Control comes to, 0 for not at all
    MaxBytes,
    MaxObjectBytes   \* already cut to MaxBytes, as createEdge() does

ASSUME EdgeAssumption ==
    /\ BodyLengths \subseteq Nat /\ TTLs \subseteq Nat
    /\ MaxBytes \in Nat /\ MaxObjectBytes \in 0 .. MaxBytes

VARIABLES
    cached,       \* the keys in the Map
    entry,        \* their lengths and the time they have left
    older,        \* the order of the Map: <<a, b>> when a was set before b
    cachedBytes,  \* stats.cachedBytes
    inflight,     \* the keys with a promise others can join
    fetching,     \* GETs the origin has not answered, by key
    visit,        \* each open request
    used          \* history: <<a, b>> when b was answered later than a

edgeVars == <<cached, entry, older, cachedBytes, inflight, fetching, visit, used>>

Objects == [size : Nat, ttl : Nat]
Nothing == [size |-> 0, ttl |-> 0]
Gone == [at |-> "gone"]

EdgeTypeOK ==
    /\ cached \subseteq Assets /\ entry \in [Assets -> Objects]
    /\ older \subseteq cached \X cached
    /\ cachedBytes \in Nat
    /\ inflight \subseteq Assets /\ fetching \in [Assets -> Nat]
    /\ visit \in [Visits -> {Gone}
                    \union [at : {"waiting"}, key : Assets]
                    \union [at : {"resumed"}, key : Assets, answer : Objects]]
    /\ used \subseteq Assets \X Assets

EdgeInit ==
    /\ cached = {} /\ entry = [k \in Assets |-> Nothing] /\ older = {} /\ cachedBytes = 0
    /\ inflight = {} /\ fetching = [k \in Assets |-> 0]
    /\ visit = [v \in Visits |-> Gone]
    /\ used = {}

-----------------------------------------------------------------------------
(* The Map and its byte count.                                             *)

Size == [k \in Assets |-> entry[k].size]

\* The part of the count that drop() takes off.
\* Faulty variant: the entry is deleted and its bytes stay counted.
CountedAlways(k) == 0

Counted(k) == IF k \in cached THEN entry[k].size ELSE 0

Without(k) == older \intersect ((cached \ {k}) \X (cached \ {k}))

Drop(k) ==
    /\ cached' = cached \ {k}
    /\ entry' = [entry EXCEPT ![k] = Nothing]
    /\ older' = Without(k)
    /\ cachedBytes' = cachedBytes - Counted(k)

\* The Map, its lengths and the count when k has just been set again.
Order(k) == Without(k) \union ((cached \ {k}) \X {k})
SizeWith(k, obj) == [Size EXCEPT ![k] = obj.size]
CountWith(k, obj) == cachedBytes - Counted(k) + obj.size

\* Faulty variant: if for while, one eviction however large the object.
EvictionsOfOne(k, obj) ==
    {out \in SUBSET (cached \union {k}) :
        /\ \A e \in Order(k) : e[2] \in out => e[1] \in out
        /\ Cardinality(out) = IF CountWith(k, obj) > MaxBytes THEN 1 ELSE 0}

\* What the loop of store() evicts: the oldest first, each while the count is
\* above the budget, until it is not.
Evictions(k, obj) ==
    {out \in SUBSET (cached \union {k}) :
        /\ \A e \in Order(k) : e[2] \in out => e[1] \in out
        /\ CountWith(k, obj) - SumFunctionOnSet(SizeWith(k, obj), out) <= MaxBytes
        /\ \A j \in out :
             LET before == {i \in out : <<i, j>> \in Order(k)} IN
             CountWith(k, obj) - SumFunctionOnSet(SizeWith(k, obj), before) > MaxBytes}

Store(k, obj) ==
    \E out \in Evictions(k, obj) :
        /\ cached' = (cached \union {k}) \ out
        /\ entry' = [j \in Assets |-> IF j \in out THEN Nothing
                                      ELSE IF j = k THEN obj ELSE entry[j]]
        /\ older' = Order(k) \intersect (cached' \X cached')
        /\ cachedBytes' = CountWith(k, obj) - SumFunctionOnSet(SizeWith(k, obj), out)

-----------------------------------------------------------------------------
(* Requests.                                                               *)

\* No continuation of an answered fetch is still to run: the event loop is free.
Quiet == \A v \in Visits : visit[v].at # "resumed"

Fresh(k) == k \in cached /\ entry[k].ttl > 0

\* Faulty variant: one large file may flush the rest.
CacheableAnySize(obj) == obj.ttl > 0

Cacheable(obj) == obj.ttl > 0 /\ obj.size <= MaxObjectBytes

Answered(k) == used' = {e \in used : e[1] # k} \union ((Assets \ {k}) \X {k})

\* Faulty variant: served where it is, and stays where it was in the order.
EdgeHitInPlace(k) ==
    /\ Quiet /\ Fresh(k) /\ Answered(k)
    /\ UNCHANGED <<cached, entry, older, cachedBytes, inflight, fetching, visit>>

EdgeHit(k) ==
    /\ Quiet /\ Fresh(k)
    /\ Store(k, entry[k]) /\ Answered(k)
    /\ UNCHANGED <<inflight, fetching, visit>>

\* Faulty variant: every miss asks the origin.
EdgeMissAlone(v, k) ==
    /\ Quiet /\ visit[v] = Gone /\ ~Fresh(k)
    /\ Drop(k)
    /\ inflight' = inflight \union {k}
    /\ fetching' = [fetching EXCEPT ![k] = @ + 1]
    /\ visit' = [visit EXCEPT ![v] = [at |-> "waiting", key |-> k]]
    /\ UNCHANGED used

\* A miss, which drops what has expired and joins the fetch under way.
EdgeMiss(v, k) ==
    /\ Quiet /\ visit[v] = Gone /\ ~Fresh(k)
    /\ Drop(k)
    /\ inflight' = inflight \union {k}
    /\ fetching' = [fetching EXCEPT ![k] = IF k \in inflight THEN @ ELSE @ + 1]
    /\ visit' = [visit EXCEPT ![v] = [at |-> "waiting", key |-> k]]
    /\ UNCHANGED used

\* Faulty variant: the promise is left for others to join.
OriginAnswersStay(k, obj) ==
    /\ fetching[k] > 0
    /\ fetching' = [fetching EXCEPT ![k] = @ - 1]
    /\ visit' = [v \in Visits |->
                   IF visit[v] = [at |-> "waiting", key |-> k]
                   THEN [at |-> "resumed", key |-> k, answer |-> obj] ELSE visit[v]]
    /\ UNCHANGED <<cached, entry, older, cachedBytes, inflight, used>>

\* storage.get() settles: the promise leaves the map, then its requests go on.
\* That there is no object or the origin fails is an answer not to be cached.
OriginAnswers(k, obj) ==
    /\ fetching[k] > 0
    /\ fetching' = [fetching EXCEPT ![k] = @ - 1]
    /\ inflight' = inflight \ {k}
    /\ visit' = [v \in Visits |->
                   IF visit[v] = [at |-> "waiting", key |-> k]
                   THEN [at |-> "resumed", key |-> k, answer |-> obj] ELSE visit[v]]
    /\ UNCHANGED <<cached, entry, older, cachedBytes, used>>

\* A request after its await: each of those that joined stores the object.
Continue(v) ==
    /\ visit[v].at = "resumed"
    /\ \/ Cacheable(visit[v].answer) /\ Store(visit[v].key, visit[v].answer)
       \/ ~Cacheable(visit[v].answer) /\ UNCHANGED <<cached, entry, older, cachedBytes>>
    /\ Answered(visit[v].key)
    /\ visit' = [visit EXCEPT ![v] = Gone]
    /\ UNCHANGED <<inflight, fetching>>

EdgeTick ==
    /\ Quiet
    /\ entry' = [k \in Assets |-> [entry[k] EXCEPT !.ttl = IF @ > 0 THEN @ - 1 ELSE 0]]
    /\ UNCHANGED <<cached, older, cachedBytes, inflight, fetching, visit, used>>

EdgeNext ==
    \/ \E k \in Assets : EdgeHit(k)
    \/ \E v \in Visits, k \in Assets : EdgeMiss(v, k)
    \/ \E k \in Assets, size \in BodyLengths, ttl \in TTLs :
         OriginAnswers(k, [size |-> size, ttl |-> ttl])
    \/ \E v \in Visits : Continue(v)
    \/ EdgeTick

EdgeSpec == EdgeInit /\ [][EdgeNext]_edgeVars

-----------------------------------------------------------------------------
(* Properties.                                                             *)

\* stats.cachedBytes is what the Map holds, however many requests store one
\* object and whatever expired meanwhile: the loop that evicts goes by it.
BytesExact == cachedBytes = SumFunctionOnSet(Size, cached)

\* "never above maxBytes"
WithinBudget == cachedBytes <= MaxBytes

\* "One origin fetch per key, however many requests miss at once."
OneFetchPerKey == \A k \in Assets : fetching[k] = IF k \in inflight THEN 1 ELSE 0

\* Nobody awaits a promise that has settled: no request is forgotten.
NobodyForgotten == \A v \in Visits : visit[v].at = "waiting" => visit[v].key \in inflight

\* "The Map's first key is the least recently used."
OrderIsUse == older = used \intersect (cached \X cached)

\* Whatever is to be stored next, the loop of store() ends, and it ends before
\* it evicts what it was run for.
EvictionEnds ==
    \A k \in Assets, size \in BodyLengths, ttl \in TTLs :
        LET obj == [size |-> size, ttl |-> ttl] IN
        Cacheable(obj) => \E out \in Evictions(k, obj) : k \notin out

EdgeSound ==
    /\ EdgeTypeOK
    /\ BytesExact /\ WithinBudget
    /\ OneFetchPerKey /\ NobodyForgotten
    /\ OrderIsUse /\ EvictionEnds

=============================================================================

------------------------ MODULE MetadataCacheProofs ------------------------
(***************************************************************************)
(* Theorems about MetadataCache, for every number of documents, handlers   *)
(* and publications and every lifetime and size of the cache.              *)
(***************************************************************************)
EXTENDS MetadataCache, FiniteSetTheorems, TLAPS

\* A cached document was the published one when its lifetime started, which
\* is in the past.
CachedOnTime ==
    \A id \in DOMAIN metadata :
        /\ metadata[id].expires - TTL <= now
        /\ PublishedSince(id, metadata[id].doc, metadata[id].expires - TTL)

\* A fetched document was the published one after its handler began.
FetchedOnTime ==
    \A h \in Handlers :
        /\ handler[h].at # "idle" => handler[h].began <= now
        /\ handler[h].at = "fetched" =>
               PublishedSince(handler[h].id, handler[h].doc, handler[h].began)

Finite == IsFiniteSet(DOMAIN metadata)

IInv == TypeOK /\ CachedOnTime /\ FetchedOnTime /\ Finite /\ CacheBounded

USE TTLAssumption, SizeAssumption, BoundAssumption

----------------------------------------------------------------------------
LEMMA InitOK == Init => IInv
<1> SUFFICES ASSUME Init PROVE IInv
  OBVIOUS
<1>1. DOMAIN metadata = {}
  BY DEF Init
<1>2. Finite /\ CacheBounded
  BY <1>1, FS_EmptySet DEF Finite, CacheBounded
<1>3. TypeOK
  BY <1>1 DEF Init, TypeOK, HandlerState, Idle
<1>4. CachedOnTime /\ FetchedOnTime
  BY <1>1 DEF Init, CachedOnTime, FetchedOnTime, Idle
<1> QED
  BY <1>2, <1>3, <1>4 DEF IInv

\* Publishing only adds to what is known of a document, so what was true of
\* a version since some past time stays true.
LEMMA PublishKeeps ==
    ASSUME TypeOK, NEW id \in Ids, Publish(id),
           NEW i \in Ids, NEW doc \in Nat \ {0}, NEW t \in Int, t <= now,
           PublishedSince(i, doc, t)
    PROVE  PublishedSince(i, doc, t)'
<1>1. CASE i # id
  BY <1>1 DEF Publish, PublishedSince, Published, TypeOK
<1>2. CASE i = id
  <2>1. replaced'[id] = Append(replaced[id], now) /\ replaced[id] \in Seq(Nat) /\ now \in Nat
    BY DEF Publish, TypeOK
  <2>2. /\ Len(replaced'[id]) = Len(replaced[id]) + 1
        /\ replaced'[id][Len(replaced[id]) + 1] = now
        /\ \A k \in 1..Len(replaced[id]) : replaced'[id][k] = replaced[id][k]
        /\ Len(replaced[id]) \in Nat
    BY <2>1
  <2> QED
    BY <1>2, <2>2 DEF PublishedSince, Published
<1> QED
  BY <1>1, <1>2

\* Storing a document is the step that changes the cache: what is kept of
\* it stays fresh, the new entry is as fresh as the handler's fetch, and
\* there is room for it.
LEMMA StoreOK ==
    ASSUME IInv, NEW h \in Handlers, Store(h)
    PROVE  IInv'
<1> DEFINE f == handler[h]
           kept == Kept(f.began)
<1>1. /\ f.id \in Ids /\ f.began \in Nat /\ f.doc \in Nat \ {0} /\ f.began <= now
      /\ PublishedSince(f.id, f.doc, f.began)
  BY DEF Store, IInv, TypeOK, FetchedOnTime, HandlerState, Idle
<1>2. kept \subseteq DOMAIN metadata /\ (kept = {} \/ Cardinality(kept) < MaxCached)
  <2> DEFINE live == {id \in DOMAIN metadata : f.began < metadata[id].expires}
  <2>1. live \subseteq DOMAIN metadata /\ IsFiniteSet(DOMAIN metadata)
    BY DEF IInv, Finite
  <2>2. IsFiniteSet(live)
    BY <2>1, FS_Subset
  <2>3. Cardinality(live) \in Nat
    BY <2>2, FS_CardinalityType
  <2>4. kept = IF Cardinality(live) >= MaxCached THEN {} ELSE live
    BY DEF Kept
  <2> HIDE DEF live, kept
  <2> QED
    BY <2>1, <2>3, <2>4
<1>3. DOMAIN metadata' = kept \cup {f.id}
  BY DEF Store
<1>4. IsFiniteSet(kept)
  BY <1>2, FS_Subset DEF IInv, Finite
<1>5. Finite' /\ Cardinality(DOMAIN metadata') =
                     IF f.id \in kept THEN Cardinality(kept) ELSE Cardinality(kept) + 1
  BY <1>3, <1>4, FS_AddElement DEF Finite
<1>6. CacheBounded'
  <2>1. CASE kept = {}
    BY <2>1, <1>5, FS_EmptySet DEF CacheBounded
  <2>2. CASE Cardinality(kept) < MaxCached
    <3>1. Cardinality(kept) \in Nat
      BY <1>4, FS_CardinalityType
    <3> QED
      BY <2>2, <3>1, <1>5 DEF CacheBounded
  <2> QED
    BY <1>2, <2>1, <2>2
<1>7. \A id \in DOMAIN metadata' :
          metadata'[id] = IF id = f.id THEN [doc |-> f.doc, expires |-> f.began + TTL]
                                       ELSE metadata[id]
  BY <1>3 DEF Store, ExpiresAt
<1>8. handler' = [handler EXCEPT ![h] = Idle] /\ UNCHANGED <<now, replaced>>
  BY DEF Store
<1>9. TypeOK'
  <2>1. DOMAIN metadata' \subseteq Ids
    BY <1>1, <1>2, <1>3 DEF IInv, TypeOK
  <2>2. \A id \in DOMAIN metadata' : metadata'[id] \in Entry
    <3>1. [doc |-> f.doc, expires |-> f.began + TTL] \in Entry
      BY <1>1 DEF Entry
    <3>2. \A id \in DOMAIN metadata : metadata[id] \in Entry
      BY DEF IInv, TypeOK
    <3>3. \A id \in DOMAIN metadata' : id # f.id => id \in DOMAIN metadata
      BY <1>2, <1>3
    <3> HIDE DEF f
    <3> QED
      BY <3>1, <3>2, <3>3, <1>7
  <2>3. metadata' = [id \in DOMAIN metadata' |-> metadata'[id]]
    BY DEF Store
  <2>4. metadata' \in [DOMAIN metadata' -> Entry]
    BY <2>2, <2>3
  <2>5. handler' \in [Handlers -> HandlerState]
    BY <1>8 DEF IInv, TypeOK, HandlerState, Idle
  <2> QED
    BY <2>1, <2>4, <2>5, <1>8 DEF IInv, TypeOK
<1>10. CachedOnTime'
  <2> SUFFICES ASSUME NEW id \in DOMAIN metadata'
               PROVE  /\ metadata'[id].expires - TTL <= now
                      /\ PublishedSince(id, metadata'[id].doc, metadata'[id].expires - TTL)
    BY <1>8 DEF CachedOnTime, PublishedSince, Published
  <2>1. CASE id = f.id
    <3>1. metadata'[id].doc = f.doc /\ metadata'[id].expires = f.began + TTL
      BY <1>7, <2>1
    <3>2. metadata'[id].expires - TTL = f.began
      BY <3>1, <1>1
    <3> QED
      BY <2>1, <3>1, <3>2, <1>1
  <2>2. CASE id # f.id
    BY <2>2, <1>2, <1>3, <1>7 DEF IInv, CachedOnTime
  <2> QED
    BY <2>1, <2>2
<1>11. FetchedOnTime'
  BY <1>8 DEF IInv, TypeOK, FetchedOnTime, Idle, PublishedSince, Published
<1> QED
  BY <1>5, <1>6, <1>9, <1>10, <1>11 DEF IInv

\* The other steps leave the cache alone or empty it.
LEMMA StepOK == IInv /\ [Next]_vars => IInv'
<1> SUFFICES ASSUME IInv, [Next]_vars PROVE IInv'
  OBVIOUS
<1>1. CASE UNCHANGED vars
  BY <1>1 DEF vars, IInv, TypeOK, CachedOnTime, FetchedOnTime, Finite, CacheBounded,
              PublishedSince, Published
<1>2. CASE Tick
  <2>1. now' = now + 1 /\ UNCHANGED <<replaced, metadata, handler>>
    BY <1>2 DEF Tick
  <2>2. TypeOK' /\ Finite' /\ CacheBounded'
    BY <2>1 DEF IInv, TypeOK, Finite, CacheBounded
  <2>3. CachedOnTime'
    BY <2>1 DEF IInv, TypeOK, Entry, CachedOnTime, PublishedSince, Published
  <2>4. FetchedOnTime'
    BY <2>1 DEF IInv, TypeOK, HandlerState, Idle, FetchedOnTime, PublishedSince, Published
  <2> QED
    BY <2>2, <2>3, <2>4 DEF IInv
<1>3. CASE Restart
  <2>1. DOMAIN metadata' = {} /\ metadata' = [id \in {} |-> id] /\ UNCHANGED <<now, replaced>>
        /\ handler' = [h \in Handlers |-> Idle]
    BY <1>3 DEF Restart
  <2>2. Finite' /\ CacheBounded'
    BY <2>1, FS_EmptySet DEF Finite, CacheBounded
  <2>3. TypeOK' /\ CachedOnTime' /\ FetchedOnTime'
    BY <2>1 DEF IInv, TypeOK, HandlerState, Idle, CachedOnTime, FetchedOnTime
  <2> QED
    BY <2>2, <2>3 DEF IInv
<1>4. CASE \E id \in Ids : Publish(id)
  <2>1. PICK id \in Ids : Publish(id)
    BY <1>4
  <2>2. UNCHANGED <<now, metadata, handler>> /\ replaced' = [replaced EXCEPT ![id] = Append(@, now)]
    BY <2>1 DEF Publish
  <2>3. TypeOK' /\ Finite' /\ CacheBounded'
    BY <2>2 DEF IInv, TypeOK, Finite, CacheBounded
  <2>4. CachedOnTime'
    <3> SUFFICES ASSUME NEW i \in DOMAIN metadata
                 PROVE  /\ metadata[i].expires - TTL <= now
                        /\ PublishedSince(i, metadata[i].doc, metadata[i].expires - TTL)'
      BY <2>2 DEF CachedOnTime
    <3>1. /\ i \in Ids /\ metadata[i].doc \in Nat \ {0} /\ metadata[i].expires - TTL \in Int
          /\ metadata[i].expires - TTL <= now
          /\ PublishedSince(i, metadata[i].doc, metadata[i].expires - TTL)
      BY DEF IInv, TypeOK, Entry, CachedOnTime
    <3>2. \A d \in Nat \ {0}, t \in Int :
              t <= now /\ PublishedSince(i, d, t) => PublishedSince(i, d, t)'
      BY <2>1, <3>1, PublishKeeps DEF IInv
    <3>3. /\ metadata[i].doc = metadata'[i].doc
          /\ metadata[i].expires = metadata'[i].expires
      BY <2>2
    <3> QED
      BY <3>1, <3>2, <3>3 DEF PublishedSince, Published
  <2>5. FetchedOnTime'
    <3> SUFFICES ASSUME NEW h \in Handlers
                 PROVE  /\ handler[h].at # "idle" => handler[h].began <= now
                        /\ handler[h].at = "fetched" =>
                               PublishedSince(handler[h].id, handler[h].doc, handler[h].began)'
      BY <2>2 DEF FetchedOnTime
    <3>1. handler[h].at # "idle" => handler[h].began <= now
      BY DEF IInv, FetchedOnTime
    <3>2. ASSUME handler[h].at = "fetched"
          PROVE  PublishedSince(handler[h].id, handler[h].doc, handler[h].began)'
      <4>1. /\ handler[h].id \in Ids /\ handler[h].doc \in Nat \ {0}
            /\ handler[h].began \in Int /\ handler[h].began <= now
            /\ PublishedSince(handler[h].id, handler[h].doc, handler[h].began)
        BY <3>2 DEF IInv, TypeOK, HandlerState, Idle, FetchedOnTime
      <4>2. \A j \in Ids, d \in Nat \ {0}, t \in Int :
               t <= now /\ PublishedSince(j, d, t) => PublishedSince(j, d, t)'
        BY <2>1, PublishKeeps DEF IInv
      <4>3. handler' = handler
        BY <2>2
      <4> QED
        BY <4>1, <4>2, <4>3 DEF PublishedSince, Published
    <3> QED
      BY <3>1, <3>2
  <2> QED
    BY <2>3, <2>4, <2>5, <2>2 DEF IInv
<1>5. ASSUME NEW h \in Handlers,
             (\E id \in Ids : Ask(h, id)) \/ Hit(h) \/ Miss(h) \/ Fetch(h) \/ FetchFails(h)
      PROVE  IInv'
  <2>1. UNCHANGED <<now, replaced, metadata>>
    BY <1>5 DEF Ask, Hit, Miss, Fetch, FetchFails
  <2>2. CachedOnTime' /\ Finite' /\ CacheBounded'
    BY <2>1 DEF IInv, CachedOnTime, Finite, CacheBounded, PublishedSince, Published
  <2>3. TypeOK' /\ FetchedOnTime'
    <3>1. CASE \E id \in Ids : Ask(h, id)
      BY <3>1, <2>1 DEF Ask, Looking, IInv, TypeOK, HandlerState, Idle, FetchedOnTime,
                        PublishedSince, Published
    <3>4. CASE Miss(h)
      BY <3>4, <2>1 DEF Miss, Fetching, IInv, TypeOK, HandlerState, Idle, FetchedOnTime,
                        PublishedSince, Published
    <3>5. CASE Hit(h)
      BY <3>5, <2>1 DEF Hit, IInv, TypeOK, HandlerState, Idle, FetchedOnTime,
                        PublishedSince, Published
    <3>2. CASE Fetch(h)
      <4> DEFINE id == handler[h].id
                 began == handler[h].began
      <4>1. id \in Ids /\ began \in Nat /\ began <= now
        BY <3>2 DEF Fetch, IInv, TypeOK, HandlerState, Idle, FetchedOnTime
      <4>2. Published(id) \in Nat \ {0}
        BY <4>1 DEF Published, IInv, TypeOK
      <4>3. handler' = [handler EXCEPT ![h] = Fetched(id, began, Published(id))]
        BY <3>2 DEF Fetch
      <4>4. Fetched(id, began, Published(id)) \in HandlerState
        BY <4>1, <4>2 DEF Fetched, HandlerState
      <4>5. TypeOK'
        BY <4>3, <4>4, <2>1 DEF IInv, TypeOK
      <4>6. \A g \in Handlers : g # h => handler'[g] = handler[g]
        BY <4>3 DEF IInv, TypeOK
      <4>7. handler'[h] = Fetched(id, began, Published(id))
        BY <4>3 DEF IInv, TypeOK
      <4>8. handler'[h].began <= now' /\
            PublishedSince(handler'[h].id, handler'[h].doc, handler'[h].began)
        BY <4>7, <4>1, <2>1 DEF Fetched, PublishedSince
      <4>9. FetchedOnTime'
        BY <4>6, <4>8, <2>1 DEF IInv, FetchedOnTime, PublishedSince, Published
      <4> QED
        BY <4>5, <4>9
    <3>3. CASE FetchFails(h)
      BY <3>3, <2>1 DEF FetchFails, IInv, TypeOK, HandlerState, Idle, FetchedOnTime,
                        PublishedSince, Published
    <3> QED
      BY <1>5, <3>1, <3>2, <3>3, <3>4, <3>5
  <2> QED
    BY <2>2, <2>3 DEF IInv
<1> QED
  BY <1>1, <1>2, <1>3, <1>4, <1>5, StoreOK DEF Next

LEMMA Invariance == Spec => []IInv
  BY InitOK, StepOK, PTL DEF Spec

----------------------------------------------------------------------------
\* Every variable has its type in every reachable state.
THEOREM TypeCorrect == Spec => []TypeOK
<1>1. IInv => TypeOK
  BY DEF IInv
<1> QED
  BY <1>1, Invariance, PTL

\* A handler is answered from the cache with what was the published document
\* less than TTL before it read the clock, however many handlers fetch at once,
\* in whatever order they store, and however long it waits (metadataClient).
THEOREM Freshness == Spec => []HitsAreFresh
<1>1. IInv => HitsAreFresh
  <2> SUFFICES ASSUME IInv, NEW h \in Handlers, handler[h].at = "looking",
                      Cached(handler[h].id, handler[h].began)
               PROVE  PublishedSince(handler[h].id, metadata[handler[h].id].doc,
                                     handler[h].began - TTL + 1)
    BY DEF HitsAreFresh
  <2> DEFINE id == handler[h].id
             t == handler[h].began
  <2>1. id \in Ids /\ t \in Nat
    BY DEF IInv, TypeOK, HandlerState, Idle
  <2>2. id \in DOMAIN metadata /\ t < metadata[id].expires
    BY DEF Cached
  <2> HIDE DEF id, t
  <2>3. metadata[id] \in Entry /\ replaced[id] \in Seq(Nat)
    BY <2>1, <2>2 DEF IInv, TypeOK
  <2>4. metadata[id].doc \in Nat \ {0} /\ metadata[id].expires \in Nat
    BY <2>3 DEF Entry
  <2>5. PublishedSince(id, metadata[id].doc, metadata[id].expires - TTL)
    BY <2>2 DEF IInv, CachedOnTime
  <2>6. (\A k \in 1..Len(replaced[id]) : replaced[id][k] \in Nat) /\ Len(replaced[id]) \in Nat
    BY <2>3
  <2>7. PublishedSince(id, metadata[id].doc, t - TTL + 1)
    BY <2>1, <2>2, <2>4, <2>5, <2>6 DEF PublishedSince, Published
  <2> QED
    BY <2>7 DEF id, t
<1> QED
  BY <1>1, Invariance, PTL

\* The cache never exceeds its limit (metadataClient).
THEOREM CacheSafety == Spec => []CacheBounded
<1>1. IInv => CacheBounded
  BY DEF IInv
<1> QED
  BY <1>1, Invariance, PTL

============================================================================

--------------------------- MODULE MetadataCache ---------------------------
(***************************************************************************)
(* The cache of client ID metadata documents (Server.metadata), filled by  *)
(* metadataClient while it answers authorization requests.                 *)
(*                                                                         *)
(* A handler reads the clock once, before anything else, and goes by that  *)
(* reading to the end.  It looks the client up under Server.mu, fetches    *)
(* the document with the lock released, and takes the lock again to store  *)
(* it.  Several handlers may fetch the same document at once and store it  *)
(* in any order, and the owner of the document may publish a new one at    *)
(* any time.                                                               *)
(***************************************************************************)
EXTENDS Integers, FiniteSets, Sequences, Functions

CONSTANTS
    Ids,             \* client ids that are URLs
    Handlers,        \* authorize requests being served
    TTL,             \* clientMetadataTTL
    MaxCached,       \* maxCachedMetadata
    MaxTime, LastVersion   \* bounds

ASSUME TTLAssumption == TTL \in Nat
ASSUME SizeAssumption == MaxCached \in Nat \ {0}
ASSUME BoundAssumption == MaxTime \in Nat /\ LastVersion \in Nat

VARIABLES
    now,         \* the clock
    replaced,    \* for each id, when each of its former documents was replaced
    metadata,    \* Server.metadata: the cached version and when it expires
    handler      \* what each handler is doing

vars == <<now, replaced, metadata, handler>>

\* The documents of an id are numbered as they are published.
Published(id) == Len(replaced[id]) + 1

Entry == [doc : Nat \ {0}, expires : Nat]

Idle == [at |-> "idle"]
Looking(id, began) == [at |-> "looking", id |-> id, began |-> began]
Fetching(id, began) == [at |-> "fetching", id |-> id, began |-> began]
Fetched(id, began, doc) == [at |-> "fetched", id |-> id, began |-> began, doc |-> doc]

HandlerState ==
    {Idle}
    \cup [at : {"looking", "fetching"}, id : Ids, began : Nat]
    \cup [at : {"fetched"}, id : Ids, began : Nat, doc : Nat \ {0}]

\* Is there a document of id to answer with, for a handler that began at t?
Cached(id, t) == id \in DOMAIN metadata /\ t < metadata[id].expires

----------------------------------------------------------------------------
\* metadataClient reads the clock,
Ask(h, id) ==
    /\ handler[h] = Idle
    /\ handler' = [handler EXCEPT ![h] = Looking(id, now)]
    /\ UNCHANGED <<now, replaced, metadata>>

\* and gets the lock, maybe much later: the document is cached,
Hit(h) ==
    /\ handler[h].at = "looking"
    /\ Cached(handler[h].id, handler[h].began)
    /\ handler' = [handler EXCEPT ![h] = Idle]
    /\ UNCHANGED <<now, replaced, metadata>>

\* or it is not, and the handler goes and fetches it.
Miss(h) ==
    /\ handler[h].at = "looking"
    /\ LET f == handler[h]
       IN  /\ ~ Cached(f.id, f.began)
           /\ handler' = [handler EXCEPT ![h] = Fetching(f.id, f.began)]
    /\ UNCHANGED <<now, replaced, metadata>>

\* The document is read at some moment of the fetch.
Fetch(h) ==
    /\ handler[h].at = "fetching"
    /\ LET f == handler[h]
       IN  handler' = [handler EXCEPT ![h] = Fetched(f.id, f.began, Published(f.id))]
    /\ UNCHANGED <<now, replaced, metadata>>

\* The fetch fails, or what it returns is not valid: nothing is cached.
FetchFails(h) ==
    /\ handler[h].at \in {"fetching", "fetched"}
    /\ handler' = [handler EXCEPT ![h] = Idle]
    /\ UNCHANGED <<now, replaced, metadata>>

\* (A faulty ExpiresAt: the lifetime starts when the document is stored.)
ExpiresAtStore(f) == now + TTL

\* The lifetime of a document starts before its fetch.
ExpiresAt(f) == f.began + TTL

\* (A faulty Kept: a full cache is not cleared.)
KeptAll(t) == {id \in DOMAIN metadata : t < metadata[id].expires}

\* What is left of the cache when a handler that began at time t makes room:
\* the entries not expired by then, or nothing if they fill the cache.
Kept(t) ==
    LET live == {id \in DOMAIN metadata : t < metadata[id].expires}
    IN  IF Cardinality(live) >= MaxCached THEN {} ELSE live

Store(h) ==
    /\ handler[h].at = "fetched"
    /\ LET f == handler[h]
           kept == Kept(f.began)
       IN  metadata' = [id \in kept \cup {f.id} |->
                           IF id = f.id THEN [doc |-> f.doc, expires |-> ExpiresAt(f)]
                                        ELSE metadata[id]]
    /\ handler' = [handler EXCEPT ![h] = Idle]
    /\ UNCHANGED <<now, replaced>>

----------------------------------------------------------------------------
\* The owner of a document replaces it.
Publish(id) ==
    /\ Published(id) < LastVersion
    /\ replaced' = [replaced EXCEPT ![id] = Append(@, now)]
    /\ UNCHANGED <<now, metadata, handler>>

Restart ==
    /\ metadata' = [id \in {} |-> id]
    /\ handler' = [h \in Handlers |-> Idle]
    /\ UNCHANGED <<now, replaced>>

Tick ==
    /\ now < MaxTime
    /\ now' = now + 1
    /\ UNCHANGED <<replaced, metadata, handler>>

Init ==
    /\ now = 0
    /\ replaced = [id \in Ids |-> <<>>]
    /\ metadata = [id \in {} |-> id]
    /\ handler = [h \in Handlers |-> Idle]

Next ==
    \/ Tick
    \/ Restart
    \/ \E id \in Ids : Publish(id)
    \/ \E h \in Handlers :
           \/ \E id \in Ids : Ask(h, id)
           \/ Hit(h)
           \/ Miss(h)
           \/ Fetch(h)
           \/ FetchFails(h)
           \/ Store(h)

Spec == Init /\ [][Next]_vars

----------------------------------------------------------------------------
TypeOK ==
    /\ now \in Nat
    /\ replaced \in [Ids -> Seq(Nat)]
    /\ DOMAIN metadata \subseteq Ids
    /\ metadata \in [DOMAIN metadata -> Entry]
    /\ handler \in [Handlers -> HandlerState]

\* Version doc of id was the published one at time t or later.
PublishedSince(id, doc, t) ==
    \/ doc = Published(id)
    \/ doc < Published(id) /\ replaced[id][doc] >= t

\* Whatever handlers fetched and in whatever order they stored it, a handler
\* is not answered with a document that had been replaced for TTL or longer
\* when it read the clock, however long it then waited for the lock: the
\* lifetime is counted from before the fetch (metadataClient).
HitsAreFresh ==
    \A h \in Handlers :
        LET f == handler[h]
        IN  f.at = "looking" /\ Cached(f.id, f.began)
                => PublishedSince(f.id, metadata[f.id].doc, f.began - TTL + 1)

\* The cache never holds more than its limit, even though each handler makes
\* room by the clock it read before its fetch.
CacheBounded == Cardinality(DOMAIN metadata) <= MaxCached

============================================================================

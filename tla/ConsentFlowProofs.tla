------------------------- MODULE ConsentFlowProofs -------------------------
(***************************************************************************)
(* Safety of the consent flow for any number of owners, requests and       *)
(* submissions at once, every lifetime and every limit.                    *)
(***************************************************************************)
EXTENDS ConsentFlow, FiniteSetTheorems, TLAPS

----------------------------------------------------------------------------
(***************************************************************************)
(* The invariant.                                                          *)
(***************************************************************************)
Record == [email : Owners, limitable : BOOLEAN, approvals : SUBSET Decision]

\* The types, said of each entry.
Types ==
    /\ DOMAIN pending \subseteq Requests /\ \A r \in DOMAIN pending : pending[r] \in Pending
    /\ DOMAIN codes \subseteq Requests /\ \A r \in DOMAIN codes : codes[r] \in Code
    /\ handler \in [Handlers -> Decision \cup {Idle}]
    /\ DOMAIN history = InUse
    /\ \A r \in InUse : history[r] \in Record
    /\ answer \in {"page", "busy"}

\* A request is in one place.
OnePlace ==
    /\ DOMAIN pending \cap DOMAIN codes = {}
    /\ \A h \in Handlers : handler[h].request \notin DOMAIN pending \cup DOMAIN codes
    /\ \A h, g \in Handlers : handler[h].request \in Requests /\ handler[h].request = handler[g].request => h = g

\* What was approved for request r agrees with what its history tells.
Approved(asked, r, email, access) ==
    /\ email = asked.email
    /\ [request |-> r, email |-> email, access |-> access] \in asked.approvals
    /\ access = "all" \/ (access # "bad" /\ asked.limitable)

Carries(h) ==
    Approved(history[handler[h].request], handler[h].request, handler[h].email, handler[h].access)

AsAsked ==
    /\ \A r \in DOMAIN pending : pending[r].email = history[r].email /\ pending[r].limitable = history[r].limitable
    /\ \A h \in Handlers : handler[h] # Idle => Carries(h)
    /\ \A r \in DOMAIN codes : Approved(history[r], r, codes[r].email, codes[r].access)

Bounded ==
    /\ IsFiniteSet(DOMAIN pending) /\ Cardinality(DOMAIN pending) <= MaxPending
    /\ IsFiniteSet(DOMAIN codes) /\ Cardinality(DOMAIN codes) <= MaxCodes

----------------------------------------------------------------------------
(***************************************************************************)
(* Tables.                                                                 *)
(***************************************************************************)
LEMMA WithTable ==
    ASSUME NEW f, NEW r, NEW v
    PROVE  /\ DOMAIN With(f, r, v) = DOMAIN f \cup {r}
           /\ With(f, r, v)[r] = v
           /\ \A x \in DOMAIN f \ {r} : With(f, r, v)[x] = f[x]
  BY DEF With

LEMMA RestrictTable ==
    ASSUME NEW f, NEW S
    PROVE  DOMAIN Restrict(f, S) = S /\ \A x \in S : Restrict(f, S)[x] = f[x]
  BY DEF Restrict

LEMMA WithoutTable ==
    ASSUME NEW f, NEW r
    PROVE  DOMAIN Without(f, r) = DOMAIN f \ {r} /\ \A x \in DOMAIN f \ {r} : Without(f, r)[x] = f[x]
  BY DEF Without, Restrict

LEMMA PurgedTable ==
    ASSUME NEW f
    PROVE  DOMAIN Purged(f) \subseteq DOMAIN f /\ \A x \in DOMAIN Purged(f) : Purged(f)[x] = f[x]
  BY DEF Purged, Restrict

LEMMA AgedTable ==
    ASSUME NEW f
    PROVE  /\ DOMAIN Aged(f) = DOMAIN f
           /\ \A x \in DOMAIN f : Aged(f)[x] = [f[x] EXCEPT !.left = IF @ = 0 THEN 0 ELSE @ - 1]
  BY DEF Aged

\* A smaller table is within the limits, and one that had room stays so when
\* something is added.
LEMMA SmallerTable ==
    ASSUME NEW S, NEW T, S \subseteq T, IsFiniteSet(T), NEW max \in Nat, Cardinality(T) <= max
    PROVE  IsFiniteSet(S) /\ Cardinality(S) <= max
<1>1. IsFiniteSet(S) /\ Cardinality(S) <= Cardinality(T)
  BY FS_Subset
<1>2. Cardinality(S) \in Nat /\ Cardinality(T) \in Nat
  BY <1>1, FS_CardinalityType
<1> QED  BY <1>1, <1>2

LEMMA TableWithRoom ==
    ASSUME NEW f, NEW r, IsFiniteSet(DOMAIN f), NEW max \in Nat, HasRoom(f, max)
    PROVE  IsFiniteSet(DOMAIN f \cup {r}) /\ Cardinality(DOMAIN f \cup {r}) <= max
<1>1. /\ IsFiniteSet(DOMAIN f \cup {r})
      /\ Cardinality(DOMAIN f \cup {r}) = Cardinality(DOMAIN f) \/
         Cardinality(DOMAIN f \cup {r}) = Cardinality(DOMAIN f) + 1
  BY FS_AddElement
<1>2. Cardinality(DOMAIN f) \in Nat /\ Cardinality(DOMAIN f) < max
  BY FS_CardinalityType DEF HasRoom
<1> QED  BY <1>1, <1>2

----------------------------------------------------------------------------
(***************************************************************************)
(* Limits.                                                                 *)
(***************************************************************************)
LEMMA BoundedInit == Init => Bounded
<1>1. IsFiniteSet({}) /\ Cardinality({}) = 0
  BY FS_EmptySet
<1>2. DOMAIN Nothing = {}
  BY DEF Nothing
<1> QED  BY <1>1, <1>2, LimitsAssumption DEF Init, Bounded

LEMMA BoundedNext == Bounded /\ [Next]_vars => Bounded'
<1> SUFFICES ASSUME Bounded, [Next]_vars
             PROVE  Bounded'
  OBVIOUS
<1> USE LimitsAssumption
<1>1. ASSUME DOMAIN pending' \subseteq DOMAIN pending, DOMAIN codes' \subseteq DOMAIN codes
      PROVE  Bounded'
  BY <1>1, SmallerTable DEF Bounded
<1>2. CASE Restart
  <2>1. DOMAIN pending' = {} /\ DOMAIN codes' = {}
    BY <1>2 DEF Restart, Nothing
  <2> QED  BY <2>1, <1>1
<1>3. CASE Tick \/ UNCHANGED vars
  <2>1. DOMAIN pending' = DOMAIN pending /\ DOMAIN codes' = DOMAIN codes
    BY <1>3, AgedTable DEF Tick, vars
  <2> QED  BY <2>1, <1>1
<1>4. ASSUME NEW u \in Owners, Authorize(u)
      PROVE  Bounded'
  <2>1. codes' = codes
    BY <1>4 DEF Authorize
  <2>2. CASE ~ HasRoom(Purged(pending), MaxPending)
    <3>1. pending' = Purged(pending)
      BY <1>4, <2>2 DEF Authorize
    <3> QED  BY <2>1, <3>1, <1>1, PurgedTable
  <2>3. CASE HasRoom(Purged(pending), MaxPending)
    <3>1. PICK r, v : pending' = With(Purged(pending), r, v)
      BY <1>4, <2>3 DEF Authorize
    <3>2. IsFiniteSet(DOMAIN Purged(pending))
      BY PurgedTable, FS_Subset DEF Bounded
    <3>3. /\ IsFiniteSet(DOMAIN Purged(pending) \cup {r})
          /\ Cardinality(DOMAIN Purged(pending) \cup {r}) <= MaxPending
      BY <2>3, <3>2, TableWithRoom
    <3>4. DOMAIN pending' = DOMAIN Purged(pending) \cup {r}
      BY <3>1, WithTable
    <3> QED  BY <2>1, <3>3, <3>4 DEF Bounded
  <2> QED  BY <2>2, <2>3
<1>5. ASSUME NEW h \in Handlers, IssueCode(h)
      PROVE  Bounded'
  <2>1. pending' = pending
    BY <1>5 DEF IssueCode
  <2>2. CASE ~ HasRoom(Purged(codes), MaxCodes)
    <3>1. codes' = Purged(codes)
      BY <1>5, <2>2 DEF IssueCode
    <3> QED  BY <2>1, <3>1, <1>1, PurgedTable
  <2>3. CASE HasRoom(Purged(codes), MaxCodes)
    <3>1. PICK r, v : codes' = With(Purged(codes), r, v)
      BY <1>5, <2>3 DEF IssueCode
    <3>2. IsFiniteSet(DOMAIN Purged(codes))
      BY PurgedTable, FS_Subset DEF Bounded
    <3>3. /\ IsFiniteSet(DOMAIN Purged(codes) \cup {r})
          /\ Cardinality(DOMAIN Purged(codes) \cup {r}) <= MaxCodes
      BY <2>3, <3>2, TableWithRoom
    <3>4. DOMAIN codes' = DOMAIN Purged(codes) \cup {r}
      BY <3>1, WithTable
    <3> QED  BY <2>1, <3>3, <3>4 DEF Bounded
  <2> QED  BY <2>2, <2>3
<1>6. ASSUME NEW h \in Handlers, NEW u \in Owners, NEW r \in Requests, NEW approve \in BOOLEAN,
             NEW access \in Choice, Submit(h, u, r, approve, access)
      PROVE  Bounded'
  <2>1. pending' = Without(pending, r) /\ codes' = codes
    BY <1>6 DEF Submit, Taken
  <2> QED  BY <2>1, <1>1, WithoutTable
<1>7. ASSUME NEW r \in Requests, TakeCode(r)
      PROVE  Bounded'
  <2>1. codes' = Without(codes, r) /\ pending' = pending
    BY <1>7 DEF TakeCode
  <2> QED  BY <2>1, <1>1, WithoutTable
<1> QED  BY <1>2, <1>3, <1>4, <1>5, <1>6, <1>7 DEF Next, AuthorizeSome

----------------------------------------------------------------------------
(***************************************************************************)
(* Requests and what becomes of them.                                      *)
(***************************************************************************)
Sound == Types /\ OnePlace /\ AsAsked

LEMMA IdleIsNone == Idle \notin Decision /\ Idle.request \notin Requests
  BY RequestsAssumption DEF Idle, Decision

LEMMA WhereInUse ==
    ASSUME Types
    PROVE  /\ InUse \subseteq Requests
           /\ \A r \in DOMAIN pending \cup DOMAIN codes : r \in InUse
           /\ \A h \in Handlers : handler[h] # Idle => handler[h] \in Decision /\ handler[h].request \in InUse
  BY DEF Types, InUse, Deciding, Decision

LEMMA SoundInit == Init => Sound
<1> SUFFICES ASSUME Init
             PROVE  Sound
  OBVIOUS
<1>1. DOMAIN pending = {} /\ DOMAIN codes = {} /\ DOMAIN history = {}
  BY DEF Init, Nothing
<1>2. InUse = {}
  BY <1>1, IdleIsNone DEF Init, InUse, Deciding
<1> QED  BY <1>1, <1>2, IdleIsNone DEF Init, Sound, Types, OnePlace, AsAsked

\* What is in use afterwards has the history it had.
SameHistory == DOMAIN history' = InUse' /\ InUse' \subseteq InUse /\ \A r \in InUse' : history'[r] = history[r]

\* A step that only takes requests away, or lets them age.
Shrinks ==
    /\ DOMAIN pending' \subseteq DOMAIN pending
    /\ \A r \in DOMAIN pending' : /\ pending'[r] \in Pending
                                  /\ pending'[r].email = pending[r].email
                                  /\ pending'[r].limitable = pending[r].limitable
    /\ DOMAIN codes' \subseteq DOMAIN codes
    /\ \A r \in DOMAIN codes' : /\ codes'[r] \in Code
                                /\ codes'[r].email = codes[r].email
                                /\ codes'[r].access = codes[r].access
    /\ handler' \in [Handlers -> Decision \cup {Idle}]
    /\ \A h \in Handlers : handler'[h] \in {handler[h], Idle}
    /\ answer' \in {"page", "busy"}

LEMMA ShrinksUse ==
    ASSUME Types, Shrinks
    PROVE  InUse' \subseteq InUse
  BY IdleIsNone DEF Types, Shrinks, InUse, Deciding

LEMMA KeptHistory ==
    ASSUME InUse' \subseteq InUse, KeepHistory
    PROVE  SameHistory
  BY RestrictTable DEF KeepHistory, SameHistory

LEMMA ShrinksSound ==
    ASSUME Sound, Shrinks, SameHistory
    PROVE  Sound'
<1>1. Types'
  <2>1. DOMAIN pending' \subseteq Requests /\ DOMAIN codes' \subseteq Requests
    BY DEF Sound, Types, Shrinks
  <2>2. \A r \in InUse' : history'[r] \in Record
    BY DEF Sound, Types, SameHistory
  <2> QED  BY <2>1, <2>2 DEF Types, Shrinks, SameHistory
<1>2. OnePlace'
  BY IdleIsNone DEF Sound, Types, OnePlace, Shrinks
<1>3. AsAsked'
  <2>1. \A r \in DOMAIN pending' \cup DOMAIN codes' : history'[r] = history[r]
    BY <1>1, WhereInUse DEF SameHistory, InUse
  <2>2. ASSUME NEW h \in Handlers, handler'[h] # Idle
        PROVE  handler'[h] = handler[h] /\ history'[handler[h].request] = history[handler[h].request]
    <3>1. handler'[h] = handler[h] /\ handler'[h] \in Decision
      BY <2>2 DEF Shrinks
    <3>2. handler'[h].request \in InUse'
      BY <3>1 DEF InUse, Deciding, Decision
    <3> QED  BY <3>1, <3>2 DEF SameHistory
  <2>3. \A r \in DOMAIN pending' : pending'[r].email = history'[r].email /\ pending'[r].limitable = history'[r].limitable
    BY <2>1 DEF Sound, AsAsked, Shrinks
  <2>4. \A r \in DOMAIN codes' : Approved(history'[r], r, codes'[r].email, codes'[r].access)
    BY <2>1 DEF Sound, AsAsked, Shrinks
  <2>5. \A h \in Handlers : handler'[h] # Idle => Carries(h)'
    BY <2>2 DEF Sound, AsAsked, Carries
  <2> QED  BY <2>3, <2>4, <2>5 DEF AsAsked
<1> QED  BY <1>1, <1>2, <1>3 DEF Sound

\* The steps that only shrink.
LEMMA AgedSound == Sound /\ (Tick \/ UNCHANGED vars) => Sound'
<1> SUFFICES ASSUME Sound, Tick \/ UNCHANGED vars
             PROVE  Sound'
  OBVIOUS
<1>1. UNCHANGED <<handler, history, answer>>
  BY DEF Tick, vars
<1>2. DOMAIN pending' = DOMAIN pending /\ DOMAIN codes' = DOMAIN codes
  BY AgedTable DEF Tick, vars
<1>3. \A p \in Pending : [p EXCEPT !.left = IF @ = 0 THEN 0 ELSE @ - 1] \in Pending
  BY LifetimesAssumption DEF Pending
<1>4. \A c \in Code : [c EXCEPT !.left = IF @ = 0 THEN 0 ELSE @ - 1] \in Code
  BY LifetimesAssumption DEF Code
<1>5. ASSUME NEW r \in DOMAIN pending
      PROVE  pending'[r] \in Pending /\ pending'[r].email = pending[r].email
             /\ pending'[r].limitable = pending[r].limitable
  <2>1. pending[r] \in Pending
    BY DEF Sound, Types
  <2>2. pending'[r] = pending[r] \/ pending'[r] = [pending[r] EXCEPT !.left = IF @ = 0 THEN 0 ELSE @ - 1]
    BY AgedTable DEF Tick, vars
  <2>3. pending'[r] \in Pending
    BY <1>3, <2>1, <2>2
  <2> QED  BY <2>1, <2>2, <2>3 DEF Pending
<1>6. ASSUME NEW r \in DOMAIN codes
      PROVE  codes'[r] \in Code /\ codes'[r].email = codes[r].email /\ codes'[r].access = codes[r].access
  <2>1. codes[r] \in Code
    BY DEF Sound, Types
  <2>2. codes'[r] = codes[r] \/ codes'[r] = [codes[r] EXCEPT !.left = IF @ = 0 THEN 0 ELSE @ - 1]
    BY AgedTable DEF Tick, vars
  <2>3. codes'[r] \in Code
    BY <1>4, <2>1, <2>2
  <2> QED  BY <2>1, <2>2, <2>3 DEF Code
<1>7. Shrinks
  BY <1>1, <1>2, <1>5, <1>6 DEF Shrinks, Sound, Types
<1>8. InUse' = InUse
  BY <1>1, <1>2 DEF InUse, Deciding
<1>9. SameHistory
  BY <1>1, <1>8 DEF SameHistory, Sound, Types
<1> QED  BY <1>7, <1>9, ShrinksSound

LEMMA RestartSound == Sound /\ Restart => Sound'
<1> SUFFICES ASSUME Sound, Restart
             PROVE  Sound'
  OBVIOUS
<1>1. DOMAIN pending' = {} /\ DOMAIN codes' = {} /\ DOMAIN history' = {}
  BY DEF Restart, Nothing
<1>2. handler' = [h \in Handlers |-> Idle] /\ answer' = answer
  BY DEF Restart
<1>3. InUse' = {}
  BY <1>1, <1>2, IdleIsNone DEF InUse, Deciding
<1>4. Shrinks
  BY <1>1, <1>2 DEF Shrinks, Sound, Types
<1>5. SameHistory
  BY <1>1, <1>3 DEF SameHistory
<1> QED  BY <1>4, <1>5, ShrinksSound

LEMMA TakeSound == ASSUME Sound, NEW r \in Requests, TakeCode(r) PROVE Sound'
<1>1. codes' = Without(codes, r) /\ UNCHANGED <<pending, handler, answer>> /\ KeepHistory
  BY DEF TakeCode
<1>2. DOMAIN codes' \subseteq DOMAIN codes /\ \A x \in DOMAIN codes' : codes'[x] = codes[x]
  BY <1>1 DEF Without, Restrict
<1>3. Shrinks
  BY <1>1, <1>2 DEF Shrinks, Sound, Types
<1> QED  BY <1>1, <1>3, ShrinksUse, KeptHistory, ShrinksSound DEF Sound

\* authorize.
LEMMA AuthorizeSound == ASSUME Sound, NEW u \in Owners, Authorize(u) PROVE Sound'
<1> DEFINE kept == Purged(pending)
<1>1. CASE ~ HasRoom(kept, MaxPending)
  <2>1. pending' = kept /\ answer' = "busy" /\ UNCHANGED <<codes, handler>> /\ KeepHistory
    BY <1>1 DEF Authorize
  <2>2. Shrinks
    BY <2>1, PurgedTable DEF Shrinks, Sound, Types
  <2> QED  BY <2>1, <2>2, ShrinksUse, KeptHistory, ShrinksSound DEF Sound
<1>2. CASE HasRoom(kept, MaxPending)
  <2> DEFINE r == CHOOSE unused \in Requests \ InUse : TRUE
  <2>1. r \in Requests \ InUse
    <3>1. \E unused \in Requests \ InUse : TRUE
      BY WhereInUse DEF Authorize, Sound
    <3> QED  BY <3>1
  <2> HIDE DEF r
  <2>2. PICK limitable \in BOOLEAN :
            /\ pending' = With(kept, r, [email |-> u, limitable |-> limitable, left |-> ConsentTTL])
            /\ history' = With(Restrict(history, InUse' \ {r}), r,
                              [email |-> u, limitable |-> limitable, approvals |-> {}])
            /\ answer' = "page" /\ UNCHANGED <<codes, handler>>
    BY <1>2 DEF Authorize, r
  <2> DEFINE p == [email |-> u, limitable |-> limitable, left |-> ConsentTTL]
             asked == [email |-> u, limitable |-> limitable, approvals |-> {}]
  <2>3. p \in Pending /\ asked \in Record /\ p.email = asked.email /\ p.limitable = asked.limitable
    BY LifetimesAssumption DEF Pending, Record
  <2>4. pending' = With(kept, r, p) /\ history' = With(Restrict(history, InUse' \ {r}), r, asked)
    BY <2>2
  <2> HIDE DEF p, asked, kept
  <2>5. DOMAIN pending' = DOMAIN kept \cup {r} /\ pending'[r] = p
        /\ \A x \in DOMAIN kept \ {r} : pending'[x] = kept[x]
    BY <2>4 DEF With
  <2>6. DOMAIN kept \subseteq DOMAIN pending /\ \A x \in DOMAIN kept : kept[x] = pending[x]
    BY PurgedTable DEF kept
  <2>7. InUse' = DOMAIN pending' \cup DOMAIN codes \cup {x \in Requests : Deciding(x) # {}}
    BY <2>2 DEF InUse, Deciding
  <2>8. r \in InUse' /\ InUse' \ {r} \subseteq InUse
    BY <2>5, <2>6, <2>7 DEF InUse
  <2>9. /\ DOMAIN history' = InUse' /\ history'[r] = asked
        /\ \A x \in InUse' \ {r} : history'[x] = history[x]
    <3>1. DOMAIN Restrict(history, InUse' \ {r}) = InUse' \ {r}
          /\ \A x \in InUse' \ {r} : Restrict(history, InUse' \ {r})[x] = history[x]
      BY RestrictTable
    <3> DEFINE rest == Restrict(history, InUse' \ {r})
    <3> HIDE DEF rest
    <3>2. /\ DOMAIN history' = DOMAIN rest \cup {r} /\ history'[r] = asked
          /\ \A x \in DOMAIN rest \ {r} : history'[x] = rest[x]
      <4>1. history' = With(rest, r, asked)
        BY <2>4 DEF rest
      <4> QED  BY <4>1 DEF With
    <3> USE DEF rest
    <3> QED  BY <2>8, <3>1, <3>2
  <2>10. Types'
    <3>1. DOMAIN pending' \subseteq Requests /\ \A x \in DOMAIN pending' : pending'[x] \in Pending
      BY <2>1, <2>3, <2>5, <2>6 DEF Sound, Types
    <3>2. \A x \in InUse' : history'[x] \in Record
      BY <2>3, <2>8, <2>9 DEF Sound, Types
    <3> QED  BY <2>2, <2>9, <3>1, <3>2 DEF Sound, Types
  <2>11. r \notin DOMAIN codes /\ \A h \in Handlers : handler[h].request # r
    BY <2>1 DEF InUse, Deciding
  <2>12. OnePlace'
    BY <2>2, <2>5, <2>6, <2>11 DEF Sound, OnePlace
  <2>13. AsAsked'
    <3>1. \A x \in DOMAIN pending' :
              pending'[x].email = history'[x].email /\ pending'[x].limitable = history'[x].limitable
      BY <2>3, <2>5, <2>6, <2>7, <2>9 DEF Sound, AsAsked
    <3>2. \A h \in Handlers : handler'[h] # Idle => Carries(h)'
      <4> SUFFICES ASSUME NEW h \in Handlers, handler[h] # Idle
                   PROVE  Carries(h)'
        BY <2>2
      <4>1. handler[h].request \in InUse' \ {r}
        BY <2>7, <2>11 DEF Sound, Types, Decision, Deciding
      <4> QED  BY <2>2, <2>9, <4>1 DEF Sound, AsAsked, Carries
    <3>3. \A x \in DOMAIN codes' : Approved(history'[x], x, codes'[x].email, codes'[x].access)
      BY <2>2, <2>7, <2>9, <2>11 DEF Sound, AsAsked
    <3> QED  BY <3>1, <3>2, <3>3 DEF AsAsked
  <2> QED  BY <2>10, <2>12, <2>13 DEF Sound
<1> QED  BY <1>1, <1>2

\* consent, up to the first unlock.
LEMMA SubmitSound ==
    ASSUME Sound, NEW h \in Handlers, NEW u \in Owners, NEW r \in Requests, NEW approve \in BOOLEAN,
           NEW access \in Choice, Submit(h, u, r, approve, access)
    PROVE  Sound'
<1>1. /\ pending' = Without(pending, r) /\ UNCHANGED <<codes, answer>> /\ r \in DOMAIN pending
      /\ handler[h] = Idle
  BY DEF Submit, Taken
<1>2. DOMAIN pending' = DOMAIN pending \ {r} /\ \A x \in DOMAIN pending \ {r} : pending'[x] = pending[x]
  BY <1>1 DEF Without, Restrict
<1>3. CASE ~ (MayDecide(r, u) /\ approve)
  <2>1. handler' = handler /\ KeepHistory
    BY <1>3 DEF Submit
  <2>2. Shrinks
    BY <1>1, <1>2, <2>1 DEF Shrinks, Sound, Types
  <2> QED  BY <2>1, <2>2, ShrinksUse, KeptHistory, ShrinksSound DEF Sound
<1>4. CASE MayDecide(r, u) /\ approve
  <2> DEFINE d == [request |-> r, email |-> u, access |-> access]
  <2>1. handler' = [handler EXCEPT ![h] = d] /\ history' = [history EXCEPT ![r].approvals = @ \cup {d}]
    BY <1>4 DEF Submit
  <2>2. d \in Decision /\ d.request = r /\ d.email = u /\ d.access = access
    BY DEF Decision
  <2> HIDE DEF d
  <2>3. handler'[h] = d /\ \A g \in Handlers \ {h} : handler'[g] = handler[g]
    BY <2>1 DEF Sound, Types
  <2>4. handler' \in [Handlers -> Decision \cup {Idle}]
    BY <2>1, <2>2 DEF Sound, Types
  <2>5. r \in InUse /\ r \notin DOMAIN codes /\ \A g \in Handlers : handler[g].request # r
    BY <1>1, WhereInUse DEF Sound, OnePlace
  <2>6. InUse' = InUse
    <3>1. \A x \in Requests \ {r} : Deciding(x)' # {} <=> Deciding(x) # {}
      BY <1>1, <2>2, <2>3, IdleIsNone DEF Deciding
    <3>2. Deciding(r)' # {}
      BY <2>2, <2>3 DEF Deciding
    <3> QED  BY <1>1, <1>2, <3>1, <3>2, <2>5 DEF InUse, Sound, Types
  <2>7. history[r] \in Record
    BY <2>5 DEF Sound, Types
  <2>8. /\ DOMAIN history' = DOMAIN history
        /\ history'[r] = [history[r] EXCEPT !.approvals = history[r].approvals \cup {d}]
        /\ \A x \in DOMAIN history \ {r} : history'[x] = history[x]
    BY <2>1, <2>5 DEF Sound, Types
  <2>9. history'[r] \in Record /\ history'[r].email = history[r].email
        /\ history'[r].limitable = history[r].limitable /\ d \in history'[r].approvals
    BY <2>2, <2>7, <2>8 DEF Record
  <2>10. Types'
    <3>1. DOMAIN pending' \subseteq Requests /\ \A x \in DOMAIN pending' : pending'[x] \in Pending
      BY <1>2 DEF Sound, Types
    <3>2. \A x \in InUse' : history'[x] \in Record
      BY <2>6, <2>8, <2>9 DEF Sound, Types
    <3>3. DOMAIN history' = InUse'
      BY <2>6, <2>8 DEF Sound, Types
    <3> QED  BY <1>1, <2>4, <3>1, <3>2, <3>3 DEF Sound, Types
  <2>11. OnePlace'
    <3>1. \A g \in Handlers : handler'[g].request \notin DOMAIN pending' \cup DOMAIN codes'
      BY <1>1, <1>2, <2>2, <2>3, <2>5 DEF Sound, OnePlace
    <3>2. \A g, f \in Handlers : handler'[g].request \in Requests /\ handler'[g].request = handler'[f].request => g = f
      BY <2>2, <2>3, <2>5 DEF Sound, OnePlace
    <3>3. DOMAIN pending' \cap DOMAIN codes' = {}
      BY <1>1, <1>2 DEF Sound, OnePlace
    <3> QED  BY <3>1, <3>2, <3>3 DEF OnePlace
  <2>12. AsAsked'
    <3>1. \A x \in DOMAIN pending' :
              pending'[x].email = history'[x].email /\ pending'[x].limitable = history'[x].limitable
      BY <1>2, <2>8, WhereInUse DEF Sound, AsAsked, Types
    <3>2. \A x \in DOMAIN codes' : Approved(history'[x], x, codes'[x].email, codes'[x].access)
      BY <1>1, <2>5, <2>8, WhereInUse DEF Sound, AsAsked, Types
    <3>3. Carries(h)'
      <4>1. u = history[r].email
        BY <1>1, <1>4 DEF MayDecide, Sound, AsAsked
      <4>2. access = "all" \/ (access # "bad" /\ history[r].limitable)
        <5>1. PolicyAllowed(pending[r], access)
          BY <1>4 DEF Submit
        <5> QED  BY <1>1, <5>1 DEF PolicyAllowed, Sound, AsAsked
      <4>3. Approved(history'[r], r, u, access)
        BY <2>9, <4>1, <4>2 DEF Approved, d
      <4> QED  BY <2>2, <2>3, <4>3 DEF Carries
    <3>4. ASSUME NEW g \in Handlers \ {h}, handler'[g] # Idle
          PROVE  Carries(g)'
      <4>1. handler'[g] = handler[g] /\ handler[g].request \in InUse /\ handler[g].request # r
        BY <2>3, <2>5, <3>4, WhereInUse DEF Sound
      <4>2. history'[handler[g].request] = history[handler[g].request]
        BY <2>8, <4>1 DEF Sound, Types
      <4> QED  BY <3>4, <4>1, <4>2 DEF Sound, AsAsked, Carries
    <3> QED  BY <3>1, <3>2, <3>3, <3>4 DEF AsAsked
  <2> QED  BY <2>10, <2>11, <2>12 DEF Sound
<1> QED  BY <1>3, <1>4

\* consent, from the second lock.
LEMMA IssueSound == ASSUME Sound, NEW h \in Handlers, IssueCode(h) PROVE Sound'
<1> DEFINE kept == Purged(codes)
           d == handler[h]
           c == [email |-> d.email, access |-> d.access, left |-> CodeTTL]
<1>1. /\ d # Idle /\ handler' = [handler EXCEPT ![h] = Idle] /\ UNCHANGED <<pending, answer>> /\ KeepHistory
      /\ codes' = IF HasRoom(kept, MaxCodes) THEN With(kept, d.request, c) ELSE kept
  BY DEF IssueCode
<1>2. d \in Decision /\ d.request \in InUse /\ Carries(h)
  BY <1>1, WhereInUse DEF Sound, AsAsked
<1>3. c \in Code /\ c.email = d.email /\ c.access = d.access
  BY <1>2, LifetimesAssumption DEF Code, Decision
<1>4. DOMAIN kept \subseteq DOMAIN codes /\ \A x \in DOMAIN kept : kept[x] = codes[x]
  BY PurgedTable
<1>5. handler' \in [Handlers -> Decision \cup {Idle}] /\ handler'[h] = Idle
      /\ \A g \in Handlers \ {h} : handler'[g] = handler[g]
  BY <1>1 DEF Sound, Types
<1> HIDE DEF kept, c, d
<1>6. CASE ~ HasRoom(kept, MaxCodes)
  <2>1. Shrinks
    BY <1>1, <1>4, <1>5, <1>6 DEF Shrinks, Sound, Types
  <2> QED  BY <1>1, <2>1, ShrinksUse, KeptHistory, ShrinksSound DEF Sound
<1>7. CASE HasRoom(kept, MaxCodes)
  <2>1. /\ DOMAIN codes' = DOMAIN kept \cup {d.request} /\ codes'[d.request] = c
        /\ \A x \in DOMAIN kept \ {d.request} : codes'[x] = kept[x]
    BY <1>1, <1>7 DEF With
  <2>2. InUse' \subseteq InUse
    BY <1>1, <1>2, <1>4, <1>5, <2>1, IdleIsNone DEF InUse, Deciding
  <2>3. SameHistory
    BY <1>1, <2>2, KeptHistory
  <2>4. Types'
    <3>1. d.request \in Requests
      BY <1>2 DEF Decision
    <3>2. DOMAIN codes' \subseteq Requests /\ \A x \in DOMAIN codes' : codes'[x] \in Code
      BY <1>3, <1>4, <2>1, <3>1 DEF Sound, Types
    <3>3. \A x \in InUse' : history'[x] \in Record
      BY <2>3 DEF Sound, Types, SameHistory
    <3> QED  BY <1>1, <1>5, <2>3, <3>2, <3>3 DEF Sound, Types, SameHistory
  <2>5. OnePlace'
    <3>1. d.request \notin DOMAIN pending /\ d.request \in Requests
          /\ \A g \in Handlers \ {h} : handler[g].request # d.request
      BY <1>2 DEF Sound, OnePlace, Decision, d
    <3>2. \A g \in Handlers : handler'[g].request \notin DOMAIN pending' \cup DOMAIN codes'
      <4> SUFFICES ASSUME NEW g \in Handlers
                   PROVE  handler'[g].request \notin DOMAIN pending' \cup DOMAIN codes'
        OBVIOUS
      <4>1. CASE g = h
        <5>1. DOMAIN pending' \cup DOMAIN codes' \subseteq Requests
          BY <2>4 DEF Types
        <5> QED  BY <4>1, <5>1, <1>5, IdleIsNone
      <4>2. CASE g # h
        BY <4>2, <1>1, <1>4, <1>5, <2>1, <3>1 DEF Sound, OnePlace
      <4> QED  BY <4>1, <4>2
    <3>3. \A g, f \in Handlers : handler'[g].request \in Requests /\ handler'[g].request = handler'[f].request => g = f
      BY <1>5, IdleIsNone DEF Sound, OnePlace
    <3>4. DOMAIN pending' \cap DOMAIN codes' = {}
      BY <1>1, <1>4, <2>1, <3>1 DEF Sound, OnePlace
    <3> QED  BY <3>2, <3>3, <3>4 DEF OnePlace
  <2>6. AsAsked'
    <3>1. \A x \in DOMAIN pending' :
              pending'[x].email = history'[x].email /\ pending'[x].limitable = history'[x].limitable
      BY <1>1, <2>3, <2>4, WhereInUse DEF Sound, AsAsked, SameHistory, InUse
    <3>2. ASSUME NEW x \in DOMAIN codes'
          PROVE  Approved(history'[x], x, codes'[x].email, codes'[x].access)
      <4>1. history'[x] = history[x]
        BY <2>3 DEF SameHistory, InUse
      <4>2. CASE x = d.request
        BY <1>2, <1>3, <2>1, <4>1, <4>2 DEF Carries, d
      <4>3. CASE x # d.request
        BY <1>4, <2>1, <4>1, <4>3 DEF Sound, AsAsked
      <4> QED  BY <4>2, <4>3
    <3>3. ASSUME NEW g \in Handlers, handler'[g] # Idle
          PROVE  Carries(g)'
      <4>1. handler'[g] = handler[g] /\ handler[g] # Idle /\ handler[g] \in Decision
        BY <1>5, <3>3, WhereInUse DEF Sound
      <4>2. handler[g].request \in InUse'
        BY <4>1 DEF InUse, Deciding, Decision
      <4>3. history'[handler[g].request] = history[handler[g].request]
        BY <2>3, <4>2 DEF SameHistory
      <4> QED  BY <4>1, <4>3 DEF Sound, AsAsked, Carries
    <3> QED  BY <3>1, <3>2, <3>3 DEF AsAsked
  <2> QED  BY <2>4, <2>5, <2>6 DEF Sound
<1> QED  BY <1>6, <1>7

LEMMA SoundNext == Sound /\ [Next]_vars => Sound'
  BY AgedSound, RestartSound, TakeSound, AuthorizeSound, SubmitSound, IssueSound DEF Next, AuthorizeSome

----------------------------------------------------------------------------
(***************************************************************************)
(* The theorems.                                                           *)
(***************************************************************************)
LEMMA Soundness == Spec => []Sound
<1> QED  BY SoundInit, SoundNext, PTL DEF Spec

\* Every variable has its type (authorize, consent).
THEOREM TypeCorrect == Spec => []TypeOK
<1>1. Sound => TypeOK
  BY DEF Sound, Types, TypeOK, Record, Range
<1> QED  BY <1>1, Soundness, PTL

\* A request is decided once, whoever submits its form and however often at
\* once (consent).
THEOREM OneDecision == Spec => []DecidedOnce
<1>1. Sound => DecidedOnce
  <2> SUFFICES ASSUME Sound, NEW r \in Requests
               PROVE  Cardinality(Deciding(r)) + Cardinality({r} \cap DOMAIN pending)
                                               + Cardinality({r} \cap DOMAIN codes) <= 1
    BY DEF DecidedOnce
  <2>1. Cardinality({}) = 0 /\ Cardinality({r}) = 1 /\ \A h \in Handlers : Cardinality({h}) = 1
    BY FS_EmptySet, FS_Singleton
  <2>2. Deciding(r) = {} \/ \E h \in Handlers : Deciding(r) = {h}
    BY DEF Deciding, Sound, OnePlace
  <2>3. {r} \cap DOMAIN pending = IF r \in DOMAIN pending THEN {r} ELSE {}
    OBVIOUS
  <2>4. {r} \cap DOMAIN codes = IF r \in DOMAIN codes THEN {r} ELSE {}
    OBVIOUS
  <2>5. r \in DOMAIN pending \cup DOMAIN codes => Deciding(r) = {}
    BY DEF Deciding, Sound, OnePlace
  <2>6. ~ (r \in DOMAIN pending /\ r \in DOMAIN codes)
    BY DEF Sound, OnePlace
  <2>7. CASE r \in DOMAIN pending
    BY <2>1, <2>3, <2>4, <2>5, <2>6, <2>7
  <2>8. CASE r \in DOMAIN codes
    BY <2>1, <2>3, <2>4, <2>5, <2>6, <2>8
  <2>9. CASE r \notin DOMAIN pending /\ r \notin DOMAIN codes
    BY <2>1, <2>2, <2>3, <2>4, <2>9
  <2> QED  BY <2>7, <2>8, <2>9
<1> QED  BY <1>1, Soundness, PTL

\* A code gives what its owner approved, within what the page offered (consent,
\* checkPolicy).
THEOREM CodeSafety == Spec => []CodesAsApproved
<1>1. Sound => CodesAsApproved
  BY DEF Sound, AsAsked, Approved, CodesAsApproved
<1> QED  BY <1>1, Soundness, PTL

\* Neither table outgrows its limit (authorize, consent).
THEOREM BoundSafety == Spec => []TablesBounded
<1>1. Bounded => TablesBounded
  BY DEF Bounded, TablesBounded
<1> QED  BY <1>1, BoundedInit, BoundedNext, PTL DEF Spec

============================================================================

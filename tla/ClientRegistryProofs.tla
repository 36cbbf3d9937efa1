------------------------ MODULE ClientRegistryProofs ------------------------
(***************************************************************************)
(* Theorems about ClientRegistry, for every number of clients and grants   *)
(* and every limit.                                                        *)
(***************************************************************************)
EXTENDS ClientRegistry, FiniteSetTheorems, TLAPS

USE MaxClientsAssumption, MaxGrantsAssumption, MaxTimeAssumption

\* The tables have their types, are finite, bounded in memory and in the file, the file knows
\* every client in memory, and at most one more.
Finite == IsFiniteSet(DOMAIN clients) /\ IsFiniteSet(DOMAIN file.clients)

IInv ==
    /\ TypeOK
    /\ Finite
    /\ RegistryBounded
    /\ CrashKeepsClients
    /\ FailuresCostOne

\* A step that leaves the clients alone, in memory and in the file.
LEMMA SameClients ==
    ASSUME IInv, TypeOK', UNCHANGED clients, file'.clients \in {clients, file.clients}
    PROVE  IInv'
<1>1. CASE file'.clients = file.clients
  BY <1>1 DEF IInv, Finite, RegistryBounded, CrashKeepsClients, FailuresCostOne
<1>2. CASE file'.clients = clients
  <2>1. DOMAIN file'.clients \ DOMAIN clients' = {}
    BY <1>2
  <2>2. Cardinality(DOMAIN file'.clients \ DOMAIN clients') = 0
    BY <2>1, FS_EmptySet
  <2> QED
    BY <1>2, <2>2 DEF IInv, Finite, RegistryBounded, CrashKeepsClients, FailuresCostOne
<1> QED
  BY <1>1, <1>2

----------------------------------------------------------------------------
(***************************************************************************)
(* The types.                                                              *)
(***************************************************************************)

LEMMA NothingTable == ASSUME NEW ids, NEW values PROVE IsTable(Nothing, ids, values)
  BY DEF IsTable, Nothing

LEMMA GrownTable ==
    ASSUME NEW f, NEW ids, NEW more, NEW values, IsTable(f, ids, values), ids \subseteq more
    PROVE  IsTable(f, more, values)
  BY DEF IsTable

LEMMA WithTable ==
    ASSUME NEW f, NEW ids, NEW values, IsTable(f, ids, values),
           NEW x \in ids, NEW v \in values
    PROVE  IsTable(With(f, x, v), ids, values)
  BY DEF IsTable, With

LEMMA WithoutTable ==
    ASSUME NEW f, NEW ids, NEW values, IsTable(f, ids, values), NEW x
    PROVE  IsTable(Without(f, x), ids, values)
  BY DEF IsTable, Without, Restrict

\* The grants name drawn clients, of which there only come more.
LEMMA GrownGrants ==
    ASSUME NEW g, NEW ids, NEW more, IsTable(g, Grants, ids), ids \subseteq more
    PROVE  IsTable(g, Grants, more)
  BY DEF IsTable

LEMMA RegisterType ==
    ASSUME TypeOK, NEW c \in Clients, NEW outcome \in Outcomes, Register(c, outcome)
    PROVE  TypeOK'
<1>1. PICK kept \in RoomMade :
          /\ clients' = IF outcome = "ok" THEN With(kept, c, now) ELSE kept
          /\ file' = IF outcome = "early" THEN file
                     ELSE [clients |-> With(kept, c, now), grants |-> grants]
  BY DEF Register, Saved, AfterFailure
<1>2. /\ drawn' = drawn \cup {c} /\ UNCHANGED <<now, grants, flows>>
      /\ now \in Nat
  BY DEF Register, TypeOK
<1>3. IsTable(kept, drawn, Nat)
  BY WithoutTable DEF RoomMade, TypeOK
<1>4. IsTable(kept, drawn', Nat) /\ IsTable(file.clients, drawn', Nat)
  BY <1>2, <1>3, GrownTable DEF TypeOK
<1>5. IsTable(With(kept, c, now), drawn', Nat)
  BY <1>2, <1>4, WithTable
<1>6. IsTable(clients', drawn', Nat) /\ IsTable(file'.clients, drawn', Nat)
  BY <1>1, <1>4, <1>5
<1>7. IsTable(grants, Grants, drawn') /\ IsTable(file.grants, Grants, drawn')
  BY <1>2, GrownGrants DEF TypeOK
<1>8. IsTable(grants', Grants, drawn') /\ IsTable(file'.grants, Grants, drawn')
  BY <1>1, <1>2, <1>7
<1> QED
  BY <1>2, <1>6, <1>8 DEF TypeOK

LEMMA TypeStep == TypeOK /\ [Next]_vars => TypeOK'
<1> SUFFICES ASSUME TypeOK, [Next]_vars PROVE TypeOK'
  OBVIOUS
<1>1. CASE UNCHANGED vars
  BY <1>1 DEF vars, TypeOK, IsTable
<1>2. CASE Tick
  BY <1>2 DEF Tick, TypeOK, IsTable
<1>3. CASE Restart
  BY <1>3 DEF Restart, TypeOK, IsTable
<1>4. ASSUME NEW c \in Clients, Authorize(c) PROVE TypeOK'
  BY <1>4 DEF Authorize, TypeOK, IsTable
<1>5. ASSUME NEW g \in Grants, NEW c \in Clients, NEW outcome \in Outcomes,
             GrantTo(g, c, outcome)
      PROVE  TypeOK'
  <2>1. PICK left \in GrantsLeft :
            /\ grants' = IF outcome = "ok" THEN With(left, g, c) ELSE left
            /\ Saved(outcome, clients, With(left, g, c))
    BY <1>5 DEF GrantTo
  <2>2. IsTable(left, Grants, drawn)
    BY WithoutTable DEF GrantsLeft, TypeOK
  <2>3. c \in drawn
    BY <1>5 DEF GrantTo, TypeOK
  <2>4. IsTable(With(left, g, c), Grants, drawn)
    BY <2>2, <2>3, WithTable
  <2>5. IsTable(grants', Grants, drawn) /\ IsTable(file'.grants, Grants, drawn)
        /\ IsTable(file'.clients, drawn, Nat)
    BY <2>1, <2>2, <2>4 DEF Saved, TypeOK
  <2> QED
    BY <1>5, <2>5 DEF GrantTo, TypeOK
<1>6. ASSUME NEW g \in Grants, NEW outcome \in Outcomes, EndGrant(g, outcome)
      PROVE  TypeOK'
  <2>1. IsTable(Without(grants, g), Grants, drawn)
    BY WithoutTable DEF TypeOK
  <2>2. IsTable(grants', Grants, drawn) /\ IsTable(file'.grants, Grants, drawn)
        /\ IsTable(file'.clients, drawn, Nat)
    BY <1>6, <2>1 DEF EndGrant, Saved, TypeOK
  <2> QED
    BY <1>6, <2>2 DEF EndGrant, TypeOK
<1>7. ASSUME NEW outcome \in Outcomes, SaveGrant(outcome) PROVE TypeOK'
  <2>1. IsTable(file'.grants, Grants, drawn) /\ IsTable(file'.clients, drawn, Nat)
    BY <1>7 DEF SaveGrant, Saved, TypeOK
  <2> QED
    BY <1>7, <2>1 DEF SaveGrant, TypeOK
<1> QED
  BY <1>1, <1>2, <1>3, <1>4, <1>5, <1>6, <1>7, RegisterType DEF Next

----------------------------------------------------------------------------
(***************************************************************************)
(* The limit, and what the file has.                                       *)
(***************************************************************************)

LEMMA WithoutDomain ==
    ASSUME NEW f, NEW x
    PROVE  /\ DOMAIN Without(f, x) = DOMAIN f \ {x}
           /\ \A y \in DOMAIN f \ {x} : Without(f, x)[y] = f[y]
  BY DEF Without, Restrict

\* Making room leaves a table that has some, and takes a client out only of a
\* full one.
LEMMA RoomForOne ==
    ASSUME IInv, NEW kept \in RoomMade
    PROVE  /\ DOMAIN kept \subseteq DOMAIN clients
           /\ \A c \in DOMAIN kept : kept[c] = clients[c]
           /\ Cardinality(DOMAIN kept) < MaxClients
           /\ \/ kept = clients
              \/ /\ Cardinality(DOMAIN clients) = MaxClients
                 /\ \E evicted \in DOMAIN clients : DOMAIN kept = DOMAIN clients \ {evicted}
<1>1. IsFiniteSet(DOMAIN clients) /\ Cardinality(DOMAIN clients) \in Nat
  BY FS_CardinalityType DEF IInv, Finite
<1>2. CASE ~ IsFull
  BY <1>1, <1>2 DEF IsFull, RoomMade
<1>3. CASE IsFull
  <2>1. Cardinality(DOMAIN clients) = MaxClients
    BY <1>1, <1>3 DEF IsFull, IInv, RegistryBounded
  <2>2. PICK evicted \in Oldest(Evictable) : kept = Without(clients, evicted)
    BY <1>3 DEF RoomMade
  <2>3. evicted \in DOMAIN clients
    BY DEF Oldest, Evictable
  <2>4. DOMAIN kept = DOMAIN clients \ {evicted}
        /\ \A c \in DOMAIN kept : kept[c] = clients[c]
    BY <2>2, WithoutDomain
  <2>5. Cardinality(DOMAIN kept) = Cardinality(DOMAIN clients) - 1
    BY <1>1, <2>3, <2>4, FS_RemoveElement
  <2> QED
    BY <1>1, <2>1, <2>3, <2>4, <2>5
<1> QED
  BY <1>2, <1>3

LEMMA SmallDifference ==
    ASSUME NEW S, NEW x, S \subseteq {x}
    PROVE  Cardinality(S) <= 1
<1>1. CASE S = {}
  BY <1>1, FS_EmptySet
<1>2. CASE S = {x}
  BY <1>2, FS_Singleton
<1> QED
  BY <1>1, <1>2

\* A registration, whatever becomes of its save.
LEMMA RegisterOK ==
    ASSUME IInv, NEW c \in Clients, NEW outcome \in Outcomes, Register(c, outcome)
    PROVE  IInv'
<1>1. PICK kept \in RoomMade :
          /\ clients' = IF outcome = "ok" THEN With(kept, c, now) ELSE kept
          /\ file' = IF outcome = "early" THEN file
                     ELSE [clients |-> With(kept, c, now), grants |-> grants]
  BY DEF Register, Saved, AfterFailure
<1>0. TypeOK'
  BY RegisterType DEF IInv
<1> DEFINE more == With(kept, c, now)
<1>2. /\ DOMAIN kept \subseteq DOMAIN clients
      /\ \A d \in DOMAIN kept : kept[d] = clients[d]
      /\ Cardinality(DOMAIN kept) < MaxClients
      /\ \/ kept = clients
         \/ /\ Cardinality(DOMAIN clients) = MaxClients
            /\ \E evicted \in DOMAIN clients : DOMAIN kept = DOMAIN clients \ {evicted}
  BY RoomForOne
<1>3. IsFiniteSet(DOMAIN kept) /\ Cardinality(DOMAIN kept) \in Nat
  BY <1>2, FS_Subset, FS_CardinalityType DEF IInv, Finite
<1>4. /\ DOMAIN more = DOMAIN kept \cup {c}
      /\ \A d \in DOMAIN kept \ {c} : more[d] = kept[d]
  BY DEF With
<1>5. /\ IsFiniteSet(DOMAIN more)
      /\ Cardinality(DOMAIN more) <= MaxClients
  <2>1. IsFiniteSet(DOMAIN kept \cup {c})
        /\ Cardinality(DOMAIN kept \cup {c}) =
               IF c \in DOMAIN kept THEN Cardinality(DOMAIN kept) ELSE Cardinality(DOMAIN kept) + 1
    BY <1>3, FS_AddElement
  <2> QED
    BY <1>2, <1>3, <1>4, <2>1
<1> HIDE DEF more
<1>6. CASE outcome = "ok"
  <2>1. clients' = more /\ file'.clients = more
    BY <1>1, <1>6 DEF more
  <2>2. DOMAIN file'.clients \ DOMAIN clients' \subseteq {c}
    BY <2>1
  <2>3. Finite' /\ RegistryBounded' /\ CrashKeepsClients'
    BY <2>1, <1>5 DEF Finite, RegistryBounded, CrashKeepsClients
  <2>4. FailuresCostOne'
    BY <2>2, SmallDifference DEF FailuresCostOne
  <2> QED
    BY <1>0, <2>3, <2>4 DEF IInv
<1>7. CASE outcome = "early"
  <2>1. clients' = kept /\ file' = file
    BY <1>1, <1>7
  <2>2. Finite' /\ RegistryBounded' /\ CrashKeepsClients'
    BY <2>1, <1>2, <1>3 DEF IInv, Finite, RegistryBounded, CrashKeepsClients
  <2>3. FailuresCostOne'
    <3>1. CASE kept = clients
      BY <3>1, <2>1 DEF IInv, FailuresCostOne
    <3>2. ASSUME Cardinality(DOMAIN clients) = MaxClients,
                 NEW evicted \in DOMAIN clients, DOMAIN kept = DOMAIN clients \ {evicted}
          PROVE  FailuresCostOne'
      <4>1. DOMAIN clients \subseteq DOMAIN file.clients
            /\ IsFiniteSet(DOMAIN file.clients)
            /\ Cardinality(DOMAIN file.clients) <= MaxClients
        BY DEF IInv, Finite, CrashKeepsClients, RegistryBounded
      <4>2. Cardinality(DOMAIN file.clients) \in Nat
        BY <4>1, FS_CardinalityType
      <4>3. Cardinality(DOMAIN clients) <= Cardinality(DOMAIN file.clients)
        BY <4>1, FS_Subset
      <4>4. DOMAIN clients = DOMAIN file.clients
        <5>1. Cardinality(DOMAIN clients) = Cardinality(DOMAIN file.clients)
          BY <3>2, <4>1, <4>2, <4>3
        <5> QED
          BY <4>1, <5>1, FS_Subset
      <4>5. DOMAIN file'.clients \ DOMAIN clients' \subseteq {evicted}
        BY <2>1, <3>2, <4>4
      <4> QED
        BY <4>5, SmallDifference DEF FailuresCostOne
    <3> QED
      BY <1>2, <3>1, <3>2
  <2> QED
    BY <1>0, <2>2, <2>3 DEF IInv
<1>8. CASE outcome = "late"
  <2>1. clients' = kept /\ file'.clients = more
    BY <1>1, <1>8 DEF more
  <2>2. Finite' /\ RegistryBounded'
    BY <2>1, <1>2, <1>3, <1>5 DEF Finite, RegistryBounded
  <2>3. DOMAIN file'.clients \ DOMAIN clients' \subseteq {c}
    BY <2>1, <1>4
  <2>4. FailuresCostOne'
    BY <2>3, SmallDifference DEF FailuresCostOne
  <2>5. c \notin DOMAIN kept
    BY <1>2 DEF Register, IInv, TypeOK, IsTable
  <2>6. CrashKeepsClients'
    BY <2>1, <1>4, <2>5 DEF CrashKeepsClients
  <2> QED
    BY <1>0, <2>2, <2>4, <2>6 DEF IInv
<1> QED
  BY <1>6, <1>7, <1>8 DEF Outcomes

LEMMA InitOK == Init => IInv
<1> SUFFICES ASSUME Init PROVE IInv
  OBVIOUS
<1>1. clients = Nothing /\ file.clients = Nothing /\ grants = Nothing /\ file.grants = Nothing
  BY DEF Init
<1>2. DOMAIN clients = {} /\ DOMAIN file.clients = {}
  BY <1>1 DEF Nothing
<1>3. IsFiniteSet({}) /\ Cardinality({}) = 0
  BY FS_EmptySet
<1>4. TypeOK
  BY <1>1, NothingTable DEF Init, TypeOK
<1>5. DOMAIN file.clients \ DOMAIN clients = {}
  BY <1>2
<1> QED
  BY <1>2, <1>3, <1>4, <1>5 DEF IInv, Finite, RegistryBounded, CrashKeepsClients, FailuresCostOne

LEMMA StepOK == IInv /\ [Next]_vars => IInv'
<1> SUFFICES ASSUME IInv, [Next]_vars PROVE IInv'
  OBVIOUS
<1>1. TypeOK'
  BY TypeStep DEF IInv
<1>2. CASE UNCHANGED <<clients, file>>
  BY <1>1, <1>2, SameClients
<1>3. CASE Restart
  <2>1. clients' = file.clients /\ file' = file
    BY <1>3 DEF Restart
  <2>2. DOMAIN file'.clients \ DOMAIN clients' = {}
    BY <2>1
  <2>3. Cardinality(DOMAIN file'.clients \ DOMAIN clients') = 0
    BY <2>2, FS_EmptySet
  <2> QED
    BY <1>1, <2>1, <2>3 DEF IInv, Finite, RegistryBounded, CrashKeepsClients, FailuresCostOne
<1>4. ASSUME NEW c \in Clients, NEW outcome \in Outcomes, Register(c, outcome) PROVE IInv'
  BY <1>4, RegisterOK
<1>5. ASSUME NEW g \in Grants, NEW c \in Clients, NEW outcome \in Outcomes,
             GrantTo(g, c, outcome)
      PROVE  IInv'
  <2>1. UNCHANGED clients /\ file'.clients \in {clients, file.clients}
    BY <1>5 DEF GrantTo, Saved
  <2> QED
    BY <1>1, <2>1, SameClients
<1>6. ASSUME NEW g \in Grants, NEW outcome \in Outcomes, EndGrant(g, outcome) PROVE IInv'
  <2>1. UNCHANGED clients /\ file'.clients \in {clients, file.clients}
    BY <1>6 DEF EndGrant, Saved
  <2> QED
    BY <1>1, <2>1, SameClients
<1>7. ASSUME NEW c \in Clients, Authorize(c) PROVE IInv'
  BY <1>2, <1>7 DEF Authorize
<1>8. ASSUME NEW outcome \in Outcomes, SaveGrant(outcome) PROVE IInv'
  <2>1. UNCHANGED clients /\ file'.clients \in {clients, file.clients}
    BY <1>8 DEF SaveGrant, Saved
  <2> QED
    BY <1>1, <2>1, SameClients
<1> QED
  BY <1>2, <1>3, <1>4, <1>5, <1>6, <1>7, <1>8 DEF Next, Tick, vars

LEMMA Invariance == Spec => []IInv
  BY InitOK, StepOK, PTL DEF Spec

----------------------------------------------------------------------------
\* Every variable has its type in every reachable state.
THEOREM TypeCorrect == Spec => []TypeOK
<1>1. IInv => TypeOK
  BY DEF IInv
<1> QED
  BY <1>1, Invariance, PTL

\* Registering can fill neither the table nor the file beyond the limit
\* (register).
THEOREM BoundSafety == Spec => []RegistryBounded
<1>1. IInv => RegistryBounded
  BY DEF IInv
<1> QED
  BY <1>1, Invariance, PTL

\* A crash at any point loses no registered client (register, loadState).
THEOREM CrashSafety == Spec => []CrashKeepsClients
<1>1. IInv => CrashKeepsClients
  BY DEF IInv
<1> QED
  BY <1>1, Invariance, PTL

\* Any number of failing registrations drop at most one client that is in the
\* file (register).
THEOREM FailureCost == Spec => []FailuresCostOne
<1>1. IInv => FailuresCostOne
  BY DEF IInv
<1> QED
  BY <1>1, Invariance, PTL

\* A registered client that holds a grant stays registered in every step
\* (evictUnusedClientLocked).
THEOREM HolderSafety == Spec => HolderStays
<1> DEFINE Stays == \A c \in DOMAIN clients \cap Holders(grants) : c \in DOMAIN clients'
<1>1. IInv /\ [Next]_vars => [Stays]_vars
  <2> SUFFICES ASSUME IInv, Next, NEW c \in DOMAIN clients, c \in Holders(grants)
               PROVE  c \in DOMAIN clients'
    OBVIOUS
  <2>1. CASE UNCHANGED clients
    BY <2>1
  <2>2. CASE Restart
    BY <2>2 DEF Restart, IInv, CrashKeepsClients
  <2>3. ASSUME NEW d \in Clients, NEW outcome \in Outcomes, Register(d, outcome)
        PROVE  c \in DOMAIN clients'
    <3>1. PICK kept \in RoomMade :
              clients' = IF outcome = "ok" THEN With(kept, d, now) ELSE kept
      BY <2>3 DEF Register, AfterFailure
    <3>2. c \in DOMAIN kept
      <4>1. CASE kept = clients
        BY <4>1
      <4>2. ASSUME NEW e \in Oldest(Evictable), kept = Without(clients, e) PROVE c \in DOMAIN kept
        <5>1. e # c
          BY DEF Oldest, Evictable
        <5> QED
          BY <4>2, <5>1, WithoutDomain
      <4> QED
        BY <4>1, <4>2 DEF RoomMade
    <3>3. c \in DOMAIN With(kept, d, now)
      BY <3>2 DEF With
    <3> QED
      BY <3>1, <3>2, <3>3
  <2> QED
    BY <2>1, <2>2, <2>3 DEF Next, Tick, Authorize, GrantTo, EndGrant, SaveGrant
<1> QED
  BY <1>1, Invariance, PTL DEF Spec, HolderStays

----------------------------------------------------------------------------
(***************************************************************************)
(* The grants leave room for clients.                                      *)
(***************************************************************************)

Few(g) == IsFiniteSet(DOMAIN g) /\ Cardinality(DOMAIN g) <= MaxGrants

\* No more grants than MaxGrants, in memory and in the file.
FewGrants == Few(grants) /\ Few(file.grants)

LEMMA FewerGrants ==
    ASSUME NEW f, NEW x \in DOMAIN f, Few(f)
    PROVE  /\ Few(Without(f, x))
           /\ Cardinality(DOMAIN Without(f, x)) = Cardinality(DOMAIN f) - 1
<1>1. Cardinality(DOMAIN f) \in Nat
  BY FS_CardinalityType DEF Few
<1>2. IsFiniteSet(DOMAIN f \ {x}) /\ Cardinality(DOMAIN f \ {x}) = Cardinality(DOMAIN f) - 1
  BY FS_RemoveElement DEF Few
<1>3. DOMAIN Without(f, x) = DOMAIN f \ {x}
  BY WithoutDomain
<1> QED
  BY <1>1, <1>2, <1>3 DEF Few

\* An exchange that evicts from a full table stays within the limit, with the
\* new grant and without it.
LEMMA ExchangeFew ==
    ASSUME FewGrants, NEW g, NEW c, NEW left \in GrantsLeft
    PROVE  Few(left) /\ Few(With(left, g, c))
<1>1. Cardinality(DOMAIN grants) \in Nat
  BY FS_CardinalityType DEF FewGrants, Few
<1>2. Few(left) /\ Cardinality(DOMAIN left) < MaxGrants
  <2>1. CASE Cardinality(DOMAIN grants) >= MaxGrants
    <3>1. PICK x \in DOMAIN grants : left = Without(grants, x)
      BY <2>1 DEF GrantsLeft
    <3> QED
      BY <1>1, <3>1, FewerGrants DEF FewGrants, Few
  <2>2. CASE ~ (Cardinality(DOMAIN grants) >= MaxGrants)
    BY <1>1, <2>2 DEF GrantsLeft, FewGrants
  <2> QED
    BY <2>1, <2>2
<1>3. IsFiniteSet(DOMAIN left) /\ Cardinality(DOMAIN left) \in Nat
  BY <1>2, FS_CardinalityType DEF Few
<1>4. /\ IsFiniteSet(DOMAIN left \cup {g})
      /\ Cardinality(DOMAIN left \cup {g}) =
             IF g \in DOMAIN left THEN Cardinality(DOMAIN left) ELSE Cardinality(DOMAIN left) + 1
  BY <1>3, FS_AddElement
<1>5. DOMAIN With(left, g, c) = DOMAIN left \cup {g}
  BY DEF With
<1> QED
  BY <1>2, <1>3, <1>4, <1>5 DEF Few

LEMMA FewStep == FewGrants /\ [Next]_vars => FewGrants'
<1> SUFFICES ASSUME FewGrants, [Next]_vars PROVE FewGrants'
  OBVIOUS
<1>1. CASE UNCHANGED <<grants, file>>
  BY <1>1 DEF FewGrants, Few
<1>2. CASE Restart
  BY <1>2 DEF Restart, FewGrants, Few
<1>3. ASSUME NEW c \in Clients, NEW outcome \in Outcomes, Register(c, outcome)
      PROVE  FewGrants'
  <2>1. grants' = grants /\ file'.grants \in {grants, file.grants}
    BY <1>3 DEF Register, Saved
  <2> QED
    BY <2>1 DEF FewGrants, Few
<1>4. ASSUME NEW g \in Grants, NEW c \in Clients, NEW outcome \in Outcomes,
             GrantTo(g, c, outcome)
      PROVE  FewGrants'
  <2>1. PICK left \in GrantsLeft :
            /\ grants' = IF outcome = "ok" THEN With(left, g, c) ELSE left
            /\ Saved(outcome, clients, With(left, g, c))
    BY <1>4 DEF GrantTo
  <2>2. Few(left) /\ Few(With(left, g, c))
    BY ExchangeFew
  <2>3. grants' \in {left, With(left, g, c)} /\ file'.grants \in {file.grants, With(left, g, c)}
    BY <2>1 DEF Saved
  <2> QED
    BY <2>2, <2>3 DEF FewGrants, Few
<1>5. ASSUME NEW g \in Grants, NEW outcome \in Outcomes, EndGrant(g, outcome)
      PROVE  FewGrants'
  <2>1. /\ g \in DOMAIN grants /\ grants' = Without(grants, g)
        /\ file'.grants \in {file.grants, Without(grants, g)}
    BY <1>5 DEF EndGrant, Saved
  <2> QED
    BY <2>1, FewerGrants DEF FewGrants, Few
<1>6. ASSUME NEW outcome \in Outcomes, SaveGrant(outcome) PROVE FewGrants'
  <2>1. grants' = grants /\ file'.grants \in {grants, file.grants}
    BY <1>6 DEF SaveGrant, Saved
  <2> QED
    BY <2>1 DEF FewGrants, Few
<1> QED
  BY <1>1, <1>2, <1>3, <1>4, <1>5, <1>6 DEF Next, Tick, Authorize, vars

\* There are no more holders than grants.
LEMMA FewHolders ==
    ASSUME TypeOK, FewGrants
    PROVE  IsFiniteSet(Holders(grants)) /\ Cardinality(Holders(grants)) < MaxClients
<1>1. grants \in Surjection(DOMAIN grants, Range(grants))
  BY DEF Surjection, Range, TypeOK, IsTable
<1>2. IsFiniteSet(Range(grants)) /\ Cardinality(Range(grants)) <= Cardinality(DOMAIN grants)
  BY <1>1, FS_Surjection DEF FewGrants, Few
<1>3. Cardinality(Range(grants)) \in Nat /\ Cardinality(DOMAIN grants) \in Nat
  BY <1>2, FS_CardinalityType DEF FewGrants, Few
<1> QED
  BY <1>2, <1>3 DEF Holders, FewGrants, Few

\* However grants are made, evicted and revoked, whatever saves fail, there is
\* always a client to evict for a new one (register's errTooManyClients).
THEOREM OpenSafety == Spec => []RegistrationOpen
<1>1. Init => FewGrants
  <2>1. DOMAIN Nothing = {}
    BY DEF Nothing
  <2> QED
    BY <2>1, FS_EmptySet DEF Init, FewGrants, Few
<1>2. IInv /\ FewGrants => RegistrationOpen
  <2> SUFFICES ASSUME IInv, FewGrants, IsFull, Evictable = {} PROVE FALSE
    BY DEF RegistrationOpen
  <2>1. DOMAIN clients \subseteq Holders(grants)
    BY DEF Evictable
  <2>2. IsFiniteSet(Holders(grants)) /\ Cardinality(Holders(grants)) < MaxClients
    BY FewHolders DEF IInv
  <2>3. Cardinality(DOMAIN clients) <= Cardinality(Holders(grants))
    BY <2>1, <2>2, FS_Subset
  <2>4. Cardinality(DOMAIN clients) \in Nat /\ Cardinality(Holders(grants)) \in Nat
    BY <2>2, FS_CardinalityType DEF IInv, Finite
  <2> QED
    BY <2>2, <2>3, <2>4 DEF IsFull
<1> QED
  BY <1>1, <1>2, FewStep, Invariance, PTL DEF Spec

============================================================================

------------------------- MODULE TokenServerProofs -------------------------
(***************************************************************************)
(* Proofs about TokenServer, for every set of clients, owners and proofs,  *)
(* every lifetime, limit and bound.                                        *)
(***************************************************************************)
EXTENDS TokenServer, FiniteSetTheorems, TLAPS

----------------------------------------------------------------------------
\* Tables.

\* Dropping keys leaves a table, the other keys and their entries.
LEMMA DropTable ==
    ASSUME NEW t, NEW Key, NEW Entry, NEW keys, IsTable(t, Key, Entry)
    PROVE  /\ IsTable(Drop(t, keys), Key, Entry)
           /\ DOMAIN Drop(t, keys) = DOMAIN t \ keys
           /\ \A k \in DOMAIN t \ keys : Drop(t, keys)[k] = t[k]
BY DEF IsTable, Drop, Restrict

\* Putting an entry of the right type leaves a table, with that entry at its
\* key and the others where they were.
LEMMA PutTable ==
    ASSUME NEW t, NEW Key, NEW Entry, IsTable(t, Key, Entry),
           NEW k \in Key, NEW e \in Entry
    PROVE  /\ IsTable(Put(t, k, e), Key, Entry)
           /\ DOMAIN Put(t, k, e) = DOMAIN t \cup {k}
           /\ Put(t, k, e)[k] = e
           /\ \A x \in DOMAIN t \ {k} : Put(t, k, e)[x] = t[x]
BY DEF IsTable, Put

\* Replacing an entry by one of the right type leaves a table.
LEMMA ExceptTable ==
    ASSUME NEW t, NEW Key, NEW Entry, IsTable(t, Key, Entry),
           NEW k \in DOMAIN t, NEW e \in Entry
    PROVE  /\ IsTable([t EXCEPT ![k] = e], Key, Entry)
           /\ DOMAIN [t EXCEPT ![k] = e] = DOMAIN t
           /\ [t EXCEPT ![k] = e][k] = e
           /\ \A x \in DOMAIN t \ {k} : [t EXCEPT ![k] = e][x] = t[x]
BY DEF IsTable

\* A table over fewer keys is one over more.
LEMMA WiderTable ==
    ASSUME NEW t, NEW Key, NEW Wide, NEW Entry, IsTable(t, Key, Entry), Key \subseteq Wide
    PROVE  IsTable(t, Wide, Entry)
BY DEF IsTable

LEMMA EmptyIsTable == ASSUME NEW Key, NEW Entry PROVE IsTable(EmptyTable, Key, Entry)
BY DEF IsTable, EmptyTable

----------------------------------------------------------------------------
\* Type correctness.

\* The types of what a handler saves and of what it keeps when the save
\* fails are the types of the two copies afterwards.
LEMMA SaveType ==
    ASSUME NEW Key, NEW outcome \in SaveOutcomes, NEW saved, NEW failed,
           Save(outcome, saved, failed),
           IsTable(saved, Key, Grant), IsTable(failed, Key, Grant), IsTable(disk, Key, Grant),
           strayed \subseteq Key
    PROVE  /\ IsTable(grants', Key, Grant)
           /\ IsTable(disk', Key, Grant)
           /\ lastSave' \in AllOutcomes
           /\ strayed' \subseteq Key
BY OutcomeAssumption DEF Save, Differs, IsTable

LEMMA RotatedType ==
    ASSUME NEW g \in Grant, NEW refresh \in Secret, now \in Nat
    PROVE  /\ Rotated(g, refresh) \in Grant
           /\ Rotated(g, refresh).hash = refresh
           /\ Rotated(g, refresh).gen = g.gen + 1
           /\ Rotated(g, refresh).email = g.email
<1> DEFINE a == [g EXCEPT !.prev = g.hash]
           b == [a EXCEPT !.hash = refresh]
           c == [b EXCEPT !.refreshedAt = now]
           d == [c EXCEPT !.gen = g.gen + 1]
<1>1. a \in Grant /\ a.email = g.email
  BY DEF Grant, Secret
<1> HIDE DEF a
<1>2. b \in Grant /\ b.hash = refresh /\ b.email = g.email
  BY <1>1 DEF Grant
<1> HIDE DEF b
<1>3. c \in Grant /\ c.hash = refresh /\ c.email = g.email
  BY <1>2 DEF Grant
<1> HIDE DEF c
<1>4. d \in Grant /\ d.hash = refresh /\ d.gen = g.gen + 1 /\ d.email = g.email
  BY <1>3 DEF Grant
<1> HIDE DEF d
<1>5. Rotated(g, refresh) = d
  BY Zenon DEF Rotated, a, b, c, d
<1> QED
  BY <1>4, <1>5

LEMMA NewGrantType ==
    ASSUME NEW client \in Clients, NEW email \in Emails, NEW refresh \in Secret, now \in Nat
    PROVE  NewGrant(client, email, refresh) \in Grant
BY LifetimeAssumption DEF NewGrant, Grant, Secret, NoHash

\* Both the responses there were and the new one name secrets drawn so far.
LEMMA IssueType ==
    ASSUME NEW id \in 1..grantsDrawn', NEW g \in Grant, g.hash \in 1..refreshDrawn',
           NEW outcome, now \in Nat, issued \subseteq Response, IssueTokens(id, g, outcome),
           grantsDrawn \in Nat, refreshDrawn \in Nat,
           grantsDrawn' \in {grantsDrawn, grantsDrawn + 1},
           refreshDrawn' \in {refreshDrawn, refreshDrawn + 1}
    PROVE  issued' \subseteq Response'
<1> DEFINE t == [grant |-> id, gen |-> g.gen, expires |-> now + AccessTTL, refresh |-> g.hash]
<1>1. t \in Response'
  BY LifetimeAssumption DEF Response, Grant
<1>2. Response \subseteq Response'
  <2> SUFFICES ASSUME NEW u \in Response PROVE u \in Response'
    OBVIOUS
  <2> QED
    BY DEF Response
<1> QED
  BY <1>1, <1>2 DEF IssueTokens

\* Every variable keeps its type.
LEMMA TypeInit == Init => TypeOK
BY EmptyIsTable DEF Init, TypeOK, AllOutcomes, Response

LEMMA TypeNext == TypeOK /\ [Next]_vars => TypeOK'
<1> SUFFICES ASSUME TypeOK, [Next]_vars PROVE TypeOK'
  OBVIOUS
<1> USE DEF TypeOK, tables, drawn, told
<1>1. CASE Tick
  BY <1>1 DEF Tick, Response
<1>2. ASSUME NEW newOwners \in SUBSET Emails \ {{}}, Restart(newOwners) PROVE TypeOK'
  BY <1>2, EmptyIsTable DEF Restart, AllOutcomes, Response
<1>3. ASSUME NEW client \in Clients, NEW email \in Emails, NEW proof \in Proofs,
             IssueCode(client, email, proof)
      PROVE  TypeOK'
  <2> DEFINE kept == Restrict(codes, LiveCodes)
             entry == [client |-> client, email |-> email,
                       proof |-> proof, expires |-> now + CodeTTL]
  <2>1. codesDrawn' = codesDrawn + 1 /\ codesDrawn + 1 \in 1..codesDrawn' /\ 1..codesDrawn \subseteq 1..codesDrawn'
    BY <1>3 DEF IssueCode
  <2>2. IsTable(kept, 1..codesDrawn', Code)
    BY <2>1 DEF IsTable, Restrict, LiveCodes
  <2>3. entry \in Code
    BY LifetimeAssumption DEF Code
  <2>4. IsTable(Put(kept, codesDrawn + 1, entry), 1..codesDrawn', Code)
    BY <2>1, <2>2, <2>3, PutTable
  <2>5. codes' = kept \/ codes' = Put(kept, codesDrawn + 1, entry)
    BY <1>3 DEF IssueCode
  <2> QED
    BY <1>3, <2>1, <2>2, <2>4, <2>5 DEF IssueCode, Response
<1>4. ASSUME NEW code \in DOMAIN codes, NEW client \in Clients, NEW proof \in Proofs,
             RejectCode(code, client, proof)
      PROVE  TypeOK'
  <2>1. IsTable(Drop(codes, {code}), 1..codesDrawn, Code) /\ code \in 1..codesDrawn
    BY DropTable DEF IsTable
  <2> QED
    BY <1>4, <2>1 DEF RejectCode, BurnCode, Response
<1>5. ASSUME NEW code \in DOMAIN codes, NEW client \in Clients, NEW proof \in Proofs,
             NEW outcome \in SaveOutcomes, ExchangeCode(code, client, proof, outcome)
      PROVE  TypeOK'
  <2> DEFINE id == grantsDrawn + 1
             refresh == refreshDrawn + 1
             g == NewGrant(client, codes[code].email, refresh)
  <2>1. PICK evicted \in EvictionChoices :
            Save(outcome, Put(Drop(grants, evicted), id, g), Drop(grants, evicted))
    BY <1>5 DEF ExchangeCode
  <2>2. /\ grantsDrawn' = id /\ refreshDrawn' = refresh /\ BurnCode(code)
        /\ IssueTokens(id, g, outcome)
        /\ UNCHANGED <<now, owners, codesDrawn, replayed, acked>>
    BY <1>5 DEF ExchangeCode
  <2>3. id \in 1..grantsDrawn' /\ 1..grantsDrawn \subseteq 1..grantsDrawn' /\ id \in Secret /\ refresh \in Secret
    BY <2>2 DEF Secret
  <2>4. codes[code] \in Code /\ code \in 1..codesDrawn
    BY DEF IsTable
  <2>5. g \in Grant
    BY <2>3, <2>4, NewGrantType DEF Code
  <2>6. IsTable(Drop(grants, evicted), 1..grantsDrawn', Grant) /\ IsTable(disk, 1..grantsDrawn', Grant)
        /\ strayed \subseteq 1..grantsDrawn'
    BY <2>3, DropTable, WiderTable
  <2>7. IsTable(Put(Drop(grants, evicted), id, g), 1..grantsDrawn', Grant)
    BY <2>3, <2>5, <2>6, PutTable
  <2>8. IsTable(grants', 1..grantsDrawn', Grant) /\ IsTable(disk', 1..grantsDrawn', Grant)
        /\ lastSave' \in AllOutcomes /\ strayed' \subseteq 1..grantsDrawn'
    BY <2>1, <2>6, <2>7, SaveType
  <2>9. issued' \subseteq Response'
    <3>1. g.hash \in 1..refreshDrawn'
      BY <2>2, <2>3 DEF NewGrant, Secret
    <3> QED
      BY <2>2, <2>3, <2>5, <3>1, IssueType
  <2>10. IsTable(codes', 1..codesDrawn', Code) /\ presented' \subseteq 1..codesDrawn'
    BY <2>2, <2>4, DropTable DEF BurnCode
  <2> QED
    BY <2>2, <2>3, <2>8, <2>9, <2>10
<1>6. ASSUME NEW token, NEW client, NEW outcome \in SaveOutcomes,
             RotateRefresh(token, client, outcome)
      PROVE  TypeOK'
  <2> DEFINE refresh == refreshDrawn + 1
  <2>1. PICK id \in DOMAIN grants :
          /\ Save(outcome, [grants EXCEPT ![id] = Rotated(grants[id], refresh)], grants)
          /\ IssueTokens(id, Rotated(grants[id], refresh), outcome)
    BY <1>6 DEF RotateRefresh
  <2>2. refreshDrawn' = refresh /\ UNCHANGED <<now, owners, codes, codesDrawn, grantsDrawn,
                                              presented, replayed, acked>>
    BY <1>6 DEF RotateRefresh
  <2>3. grants[id] \in Grant /\ id \in Secret /\ refresh \in Secret
    BY DEF IsTable, Secret
  <2>4. Rotated(grants[id], refresh) \in Grant
    BY <2>3, RotatedType
  <2>5. IsTable([grants EXCEPT ![id] = Rotated(grants[id], refresh)], 1..grantsDrawn, Grant)
    BY <2>4, ExceptTable
  <2>6. IsTable(grants', 1..grantsDrawn, Grant) /\ IsTable(disk', 1..grantsDrawn, Grant)
        /\ lastSave' \in AllOutcomes /\ strayed' \subseteq 1..grantsDrawn
    BY <2>1, <2>5, SaveType
  <2>7. issued' \subseteq Response'
    <3>1. id \in 1..grantsDrawn'
      BY <2>2 DEF IsTable
    <3>2. Rotated(grants[id], refresh).hash \in 1..refreshDrawn'
      BY <2>2, <2>3 DEF Rotated, Grant, Secret
    <3> QED
      BY <2>1, <2>2, <2>4, <3>1, <3>2, IssueType
  <2> QED
    BY <2>2, <2>3, <2>6, <2>7
<1>7. ASSUME NEW token, NEW outcome \in SaveOutcomes, ReuseRefresh(token, outcome)
      PROVE  TypeOK'
  <2>1. PICK id \in DOMAIN grants : RevokeGrant(id, outcome)
    BY <1>7 DEF ReuseRefresh
  <2>2. IsTable(Drop(grants, {id}), 1..grantsDrawn, Grant)
    BY DropTable
  <2>3. IsTable(grants', 1..grantsDrawn, Grant) /\ IsTable(disk', 1..grantsDrawn, Grant)
        /\ lastSave' \in AllOutcomes /\ strayed' \subseteq 1..grantsDrawn
    BY <2>1, <2>2, SaveType DEF RevokeGrant
  <2>4. OwnersOfSpent(token) \subseteq 1..grantsDrawn
    BY DEF OwnersOfSpent, Superseded, Response
  <2> QED
    BY <1>7, <2>3, <2>4 DEF ReuseRefresh, Response
<1>8. ASSUME NEW token, UnknownRefresh(token) PROVE TypeOK'
  <2>1. OwnersOfSpent(token) \subseteq 1..grantsDrawn
    BY DEF OwnersOfSpent, Superseded, Response
  <2> QED
    BY <1>8, <2>1 DEF UnknownRefresh, Response
<1>9. ASSUME NEW t \in issued, NEW outcome \in SaveOutcomes, Verify(t, outcome) PROVE TypeOK'
  <2> DEFINE used == [grants EXCEPT ![t.grant].usedAt = now]
  <2>1. t.grant \in DOMAIN grants /\ Save(outcome, used, used)
    BY <1>9 DEF Verify, Current
  <2>2. [grants[t.grant] EXCEPT !.usedAt = now] \in Grant
    BY <2>1 DEF IsTable, Grant
  <2>3. IsTable(used, 1..grantsDrawn, Grant)
    BY <2>1, <2>2, ExceptTable
  <2>4. IsTable(grants', 1..grantsDrawn, Grant) /\ IsTable(disk', 1..grantsDrawn, Grant)
        /\ lastSave' \in AllOutcomes /\ strayed' \subseteq 1..grantsDrawn
    BY <2>1, <2>3, SaveType
  <2> QED
    BY <1>9, <2>4 DEF Verify, Response
<1>10. ASSUME NEW id \in 1..grantsDrawn, NEW email, NEW outcome \in SaveOutcomes,
              Revoke(id, email, outcome)
       PROVE  TypeOK'
  <2>1. IsTable(Drop(grants, {id}), 1..grantsDrawn, Grant)
    BY DropTable
  <2>2. IsTable(grants', 1..grantsDrawn, Grant) /\ IsTable(disk', 1..grantsDrawn, Grant)
        /\ lastSave' \in AllOutcomes /\ strayed' \subseteq 1..grantsDrawn
    BY <1>10, <2>1, SaveType DEF Revoke, RevokeGrant
  <2> QED
    BY <1>10, <2>2 DEF Revoke, Response
<1>11. ASSUME NEW id \in 1..grantsDrawn, RevokeAgain(id) PROVE TypeOK'
  BY <1>11 DEF RevokeAgain, Response
<1>12. CASE UNCHANGED vars
  BY <1>12 DEF vars, Response
<1>13. ASSUME NEW outcome \in SaveOutcomes, SaveOthers(outcome) PROVE TypeOK'
  <2>1. IsTable(grants', 1..grantsDrawn, Grant) /\ IsTable(disk', 1..grantsDrawn, Grant)
        /\ lastSave' \in AllOutcomes /\ strayed' \subseteq 1..grantsDrawn
    BY <1>13, SaveType DEF SaveOthers
  <2> QED
    BY <1>13, <2>1 DEF SaveOthers, Response
<1> QED
  BY <1>1, <1>2, <1>3, <1>4, <1>5, <1>6, <1>7, <1>8, <1>9, <1>10, <1>11, <1>12, <1>13
     DEF Next, CodeStep, RefreshStep, GrantStep

\* Every variable has its type in every reachable state.
THEOREM TypeCorrect == Spec => []TypeOK
BY TypeInit, TypeNext, PTL DEF Spec

----------------------------------------------------------------------------
\* What a step does to the grants, whatever request it serves.  The proofs
\* below are by cases on these six kinds.

grantView == <<grants, disk, lastSave, strayed, grantsDrawn, refreshDrawn, issued>>

Reloads ==
    /\ grants' = disk /\ disk' = disk /\ lastSave' = "ok" /\ strayed' = strayed
    /\ UNCHANGED <<grantsDrawn, refreshDrawn, issued>>

Adds(g, evicted, outcome) ==
    LET id == grantsDrawn + 1
    IN  /\ g \in Grant /\ g.hash = refreshDrawn + 1
        /\ id \in 1..LastGrantDrawn
        /\ evicted \in EvictionChoices
        /\ grantsDrawn' = id /\ refreshDrawn' = refreshDrawn + 1
        /\ Save(outcome, Put(Drop(grants, evicted), id, g), Drop(grants, evicted))
        /\ IssueTokens(id, g, outcome)

Replaces(id, g, outcome) ==
    /\ id \in DOMAIN grants
    /\ g = Rotated(grants[id], refreshDrawn + 1)
    /\ g \in Grant
    /\ UNCHANGED grantsDrawn
    /\ refreshDrawn' = refreshDrawn + 1
    /\ Save(outcome, [grants EXCEPT ![id] = g], grants)
    /\ IssueTokens(id, g, outcome)

Removes(id, outcome) ==
    /\ id \in DOMAIN grants
    /\ Save(outcome, Drop(grants, {id}), Drop(grants, {id}))
    /\ UNCHANGED <<grantsDrawn, refreshDrawn, issued>>

Marks(id, g, outcome) ==
    /\ id \in DOMAIN grants
    /\ g = [grants[id] EXCEPT !.usedAt = now]
    /\ g \in Grant
    /\ Save(outcome, [grants EXCEPT ![id] = g], [grants EXCEPT ![id] = g])
    /\ UNCHANGED <<grantsDrawn, refreshDrawn, issued>>

Resaves(outcome) ==
    /\ Save(outcome, grants, grants)
    /\ UNCHANGED <<grantsDrawn, refreshDrawn, issued>>

GrantChange ==
    \/ Reloads
    \/ \E g \in Grant, evicted \in EvictionChoices, outcome \in SaveOutcomes :
           Adds(g, evicted, outcome)
    \/ \E id \in DOMAIN grants, g \in Grant, outcome \in SaveOutcomes : Replaces(id, g, outcome)
    \/ \E id \in DOMAIN grants, outcome \in SaveOutcomes : Removes(id, outcome)
    \/ \E id \in DOMAIN grants, g \in Grant, outcome \in SaveOutcomes : Marks(id, g, outcome)
    \/ \E outcome \in SaveOutcomes : Resaves(outcome)

LEMMA GrantSteps ==
    ASSUME TypeOK, [Next]_vars
    PROVE  GrantChange \/ UNCHANGED grantView
<1> USE DEF tables, drawn, told
<1>1. CASE Tick
  BY <1>1 DEF Tick, grantView
<1>2. ASSUME NEW newOwners \in SUBSET Emails \ {{}}, Restart(newOwners) PROVE GrantChange
  BY <1>2 DEF Restart, GrantChange, Reloads
<1>3. ASSUME NEW client, NEW email, NEW proof, IssueCode(client, email, proof)
      PROVE  UNCHANGED grantView
  BY <1>3 DEF IssueCode, grantView
<1>4. ASSUME NEW code, NEW client, NEW proof, RejectCode(code, client, proof)
      PROVE  UNCHANGED grantView
  BY <1>4 DEF RejectCode, grantView
<1>5. ASSUME NEW code \in DOMAIN codes, NEW client \in Clients, NEW proof,
             NEW outcome \in SaveOutcomes, ExchangeCode(code, client, proof, outcome)
      PROVE  GrantChange
  <2> DEFINE g == NewGrant(client, codes[code].email, refreshDrawn + 1)
  <2>1. codes[code].email \in Emails
    BY DEF TypeOK, IsTable, Code
  <2>2. g \in Grant /\ g.hash = refreshDrawn + 1
    <3>1. refreshDrawn + 1 \in Secret /\ now \in Nat
      BY DEF TypeOK, Secret
    <3> QED
      BY <2>1, <3>1, NewGrantType DEF NewGrant
  <2>3. PICK evicted \in EvictionChoices :
          Save(outcome, Put(Drop(grants, evicted), grantsDrawn + 1, g), Drop(grants, evicted))
    BY <1>5 DEF ExchangeCode
  <2>4. grantsDrawn + 1 \in 1..LastGrantDrawn
    BY <1>5, BoundAssumption DEF ExchangeCode, TypeOK
  <2>5. /\ grantsDrawn' = grantsDrawn + 1 /\ refreshDrawn' = refreshDrawn + 1
        /\ IssueTokens(grantsDrawn + 1, g, outcome)
    BY <1>5 DEF ExchangeCode
  <2> HIDE DEF g
  <2>6. Adds(g, evicted, outcome)
    BY <2>2, <2>3, <2>4, <2>5 DEF Adds
  <2> QED
    BY <2>2, <2>6 DEF GrantChange
<1>6. ASSUME NEW token, NEW client, NEW outcome \in SaveOutcomes,
             RotateRefresh(token, client, outcome)
      PROVE  GrantChange
  <2>1. PICK id \in DOMAIN grants :
          /\ Save(outcome, [grants EXCEPT ![id] = Rotated(grants[id], refreshDrawn + 1)], grants)
          /\ IssueTokens(id, Rotated(grants[id], refreshDrawn + 1), outcome)
          /\ refreshDrawn' = refreshDrawn + 1
          /\ UNCHANGED grantsDrawn
    BY <1>6 DEF RotateRefresh
  <2>2. grants[id] \in Grant /\ refreshDrawn + 1 \in Secret /\ now \in Nat
    BY DEF TypeOK, IsTable, Secret
  <2>3. Rotated(grants[id], refreshDrawn + 1) \in Grant
    BY <2>2, RotatedType
  <2>4. Replaces(id, Rotated(grants[id], refreshDrawn + 1), outcome)
    BY <2>1, <2>3 DEF Replaces
  <2> QED
    BY <2>3, <2>4 DEF GrantChange
<1>7. ASSUME NEW token, NEW outcome \in SaveOutcomes, ReuseRefresh(token, outcome)
      PROVE  GrantChange
  BY <1>7 DEF ReuseRefresh, RevokeGrant, Removes, GrantChange
<1>8. ASSUME NEW token, UnknownRefresh(token) PROVE UNCHANGED grantView
  BY <1>8 DEF UnknownRefresh, grantView
<1>9. ASSUME NEW t \in issued, NEW outcome \in SaveOutcomes, Verify(t, outcome)
      PROVE  GrantChange
  <2> DEFINE g == [grants[t.grant] EXCEPT !.usedAt = now]
  <2>1. t.grant \in DOMAIN grants
    BY <1>9 DEF Verify, Current
  <2>2. g \in Grant
    BY <2>1 DEF TypeOK, IsTable, Grant
  <2>3. [grants EXCEPT ![t.grant].usedAt = now] = [grants EXCEPT ![t.grant] = g]
    BY <2>1
  <2>4. Save(outcome, [grants EXCEPT ![t.grant] = g], [grants EXCEPT ![t.grant] = g])
    BY <1>9, <2>3 DEF Verify
  <2>5. Marks(t.grant, g, outcome)
    BY <1>9, <2>1, <2>2, <2>4 DEF Marks, Verify
  <2> QED
    BY <2>1, <2>2, <2>5 DEF GrantChange
<1>10. ASSUME NEW id, NEW email, NEW outcome \in SaveOutcomes, Revoke(id, email, outcome)
       PROVE  GrantChange
  BY <1>10 DEF Revoke, RevokeGrant, Removes, GrantChange
<1>11. ASSUME NEW id, RevokeAgain(id) PROVE UNCHANGED grantView
  BY <1>11 DEF RevokeAgain, grantView
<1>12. CASE UNCHANGED vars
  BY <1>12 DEF vars, grantView
<1>13. ASSUME NEW outcome \in SaveOutcomes, SaveOthers(outcome) PROVE GrantChange
  BY <1>13 DEF SaveOthers, Resaves, GrantChange
<1> QED
  BY <1>1, <1>2, <1>3, <1>4, <1>5, <1>6, <1>7, <1>8, <1>9, <1>10, <1>11, <1>12, <1>13
     DEF Next, CodeStep, RefreshStep, GrantStep

----------------------------------------------------------------------------
\* A crash loses no grant.

\* It is enough that what memory goes on with after a failure is part both of
\* what was saved and of what was in memory before.
LEMMA SaveKeepsCopies ==
    ASSUME CrashLosesNothing, NEW outcome \in SaveOutcomes, NEW saved, NEW failed,
           Save(outcome, saved, failed),
           DOMAIN failed \subseteq DOMAIN saved, DOMAIN failed \subseteq DOMAIN grants
    PROVE  CrashLosesNothing'
BY OutcomeAssumption DEF Save, CrashLosesNothing, AllOutcomes

LEMMA CrashNext ==
    ASSUME TypeOK, CrashLosesNothing, GrantChange \/ UNCHANGED grantView
    PROVE  CrashLosesNothing'
<1>1. CASE UNCHANGED grantView
  BY <1>1 DEF grantView, CrashLosesNothing
<1>2. CASE Reloads
  BY <1>2 DEF Reloads, CrashLosesNothing
<1>3. ASSUME NEW g \in Grant, NEW evicted \in EvictionChoices, NEW outcome \in SaveOutcomes,
             Adds(g, evicted, outcome)
      PROVE  CrashLosesNothing'
  <2>1. /\ DOMAIN Drop(grants, evicted) \subseteq DOMAIN Put(Drop(grants, evicted), grantsDrawn + 1, g)
        /\ DOMAIN Drop(grants, evicted) \subseteq DOMAIN grants
    BY DEF Drop, Put, Restrict
  <2> QED
    BY <1>3, <2>1, SaveKeepsCopies DEF Adds
<1>4. ASSUME NEW id \in DOMAIN grants, NEW g \in Grant, NEW outcome \in SaveOutcomes,
             Replaces(id, g, outcome)
      PROVE  CrashLosesNothing'
  <2>1. DOMAIN [grants EXCEPT ![id] = g] = DOMAIN grants
    OBVIOUS
  <2> QED
    BY <1>4, <2>1, SaveKeepsCopies DEF Replaces
<1>5. ASSUME NEW id \in DOMAIN grants, NEW outcome \in SaveOutcomes, Removes(id, outcome)
      PROVE  CrashLosesNothing'
  <2>1. DOMAIN Drop(grants, {id}) \subseteq DOMAIN grants
    BY DEF Drop, Restrict
  <2> QED
    BY <1>5, <2>1, SaveKeepsCopies DEF Removes
<1>6. ASSUME NEW id \in DOMAIN grants, NEW g \in Grant, NEW outcome \in SaveOutcomes,
             Marks(id, g, outcome)
      PROVE  CrashLosesNothing'
  <2>1. DOMAIN [grants EXCEPT ![id] = g] = DOMAIN grants
    OBVIOUS
  <2> QED
    BY <1>6, <2>1, SaveKeepsCopies DEF Marks
<1>7. ASSUME NEW outcome \in SaveOutcomes, Resaves(outcome)
      PROVE  CrashLosesNothing'
  BY <1>7, SaveKeepsCopies DEF Resaves
<1> QED
  BY <1>1, <1>2, <1>3, <1>4, <1>5, <1>6, <1>7 DEF GrantChange

\* Every grant in memory is in the file at any time, and the two are the same
\* after a save that succeeded, however saves fail and wherever a crash falls.
THEOREM CrashSafety == Spec => []CrashLosesNothing
<1>1. Init => CrashLosesNothing
  BY DEF Init, CrashLosesNothing
<1>2. TypeOK /\ CrashLosesNothing /\ [Next]_vars => CrashLosesNothing'
  BY GrantSteps, CrashNext
<1> QED
  BY <1>1, <1>2, TypeCorrect, PTL DEF Spec

----------------------------------------------------------------------------
\* Superseded tokens stay dead.

\* No response is ahead of table tbl: the grant it names, if it is there, has
\* its generation and its refresh token or later ones.
NotAhead(t, tbl) ==
    t.grant \in DOMAIN tbl => /\ t.gen <= tbl[t.grant].gen
                              /\ t.refresh <= tbl[t.grant].hash

LEMMA NotAheadOfRest ==
    ASSUME NEW t, NEW tbl, NEW keys, NotAhead(t, tbl)
    PROVE  NotAhead(t, Drop(tbl, keys))
BY DEF NotAhead, Drop, Restrict

\* The inductive invariant: memory and file are at least as new as every
\* response, and of two responses for a grant the later has the greater
\* generation.
Ledger ==
    /\ \A t \in issued : NotAhead(t, grants) /\ NotAhead(t, disk)
    /\ \A t, u \in issued : t.grant = u.grant /\ t.refresh < u.refresh => t.gen < u.gen

LEMMA LedgerImplies == TypeOK /\ Ledger => SupersededStaysDead
<1> SUFFICES ASSUME TypeOK, Ledger, NEW t \in Superseded, NEW tbl \in {grants, disk},
                    t.grant \in DOMAIN tbl
             PROVE  ~ Current(t, tbl) /\ tbl[t.grant].hash # t.refresh
  BY DEF SupersededStaysDead
<1>1. PICK u \in issued : u.grant = t.grant /\ u.refresh > t.refresh
  BY DEF Superseded
<1>2. t \in issued /\ t \in Response /\ u \in Response
  BY DEF Superseded, TypeOK
<1>3. t.gen \in Nat /\ u.gen \in Nat /\ t.refresh \in Nat /\ u.refresh \in Nat
  BY <1>2 DEF Response
<1>4. t.gen < u.gen
  BY <1>1, <1>2, <1>3 DEF Ledger
<1>5. u.gen <= tbl[t.grant].gen /\ u.refresh <= tbl[t.grant].hash
  BY <1>1 DEF Ledger, NotAhead
<1>6. tbl[t.grant].gen \in Nat /\ tbl[t.grant].hash \in Nat
  BY DEF TypeOK, IsTable, Grant, Secret
<1> QED
  BY <1>1, <1>3, <1>4, <1>5, <1>6 DEF Current

\* Neither table is ahead after a save that issues nothing, if what was saved
\* and what memory goes on with are not behind the responses there are.
LEMMA LedgerKept ==
    ASSUME TypeOK, Ledger, NEW outcome \in SaveOutcomes, NEW saved, NEW failed,
           Save(outcome, saved, failed), UNCHANGED issued,
           \A t \in issued : NotAhead(t, saved) /\ NotAhead(t, failed)
    PROVE  Ledger'
BY DEF Save, Ledger, NotAhead

\* The same with one more response, for a save that succeeded.
LEMMA LedgerExtended ==
    ASSUME TypeOK, Ledger, NEW saved, NEW failed, Save("ok", saved, failed),
           NEW id \in 1..grantsDrawn', NEW g \in Grant, IssueTokens(id, g, "ok"),
           id \in DOMAIN saved, saved[id] = g, g.hash = refreshDrawn + 1,
           \A t \in issued : NotAhead(t, saved),
           \A t \in issued : t.grant = id => t.gen < g.gen
    PROVE  Ledger'
<1> DEFINE new == [grant |-> id, gen |-> g.gen, expires |-> now + AccessTTL, refresh |-> g.hash]
<1>1. issued' = issued \cup {new} /\ grants' = saved /\ disk' = saved
  BY DEF IssueTokens, Save
<1>2. new.grant = id /\ new.gen = g.gen /\ new.refresh = g.hash /\ g.gen \in Nat /\ g.hash \in Nat
  BY DEF Grant, Secret
<1> HIDE DEF new
<1>3. NotAhead(new, saved)
  BY <1>2 DEF NotAhead
<1>4. \A t \in issued : t.refresh \in Nat /\ t.refresh < new.refresh
  BY <1>2 DEF TypeOK, Response
<1>5. ASSUME NEW t \in issued', NEW u \in issued', t.grant = u.grant, t.refresh < u.refresh
      PROVE  t.gen < u.gen
  <2>1. CASE u = new
    <3>1. t # new
      BY <1>2, <1>5, <2>1
    <3> QED
      BY <1>1, <1>2, <1>5, <2>1, <3>1
  <2>2. CASE u # new /\ t = new
    BY <1>1, <1>2, <1>4, <1>5, <2>2
  <2>3. CASE u # new /\ t # new
    BY <1>1, <1>5, <2>3 DEF Ledger
  <2> QED
    BY <2>1, <2>2, <2>3
<1> QED
  BY <1>1, <1>3, <1>5 DEF Ledger, NotAhead

LEMMA LedgerNext ==
    ASSUME TypeOK, Ledger, GrantChange \/ UNCHANGED grantView
    PROVE  Ledger'
<1>0. /\ IsTable(grants, 1..grantsDrawn, Grant)
      /\ \A t \in issued : t.grant \in 1..grantsDrawn /\ t.gen \in Nat /\ t.refresh \in 1..refreshDrawn
      /\ \A id \in DOMAIN grants : grants[id] \in Grant
  BY DEF TypeOK, Response, IsTable
<1>1. CASE UNCHANGED grantView
  BY <1>1 DEF grantView, Ledger, NotAhead
<1>2. CASE Reloads
  BY <1>2 DEF Reloads, Ledger, NotAhead
<1>3. ASSUME NEW g \in Grant, NEW evicted \in EvictionChoices, NEW outcome \in SaveOutcomes,
             Adds(g, evicted, outcome)
      PROVE  Ledger'
  <2> DEFINE id == grantsDrawn + 1
             kept == Drop(grants, evicted)
             added == Put(kept, id, g)
  <2>1. \A t \in issued : NotAhead(t, kept)
    BY NotAheadOfRest DEF Ledger
  <2>2. /\ DOMAIN added = DOMAIN kept \cup {id} /\ added[id] = g
        /\ \A x \in DOMAIN kept \ {id} : added[x] = kept[x]
    BY DEF Put
  <2>3. \A t \in issued : t.grant # id
    BY <1>0 DEF TypeOK
  <2> HIDE DEF added, kept
  <2>4. \A t \in issued : NotAhead(t, added)
    BY <2>1, <2>2, <2>3 DEF NotAhead
  <2>5. /\ Save(outcome, added, kept) /\ IssueTokens(id, g, outcome)
        /\ id \in 1..grantsDrawn' /\ g.hash = refreshDrawn + 1
    BY <1>3 DEF Adds, added, kept, TypeOK
  <2>6. CASE outcome = "ok"
    BY <2>2, <2>3, <2>4, <2>5, <2>6, LedgerExtended
  <2>7. CASE outcome # "ok"
    BY <2>1, <2>4, <2>5, <2>7, LedgerKept DEF IssueTokens
  <2> QED
    BY <2>6, <2>7
<1>4. ASSUME NEW id \in DOMAIN grants, NEW g \in Grant, NEW outcome \in SaveOutcomes,
             Replaces(id, g, outcome)
      PROVE  Ledger'
  <2> DEFINE rotated == [grants EXCEPT ![id] = g]
  <2>1. /\ DOMAIN rotated = DOMAIN grants /\ rotated[id] = g
        /\ \A x \in DOMAIN grants \ {id} : rotated[x] = grants[x]
    OBVIOUS
  <2>2. g.hash = refreshDrawn + 1 /\ g.gen = grants[id].gen + 1
    <3>1. grants[id] \in Grant /\ refreshDrawn + 1 \in Secret /\ now \in Nat
      BY <1>0 DEF TypeOK, Secret
    <3> QED
      BY <1>4, <3>1, RotatedType DEF Replaces
  <2>3. \A t \in issued : t.grant = id => t.gen <= grants[id].gen /\ t.gen < g.gen /\ t.refresh < g.hash
    <3> SUFFICES ASSUME NEW t \in issued, t.grant = id
                 PROVE  t.gen <= grants[id].gen /\ t.gen < g.gen /\ t.refresh < g.hash
      OBVIOUS
    <3>1. t.gen <= grants[id].gen
      BY DEF Ledger, NotAhead
    <3>2. t.gen \in Nat /\ grants[id].gen \in Nat /\ t.refresh \in 1..refreshDrawn /\ refreshDrawn \in Nat
      BY <1>0 DEF TypeOK, Grant
    <3> QED
      BY <2>2, <3>1, <3>2
  <2> HIDE DEF rotated
  <2>4. \A t \in issued : NotAhead(t, rotated) /\ NotAhead(t, grants)
    <3> SUFFICES ASSUME NEW t \in issued PROVE NotAhead(t, rotated) /\ NotAhead(t, grants)
      OBVIOUS
    <3>1. t.gen \in Nat /\ t.refresh \in Nat /\ g.gen \in Nat /\ g.hash \in Nat
      BY <1>0 DEF Grant, Secret
    <3> QED
      BY <2>1, <2>3, <3>1 DEF Ledger, NotAhead
  <2>5. /\ Save(outcome, rotated, grants) /\ IssueTokens(id, g, outcome)
        /\ id \in 1..grantsDrawn'
    BY <1>0, <1>4 DEF Replaces, rotated, IsTable
  <2>6. CASE outcome = "ok"
    BY <2>1, <2>2, <2>3, <2>4, <2>5, <2>6, LedgerExtended
  <2>7. CASE outcome # "ok"
    BY <2>4, <2>5, <2>7, LedgerKept DEF IssueTokens
  <2> QED
    BY <2>6, <2>7
<1>5. ASSUME NEW id \in DOMAIN grants, NEW outcome \in SaveOutcomes, Removes(id, outcome)
      PROVE  Ledger'
  <2>1. \A t \in issued : NotAhead(t, Drop(grants, {id}))
    BY NotAheadOfRest DEF Ledger
  <2> QED
    BY <1>5, <2>1, LedgerKept DEF Removes
<1>6. ASSUME NEW id \in DOMAIN grants, NEW g \in Grant, NEW outcome \in SaveOutcomes,
             Marks(id, g, outcome)
      PROVE  Ledger'
  <2>1. g.gen = grants[id].gen /\ g.hash = grants[id].hash
    BY <1>0, <1>6 DEF Marks, Grant
  <2>2. \A t \in issued : NotAhead(t, [grants EXCEPT ![id] = g])
    BY <2>1 DEF Ledger, NotAhead
  <2> QED
    BY <1>6, <2>2, LedgerKept DEF Marks
<1>7. ASSUME NEW outcome \in SaveOutcomes, Resaves(outcome)
      PROVE  Ledger'
  <2>1. \A t \in issued : NotAhead(t, grants)
    BY DEF Ledger
  <2> QED
    BY <1>7, <2>1, LedgerKept DEF Resaves
<1> QED
  BY <1>1, <1>2, <1>3, <1>4, <1>5, <1>6, <1>7 DEF GrantChange

\* Once a client has newer tokens, its older ones are dead in memory and in
\* the file, for good.
THEOREM SupersededSafety == Spec => []SupersededStaysDead
<1>1. Init => Ledger
  BY DEF Init, Ledger
<1>2. TypeOK /\ Ledger /\ [Next]_vars => Ledger'
  BY GrantSteps, LedgerNext
<1> QED
  BY <1>1, <1>2, TypeCorrect, LedgerImplies, PTL DEF Spec

----------------------------------------------------------------------------
\* A failing save strands no client but the one whose save it was.

\* Every grant of tbl that has not strayed is held: a response names its
\* generation and its refresh token.
Held(tbl, responses, except) ==
    \A id \in DOMAIN tbl \ except :
        \E t \in responses : /\ t.grant = id
                             /\ t.refresh = tbl[id].hash
                             /\ t.gen = tbl[id].gen

LEMMA HeldSaved ==
    ASSUME NEW outcome \in SaveOutcomes, NEW saved, NEW failed,
           Save(outcome, saved, failed), HolderKeepsGrant,
           issued \subseteq issued',
           outcome = "ok" => Held(saved, issued', strayed),
           outcome # "ok" => Held(failed, issued', strayed)
    PROVE  HolderKeepsGrant'
<1>1. outcome \in {"ok", "early", "late"}
  BY OutcomeAssumption DEF AllOutcomes
<1>2. CASE outcome = "ok"
  BY <1>2 DEF Save, HolderKeepsGrant, Held
<1>3. CASE outcome = "early"
  BY <1>3 DEF Save, HolderKeepsGrant, Held
<1>4. CASE outcome = "late"
  <2>1. grants' = failed /\ disk' = saved /\ strayed' = strayed \cup Differs(saved, failed)
    BY <1>4 DEF Save
  <2>2. Held(failed, issued', strayed)
    BY <1>4
  <2>3. Held(saved, issued', strayed')
    <3>1. \A id \in DOMAIN saved \ strayed' : /\ id \in DOMAIN failed \ strayed
                                              /\ saved[id] = failed[id]
      BY <2>1 DEF Differs
    <3> QED
      BY <2>2, <3>1 DEF Held
  <2> QED
    BY <2>1, <2>2, <2>3 DEF HolderKeepsGrant, Held
<1> QED
  BY <1>1, <1>2, <1>3, <1>4

LEMMA HeldNext ==
    ASSUME TypeOK, HolderKeepsGrant,
           GrantChange \/ UNCHANGED grantView
    PROVE  HolderKeepsGrant'
<1>0. Held(grants, issued, strayed) /\ IsTable(grants, 1..grantsDrawn, Grant)
  BY DEF HolderKeepsGrant, Held, TypeOK
<1>1. CASE UNCHANGED grantView
  BY <1>1 DEF grantView, HolderKeepsGrant
<1>2. CASE Reloads
  BY <1>2 DEF Reloads, HolderKeepsGrant
<1>3. ASSUME NEW g \in Grant, NEW evicted \in EvictionChoices, NEW outcome \in SaveOutcomes,
             Adds(g, evicted, outcome)
      PROVE  HolderKeepsGrant'
  <2> DEFINE id == grantsDrawn + 1
             kept == Drop(grants, evicted)
             added == Put(kept, id, g)
             new == [grant |-> id, gen |-> g.gen, expires |-> now + AccessTTL, refresh |-> g.hash]
  <2>1. Held(kept, issued, strayed)
    BY <1>0 DEF Held, Drop, Restrict
  <2>2. /\ DOMAIN added = DOMAIN kept \cup {id} /\ added[id] = g
        /\ \A x \in DOMAIN kept \ {id} : added[x] = kept[x]
    BY DEF Put
  <2>3. outcome = "ok" => issued' = issued \cup {new}
    BY <1>3 DEF Adds, IssueTokens
  <2>4. outcome # "ok" => issued' = issued
    BY <1>3 DEF Adds, IssueTokens
  <2>5. new.grant = id /\ new.gen = g.gen /\ new.refresh = g.hash
    OBVIOUS
  <2>6. Save(outcome, added, kept)
    BY <1>3 DEF Adds
  <2> HIDE DEF added, kept, new
  <2>7. Held(added, issued \cup {new}, strayed)
    BY <2>1, <2>2, <2>5 DEF Held
  <2> QED
    BY <2>1, <2>3, <2>4, <2>6, <2>7, HeldSaved
<1>4. ASSUME NEW id \in DOMAIN grants, NEW g \in Grant, NEW outcome \in SaveOutcomes,
             Replaces(id, g, outcome)
      PROVE  HolderKeepsGrant'
  <2> DEFINE rotated == [grants EXCEPT ![id] = g]
             new == [grant |-> id, gen |-> g.gen, expires |-> now + AccessTTL, refresh |-> g.hash]
  <2>1. /\ DOMAIN rotated = DOMAIN grants /\ rotated[id] = g
        /\ \A x \in DOMAIN grants \ {id} : rotated[x] = grants[x]
    OBVIOUS
  <2>2. outcome = "ok" => issued' = issued \cup {new}
    BY <1>4 DEF Replaces, IssueTokens
  <2>3. outcome # "ok" => issued' = issued
    BY <1>4 DEF Replaces, IssueTokens
  <2>4. new.grant = id /\ new.gen = g.gen /\ new.refresh = g.hash
    OBVIOUS
  <2>5. Save(outcome, rotated, grants)
    BY <1>4 DEF Replaces
  <2> HIDE DEF rotated, new
  <2>6. Held(rotated, issued \cup {new}, strayed)
    BY <1>0, <2>1, <2>4 DEF Held
  <2> QED
    BY <1>0, <2>2, <2>3, <2>5, <2>6, HeldSaved
<1>5. ASSUME NEW id \in DOMAIN grants, NEW outcome \in SaveOutcomes, Removes(id, outcome)
      PROVE  HolderKeepsGrant'
  <2>1. Held(Drop(grants, {id}), issued, strayed)
    BY <1>0 DEF Held, Drop, Restrict
  <2> QED
    BY <1>5, <2>1, HeldSaved DEF Removes
<1>6. ASSUME NEW id \in DOMAIN grants, NEW g \in Grant, NEW outcome \in SaveOutcomes,
             Marks(id, g, outcome)
      PROVE  HolderKeepsGrant'
  <2>1. g.gen = grants[id].gen /\ g.hash = grants[id].hash
    BY <1>0, <1>6 DEF Marks, Grant, IsTable
  <2>2. Held([grants EXCEPT ![id] = g], issued, strayed)
    BY <1>0, <2>1 DEF Held
  <2> QED
    BY <1>6, <2>2, HeldSaved DEF Marks
<1>7. ASSUME NEW outcome \in SaveOutcomes, Resaves(outcome)
      PROVE  HolderKeepsGrant'
  BY <1>0, <1>7, HeldSaved DEF Resaves
<1> QED
  BY <1>1, <1>2, <1>3, <1>4, <1>5, <1>6, <1>7 DEF GrantChange

\* No failing save and no restart takes a grant away from the client that
\* holds it, but the late failure of a save of that grant itself.
THEOREM HolderSafety == Spec => []HolderKeepsGrant
<1>1. Init => HolderKeepsGrant
  BY DEF Init, HolderKeepsGrant, EmptyTable
<1>2. TypeOK /\ HolderKeepsGrant /\ [Next]_vars => HolderKeepsGrant'
  BY GrantSteps, HeldNext
<1> QED
  BY <1>1, <1>2, TypeCorrect, PTL DEF Spec

----------------------------------------------------------------------------
\* Codes are single use, and the tables are bounded.

\* One more key counts for at most one.
LEMMA OneMore ==
    ASSUME NEW S, NEW x, IsFiniteSet(S), Cardinality(S) \in Nat
    PROVE  Cardinality(S \cup {x}) <= Cardinality(S) + 1 /\ Cardinality(S \cup {x}) \in Nat
<1>1. Cardinality(S \cup {x}) = IF x \in S THEN Cardinality(S) ELSE Cardinality(S) + 1
  BY FS_AddElement
<1> QED
  BY <1>1

\* What a step does to the codes: nothing, forget some, or issue a fresh one
\* when fewer than MaxCodes are left.
CodeChange ==
    \/ codes' = codes /\ presented' = presented
    \/ codes' = EmptyTable /\ presented' = presented
    \/ \E keys : codes' = Restrict(codes, keys) /\ keys \subseteq DOMAIN codes /\ presented' = presented
    \/ \E keys, entry :
          /\ keys \subseteq DOMAIN codes
          /\ Cardinality(keys) < MaxCodes
          /\ codes' = Put(Restrict(codes, keys), codesDrawn + 1, entry)
          /\ presented' = presented
    \/ \E code \in DOMAIN codes :
          codes' = Drop(codes, {code}) /\ presented' = presented \cup {code}

\* The number of keys of a table over a range of drawn secrets is a number.
LEMMA CountedTable ==
    ASSUME NEW n \in Nat, NEW keys \in SUBSET (1..n)
    PROVE  IsFiniteSet(keys) /\ Cardinality(keys) \in Nat
<1>1. IsFiniteSet(1..n)
  BY FS_Interval
<1>2. IsFiniteSet(keys)
  BY <1>1, FS_Subset
<1> QED
  BY <1>2, FS_CardinalityType

LEMMA CodeSteps ==
    ASSUME TypeOK, [Next]_vars
    PROVE  CodeChange
<1> USE DEF tables, drawn, told
<1>1. CASE Tick
  BY <1>1 DEF Tick, CodeChange
<1>2. ASSUME NEW newOwners \in SUBSET Emails \ {{}}, Restart(newOwners) PROVE CodeChange
  BY <1>2 DEF Restart, CodeChange
<1>3. ASSUME NEW client, NEW email, NEW proof, IssueCode(client, email, proof)
      PROVE  CodeChange
  <2> DEFINE entry == [client |-> client, email |-> email,
                       proof |-> proof, expires |-> now + CodeTTL]
  <2>1. LiveCodes \subseteq DOMAIN codes /\ DOMAIN Restrict(codes, LiveCodes) = LiveCodes
    BY DEF LiveCodes, Restrict
  <2>2. Cardinality(LiveCodes) \in Nat
    BY <2>1, CountedTable DEF TypeOK, IsTable
  <2>3. /\ presented' = presented
        /\ \/ codes' = Restrict(codes, LiveCodes)
           \/ /\ ~ (Cardinality(LiveCodes) >= MaxCodes)
              /\ codes' = Put(Restrict(codes, LiveCodes), codesDrawn + 1, entry)
    BY <1>3, <2>1 DEF IssueCode
  <2> HIDE DEF entry
  <2> QED
    BY <2>1, <2>2, <2>3, LimitAssumption DEF CodeChange
<1>4. ASSUME NEW code \in DOMAIN codes, NEW client, NEW proof, RejectCode(code, client, proof)
      PROVE  CodeChange
  BY <1>4 DEF RejectCode, BurnCode, CodeChange
<1>5. ASSUME NEW code \in DOMAIN codes, NEW client, NEW proof, NEW outcome,
             ExchangeCode(code, client, proof, outcome)
      PROVE  CodeChange
  BY <1>5 DEF ExchangeCode, BurnCode, CodeChange
<1>6. ASSUME NEW token, NEW client, NEW outcome, RotateRefresh(token, client, outcome)
      PROVE  CodeChange
  BY <1>6 DEF RotateRefresh, CodeChange
<1>7. ASSUME NEW token, NEW outcome, ReuseRefresh(token, outcome) PROVE CodeChange
  BY <1>7 DEF ReuseRefresh, CodeChange
<1>8. ASSUME NEW token, UnknownRefresh(token) PROVE CodeChange
  BY <1>8 DEF UnknownRefresh, CodeChange
<1>9. ASSUME NEW t, NEW outcome, Verify(t, outcome) PROVE CodeChange
  BY <1>9 DEF Verify, CodeChange
<1>10. ASSUME NEW id, NEW email, NEW outcome, Revoke(id, email, outcome) PROVE CodeChange
  BY <1>10 DEF Revoke, CodeChange
<1>11. ASSUME NEW id, RevokeAgain(id) PROVE CodeChange
  BY <1>11 DEF RevokeAgain, CodeChange
<1>12. CASE UNCHANGED vars
  BY <1>12 DEF vars, CodeChange
<1>13. ASSUME NEW outcome, SaveOthers(outcome) PROVE CodeChange
  BY <1>13 DEF SaveOthers, CodeChange
<1> QED
  BY <1>1, <1>2, <1>3, <1>4, <1>5, <1>6, <1>7, <1>8, <1>9, <1>10, <1>11, <1>12, <1>13
     DEF Next, CodeStep, RefreshStep, GrantStep

\* A code that was presented, successfully or not, is never in the table again.
BurntForGood == presented \cap DOMAIN codes = {}

LEMMA Burnt == Spec => []BurntForGood
<1>1. Init => BurntForGood
  BY DEF Init, BurntForGood
<1>2. ASSUME TypeOK, BurntForGood, CodeChange PROVE BurntForGood'
  <2>1. codesDrawn + 1 \notin presented
    BY <1>2 DEF TypeOK
  <2> QED
    BY <1>2, <2>1 DEF BurntForGood, CodeChange, Drop, Put, Restrict, EmptyTable
<1> QED
  BY <1>1, <1>2, TypeCorrect, CodeSteps, PTL DEF Spec

\* Only an exchange draws a grant.
LEMMA GrantDrawn ==
    ASSUME [Next]_vars, grantsDrawn' # grantsDrawn
    PROVE  \E code \in DOMAIN codes, client \in Clients, proof \in Proofs, outcome \in SaveOutcomes :
               ExchangeCode(code, client, proof, outcome)
  BY DEF Next, Tick, Restart, CodeStep, IssueCode, RejectCode, RefreshStep, RotateRefresh,
         ReuseRefresh, UnknownRefresh, GrantStep, Verify, Revoke, RevokeAgain, SaveOthers, drawn, vars

\* A grant comes from the first use of a code, and is of the client and the
\* owner of that code.
THEOREM CodeSafety == Spec => CodeSingleUse
<1>1. TypeOK /\ BurntForGood /\ [Next]_vars
        => [grantsDrawn' # grantsDrawn =>
              \E code \in DOMAIN codes \ presented :
                  /\ presented' = presented \cup {code}
                  /\ \A tbl \in {grants', disk'} : grantsDrawn' \in DOMAIN tbl =>
                        /\ tbl[grantsDrawn'].client = codes[code].client
                        /\ tbl[grantsDrawn'].email = codes[code].email]_vars
  <2> SUFFICES ASSUME TypeOK, BurntForGood, [Next]_vars, grantsDrawn' # grantsDrawn
               PROVE  \E code \in DOMAIN codes \ presented :
                          /\ presented' = presented \cup {code}
                          /\ \A tbl \in {grants', disk'} : grantsDrawn' \in DOMAIN tbl =>
                                /\ tbl[grantsDrawn'].client = codes[code].client
                                /\ tbl[grantsDrawn'].email = codes[code].email
    OBVIOUS
  <2>1. PICK code \in DOMAIN codes, client \in Clients, proof \in Proofs, outcome \in SaveOutcomes :
            ExchangeCode(code, client, proof, outcome)
    BY GrantDrawn
  <2> DEFINE id == grantsDrawn + 1
             g == NewGrant(client, codes[code].email, refreshDrawn + 1)
  <2>2. PICK evicted \in EvictionChoices :
            /\ BurnCode(code) /\ CodeMatches(code, client, proof) /\ grantsDrawn' = id
            /\ Save(outcome, Put(Drop(grants, evicted), id, g), Drop(grants, evicted))
    BY <2>1 DEF ExchangeCode
  <2>3. code \notin presented /\ presented' = presented \cup {code}
    BY <2>2 DEF BurnCode, BurntForGood
  <2>4. g.client = codes[code].client /\ g.email = codes[code].email
    BY <2>2 DEF NewGrant, CodeMatches
  <2>5. id \notin DOMAIN grants /\ id \notin DOMAIN disk
    BY DEF TypeOK, IsTable
  <2> HIDE DEF g
  <2>6. /\ Put(Drop(grants, evicted), id, g)[id] = g
        /\ id \notin DOMAIN Drop(grants, evicted)
    BY <2>5 DEF Put, Drop, Restrict
  <2>7. \A tbl \in {grants', disk'} : id \in DOMAIN tbl => tbl[id] = g
    BY <2>2, <2>5, <2>6 DEF Save
  <2> QED
    BY <2>2, <2>3, <2>4, <2>7
<1> QED
  BY <1>1, TypeCorrect, Burnt, PTL DEF Spec, CodeSingleUse

\* Making room first keeps a full table at its limit.
LEMMA RoomForOne ==
    ASSUME TypeOK, Cardinality(DOMAIN grants) <= MaxGrants, NEW evicted \in EvictionChoices
    PROVE  /\ evicted \subseteq DOMAIN grants
           /\ Cardinality(DOMAIN grants \ evicted) < MaxGrants
           /\ IsFiniteSet(DOMAIN grants \ evicted)
<1>1. IsFiniteSet(DOMAIN grants) /\ Cardinality(DOMAIN grants) \in Nat
  BY CountedTable DEF TypeOK, IsTable
<1>2. CASE Cardinality(DOMAIN grants) >= MaxGrants
  <2>1. PICK id \in DOMAIN grants : evicted = {id}
    BY <1>2 DEF EvictionChoices, Oldest
  <2>2. /\ IsFiniteSet(DOMAIN grants \ {id})
        /\ Cardinality(DOMAIN grants \ {id}) = Cardinality(DOMAIN grants) - 1
    BY <1>1, <2>1, FS_RemoveElement
  <2> QED
    BY <1>1, <2>1, <2>2, LimitAssumption
<1>3. CASE ~ (Cardinality(DOMAIN grants) >= MaxGrants)
  <2>1. evicted = {} /\ DOMAIN grants \ evicted = DOMAIN grants
    BY <1>3 DEF EvictionChoices
  <2> QED
    BY <1>1, <1>3, <2>1, LimitAssumption
<1> QED
  BY <1>2, <1>3

BoundedGrants ==
    /\ Cardinality(DOMAIN grants) <= MaxGrants
    /\ Cardinality(DOMAIN disk) <= MaxGrants

LEMMA SaveBounded ==
    ASSUME BoundedGrants, NEW outcome, NEW saved, NEW failed, Save(outcome, saved, failed),
           Cardinality(DOMAIN saved) <= MaxGrants, Cardinality(DOMAIN failed) <= MaxGrants
    PROVE  BoundedGrants'
BY DEF BoundedGrants, Save

LEMMA BoundedNext ==
    ASSUME TypeOK, BoundedGrants, GrantChange \/ UNCHANGED grantView
    PROVE  BoundedGrants'
<1>0. IsFiniteSet(DOMAIN grants) /\ Cardinality(DOMAIN grants) \in Nat
  BY CountedTable DEF TypeOK, IsTable
<1>1. CASE UNCHANGED grantView
  BY <1>1 DEF grantView, BoundedGrants
<1>2. CASE Reloads
  BY <1>2 DEF Reloads, BoundedGrants
<1>3. ASSUME NEW g \in Grant, NEW evicted \in EvictionChoices, NEW outcome \in SaveOutcomes,
             Adds(g, evicted, outcome)
      PROVE  BoundedGrants'
  <2> DEFINE id == grantsDrawn + 1
             kept == Drop(grants, evicted)
             added == Put(kept, id, g)
  <2>1. DOMAIN kept = DOMAIN grants \ evicted /\ DOMAIN added = DOMAIN kept \cup {id}
    BY DEF Drop, Put, Restrict
  <2>2. Save(outcome, added, kept)
    BY <1>3 DEF Adds
  <2> HIDE DEF added, kept
  <2>3. IsFiniteSet(DOMAIN kept) /\ Cardinality(DOMAIN kept) < MaxGrants /\ Cardinality(DOMAIN kept) \in Nat
    BY <2>1, RoomForOne, FS_CardinalityType DEF BoundedGrants
  <2>4. Cardinality(DOMAIN added) <= Cardinality(DOMAIN kept) + 1 /\ Cardinality(DOMAIN added) \in Nat
    BY <2>1, <2>3, OneMore
  <2>5. Cardinality(DOMAIN added) <= MaxGrants /\ Cardinality(DOMAIN kept) <= MaxGrants
    BY <2>3, <2>4, LimitAssumption
  <2> QED
    BY <2>2, <2>5, SaveBounded
<1>4. ASSUME NEW id \in DOMAIN grants, NEW g \in Grant, NEW outcome \in SaveOutcomes,
             Replaces(id, g, outcome)
      PROVE  BoundedGrants'
  <2>1. DOMAIN [grants EXCEPT ![id] = g] = DOMAIN grants
    OBVIOUS
  <2> QED
    BY <1>4, <2>1, SaveBounded DEF Replaces, BoundedGrants
<1>5. ASSUME NEW id \in DOMAIN grants, NEW outcome \in SaveOutcomes, Removes(id, outcome)
      PROVE  BoundedGrants'
  <2>1. DOMAIN Drop(grants, {id}) = DOMAIN grants \ {id}
    BY DEF Drop, Restrict
  <2>2. Cardinality(DOMAIN grants \ {id}) <= MaxGrants
    <3>1. Cardinality(DOMAIN grants \ {id}) = Cardinality(DOMAIN grants) - 1
      BY <1>0, FS_RemoveElement
    <3> QED
      BY <1>0, <3>1, LimitAssumption DEF BoundedGrants
  <2> QED
    BY <1>5, <2>1, <2>2, SaveBounded DEF Removes
<1>6. ASSUME NEW id \in DOMAIN grants, NEW g \in Grant, NEW outcome \in SaveOutcomes,
             Marks(id, g, outcome)
      PROVE  BoundedGrants'
  <2>1. DOMAIN [grants EXCEPT ![id] = g] = DOMAIN grants
    OBVIOUS
  <2> QED
    BY <1>6, <2>1, SaveBounded DEF Marks, BoundedGrants
<1>7. ASSUME NEW outcome \in SaveOutcomes, Resaves(outcome)
      PROVE  BoundedGrants'
  BY <1>7, SaveBounded DEF Resaves, BoundedGrants
<1> QED
  BY <1>1, <1>2, <1>3, <1>4, <1>5, <1>6, <1>7 DEF GrantChange

LEMMA CodesBoundedNext ==
    ASSUME TypeOK, Cardinality(DOMAIN codes) <= MaxCodes, CodeChange
    PROVE  Cardinality(DOMAIN codes)' <= MaxCodes
<1>0. IsFiniteSet(DOMAIN codes) /\ Cardinality(DOMAIN codes) \in Nat
  BY CountedTable DEF TypeOK, IsTable
<1>1. ASSUME NEW keys, keys \subseteq DOMAIN codes
      PROVE  IsFiniteSet(keys) /\ Cardinality(keys) <= MaxCodes /\ Cardinality(keys) \in Nat
  BY <1>0, <1>1, FS_Subset, FS_CardinalityType, LimitAssumption
<1>2. CASE codes' = codes
  BY <1>2
<1>3. CASE codes' = EmptyTable
  BY <1>3, FS_EmptySet, LimitAssumption DEF EmptyTable
<1>4. ASSUME NEW keys, keys \subseteq DOMAIN codes, codes' = Restrict(codes, keys)
      PROVE  Cardinality(DOMAIN codes)' <= MaxCodes
  BY <1>1, <1>4 DEF Restrict
<1>5. ASSUME NEW keys, NEW entry, keys \subseteq DOMAIN codes, Cardinality(keys) < MaxCodes,
             codes' = Put(Restrict(codes, keys), codesDrawn + 1, entry)
      PROVE  Cardinality(DOMAIN codes)' <= MaxCodes
  <2>1. (DOMAIN codes)' = keys \cup {codesDrawn + 1}
    BY <1>5 DEF Put, Restrict
  <2>2. IsFiniteSet(keys) /\ Cardinality(keys) \in Nat
    BY <1>1, <1>5
  <2>3. Cardinality(keys \cup {codesDrawn + 1}) <= Cardinality(keys) + 1
        /\ Cardinality(keys \cup {codesDrawn + 1}) \in Nat
    BY <2>2, OneMore
  <2> QED
    BY <1>5, <2>1, <2>2, <2>3, LimitAssumption
<1>6. ASSUME NEW code, codes' = Drop(codes, {code})
      PROVE  Cardinality(DOMAIN codes)' <= MaxCodes
  BY <1>1, <1>6 DEF Drop, Restrict
<1> QED
  BY <1>2, <1>3, <1>4, <1>5, <1>6 DEF CodeChange

\* Memory and file never hold more than MaxGrants grants, nor memory more than
\* MaxCodes codes.
THEOREM BoundSafety == Spec => []TablesBounded
<1>1. Init => TablesBounded
  <2>1. DOMAIN EmptyTable = {}
    BY DEF EmptyTable
  <2> QED
    BY <2>1, FS_EmptySet, LimitAssumption DEF Init, TablesBounded
<1>2. TypeOK /\ TablesBounded /\ [Next]_vars => TablesBounded'
  BY GrantSteps, CodeSteps, BoundedNext, CodesBoundedNext DEF TablesBounded, BoundedGrants
<1> QED
  BY <1>1, <1>2, TypeCorrect, PTL DEF Spec

----------------------------------------------------------------------------
\* Memory and file implement GrantLifecycle.

\* A save that adds the ids new and drops the ids dropped, with memory going
\* on without both when it fails, is a step of the abstract store.
LEMMA SaveRefines ==
    ASSUME CrashLosesNothing, NEW outcome \in SaveOutcomes, NEW saved, NEW failed,
           NEW new \in Lifecycle!New, NEW dropped \in Lifecycle!Dropped,
           Save(outcome, saved, failed),
           DOMAIN saved = (DOMAIN grants \ dropped) \cup new,
           DOMAIN failed = DOMAIN grants \ dropped,
           new \cap DOMAIN grants = {},
           1..grantsDrawn' = 1..grantsDrawn \cup new
    PROVE  Lifecycle!Next
<1>1. dropped \subseteq DOMAIN grants
  BY DEF Lifecycle!Dropped
<1>2. outcome \in AllOutcomes
  BY OutcomeAssumption
<1>3. CASE outcome = "ok"
  <2>1. Lifecycle!Commit(new, dropped)
    BY <1>3 DEF Save, Lifecycle!Commit
  <2> QED
    BY <2>1 DEF Lifecycle!Next
<1>4. CASE outcome = "late"
  <2>1. Lifecycle!CommitUnanswered(new, dropped)
    BY <1>4 DEF Save, Lifecycle!CommitUnanswered
  <2> QED
    BY <2>1 DEF Lifecycle!Next
<1>5. CASE outcome = "early"
  <2>1. Lifecycle!Fail(dropped)
    BY <1>1, <1>5 DEF Save, Lifecycle!Fail, CrashLosesNothing
  <2> QED
    BY <2>1 DEF Lifecycle!Next
<1> QED
  BY <1>2, <1>3, <1>4, <1>5 DEF AllOutcomes

LEMMA LifecycleNext ==
    ASSUME TypeOK, CrashLosesNothing, GrantChange \/ UNCHANGED grantView
    PROVE  Lifecycle!Next \/ UNCHANGED Lifecycle!store
<1>0. {} \in Lifecycle!New /\ {} \in Lifecycle!Dropped
  BY DEF Lifecycle!New, Lifecycle!Dropped
<1>1. CASE UNCHANGED grantView
  BY <1>1 DEF grantView, Lifecycle!store
<1>2. CASE Reloads
  BY <1>2 DEF Reloads, CrashLosesNothing, Lifecycle!Next, Lifecycle!Restart
<1>3. ASSUME NEW g \in Grant, NEW evicted \in EvictionChoices, NEW outcome \in SaveOutcomes,
             Adds(g, evicted, outcome)
      PROVE  Lifecycle!Next
  <2> DEFINE id == grantsDrawn + 1
             kept == Drop(grants, evicted)
             added == Put(kept, id, g)
  <2>1. DOMAIN kept = DOMAIN grants \ evicted /\ DOMAIN added = DOMAIN kept \cup {id}
    BY DEF Drop, Put, Restrict
  <2>2. Save(outcome, added, kept) /\ grantsDrawn' = id /\ id \in 1..LastGrantDrawn
    BY <1>3 DEF Adds
  <2>3. evicted \in Lifecycle!Dropped
    BY DEF EvictionChoices, Oldest, Lifecycle!Dropped
  <2>4. id \notin 1..grantsDrawn /\ id \notin DOMAIN grants /\ 1..id = 1..grantsDrawn \cup {id}
    BY DEF TypeOK, IsTable
  <2>5. {id} \in Lifecycle!New
    BY <2>2, <2>4 DEF Lifecycle!New
  <2> HIDE DEF id, added, kept
  <2> QED
    BY <2>1, <2>2, <2>3, <2>4, <2>5, SaveRefines
<1>4. ASSUME NEW id \in DOMAIN grants, NEW g \in Grant, NEW outcome \in SaveOutcomes,
             Replaces(id, g, outcome)
      PROVE  Lifecycle!Next
  <2>1. DOMAIN [grants EXCEPT ![id] = g] = DOMAIN grants
    OBVIOUS
  <2>2. Save(outcome, [grants EXCEPT ![id] = g], grants) /\ grantsDrawn' = grantsDrawn
    BY <1>4 DEF Replaces
  <2> QED
    BY <1>0, <2>1, <2>2, SaveRefines
<1>5. ASSUME NEW id \in DOMAIN grants, NEW outcome \in SaveOutcomes, Removes(id, outcome)
      PROVE  Lifecycle!Next
  <2>1. DOMAIN Drop(grants, {id}) = DOMAIN grants \ {id}
    BY DEF Drop, Restrict
  <2>2. Save(outcome, Drop(grants, {id}), Drop(grants, {id})) /\ grantsDrawn' = grantsDrawn
    BY <1>5 DEF Removes
  <2>3. {id} \in Lifecycle!Dropped
    BY DEF Lifecycle!Dropped
  <2> QED
    BY <1>0, <2>1, <2>2, <2>3, SaveRefines
<1>6. ASSUME NEW id \in DOMAIN grants, NEW g \in Grant, NEW outcome \in SaveOutcomes,
             Marks(id, g, outcome)
      PROVE  Lifecycle!Next
  <2>1. DOMAIN [grants EXCEPT ![id] = g] = DOMAIN grants
    OBVIOUS
  <2>2. Save(outcome, [grants EXCEPT ![id] = g], [grants EXCEPT ![id] = g])
        /\ grantsDrawn' = grantsDrawn
    BY <1>6 DEF Marks
  <2> QED
    BY <1>0, <2>1, <2>2, SaveRefines
<1>7. ASSUME NEW outcome \in SaveOutcomes, Resaves(outcome)
      PROVE  Lifecycle!Next
  <2>1. Save(outcome, grants, grants) /\ grantsDrawn' = grantsDrawn
    BY <1>7 DEF Resaves
  <2> QED
    BY <1>0, <2>1, SaveRefines
<1> QED
  BY <1>1, <1>2, <1>3, <1>4, <1>5, <1>6, <1>7 DEF GrantChange

\* Memory and file together behave as the store of grants GrantLifecycle
\* promises.
THEOREM LifecycleRefined == Spec => LifecycleSpec
<1>1. Init => Lifecycle!Init
  <2>1. DOMAIN EmptyTable = {}
    BY DEF EmptyTable
  <2> QED
    BY <2>1 DEF Init, Lifecycle!Init
<1>2. TypeOK /\ CrashLosesNothing /\ [Next]_vars => [Lifecycle!Next]_(Lifecycle!store)
  BY GrantSteps, LifecycleNext
<1> QED
  BY <1>1, <1>2, TypeCorrect, CrashSafety, PTL DEF Spec, LifecycleSpec, Lifecycle!Spec

\* A grant that is neither in memory nor in the file never comes back: a
\* revocation that was saved is final.
THEOREM RevocationFinal == Spec => Lifecycle!GoneForGood
<1> DEFINE live == DOMAIN grants
           stale == DOMAIN disk \ DOMAIN grants
<1>1. ASSUME Lifecycle!Next, NEW id \in 1..grantsDrawn \ (live \cup stale)
      PROVE  id \notin live' \cup stale'
  <2>1. CASE Lifecycle!Restart
    BY <1>1, <2>1 DEF Lifecycle!Restart
  <2>2. ASSUME NEW new \in Lifecycle!New, NEW dropped \in Lifecycle!Dropped,
               \/ Lifecycle!Commit(new, dropped)
               \/ Lifecycle!CommitUnanswered(new, dropped)
               \/ Lifecycle!Fail(dropped)
        PROVE  id \notin live' \cup stale'
    <3>1. id \notin new /\ dropped \subseteq live
      BY <1>1 DEF Lifecycle!New, Lifecycle!Dropped
    <3> QED
      BY <1>1, <2>2, <3>1 DEF Lifecycle!Commit, Lifecycle!CommitUnanswered, Lifecycle!Fail
  <2> QED
    BY <1>1, <2>1, <2>2 DEF Lifecycle!Next
<1>2. [Lifecycle!Next]_(Lifecycle!store)
        => [\A id \in 1..grantsDrawn \ (live \cup stale) : id \notin live' \cup stale']_(Lifecycle!store)
  BY <1>1 DEF Lifecycle!store
<1> QED
  BY <1>2, LifecycleRefined, PTL DEF LifecycleSpec, Lifecycle!Spec, Lifecycle!GoneForGood

----------------------------------------------------------------------------
\* Failing exchanges leave at most one grant to the file alone.

LEMMA OneElement == ASSUME NEW x PROVE Cardinality({x}) <= 1
<1>1. Cardinality({x}) = 1
  BY FS_Singleton
<1> QED
  BY <1>1

\* Only a full table is evicted from, and then the file has nothing more.
LEMMA EvictionFindsAll ==
    ASSUME TypeOK, CrashLosesNothing, BoundedGrants, NEW evicted \in EvictionChoices
    PROVE  evicted = {} \/ (FileOnly = {} /\ \E g \in DOMAIN grants : evicted = {g})
<1>1. /\ IsFiniteSet(DOMAIN grants) /\ Cardinality(DOMAIN grants) \in Nat
      /\ IsFiniteSet(DOMAIN disk) /\ Cardinality(DOMAIN disk) \in Nat
  BY CountedTable DEF TypeOK, IsTable
<1>2. CASE Cardinality(DOMAIN grants) >= MaxGrants
  <2>1. \E g \in DOMAIN grants : evicted = {g}
    BY <1>2 DEF EvictionChoices, Oldest
  <2>2. Cardinality(DOMAIN grants) <= Cardinality(DOMAIN disk)
        /\ (Cardinality(DOMAIN grants) = Cardinality(DOMAIN disk) => DOMAIN grants = DOMAIN disk)
    BY <1>1, FS_Subset DEF CrashLosesNothing
  <2>3. Cardinality(DOMAIN grants) = Cardinality(DOMAIN disk)
    BY <1>1, <1>2, <2>2, LimitAssumption DEF BoundedGrants
  <2> QED
    BY <2>1, <2>2, <2>3 DEF FileOnly
<1>3. CASE ~ (Cardinality(DOMAIN grants) >= MaxGrants)
  BY <1>3 DEF EvictionChoices
<1> QED
  BY <1>2, <1>3

LEMMA ExchangeNext ==
    ASSUME TypeOK, CrashLosesNothing, BoundedGrants, GrantChange, grantsDrawn' # grantsDrawn
    PROVE  FileOnly' \subseteq FileOnly \/ Cardinality(FileOnly') <= 1
<1>1. PICK g \in Grant, evicted \in EvictionChoices, outcome \in SaveOutcomes :
        Adds(g, evicted, outcome)
  BY DEF GrantChange, Reloads, Replaces, Removes, Marks, Resaves
<1> DEFINE id == grantsDrawn + 1
           kept == Drop(grants, evicted)
           added == Put(kept, id, g)
<1>2. DOMAIN kept = DOMAIN grants \ evicted /\ DOMAIN added = DOMAIN kept \cup {id}
  BY DEF Drop, Put, Restrict
<1>3. Save(outcome, added, kept)
  BY <1>1 DEF Adds
<1> HIDE DEF kept, added
<1>4. CASE outcome = "ok"
  BY <1>3, <1>4 DEF Save, FileOnly
<1>5. CASE outcome = "late"
  <2>1. FileOnly' \subseteq {id}
    BY <1>2, <1>3, <1>5 DEF Save, FileOnly
  <2>2. FileOnly' = {} \/ FileOnly' = {id}
    BY <2>1
  <2> QED
    BY <2>2, OneElement
<1>6. CASE outcome = "early"
  <2>1. FileOnly' = DOMAIN disk \ (DOMAIN grants \ evicted)
    BY <1>2, <1>3, <1>6 DEF Save, FileOnly
  <2>2. CASE evicted = {}
    BY <2>1, <2>2 DEF FileOnly
  <2>3. ASSUME FileOnly = {}, NEW x \in DOMAIN grants, evicted = {x}
        PROVE  Cardinality(FileOnly') <= 1
    <3>1. FileOnly' = {} \/ FileOnly' = {x}
      BY <2>1, <2>3 DEF FileOnly
    <3> QED
      BY <3>1, OneElement, FS_EmptySet
  <2> QED
    BY <2>2, <2>3, EvictionFindsAll
<1> QED
  BY <1>4, <1>5, <1>6, OutcomeAssumption DEF AllOutcomes

\* An exchange that fails leaves a grant to the file alone only if there was
\* none before, and then only one, whichever way its save failed.
THEOREM ExchangeCosts == Spec => ExchangeCostsOne
<1>1. TypeOK /\ CrashLosesNothing /\ TablesBounded /\ [Next]_vars
        => [grantsDrawn' # grantsDrawn =>
              FileOnly' \subseteq FileOnly \/ Cardinality(FileOnly') <= 1]_vars
  <2> SUFFICES ASSUME TypeOK, CrashLosesNothing, TablesBounded, [Next]_vars,
                      grantsDrawn' # grantsDrawn
               PROVE  FileOnly' \subseteq FileOnly \/ Cardinality(FileOnly') <= 1
    OBVIOUS
  <2>1. GrantChange
    BY GrantSteps DEF grantView
  <2> QED
    BY <2>1, ExchangeNext DEF TablesBounded, BoundedGrants
<1> QED
  BY <1>1, TypeCorrect, CrashSafety, BoundSafety, PTL DEF Spec, ExchangeCostsOne

----------------------------------------------------------------------------
\* What a restart changes for clients, and which failures that takes.

\* Each grant in memory has in the file the refresh token and the generation it
\* has in memory, unless a late failure put it there with others.
SameSecrets ==
    \A id \in DOMAIN grants \ strayed :
        /\ id \in DOMAIN disk
        /\ disk[id].hash = grants[id].hash
        /\ disk[id].gen = grants[id].gen

LEMMA SaveKeepsSecrets ==
    ASSUME SameSecrets, NEW outcome \in SaveOutcomes, NEW saved, NEW failed,
           Save(outcome, saved, failed),
           DOMAIN failed \subseteq DOMAIN saved,
           \A id \in DOMAIN failed : /\ id \in DOMAIN grants
                                    /\ failed[id].hash = grants[id].hash
                                    /\ failed[id].gen = grants[id].gen
    PROVE  SameSecrets'
<1>1. CASE outcome = "ok"
  BY <1>1 DEF Save, SameSecrets
<1>2. CASE outcome = "early"
  BY <1>2 DEF Save, SameSecrets
<1>3. CASE outcome = "late"
  <2>1. disk' = saved /\ grants' = failed /\ Differs(saved, failed) \subseteq strayed'
    BY <1>3 DEF Save
  <2>2. \A id \in DOMAIN failed : id \in Differs(saved, failed) \/ saved[id] = failed[id]
    BY DEF Differs
  <2> QED  BY <2>1, <2>2 DEF SameSecrets
<1> QED  BY <1>1, <1>2, <1>3, OutcomeAssumption DEF AllOutcomes

LEMMA SecretsNext ==
    ASSUME TypeOK, SameSecrets, GrantChange \/ UNCHANGED grantView
    PROVE  SameSecrets'
<1>1. CASE UNCHANGED grantView
  BY <1>1 DEF grantView, SameSecrets
<1>2. CASE Reloads
  BY <1>2 DEF Reloads, SameSecrets
<1>3. ASSUME NEW g \in Grant, NEW evicted \in EvictionChoices, NEW outcome \in SaveOutcomes,
             Adds(g, evicted, outcome)
      PROVE  SameSecrets'
  <2> DEFINE kept == Drop(grants, evicted)
  <2>1. DOMAIN kept \subseteq DOMAIN grants /\ \A id \in DOMAIN kept : kept[id] = grants[id]
    BY DEF Drop, Restrict
  <2>2. DOMAIN kept \subseteq DOMAIN Put(kept, grantsDrawn + 1, g)
    BY DEF Put
  <2>3. Save(outcome, Put(kept, grantsDrawn + 1, g), kept)
    BY <1>3 DEF Adds
  <2> HIDE DEF kept
  <2> QED  BY <2>1, <2>2, <2>3, SaveKeepsSecrets
<1>4. ASSUME NEW id \in DOMAIN grants, NEW g \in Grant, NEW outcome \in SaveOutcomes,
             Replaces(id, g, outcome)
      PROVE  SameSecrets'
  <2>1. DOMAIN grants \subseteq DOMAIN [grants EXCEPT ![id] = g]
    OBVIOUS
  <2> QED  BY <1>4, <2>1, SaveKeepsSecrets DEF Replaces
<1>5. ASSUME NEW id \in DOMAIN grants, NEW outcome \in SaveOutcomes, Removes(id, outcome)
      PROVE  SameSecrets'
  <2> DEFINE kept == Drop(grants, {id})
  <2>1. DOMAIN kept \subseteq DOMAIN grants /\ \A x \in DOMAIN kept : kept[x] = grants[x]
    BY DEF Drop, Restrict
  <2>2. Save(outcome, kept, kept)
    BY <1>5 DEF Removes
  <2> HIDE DEF kept
  <2> QED  BY <2>1, <2>2, SaveKeepsSecrets
<1>6. ASSUME NEW id \in DOMAIN grants, NEW g \in Grant, NEW outcome \in SaveOutcomes,
             Marks(id, g, outcome)
      PROVE  SameSecrets'
  <2> DEFINE used == [grants EXCEPT ![id] = g]
  <2>1. g.hash = grants[id].hash /\ g.gen = grants[id].gen
    BY <1>6 DEF Marks, TypeOK, IsTable, Grant
  <2>2. DOMAIN used = DOMAIN grants
        /\ \A x \in DOMAIN used : used[x].hash = grants[x].hash /\ used[x].gen = grants[x].gen
    BY <2>1
  <2>3. Save(outcome, used, used)
    BY <1>6 DEF Marks
  <2> HIDE DEF used
  <2> QED  BY <2>2, <2>3, SaveKeepsSecrets
<1>7. ASSUME NEW outcome \in SaveOutcomes, Resaves(outcome)
      PROVE  SameSecrets'
  BY <1>7, SaveKeepsSecrets DEF Resaves
<1> QED  BY <1>1, <1>2, <1>3, <1>4, <1>5, <1>6, <1>7 DEF GrantChange

\* However saves fail, a restart is noticed by no client but that of a grant
\* which a late failure put in the file other than it stayed in memory (the
\* README: connected clients do not notice a restart).
RestartCost ==
    \A t \in issued :
        t.grant \notin strayed /\ Current(t, grants) /\ grants[t.grant].hash = t.refresh
            => Current(t, disk) /\ disk[t.grant].hash = t.refresh

THEOREM RestartCosts == Spec => []RestartCost
<1>1. Init => SameSecrets
  BY DEF Init, SameSecrets, EmptyTable
<1>2. TypeOK /\ SameSecrets /\ [Next]_vars => SameSecrets'
  BY GrantSteps, SecretsNext
<1>3. SameSecrets => RestartCost
  BY DEF SameSecrets, RestartCost, Current
<1> QED  BY <1>1, <1>2, <1>3, TypeCorrect, PTL DEF Spec

NoneStrayed == strayed = {}

\* Without late failures the README's promise holds as it stands: the one a
\* save can make after its rename, when it cannot sync the directory, is the
\* only reason why the run TokenRestart fails.
THEOREM RestartSafety ==
    ASSUME "late" \notin SaveOutcomes
    PROVE  Spec => []RestartUnnoticed
<1>1. Init => NoneStrayed
  BY DEF Init, NoneStrayed
<1>2. TypeOK /\ NoneStrayed /\ [Next]_vars => NoneStrayed'
  <2> SUFFICES ASSUME TypeOK, strayed = {}, [Next]_vars
               PROVE  strayed' = {}
    BY DEF NoneStrayed
  <2>1. ASSUME NEW outcome \in SaveOutcomes, NEW saved, NEW failed, Save(outcome, saved, failed)
        PROVE  strayed' = {}
    BY <2>1 DEF Save
  <2>2. GrantChange => strayed' = {}
    BY <2>1 DEF GrantChange, Reloads, Adds, Replaces, Removes, Marks, Resaves
  <2>3. UNCHANGED grantView => strayed' = {}
    BY DEF grantView
  <2> QED  BY <2>2, <2>3, GrantSteps
<1>3. NoneStrayed /\ RestartCost => RestartUnnoticed
  BY DEF NoneStrayed, RestartCost, RestartUnnoticed
<1> QED  BY <1>1, <1>2, <1>3, RestartCosts, TypeCorrect, PTL DEF Spec

----------------------------------------------------------------------------
\* Which failures it takes to bring a revoked grant back.

\* A step tells the owner of a grant that it is revoked when it has taken it
\* out of both copies, or when the grant is not in memory.
LEMMA AckSteps ==
    ASSUME [Next]_vars
    PROVE  \/ acked' = acked
           \/ \E id : /\ acked' = acked \cup {id}
                     /\ \/ Removes(id, "ok")
                        \/ id \in {t.grant : t \in issued} \ DOMAIN grants /\ UNCHANGED grantView
<1> USE DEF tables, drawn, told
<1>1. CASE Tick \/ UNCHANGED vars
  BY <1>1 DEF Tick, vars
<1>2. ASSUME NEW newOwners, Restart(newOwners) PROVE acked' = acked
  BY <1>2 DEF Restart
<1>3. CASE CodeStep
  BY <1>3 DEF CodeStep, IssueCode, RejectCode, ExchangeCode
<1>4. CASE RefreshStep
  BY <1>4 DEF RefreshStep, RotateRefresh, ReuseRefresh, UnknownRefresh
<1>5. ASSUME NEW t, NEW outcome, Verify(t, outcome) PROVE acked' = acked
  BY <1>5 DEF Verify
<1>6. ASSUME NEW id, NEW email, NEW outcome \in SaveOutcomes, Revoke(id, email, outcome)
      PROVE  acked' = acked \/ (acked' = acked \cup {id} /\ Removes(id, "ok"))
  BY <1>6 DEF Revoke, RevokeGrant, Removes
<1>7. ASSUME NEW id, RevokeAgain(id)
      PROVE  /\ acked' = acked \cup {id}
             /\ id \in {t.grant : t \in issued} \ DOMAIN grants /\ UNCHANGED grantView
  BY <1>7 DEF RevokeAgain, grantView
<1>8. ASSUME NEW outcome, SaveOthers(outcome) PROVE acked' = acked
  BY <1>8 DEF SaveOthers
<1> QED  BY <1>1, <1>2, <1>3, <1>4, <1>5, <1>6, <1>7, <1>8 DEF Next, GrantStep

\* What is only in the file was never handed out, and what the owner was told
\* is revoked is in neither copy.
RevokedInv ==
    /\ \A t \in issued : t.grant \notin DOMAIN disk \ DOMAIN grants
    /\ acked \cap (DOMAIN disk \cup DOMAIN grants) = {}

LEMMA RevokedNext ==
    ASSUME "early" \notin SaveOutcomes, TypeOK, RevokedInv, [Next]_vars
    PROVE  RevokedInv'
<1>1. ASSUME NEW outcome \in SaveOutcomes, NEW saved, NEW failed, Save(outcome, saved, failed)
      PROVE  disk' = saved /\ (outcome = "ok" => grants' = saved) /\ (outcome # "ok" => grants' = failed)
  BY <1>1 DEF Save
<1>2. \A t \in issued : t.grant \in 1..grantsDrawn
  BY DEF TypeOK, Response
<1>3. acked \subseteq 1..grantsDrawn /\ grantsDrawn \in Nat
  BY DEF TypeOK
\* What a step leaves in the copies.
<1> DEFINE Leaves ==
               /\ \A t \in issued' : t.grant \notin DOMAIN disk' \ DOMAIN grants'
               /\ DOMAIN disk' \cup DOMAIN grants' \subseteq
                      DOMAIN disk \cup DOMAIN grants \cup {grantsDrawn + 1}
<1>4. ASSUME GrantChange
      PROVE  Leaves
  <2>1. CASE Reloads
    BY <2>1 DEF Reloads
  <2>2. ASSUME NEW g \in Grant, NEW evicted \in EvictionChoices, NEW outcome \in SaveOutcomes,
               Adds(g, evicted, outcome)
        PROVE  Leaves
    <3> DEFINE kept == Drop(grants, evicted)
               added == Put(kept, grantsDrawn + 1, g)
    <3>1. DOMAIN kept \subseteq DOMAIN grants /\ DOMAIN added = DOMAIN kept \cup {grantsDrawn + 1}
      BY DEF Drop, Put, Restrict
    <3>2. Save(outcome, added, kept)
      BY <2>2 DEF Adds
    <3>3. outcome # "ok" => issued' = issued
      BY <2>2 DEF Adds, IssueTokens
    <3> HIDE DEF kept, added
    <3>4. \A t \in issued : t.grant # grantsDrawn + 1
      BY <1>2, <1>3
    <3> QED  BY <1>1, <3>1, <3>2, <3>3, <3>4
  <2>3. ASSUME NEW id \in DOMAIN grants, NEW g \in Grant, NEW outcome \in SaveOutcomes,
               Replaces(id, g, outcome) \/ Marks(id, g, outcome)
        PROVE  Leaves
    <3>1. DOMAIN [grants EXCEPT ![id] = g] = DOMAIN grants
      OBVIOUS
    <3>2. \E failed : Save(outcome, [grants EXCEPT ![id] = g], failed) /\ DOMAIN failed = DOMAIN grants
      BY <2>3, <3>1 DEF Replaces, Marks
    <3>3. DOMAIN disk' = DOMAIN grants /\ DOMAIN grants' = DOMAIN grants
      BY <1>1, <3>1, <3>2
    <3> QED  BY <3>3
  <2>4. ASSUME NEW id \in DOMAIN grants, NEW outcome \in SaveOutcomes, Removes(id, outcome)
        PROVE  Leaves
    <3>1. DOMAIN Drop(grants, {id}) \subseteq DOMAIN grants
      BY DEF Drop, Restrict
    <3>2. disk' = Drop(grants, {id}) /\ grants' = Drop(grants, {id})
      BY <1>1, <2>4 DEF Removes
    <3> QED  BY <3>1, <3>2
  <2>5. ASSUME NEW outcome \in SaveOutcomes, Resaves(outcome)
        PROVE  Leaves
    <3>1. disk' = grants /\ grants' = grants /\ issued' = issued
      BY <1>1, <2>5 DEF Resaves
    <3> QED  BY <3>1
  <2> QED  BY <1>4, <2>1, <2>2, <2>3, <2>4, <2>5 DEF GrantChange
<1>5. CASE acked' = acked
  <2>1. GrantChange \/ UNCHANGED grantView
    BY GrantSteps
  <2>2. CASE UNCHANGED grantView
    BY <1>5, <2>2 DEF grantView, RevokedInv
  <2>3. grantsDrawn + 1 \notin acked
    BY <1>3
  <2> QED  BY <1>4, <1>5, <2>1, <2>2, <2>3 DEF RevokedInv
<1>6. ASSUME NEW id, acked' = acked \cup {id}, Removes(id, "ok")
      PROVE  RevokedInv'
  <2>1. DOMAIN Drop(grants, {id}) = DOMAIN grants \ {id}
    BY DEF Drop, Restrict
  <2>2. disk' = Drop(grants, {id}) /\ grants' = Drop(grants, {id})
    BY <1>6 DEF Removes, Save
  <2> QED  BY <1>6, <2>1, <2>2 DEF RevokedInv
<1>7. ASSUME NEW id, acked' = acked \cup {id}, id \in {t.grant : t \in issued} \ DOMAIN grants,
             UNCHANGED grantView
      PROVE  RevokedInv'
  BY <1>7 DEF grantView, RevokedInv
<1> QED  BY <1>5, <1>6, <1>7, AckSteps

\* When no save fails before its rename, a grant whose owner was told that it is
\* revoked stays so, across restarts and late failures: the early failure whose
\* retry finds nothing to revoke is the only reason why the run TokenRevoke
\* fails.
THEOREM RevocationSafety ==
    ASSUME "early" \notin SaveOutcomes
    PROVE  Spec => []AckedStaysRevoked
<1>1. Init => RevokedInv
  BY DEF Init, RevokedInv
<1>2. TypeOK /\ RevokedInv /\ [Next]_vars => RevokedInv'
  BY RevokedNext
<1>3. RevokedInv => AckedStaysRevoked
  BY DEF RevokedInv, AckedStaysRevoked
<1> QED  BY <1>1, <1>2, <1>3, TypeCorrect, PTL DEF Spec

============================================================================

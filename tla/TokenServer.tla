---------------------------- MODULE TokenServer ----------------------------
(***************************************************************************)
(* The token half of the authorization server (internal/oauth): the table  *)
(* of authorization codes, kept in memory only, and the table of grants,   *)
(* kept in memory and saved to a file by every handler that changes it.    *)
(*                                                                         *)
(* Every handler here runs under Server.mu from its first look at the      *)
(* tables to its save, so each is one action.  What interleaves is the     *)
(* order of requests, the passing of time, the outcome of each save and    *)
(* the restarts of the process.  A crash inside a handler is that handler  *)
(* with one of the failing saves followed by Restart: its answer is lost   *)
(* in both.                                                                *)
(*                                                                         *)
(* Secrets (codes, grant ids, refresh tokens) are 256 random bits; the     *)
(* model draws them from counters, so that a new secret is always fresh.   *)
(* A grant's access policy, name, redirect host and scopes are fixed when  *)
(* it is made and are not modelled here.                                   *)
(***************************************************************************)
EXTENDS Integers, FiniteSets, Functions

CONSTANTS
    Clients,         \* client ids a code can be issued to
    NoClient,        \* the empty client_id a refresh may present
    Emails,          \* exe.dev accounts that may be owners
    Proofs,          \* redirect URI and PKCE challenge, as one value
    AccessTTL, RefreshTTL, CodeTTL, UsedResolution,
    MaxGrants, MaxCodes,
    SaveOutcomes,    \* how a save may end, a subset of AllOutcomes
    MaxTime, LastCodeDrawn, LastGrantDrawn, LastRefreshDrawn  \* bounds

\* "ok": the file holds the new state and the save reports it.
\* "early": the save fails before the rename, the file is the old one.
\* "late": the save fails after the rename, the file is the new one.
AllOutcomes == {"ok", "early", "late"}

ASSUME ClientAssumption == NoClient \notin Clients
ASSUME LifetimeAssumption ==
    /\ AccessTTL \in Nat /\ RefreshTTL \in Nat /\ CodeTTL \in Nat
    /\ UsedResolution \in Nat
ASSUME LimitAssumption == MaxGrants \in Nat \ {0} /\ MaxCodes \in Nat \ {0}
ASSUME OutcomeAssumption == SaveOutcomes \subseteq AllOutcomes
ASSUME BoundAssumption ==
    /\ MaxTime \in Nat
    /\ LastCodeDrawn \in Nat /\ LastGrantDrawn \in Nat /\ LastRefreshDrawn \in Nat

VARIABLES
    now,          \* the clock, in units the lifetimes are given in
    owners,       \* Server.owners, fixed until the next restart
    codes,        \* Server.codes
    grants,       \* Server.st.Grants
    disk,         \* the grants in the state file
    lastSave,     \* how the last save ended
    codesDrawn, grantsDrawn, refreshDrawn,   \* secrets drawn so far
    \* History: what the clients and the owner have been told, and strayed.
    issued,       \* token responses: an access token and a refresh token each
    presented,    \* codes presented to the token endpoint
    replayed,     \* grants with a superseded refresh token refused as invalid_grant
    acked,        \* grants whose owner was told that they are revoked
    strayed       \* grants a failing save put in the file other than in memory

tables == <<codes, grants, disk, lastSave, strayed>>
drawn == <<codesDrawn, grantsDrawn, refreshDrawn>>
told == <<issued, presented, replayed, acked>>
vars == <<now, owners, tables, drawn, told>>

----------------------------------------------------------------------------
\* Types.

NoHash == 0         \* PrevRefreshHash of a grant that was never refreshed
Secret == Nat \ {0}

Code == [client : Clients, email : Emails, proof : Proofs, expires : Nat]

\* RefreshExpiresAt is refreshedAt + RefreshTTL wherever it is assigned.
Grant == [client : Clients, email : Emails, refreshedAt : Nat, usedAt : Int,
          hash : Secret, prev : Nat, gen : Nat]

\* A token response: the claims of the access token, and the refresh token.
Response == [grant : 1..grantsDrawn, gen : Nat, expires : Nat, refresh : 1..refreshDrawn]

IsTable(t, Key, Entry) == /\ DOMAIN t \subseteq Key
                          /\ t \in [DOMAIN t -> Entry]

Drop(t, keys) == Restrict(t, DOMAIN t \ keys)
Put(t, k, e) == [x \in DOMAIN t \cup {k} |-> IF x = k THEN e ELSE t[x]]
EmptyTable == [x \in {} |-> x]

----------------------------------------------------------------------------
\* Saving and loading.

\* (A faulty Save: what was not saved stays in memory.)
SaveKeeps(outcome, saved, failed) ==
    /\ disk' = IF outcome = "early" THEN disk ELSE saved
    /\ grants' = saved
    /\ lastSave' = outcome
    /\ UNCHANGED strayed

\* The entries of saved that failed does not have.
Differs(saved, failed) ==
    {id \in DOMAIN saved : id \notin DOMAIN failed \/ saved[id] # failed[id]}

\* Save the table saved; memory goes on with it, or with failed when the
\* save reports an error.
Save(outcome, saved, failed) ==
    /\ disk' = IF outcome = "early" THEN disk ELSE saved
    /\ grants' = IF outcome = "ok" THEN saved ELSE failed
    /\ lastSave' = outcome
    /\ strayed' = IF outcome = "late" THEN strayed \cup Differs(saved, failed) ELSE strayed

\* The process stops, losing the codes, and New loads the file.  The owners
\* are configuration, so they may be others than before.
Restart(newOwners) ==
    /\ owners' = newOwners
    /\ codes' = EmptyTable
    /\ grants' = disk
    /\ lastSave' = "ok"
    /\ UNCHANGED <<now, disk, strayed, drawn, told>>

Tick ==
    /\ now < MaxTime
    /\ now' = now + 1
    /\ UNCHANGED <<owners, tables, drawn, told>>

----------------------------------------------------------------------------
\* Codes.

LiveCodes == {k \in DOMAIN codes : now < codes[k].expires}

\* The second critical section of consent: an owner has approved a request
\* of client.  When the table is full nothing is issued, but the expired
\* codes are gone.
IssueCode(client, email, proof) ==
    LET code == codesDrawn + 1
        kept == Restrict(codes, LiveCodes)
    IN  /\ codesDrawn < LastCodeDrawn
        /\ email \in owners
        /\ codesDrawn' = code
        /\ codes' = IF Cardinality(DOMAIN kept) >= MaxCodes
                      THEN kept
                      ELSE Put(kept, code, [client |-> client, email |-> email,
                                            proof |-> proof, expires |-> now + CodeTTL])
        /\ UNCHANGED <<now, owners, grants, disk, lastSave, strayed,
                       grantsDrawn, refreshDrawn, told>>

\* A code is deleted before any check, whatever the checks then say.
BurnCode(code) ==
    /\ code \in DOMAIN codes
    /\ codes' = Drop(codes, {code})
    /\ presented' = presented \cup {code}

CodeMatches(code, client, proof) ==
    /\ now < codes[code].expires
    /\ codes[code].client = client
    /\ codes[code].proof = proof

\* (A faulty RejectCode, for the runs: the code survives a failed attempt.)
RejectCodeKeeps(code, client, proof) ==
    /\ code \in DOMAIN codes
    /\ ~ CodeMatches(code, client, proof)
    /\ presented' = presented \cup {code}
    /\ UNCHANGED <<now, owners, tables, drawn, issued, replayed, acked>>

RejectCode(code, client, proof) ==
    /\ BurnCode(code)
    /\ ~ CodeMatches(code, client, proof)
    /\ UNCHANGED <<now, owners, grants, disk, lastSave, strayed, drawn, issued, replayed, acked>>

\* The grants evictOldestGrantLocked may delete: a least recently refreshed
\* one, whichever the iteration over the map meets first.
Oldest == {g \in DOMAIN grants :
              \A h \in DOMAIN grants : grants[g].refreshedAt <= grants[h].refreshedAt}

\* (A faulty EvictionChoices: one grant too many before it evicts.)
EvictionChoicesLate ==
    IF Cardinality(DOMAIN grants) > MaxGrants THEN {{g} : g \in Oldest} ELSE {{}}

\* (A faulty EvictionChoices: it counts the grants that were saved last.)
EvictionChoicesSaved ==
    IF Cardinality(DOMAIN disk) >= MaxGrants THEN {{g} : g \in Oldest} ELSE {{}}

EvictionChoices ==
    IF Cardinality(DOMAIN grants) >= MaxGrants THEN {{g} : g \in Oldest} ELSE {{}}

\* (A faulty NewGrant: the two hashes are exchanged.)
NewGrantSwapped(client, email, refresh) ==
    [client |-> client, email |-> email, refreshedAt |-> now,
     usedAt |-> -UsedResolution, hash |-> NoHash, prev |-> refresh, gen |-> 0]

NewGrant(client, email, refresh) ==
    [client |-> client, email |-> email, refreshedAt |-> now,
     usedAt |-> -UsedResolution,   \* never: the first use is always recorded
     hash |-> refresh, prev |-> NoHash, gen |-> 0]

\* issueAccessLocked, for the grant g stored under id, if the save went well.
IssueTokens(id, g, outcome) ==
    issued' = IF outcome = "ok"
                THEN issued \cup {[grant |-> id, gen |-> g.gen,
                                   expires |-> now + AccessTTL, refresh |-> g.hash]}
                ELSE issued

\* A valid code becomes a grant.  When the save fails the grant is taken out
\* of memory again; the grant evicted for it is not put back.
ExchangeCode(code, client, proof, outcome) ==
    \E evicted \in EvictionChoices :
        LET id == grantsDrawn + 1
            refresh == refreshDrawn + 1
            g == NewGrant(client, codes[code].email, refresh)
            kept == Drop(grants, evicted)
            added == Put(kept, id, g)
        IN  /\ grantsDrawn < LastGrantDrawn
            /\ refreshDrawn < LastRefreshDrawn
            /\ BurnCode(code)
            /\ CodeMatches(code, client, proof)
            /\ grantsDrawn' = id
            /\ refreshDrawn' = refresh
            /\ Save(outcome, added, kept)
            /\ IssueTokens(id, g, outcome)
            /\ UNCHANGED <<now, owners, codesDrawn, replayed, acked>>

----------------------------------------------------------------------------
\* Refreshing.

\* (A faulty RevokeGrant: a failed save puts the grant back.)
RevokeGrantRestores(id, outcome) == Save(outcome, Drop(grants, {id}), grants)

\* revokeGrantLocked: a failed save does not bring the grant back.
RevokeGrant(id, outcome) == Save(outcome, Drop(grants, {id}), Drop(grants, {id}))

MayRefresh(g, client) ==
    /\ now < g.refreshedAt + RefreshTTL
    /\ g.email \in owners
    /\ client \in {NoClient, g.client}

\* (A faulty Rotated: the generation stays.)
RotatedSameGen(g, refresh) ==
    [g EXCEPT !.prev = g.hash, !.hash = refresh, !.refreshedAt = now]

Rotated(g, refresh) ==
    [g EXCEPT !.prev = g.hash, !.hash = refresh, !.refreshedAt = now, !.gen = g.gen + 1]

\* The current refresh token: rotate, save, and go back if the save failed.
RotateRefresh(token, client, outcome) ==
    \E id \in DOMAIN grants :
        LET refresh == refreshDrawn + 1
            g == Rotated(grants[id], refresh)
            rotated == [grants EXCEPT ![id] = g]
        IN  /\ refreshDrawn < LastRefreshDrawn
            /\ grants[id].hash = token
            /\ MayRefresh(grants[id], client)
            /\ refreshDrawn' = refresh
            /\ Save(outcome, rotated, grants)
            /\ IssueTokens(id, g, outcome)
            /\ UNCHANGED <<now, owners, codes, codesDrawn, grantsDrawn,
                           presented, replayed, acked>>

\* The grants whose clients have exchanged token for a newer one.
Superseded == {t \in issued : \E u \in issued : u.grant = t.grant /\ u.refresh > t.refresh}
OwnersOfSpent(token) == {t.grant : t \in {u \in Superseded : u.refresh = token}}

\* The token rotated out last: somebody has a copy, the grant goes.
ReuseRefresh(token, outcome) ==
    \E id \in DOMAIN grants :
        /\ grants[id].prev = token
        /\ RevokeGrant(id, outcome)
        /\ replayed' = IF outcome = "ok" THEN replayed \cup OwnersOfSpent(token)
                                         ELSE replayed
        /\ UNCHANGED <<now, owners, codes, drawn, issued, presented, acked>>

\* Any other token is answered with invalid_grant and changes nothing.  The
\* step is kept for a superseded token, to remember whose it was.
UnknownRefresh(token) ==
    /\ OwnersOfSpent(token) # {}
    /\ \A id \in DOMAIN grants : token \notin {grants[id].hash, grants[id].prev}
    /\ replayed' = replayed \cup OwnersOfSpent(token)
    /\ UNCHANGED <<now, owners, tables, drawn, issued, presented, acked>>

----------------------------------------------------------------------------
\* Verifying and revoking.

\* Would the access token of t be accepted if the grants in memory were tbl?
\* (Verify's checks of the token against the grant.)
Current(t, tbl) == t.grant \in DOMAIN tbl /\ tbl[t.grant].gen = t.gen

UseDue(g) == now - g.usedAt >= UsedResolution

\* Verify, when it records the use.  A failed save is ignored.  In every
\* other case Verify changes nothing.
Verify(t, outcome) ==
    /\ now < t.expires
    /\ Current(t, grants)
    /\ grants[t.grant].email \in owners
    /\ UseDue(grants[t.grant])
    /\ LET used == [grants EXCEPT ![t.grant].usedAt = now]
       IN  Save(outcome, used, used)
    /\ UNCHANGED <<now, owners, codes, drawn, told>>

\* The dashboard's revoke form, for a grant of the user who sends it.
Revoke(id, email, outcome) ==
    /\ email \in owners
    /\ id \in DOMAIN grants
    /\ grants[id].email = email
    /\ RevokeGrant(id, outcome)
    /\ acked' = IF outcome = "ok" THEN acked \cup {id} ELSE acked
    /\ UNCHANGED <<now, owners, codes, drawn, issued, presented, replayed>>

\* The same form sent again (a second click, a retry): the grant is not
\* there, nothing is saved, and the answer is the same redirect.
RevokeAgain(id) ==
    /\ id \in {t.grant : t \in issued} \ DOMAIN grants
    /\ acked' = acked \cup {id}
    /\ UNCHANGED <<now, owners, tables, drawn, issued, presented, replayed>>

\* A registration rewrites the whole file, grants included.
SaveOthers(outcome) ==
    /\ Save(outcome, grants, grants)
    /\ UNCHANGED <<now, owners, codes, drawn, told>>

----------------------------------------------------------------------------
Init ==
    /\ now = 0
    /\ owners \in SUBSET Emails \ {{}}
    /\ codes = EmptyTable /\ grants = EmptyTable /\ disk = EmptyTable
    /\ lastSave = "ok"
    /\ codesDrawn = 0 /\ grantsDrawn = 0 /\ refreshDrawn = 0
    /\ issued = {} /\ presented = {} /\ replayed = {} /\ acked = {}
    /\ strayed = {}

CodeStep ==
    \/ \E client \in Clients, email \in Emails, proof \in Proofs :
           IssueCode(client, email, proof)
    \/ \E code \in DOMAIN codes, client \in Clients, proof \in Proofs :
           \/ RejectCode(code, client, proof)
           \/ \E outcome \in SaveOutcomes : ExchangeCode(code, client, proof, outcome)

RefreshStep ==
    \E token \in {t.refresh : t \in issued} :
        \/ \E client \in Clients \cup {NoClient}, outcome \in SaveOutcomes :
               RotateRefresh(token, client, outcome)
        \/ \E outcome \in SaveOutcomes : ReuseRefresh(token, outcome)
        \/ UnknownRefresh(token)

GrantStep ==
    \/ \E t \in issued, outcome \in SaveOutcomes : Verify(t, outcome)
    \/ \E id \in 1..grantsDrawn, email \in Emails, outcome \in SaveOutcomes :
           Revoke(id, email, outcome)
    \/ \E id \in 1..grantsDrawn : RevokeAgain(id)

Next ==
    \/ Tick
    \/ \E newOwners \in SUBSET Emails \ {{}} : Restart(newOwners)
    \/ CodeStep
    \/ RefreshStep
    \/ GrantStep
    \/ \E outcome \in SaveOutcomes : SaveOthers(outcome)

Spec == Init /\ [][Next]_vars

----------------------------------------------------------------------------
\* Properties.

TypeOK ==
    /\ now \in Nat
    /\ owners \subseteq Emails
    /\ IsTable(codes, 1..codesDrawn, Code)
    /\ IsTable(grants, 1..grantsDrawn, Grant)
    /\ IsTable(disk, 1..grantsDrawn, Grant)
    /\ lastSave \in AllOutcomes
    /\ codesDrawn \in Nat /\ grantsDrawn \in Nat /\ refreshDrawn \in Nat
    /\ issued \subseteq Response
    /\ presented \subseteq 1..codesDrawn
    /\ replayed \subseteq 1..grantsDrawn
    /\ acked \subseteq 1..grantsDrawn
    /\ strayed \subseteq 1..grantsDrawn

\* Once a client has been given new tokens, the old access token no longer
\* verifies and the old refresh token is no longer the current one, neither
\* now nor after a restart from the file (AccessGen, RefreshHash and the
\* order of save, rollback and answer in refresh).
SupersededStaysDead ==
    \A t \in Superseded, tbl \in {grants, disk} :
        t.grant \in DOMAIN tbl => /\ ~ Current(t, tbl)
                                  /\ tbl[t.grant].hash # t.refresh

\* A crash loses no connection the server honours: every grant in memory is
\* in the file, and after a save that succeeded the two are the same, so the
\* restart is invisible to every holder of a token.
CrashLosesNothing ==
    /\ DOMAIN grants \subseteq DOMAIN disk
    /\ lastSave = "ok" => disk = grants

\* The limits hold in memory and in the file, whatever saves failed between
\* an eviction and the grant it made room for.
TablesBounded ==
    /\ Cardinality(DOMAIN grants) <= MaxGrants
    /\ Cardinality(DOMAIN disk) <= MaxGrants
    /\ Cardinality(DOMAIN codes) <= MaxCodes

\* A grant is made only for a code presented for the first time, failed
\* attempts counted, and is then of the client and the owner the code was
\* issued for, in memory and in the file, whatever happened to other codes and
\* grants in between (exchangeCode).
CodeSingleUse ==
    [][grantsDrawn' # grantsDrawn =>
         \E code \in DOMAIN codes \ presented :
             /\ presented' = presented \cup {code}
             /\ \A tbl \in {grants', disk'} : grantsDrawn' \in DOMAIN tbl =>
                   /\ tbl[grantsDrawn'].client = codes[code].client
                   /\ tbl[grantsDrawn'].email = codes[code].email]_vars

\* The refresh token of a grant, in memory and in the file, is one its client
\* was given together with the generation the grant has: no failure of a save
\* strands a client but the late failure of its own exchange or refresh
\* (the rollbacks in exchangeCode and refresh).
HolderKeepsGrant ==
    \A tbl \in {grants, disk} : \A id \in DOMAIN tbl \ strayed :
        \E t \in issued : /\ t.grant = id
                          /\ t.refresh = tbl[id].hash
                          /\ t.gen = tbl[id].gen

\* A client the server honours now is honoured after a restart (the README:
\* connected clients do not notice a restart).
RestartUnnoticed ==
    \A t \in issued :
        Current(t, grants) /\ grants[t.grant].hash = t.refresh
            => Current(t, disk) /\ disk[t.grant].hash = t.refresh

\* Whoever presents a refresh token that was already exchanged brings the
\* grant down (the README: reusing an old refresh token revokes the grant).
ReuseRevokes == replayed \cap DOMAIN grants = {}

\* A grant whose owner was told that it is revoked is not honoured.
AckedStaysRevoked == acked \cap DOMAIN grants = {}

\* Grants the server does not honour and a restart would bring back.
FileOnly == DOMAIN disk \ DOMAIN grants

\* However many exchanges fail, and however their saves fail, they leave at
\* most one grant that only the file has: a failed exchange keeps the eviction
\* made for it, but the next one finds that room and evicts nobody, unless all
\* that the file has is in memory again (exchangeCode).
ExchangeCostsOne ==
    [][grantsDrawn' # grantsDrawn =>
         FileOnly' \subseteq FileOnly \/ Cardinality(FileOnly') <= 1]_vars

\* Memory and file together are the store of grants GrantLifecycle promises:
\* a grant that is in neither is gone for good.
Lifecycle == INSTANCE GrantLifecycle WITH
    Ids <- 1..LastGrantDrawn,
    used <- 1..grantsDrawn,
    live <- DOMAIN grants,
    stale <- DOMAIN disk \ DOMAIN grants

LifecycleSpec == Lifecycle!Spec

============================================================================

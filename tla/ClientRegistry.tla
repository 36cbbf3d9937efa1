--------------------------- MODULE ClientRegistry ---------------------------
(***************************************************************************)
(* Dynamic client registration: the bounded table state.Clients, which     *)
(* anyone may fill, and the eviction of clients that hold no grant         *)
(* (Server.register, Server.evictUnusedClientLocked).                      *)
(*                                                                         *)
(* What matters of grants here is whose they are and that they are saved   *)
(* in the same file as the clients, so that a failing save or a restart    *)
(* can undo an eviction or a registration.                                 *)
(***************************************************************************)
EXTENDS Integers, FiniteSets, Functions

CONSTANTS
    Clients,       \* the identifiers register can draw
    Grants,        \* identifiers of grants
    MaxClients,    \* maxRegisteredClient
    MaxGrants,     \* maxGrants
    MaxTime        \* bound

ASSUME MaxClientsAssumption == MaxClients \in Nat \ {0}
ASSUME MaxGrantsAssumption == MaxGrants \in Nat \ {0} /\ MaxGrants < MaxClients
ASSUME MaxTimeAssumption == MaxTime \in Nat

VARIABLES
    now,           \* the clock
    drawn,         \* the identifiers drawn so far: each is drawn once
    clients,       \* state.Clients: when each registered client was created
    grants,        \* state.Grants: the client of each grant
    flows,         \* the registered clients an authorization is under way for
    file           \* the state file

vars == <<now, drawn, clients, grants, flows, file>>

\* What saveState can do: write the file; fail and leave it; write it and
\* report a failure.
Outcomes == {"ok", "early", "late"}

Saved(outcome, c, g) ==
    file' = IF outcome = "early" THEN file ELSE [clients |-> c, grants |-> g]

Without(f, x) == Restrict(f, DOMAIN f \ {x})

With(f, x, v) == [y \in DOMAIN f \cup {x} |-> IF y = x THEN v ELSE f[y]]

Holders(g) == Range(g)

----------------------------------------------------------------------------
\* (A faulty Evictable: clients with grants are evicted too.)
EvictableAny == DOMAIN clients

\* evictUnusedClientLocked looks among the clients without a grant,
Evictable == DOMAIN clients \ Holders(grants)

\* and takes one created first.
Oldest(cs) == {c \in cs : \A d \in cs : clients[c] <= clients[d]}

\* (A faulty IsFull: off by one.)
IsFullLate == Cardinality(DOMAIN clients) > MaxClients

IsFull == Cardinality(DOMAIN clients) >= MaxClients

\* (A faulty RoomMade: a client is evicted for every one that registers.)
RoomMadeAlways ==
    IF Evictable = {} THEN {clients} ELSE {Without(clients, c) : c \in Oldest(Evictable)}

\* What register leaves of the table before it adds a client: everything, or
\* all but one when it is full.  There is no way on when every client holds a
\* grant (errTooManyClients).
RoomMade == IF IsFull THEN {Without(clients, c) : c \in Oldest(Evictable)} ELSE {clients}

\* (A faulty AfterFailure: the new client stays when the save fails.)
AfterFailureKeeps(kept, c) == With(kept, c, now)

\* A failed save takes the new client back, but not the eviction.
AfterFailure(kept, c) == kept

Register(c, outcome) ==
    /\ c \notin drawn
    /\ drawn' = drawn \cup {c}
    /\ \E kept \in RoomMade :
           /\ clients' = IF outcome = "ok" THEN With(kept, c, now) ELSE AfterFailure(kept, c)
           /\ Saved(outcome, With(kept, c, now), grants)
    /\ UNCHANGED <<now, grants, flows>>

\* authorize and consent: the client is looked up once, and what was found
\* goes with the request and the code.
Authorize(c) ==
    /\ c \in DOMAIN clients
    /\ flows' = flows \cup {c}
    /\ UNCHANGED <<now, drawn, clients, grants, file>>

\* (A faulty GrantsLeft: one grant too many before it evicts.)
GrantsLeftLate ==
    IF Cardinality(DOMAIN grants) > MaxGrants
      THEN {Without(grants, g) : g \in DOMAIN grants}
      ELSE {grants}

\* What exchangeCode leaves of the grants before it adds one.  Which of them
\* was refreshed longest ago is not kept here, so it may be any.
GrantsLeft ==
    IF Cardinality(DOMAIN grants) >= MaxGrants
      THEN {Without(grants, g) : g \in DOMAIN grants}
      ELSE {grants}

\* exchangeCode for a code of client c, which may have been evicted since.
\* Another authorization of c may still be under way.  A failed save takes the
\* new grant back, but not the eviction.
GrantTo(g, c, outcome) ==
    /\ c \in flows
    /\ g \notin DOMAIN grants \cup DOMAIN file.grants
    /\ flows' \in {flows, flows \ {c}}
    /\ \E left \in GrantsLeft :
           /\ grants' = IF outcome = "ok" THEN With(left, g, c) ELSE left
           /\ Saved(outcome, clients, With(left, g, c))
    /\ UNCHANGED <<now, drawn, clients>>

\* A grant is revoked: it is not put back when the save fails.
EndGrant(g, outcome) ==
    /\ g \in DOMAIN grants
    /\ grants' = Without(grants, g)
    /\ Saved(outcome, clients, Without(grants, g))
    /\ UNCHANGED <<now, drawn, clients, flows>>

\* refresh, and Verify when it records a use, change a grant in what is not
\* kept here, but save the clients with it as they are in memory.
SaveGrant(outcome) ==
    /\ DOMAIN grants # {}
    /\ Saved(outcome, clients, grants)
    /\ UNCHANGED <<now, drawn, clients, grants, flows>>

Restart ==
    /\ clients' = file.clients
    /\ grants' = file.grants
    /\ flows' = {}
    /\ UNCHANGED <<now, drawn, file>>

Tick ==
    /\ now < MaxTime
    /\ now' = now + 1
    /\ UNCHANGED <<drawn, clients, grants, flows, file>>

Nothing == [x \in {} |-> x]

Init ==
    /\ now = 0
    /\ drawn = {}
    /\ clients = Nothing
    /\ grants = Nothing
    /\ flows = {}
    /\ file = [clients |-> Nothing, grants |-> Nothing]

Next ==
    \/ Tick
    \/ Restart
    \/ \E c \in Clients : Authorize(c)
    \/ \E outcome \in Outcomes :
           \/ \E c \in Clients : Register(c, outcome)
           \/ \E g \in Grants, c \in Clients : GrantTo(g, c, outcome)
           \/ \E g \in Grants : EndGrant(g, outcome)
           \/ SaveGrant(outcome)

Spec == Init /\ [][Next]_vars

----------------------------------------------------------------------------
IsTable(f, ids, values) == DOMAIN f \subseteq ids /\ f \in [DOMAIN f -> values]

TypeOK ==
    /\ now \in Nat
    /\ drawn \subseteq Clients
    /\ IsTable(clients, drawn, Nat) /\ IsTable(file.clients, drawn, Nat)
    /\ IsTable(grants, Grants, drawn) /\ IsTable(file.grants, Grants, drawn)
    /\ flows \subseteq drawn

\* Nobody can make the table or the file grow beyond the limit by
\* registering, whatever fails (register).
RegistryBounded ==
    /\ Cardinality(DOMAIN clients) <= MaxClients
    /\ Cardinality(DOMAIN file.clients) <= MaxClients

\* A crash loses no client: every registered client is in the file as it is
\* in memory, although evictions and failed registrations leave the two
\* different (register).
CrashKeepsClients ==
    \A c \in DOMAIN clients : c \in DOMAIN file.clients /\ file.clients[c] = clients[c]

\* A registered client that holds a grant stays registered, whatever strangers
\* register, and over failing saves and restarts (evictUnusedClientLocked).
HolderStays ==
    [][\A c \in DOMAIN clients \cap Holders(grants) : c \in DOMAIN clients']_vars

\* However often registrations fail to be saved, they drop at most one client
\* from memory that a restart would bring back (register).
FailuresCostOne == Cardinality(DOMAIN file.clients \ DOMAIN clients) <= 1

\* No registration is refused for want of room: clients that hold grants never
\* take up the whole table, because there are fewer grants than places, over
\* failing saves and restarts too (register's errTooManyClients).
RegistrationOpen == IsFull => Evictable # {}

============================================================================

---------------------------- MODULE ConsentFlow ----------------------------
(***************************************************************************)
(* From an authorization request to an authorization code: Server.authorize *)
(* keeps a pending request and shows the consent page, Server.consent takes *)
(* the user's decision and issues the code.                                *)
(*                                                                         *)
(* consent decides in one critical section and issues the code in another, *)
(* and several submissions run at once.  Both tables are bounded, live in  *)
(* memory only, and are purged of what has expired when something is       *)
(* added.  Time is kept as what is left of each lifetime.                  *)
(***************************************************************************)
EXTENDS Integers, FiniteSets, Functions

CONSTANTS
    Owners,      \* the emails that may sign in
    Requests,    \* identifiers of authorization requests, reused when forgotten
    Handlers,    \* submissions of the consent form being served
    ConsentTTL,  \* consentTTL
    CodeTTL,     \* codeTTL
    MaxPending,  \* maxPending
    MaxCodes     \* maxCodes

ASSUME LifetimesAssumption == ConsentTTL \in Nat \ {0} /\ CodeTTL \in Nat \ {0}
ASSUME LimitsAssumption == MaxPending \in Nat \ {0} /\ MaxCodes \in Nat \ {0}
ASSUME RequestsAssumption == {} \notin Requests

VARIABLES
    pending,     \* Server.pending
    codes,       \* Server.codes, by the request that led to the code
    handler,     \* the decision each submission carries from one lock to the next
    history,     \* what each request in use asked for, and its approvals
    answer       \* what authorize answered last: "page" or "busy"

vars == <<pending, codes, handler, history, answer>>

\* What a submission chooses: all VMs, some of those the page listed, some
\* among which there is one that it did not list, or something checkPolicy
\* refuses whatever the page offered.
Choice == {"all", "listed", "unlisted", "bad"}

\* A pendingAuthorization: whose it is, and whether the page could list VMs.
Pending == [email : Owners, limitable : BOOLEAN, left : 0..ConsentTTL]

\* An authorizationCode.
Code == [email : Owners, access : Choice, left : 0..CodeTTL]

\* A decision that is on its way to becoming a code.
Decision == [request : Requests, email : Owners, access : Choice]

Idle == [request |-> {}, email |-> {}, access |-> {}]

Deciding(r) == {h \in Handlers : handler[h].request = r}

InUse == DOMAIN pending \cup DOMAIN codes \cup {r \in Requests : Deciding(r) # {}}

\* (A faulty Without: the entry is marked, not deleted.)
WithoutMarked(f, r) == [f EXCEPT ![r].left = -1]

Without(f, r) == Restrict(f, DOMAIN f \ {r})

With(f, r, v) == [x \in DOMAIN f \cup {r} |-> IF x = r THEN v ELSE f[x]]

\* Requests that are forgotten have no history.
KeepHistory == history' = Restrict(history, InUse')

----------------------------------------------------------------------------
\* (A faulty Purged: what has expired stays.)
PurgedNot(f) == f

\* A table rid of what has expired.
Purged(f) == Restrict(f, {x \in DOMAIN f : f[x].left > 0})

\* (A faulty HasRoom: the limit is checked after the addition is granted.)
HasRoomLate(f, max) == Cardinality(DOMAIN f) <= max

HasRoom(f, max) == Cardinality(DOMAIN f) < max

\* authorize, for a valid request of owner u: purge, then keep it if there
\* is room.  Whether the VMs could be listed is found out before.
Authorize(u) ==
    /\ InUse # Requests
    /\ \E limitable \in BOOLEAN :
        LET kept == Purged(pending)
            r == CHOOSE unused \in Requests \ InUse : TRUE
            p == [email |-> u, limitable |-> limitable, left |-> ConsentTTL]
        IN  IF HasRoom(kept, MaxPending)
            THEN /\ pending' = With(kept, r, p)
                 /\ answer' = "page"
                 /\ UNCHANGED <<codes, handler>>
                 /\ LET asked == [email |-> u, limitable |-> limitable, approvals |-> {}]
                    IN  history' = With(Restrict(history, InUse' \ {r}), r, asked)
            ELSE /\ pending' = kept
                 /\ answer' = "busy"
                 /\ UNCHANGED <<codes, handler>>
                 /\ KeepHistory

\* (A faulty MayDecide: any owner decides.)
MayDecideAny(r, u) == r \in DOMAIN pending /\ pending[r].left > 0

MayDecide(r, u) ==
    /\ r \in DOMAIN pending
    /\ pending[r].left > 0
    /\ pending[r].email = u

\* checkPolicy: it asks whether VMs could be listed, not whether the chosen
\* ones were.
PolicyAllowed(p, access) ==
    \/ access = "all"
    \/ access \in {"listed", "unlisted"} /\ p.limitable

\* (A faulty Taken: an approved request stays until its code is issued.)
TakenWhenDenied(r, approve) == IF approve THEN pending ELSE Without(pending, r)

\* What a submission leaves of the pending requests.
Taken(r, approve) == Without(pending, r)

\* consent, up to the first unlock: a submission that is not a rejected
\* choice takes the request, whoever made it.
Submit(h, u, r, approve, access) ==
    /\ handler[h] = Idle
    /\ r \in DOMAIN pending
    /\ (MayDecide(r, u) /\ approve) => PolicyAllowed(pending[r], access)
    /\ pending' = Taken(r, approve)
    /\ UNCHANGED <<codes, answer>>
    /\ IF MayDecide(r, u) /\ approve
       THEN LET d == [request |-> r, email |-> u, access |-> access]
            IN  /\ handler' = [handler EXCEPT ![h] = d]
                /\ history' = [history EXCEPT ![r].approvals = @ \cup {d}]
       ELSE UNCHANGED handler /\ KeepHistory

\* consent, from the second lock: purge, then keep the code if there is room.
\* Without room the decision is lost.
IssueCode(h) ==
    /\ handler[h] # Idle
    /\ LET kept == Purged(codes)
           d == handler[h]
           c == [email |-> d.email, access |-> d.access, left |-> CodeTTL]
       IN  codes' = IF HasRoom(kept, MaxCodes) THEN With(kept, d.request, c) ELSE kept
    /\ handler' = [handler EXCEPT ![h] = Idle]
    /\ UNCHANGED <<pending, answer>>
    /\ KeepHistory

\* exchangeCode takes the code out of the table, whether or not it accepts it.
TakeCode(r) ==
    /\ r \in DOMAIN codes
    /\ codes' = Without(codes, r)
    /\ UNCHANGED <<pending, handler, answer>>
    /\ KeepHistory

\* Time passes.
Aged(f) == [x \in DOMAIN f |-> [f[x] EXCEPT !.left = IF @ = 0 THEN 0 ELSE @ - 1]]

Tick ==
    /\ pending' = Aged(pending)
    /\ codes' = Aged(codes)
    /\ UNCHANGED <<handler, history, answer>>

Nothing == [x \in {} |-> x]

Restart ==
    /\ pending' = Nothing
    /\ codes' = Nothing
    /\ handler' = [h \in Handlers |-> Idle]
    /\ history' = Nothing
    /\ UNCHANGED answer

Init ==
    /\ pending = Nothing
    /\ codes = Nothing
    /\ handler = [h \in Handlers |-> Idle]
    /\ history = Nothing
    /\ answer = "page"

AuthorizeSome == \E u \in Owners : Authorize(u)

Next ==
    \/ Tick
    \/ Restart
    \/ AuthorizeSome
    \/ \E h \in Handlers :
           \/ IssueCode(h)
           \/ \E u \in Owners, r \in Requests, approve \in BOOLEAN, access \in Choice :
                  Submit(h, u, r, approve, access)
    \/ \E r \in Requests : TakeCode(r)

Spec == Init /\ [][Next]_vars

\* Time passes, submissions being served are served to the end, and clients
\* go on asking.
Fairness ==
    /\ WF_vars(Tick)
    /\ \A h \in Handlers : WF_vars(IssueCode(h))
    /\ WF_vars(AuthorizeSome)

FairSpec == Spec /\ Fairness

----------------------------------------------------------------------------
TypeOK ==
    /\ DOMAIN pending \subseteq Requests /\ Range(pending) \subseteq Pending
    /\ DOMAIN codes \subseteq Requests /\ Range(codes) \subseteq Code
    /\ handler \in [Handlers -> Decision \cup {Idle}]
    /\ DOMAIN history = InUse
    /\ Range(history) \subseteq
           [email : Owners, limitable : BOOLEAN, approvals : SUBSET Decision]
    /\ answer \in {"page", "busy"}

\* A request is decided once: however many times and by whomever its form is
\* submitted at once, it is pending, or with one submission, or one code
\* (consent).
DecidedOnce ==
    \A r \in Requests :
        Cardinality(Deciding(r)) + Cardinality({r} \cap DOMAIN pending)
                                 + Cardinality({r} \cap DOMAIN codes) <= 1

\* A code gives exactly what the owner who was asked approved, and is limited
\* to some VMs only if that owner's page could list them; that the page listed
\* those very ones is not checked (consent, checkPolicy).
CodesAsApproved ==
    \A r \in DOMAIN codes :
        LET asked == history[r]
            c == codes[r]
        IN  /\ c.email = asked.email
            /\ [request |-> r, email |-> c.email, access |-> c.access] \in asked.approvals
            /\ c.access = "all" \/ (c.access # "bad" /\ asked.limitable)

\* Neither table outgrows its limit, whatever is submitted at once.
TablesBounded == Cardinality(DOMAIN pending) <= MaxPending /\ Cardinality(DOMAIN codes) <= MaxCodes

\* "Busy" does not last: requests that nobody decides expire, and make room
\* for others (authorize).
BusyEnds == (answer = "busy") ~> (answer = "page")

============================================================================

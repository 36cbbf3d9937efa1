----------------------------- MODULE KeySearch -----------------------------
(***************************************************************************)
(* FindAgentKey (internal/exe/token.go): how exe-mcp stdio picks the key   *)
(* of the SSH agent that it signs API tokens with.  Every probe shows the  *)
(* key to exe.dev and may ask the person at the agent to confirm, so the   *)
(* order matters.                                                          *)
(***************************************************************************)
EXTENDS Naturals, Sequences, SequencesExt

CONSTANTS
    Keys,        \* the keys an agent may hold
    NoKey,       \* no pin, and no key found
    MaxPrefer    \* how many preferences there may be

ASSUME KeysAssumption == IsFiniteSet(Keys)
ASSUME NoKeyAssumption == NoKey \notin Keys
ASSUME PreferAssumption == MaxPrefer \in Nat

VARIABLES
    search,      \* the locals of FindAgentKey, and the agent it talks to
    key          \* the key of the AgentMinter, or NoKey

searchVars == <<search, key>>

\* A search for which nothing has happened yet, with what it is given: the
\* keys the agent lists, and the preferences from the flags and the ssh
\* configuration (KeyPrefs).  Keys that were listed may be gone later.
Search(agent, pin, prefer, only) ==
    [at |-> "listing", agent |-> agent, pin |-> pin, prefer |-> prefer, only |-> only,
     gone |-> {}, order |-> <<>>, next |-> 1, answer |-> [k \in Keys |-> "untried"]]

----------------------------------------------------------------------------
\* (A faulty OrderKeys: the preferred keys only move to the front.)
OrderKeysAll(agent, prefer, only) ==
    LET used(k) == k \in ToSet(prefer)
    IN  SelectSeq(agent, used) \o SelectSeq(agent, LAMBDA k : ~ used(k))

\* What is taken of the first n keys that are wanted, the preferred ones first:
\* those that are in the agent and not used yet.
Available(prefer, wanted, agent) ==
    LET upTo[n \in 0..Len(wanted)] ==
            IF n = 0
            THEN <<>>
            ELSE LET before == upTo[n - 1]
                     used == ToSet(IF n <= Len(prefer) THEN before ELSE prefer)
                 IN  IF wanted[n] \in ToSet(agent) \ used THEN Append(before, wanted[n]) ELSE before
    IN  upTo

\* orderKeys: the preferred keys that are in the agent, each once and in the
\* order of preference; then, unless only those are allowed, the others as the
\* agent lists them.
OrderKeys(agent, prefer, only) ==
    LET wanted == prefer \o (IF only THEN <<>> ELSE agent)
    IN  Available(prefer, wanted, agent)[Len(wanted)]

Candidate == search.order[search.next]

Found(k) ==
    /\ search' = [search EXCEPT !.at = "found"]
    /\ key' = k

Stop(s) ==
    /\ search' = [s EXCEPT !.at = "failed"]
    /\ UNCHANGED key

\* The agent cannot be reached or does not list its keys.
ListFails ==
    /\ search.at = "listing"
    /\ Stop(search)

\* A pinned key is taken without a probe.
TakePinned ==
    /\ search.at = "listing"
    /\ search.pin # NoKey
    /\ IF search.pin \in ToSet(search.agent) THEN Found(search.pin) ELSE Stop(search)

ListCandidates ==
    /\ search.at = "listing"
    /\ search.pin = NoKey
    /\ LET order == OrderKeys(search.agent, search.prefer, search.only)
       IN  IF order = <<>>
           THEN Stop(search)
           ELSE /\ search' = [search EXCEPT !.at = "probing", !.order = order]
                /\ UNCHANGED key

\* On to the next candidate, if there is one.
Skip(answer) ==
    LET s == [search EXCEPT !.answer[Candidate] = answer]
    IN  IF search.next = Len(search.order)
        THEN Stop(s)
        ELSE search' = [s EXCEPT !.next = @ + 1] /\ UNCHANGED key

Probing == search.at = "probing"
CandidateInAgent == Candidate \in ToSet(search.agent) \ search.gone

\* The candidate is no longer in the agent, or the agent gives no answer.
SignerGone ==
    /\ Probing
    /\ Stop(search)

\* The agent does not sign, because the person refuses or it cannot.
SignRefused ==
    /\ Probing
    /\ CandidateInAgent
    /\ Skip("unsigned")

\* whoami, with a token that the candidate signed.
Accepted ==
    /\ Probing
    /\ CandidateInAgent
    /\ search' = [search EXCEPT !.at = "found", !.answer[Candidate] = "accepted"]
    /\ key' = Candidate

\* Status 401.
Refused ==
    /\ Probing
    /\ CandidateInAgent
    /\ Skip("refused")

\* (A faulty Unreached: the search takes it for a refusal.)
UnreachedSkips == Skip("unreached")

\* Any other failure says nothing about the key.
Unreached == Stop([search EXCEPT !.answer[Candidate] = "unreached"])

ProbeFails ==
    /\ Probing
    /\ CandidateInAgent
    /\ Unreached

\* The agent loses a key: it is removed, or the agent restarts or is locked.
DropKey(k) ==
    /\ Probing
    /\ search' = [search EXCEPT !.gone = @ \cup {k}]
    /\ UNCHANGED key

----------------------------------------------------------------------------
\* Some keys in some order: configuration files may name one twice, an agent
\* lists each once.
Lists(most) == UNION {[1..n -> Keys] : n \in 0..most}
Orders == {ks \in Lists(Cardinality(Keys)) : IsInjective(ks)}

SearchInit ==
    /\ \E agent \in Orders :
          \/ \E prefer \in Lists(MaxPrefer), only \in BOOLEAN : search = Search(agent, NoKey, prefer, only)
          \/ \E pin \in Keys : search = Search(agent, pin, <<>>, FALSE)
    /\ key = NoKey

SearchNext ==
    \/ ListFails
    \/ TakePinned
    \/ ListCandidates
    \/ SignerGone
    \/ SignRefused
    \/ Accepted
    \/ Refused
    \/ ProbeFails
    \/ \E k \in Keys : DropKey(k)

----------------------------------------------------------------------------
SearchTypeOK ==
    /\ search.at \in {"listing", "probing", "found", "failed", "over"}
    /\ search.order \in Orders
    /\ search.next \in DOMAIN search.order \cup {1}
    /\ search.answer \in [Keys -> {"untried", "unsigned", "refused", "unreached", "accepted"}]
    /\ key \in Keys \cup {NoKey}

Probed == {k \in Keys : search.answer[k] # "untried"}

\* "the first that exe.dev accepts wins": the key that was found was accepted,
\* and each one before it was refused, by exe.dev or by the agent; a failure
\* of the network never makes the search pass over a key (FindAgentKey).
FirstAccepted ==
    search.at = "found" /\ search.pin = NoKey =>
        /\ search.answer[key] = "accepted"
        /\ Probed \ {k \in Keys : search.answer[k] \in {"unsigned", "refused"}} = {key}

\* Keys are tried in the order of preference, those outside the preferences
\* only after all preferred ones in the agent, and never when only those are
\* allowed; no key is tried when one is pinned (orderKeys, KeyPrefs).
PreferredFirst ==
    LET preferred == ToSet(search.prefer)
        places(k) == {i \in DOMAIN search.prefer : search.prefer[i] = k}
        before(p, k) == \E i \in places(p) : \A j \in places(k) : i < j
    IN  /\ search.pin # NoKey => Probed = {}
        /\ search.only => Probed \subseteq preferred
        /\ \A k \in Probed, p \in preferred \cap ToSet(search.agent) :
              before(p, k) => p \in Probed

===========================================================================

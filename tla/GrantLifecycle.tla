--------------------------- MODULE GrantLifecycle ---------------------------
(***************************************************************************)
(* What the authorization server promises about the life of a grant, with  *)
(* the table in memory and the file seen as one store.                     *)
(*                                                                         *)
(* A grant is live when the server honours it, and stale when it was       *)
(* dropped from memory but is still in the file, so that a restart would   *)
(* bring it back.  A grant that was used and is neither is gone for good.  *)
(***************************************************************************)
EXTENDS Naturals

CONSTANT Ids      \* the ids grants may be given

VARIABLES used,   \* ids that were ever drawn
          live,   \* ids of the grants the server honours
          stale   \* ids only the file still has

store == <<used, live, stale>>

Init == used = {} /\ live = {} /\ stale = {}

\* One request draws at most one new id and drops at most one live grant.
New == {{}} \cup {{id} : id \in Ids \ used}
Dropped == {{}} \cup {{id} : id \in live}

\* The request reaches the file and is answered: whatever was stale is
\* forgotten.
Commit(new, dropped) ==
    /\ live' = (live \ dropped) \cup new
    /\ stale' = {}

\* The request fails after its new grant reached the file: the grant is not
\* honoured, yet a restart would bring it back.
CommitUnanswered(new, dropped) ==
    /\ live' = live \ dropped
    /\ stale' = new

\* The request does not reach the file: what it drops becomes stale.
Fail(dropped) ==
    /\ live' = live \ dropped
    /\ stale' = stale \cup dropped

Restart ==
    /\ live' = live \cup stale
    /\ stale' = {}
    /\ UNCHANGED used

Next ==
    \/ \E new \in New, dropped \in Dropped :
           /\ used' = used \cup new
           /\ \/ Commit(new, dropped)
              \/ CommitUnanswered(new, dropped)
              \/ Fail(dropped)
    \/ Restart

Spec == Init /\ [][Next]_store

\* A grant that is gone never comes back: not by a request, not by a restart.
GoneForGood ==
    [][\A id \in used \ (live \cup stale) : id \notin live' \cup stale']_store

=============================================================================

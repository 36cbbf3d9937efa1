----------------------------- MODULE AtomicFile -----------------------------
(***************************************************************************)
(* What write_file and edit_file promise of one file on a VM: a call takes *)
(* effect at one instant or not at all, never twice, never partly, and its *)
(* success is reported only after it took effect.  A text is the set of    *)
(* the calls whose contribution it holds.                                  *)
(***************************************************************************)
CONSTANTS
    Writers,     \* write_file calls, each replacing the whole text
    Editors,     \* edit_file calls, each adding to the text it read
    Late         \* the calls that may take effect after they were reported as failed

Calls == Writers \cup Editors

VARIABLES
    text,        \* what a reader of the file sees
    seen,        \* what each edit read
    landed,      \* the calls that have taken effect
    outcome      \* for each call "none", "open", "done" or "failed"

vars == <<text, seen, landed, outcome>>

Init ==
    /\ text = {}
    /\ seen = [c \in Calls |-> {}]
    /\ landed = {}
    /\ outcome = [c \in Calls |-> "none"]

Begin(c) ==
    /\ outcome[c] = "none"
    /\ seen' = [seen EXCEPT ![c] = IF c \in Editors THEN text ELSE {}]
    /\ outcome' = [outcome EXCEPT ![c] = "open"]
    /\ UNCHANGED <<text, landed>>

Refuse(c) ==
    /\ outcome[c] = "none"
    /\ outcome' = [outcome EXCEPT ![c] = "failed"]
    /\ UNCHANGED <<text, seen, landed>>

Land(c) ==
    /\ c \notin landed
    /\ outcome[c] = "open" \/ (c \in Late /\ outcome[c] = "failed")
    /\ text' = seen[c] \cup {c}
    /\ landed' = landed \cup {c}
    /\ UNCHANGED <<seen, outcome>>

Succeed(c) ==
    /\ outcome[c] = "open"
    /\ c \in landed
    /\ outcome' = [outcome EXCEPT ![c] = "done"]
    /\ UNCHANGED <<text, seen, landed>>

Fail(c) ==
    /\ outcome[c] = "open"
    /\ outcome' = [outcome EXCEPT ![c] = "failed"]
    /\ UNCHANGED <<text, seen, landed>>

Next == \E c \in Calls : Begin(c) \/ Refuse(c) \/ Land(c) \/ Succeed(c) \/ Fail(c)

Spec == Init /\ [][Next]_vars

=============================================================================

----------------------------- MODULE AtomicSave -----------------------------
(***************************************************************************)
(* What saveState promises its callers: the file goes from the old state   *)
(* to the new one at one instant.  A save that works has made sure of the  *)
(* new state; one that fails, or is cut off, may have got there or not.    *)
(* TokenServer and ClientRegistry take a save as one step on this promise. *)
(***************************************************************************)
CONSTANTS
    State,       \* what the server can save
    None,        \* the memory of a server that is not running
    Starts(_)    \* what a start can make of the file it finds

VARIABLES
    memory,      \* the state in memory
    saving,      \* whether a save of it is under way
    fallback,    \* what is in memory if that fails
    file,        \* the file as a running machine sees it
    possible     \* what the file may be if the machine stops

vars == <<memory, saving, fallback, file, possible>>

Init ==
    /\ memory = None /\ saving = FALSE /\ fallback = None
    /\ possible = {file}

\* A server starts from what is in the file, and may have to save it first; if
\* that fails, it is not running.
Start ==
    /\ memory = None
    /\ memory' \in Starts(file)
    /\ saving' \in BOOLEAN
    /\ UNCHANGED <<fallback, file, possible>>

Change ==
    /\ memory # None
    /\ ~ saving
    /\ memory' \in State
    /\ fallback' \in State
    /\ saving' = TRUE
    /\ UNCHANGED <<file, possible>>

\* The instant at which the new state takes the place of the old one.
Land ==
    /\ saving
    /\ file' = memory
    /\ possible' = possible \cup {memory}
    /\ UNCHANGED <<memory, saving, fallback>>

Works ==
    /\ saving
    /\ file = memory
    /\ possible' = {memory}
    /\ saving' = FALSE
    /\ fallback' = None
    /\ UNCHANGED <<memory, file>>

Fails ==
    /\ saving
    /\ memory' = fallback
    /\ saving' = FALSE
    /\ fallback' = None
    /\ UNCHANGED <<file, possible>>

\* The process stops, or the machine.
Stop ==
    /\ memory' = None /\ saving' = FALSE /\ fallback' = None
    /\ \/ UNCHANGED <<file, possible>>
       \/ file' \in possible /\ possible' = {file'}

Next == Start \/ Change \/ Land \/ Works \/ Fails \/ Stop

Spec == Init /\ [][Next]_vars

=============================================================================

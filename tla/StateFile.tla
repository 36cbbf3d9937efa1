----------------------------- MODULE StateFile -----------------------------
(***************************************************************************)
(* The state file of the authorization server, below the level TokenServer *)
(* and ClientRegistry see it at: the system calls of saveState, what a     *)
(* crash of the process or of the machine leaves of them, and how New      *)
(* takes up what it finds (loadState, migrate, the access key).            *)
(*                                                                         *)
(* Handlers change the state and save it under Server.mu, one at a time.   *)
(* Of a grant only the access policy is kept here, because migrate changes *)
(* it; clients are saved like grants and are left out.                     *)
(***************************************************************************)
EXTENDS Integers, FiniteSets, Functions

CONSTANTS
    Ids,         \* grant ids
    Keys,        \* the access keys New can draw
    NoKey,       \* an AccessKey that is not there
    Policies,    \* the access policies of grants
    MaxGrants    \* how many grants there may be

Ops == {"run", "manage", "share", "expose"}
Policy == [allVMs : BOOLEAN, ops : SUBSET Ops]

ASSUME KeysAssumption == NoKey \notin Keys
ASSUME PoliciesAssumption == Policies \subseteq Policy
ASSUME GrantsAssumption == MaxGrants \in Nat \ {0}

VARIABLES
    process,     \* "down", "starting" or "serving"
    mem,         \* Server.st
    undo,        \* what the handler leaves in memory when its save fails
    signs,       \* whether the handler signs an access token when it works
    step,        \* the system call saveState makes next, or "none"
    temp,        \* the temporary file
    disk,        \* the state file
    durable,     \* the files that may be found in its place after a power loss
    \* History.
    acked,       \* the state of the last save that was reported to work
    tried,       \* the states that saves have tried to write since
    meant,       \* what the owner of each grant allowed
    removed,     \* the grants that a save which worked has left out
    signed       \* the keys that access tokens were signed with

server == <<process, mem, undo, signs>>
files == <<temp, disk, durable>>
history == <<acked, tried, meant, removed, signed>>
vars == <<server, step, files, history>>

----------------------------------------------------------------------------
(***************************************************************************)
(* What a file can hold.                                                   *)
(***************************************************************************)
StateVersion == 2

Grants == UNION {[ids -> Policy] : ids \in SUBSET Ids}
File == [version : -1..StateVersion, key : Keys \cup {NoKey}, grants : Grants]

Nothing == [x \in {} |-> x]

Empty == [version |-> StateVersion, key |-> NoKey, grants |-> Nothing]

\* No file, and a file whose data did not reach the disk.
Absent == [version |-> 0, key |-> NoKey, grants |-> Nothing]
Torn == [version |-> -1, key |-> NoKey, grants |-> Nothing]

\* loadState refuses what it cannot parse and versions it does not know.
Loadable(f) == f.version \in {0, 1, StateVersion}

----------------------------------------------------------------------------
(***************************************************************************)
(* Loading.                                                                *)
(***************************************************************************)

Upgraded(p) ==
    IF p.allVMs /\ "manage" \in p.ops
      THEN [p EXCEPT !.ops = @ \cup {"share", "expose"}]
      ELSE p

UpgradedAll(grants) == [id \in DOMAIN grants |-> Upgraded(grants[id])]

\* (A faulty Migrated: the version stays.)
MigratedOnlyGrants(f) ==
    IF f.version = 1 THEN [f EXCEPT !.grants = UpgradedAll(f.grants)] ELSE f

\* migrate
Migrated(f) ==
    IF f.version = 1
      THEN [f EXCEPT !.version = StateVersion, !.grants = UpgradedAll(f.grants)]
      ELSE f

\* loadState, for a file it does not refuse.
Loaded(f) == IF f = Absent THEN Empty ELSE Migrated(f)

\* The states New goes on from: one without an access key gets one.
LoadedWithKey(f) ==
    {st \in {Loaded(f)} \cup {[Loaded(f) EXCEPT !.key = k] : k \in Keys} : st.key # NoKey}

KeysInUse == signed \cup {f.key : f \in {acked, disk} \cup tried \cup durable}

\* The first system call of a save of new.  The handler has already changed
\* the state in memory.
StartSave(new) ==
    /\ step' = "write"
    /\ tried' = tried \cup {new}

\* New: load the file; when it has no access key, draw one and save it.
Start ==
    /\ process = "down"
    /\ Loadable(disk)
    /\ signs' = FALSE
    /\ LET st == Loaded(disk)
       IN  IF st.key # NoKey
           THEN /\ process' = "serving"
                /\ mem' = st
                /\ UNCHANGED <<undo, step, tried>>
           ELSE \E k \in Keys \ KeysInUse :
                    LET new == [st EXCEPT !.key = k]
                    IN  /\ process' = "starting"
                        /\ mem' = new
                        /\ undo' = new
                        /\ StartSave(new)
    /\ UNCHANGED <<files, acked, meant, removed, signed>>

----------------------------------------------------------------------------
(***************************************************************************)
(* The handlers, up to their save.  The lock keeps the next one waiting    *)
(* until the save is over.                                                 *)
(***************************************************************************)
Idle == process = "serving" /\ step = "none"

Handle(new, failed, signing) ==
    /\ Idle
    /\ mem' = new
    /\ undo' = failed
    /\ signs' = signing
    /\ StartSave(new)
    /\ UNCHANGED <<process, files, acked, removed, signed>>

With(grants, id, policy) == [x \in DOMAIN grants \cup {id} |-> IF x = id THEN policy ELSE grants[x]]

Without(ids) == [mem EXCEPT !.grants = Restrict(@, DOMAIN @ \ ids)]

\* The grant that a full table loses for a new one.  Which one it is depends on
\* times that are not kept here (see TokenServer).
Evictions ==
    IF Cardinality(DOMAIN mem.grants) >= MaxGrants THEN {{id} : id \in DOMAIN mem.grants} ELSE {{}}

\* exchangeCode: a grant is added, and taken back if the save fails; one that was
\* evicted for it does not come back.
AddGrant(id, policy) ==
    /\ id \notin DOMAIN meant
    /\ \E evicted \in Evictions :
          LET rest == Without(evicted)
          IN  Handle([rest EXCEPT !.grants = With(@, id, policy)], rest, TRUE)
    /\ meant' = With(meant, id, policy)

\* refresh, and Verify when it records a use: what matters here stays the
\* same, and refresh signs a token.
Rewrite(signing) ==
    /\ Handle(mem, mem, signing)
    /\ signing => DOMAIN mem.grants # {}
    /\ UNCHANGED meant

\* revokeGrantLocked: the grant is gone from memory even if the save fails.
\* (Without the grant, revoke does nothing and answers all the same.)
DropGrant(id) ==
    /\ id \in DOMAIN mem.grants
    /\ Handle(Without({id}), Without({id}), FALSE)
    /\ UNCHANGED meant

----------------------------------------------------------------------------
(***************************************************************************)
(* saveState.                                                              *)
(***************************************************************************)
NoTemp == [data |-> Absent, synced |-> FALSE]

\* CreateTemp and Write.
WriteTemp ==
    /\ step = "write"
    /\ temp' = [data |-> mem, synced |-> FALSE]
    /\ step' = "sync"
    /\ UNCHANGED <<server, disk, durable, history>>

\* (A faulty SyncTemp: the data is left to the system to write.)
SyncTempNot ==
    /\ step = "sync"
    /\ step' = "rename"
    /\ UNCHANGED <<server, files, history>>

\* File.Sync.
SyncTemp ==
    /\ step = "sync"
    /\ temp' = [temp EXCEPT !.synced = TRUE]
    /\ step' = "rename"
    /\ UNCHANGED <<server, disk, durable, history>>

\* Rename is seen at once by whoever opens the file; after a power loss the
\* directory may still have the old entry.
Rename ==
    /\ step = "rename"
    /\ disk' = temp.data
    /\ durable' = durable \cup (IF temp.synced THEN {temp.data} ELSE {temp.data, Torn})
    /\ temp' = NoTemp
    /\ step' = "syncdir"
    /\ UNCHANGED <<server, history>>

\* (A faulty AfterSyncDir: nothing is synced.)
AfterSyncDirNot == durable

\* Sync of the directory.
AfterSyncDir == {disk}

HandlerOver == undo' = Empty /\ signs' = FALSE

\* The last call: the save has worked, and the handler answers.
SyncDir ==
    /\ step = "syncdir"
    /\ durable' = AfterSyncDir
    /\ step' = "none"
    /\ process' = "serving"
    /\ acked' = mem
    /\ tried' = {}
    /\ removed' = removed \cup (DOMAIN meant \ DOMAIN mem.grants)
    /\ signed' = IF signs THEN signed \cup {mem.key} ELSE signed
    /\ HandlerOver
    /\ UNCHANGED <<mem, temp, disk, meant>>

\* A server that cannot save its key does not start.
AfterError == IF process = "starting" THEN "down" ELSE process

\* Any of the calls fails: the temporary file is removed, the handler undoes
\* what it undoes and reports an error.
SaveFails ==
    /\ step # "none"
    /\ temp' = NoTemp
    /\ mem' = undo
    /\ step' = "none"
    /\ process' = AfterError
    /\ HandlerOver
    /\ UNCHANGED <<disk, durable, history>>

----------------------------------------------------------------------------
(***************************************************************************)
(* Failures from outside.                                                  *)
(***************************************************************************)
Stopped ==
    /\ process' = "down"
    /\ mem' = Empty
    /\ HandlerOver
    /\ step' = "none"
    /\ temp' = NoTemp
    /\ UNCHANGED history

\* The process stops, wherever it is.
Crash ==
    /\ process # "down"
    /\ Stopped
    /\ UNCHANGED <<disk, durable>>

\* The machine stops, wherever the process is.
PowerLoss ==
    /\ \E found \in durable : disk' = found /\ durable' = {found}
    /\ Stopped

----------------------------------------------------------------------------
\* What earlier versions of the program, or nobody, left behind: version 1
\* knows nothing of share and expose.
OldFiles ==
    [version : {1}, key : Keys \cup {NoKey},
     grants : UNION {[ids -> {p \in Policies : p.ops \subseteq {"run", "manage"}}] :
                        ids \in {some \in SUBSET Ids : Cardinality(some) <= MaxGrants}}]

Init ==
    /\ process = "down" /\ mem = Empty /\ undo = Empty /\ signs = FALSE
    /\ step = "none"
    /\ temp = NoTemp
    /\ disk \in {Absent} \cup OldFiles
    /\ durable = {disk}
    /\ acked = disk
    /\ tried = {}
    /\ meant = UpgradedAll(disk.grants)
    /\ removed = {}
    /\ signed = {}

Handler ==
    \/ \E id \in Ids, policy \in Policies : AddGrant(id, policy)
    \/ \E signing \in BOOLEAN : Rewrite(signing)
    \/ \E id \in Ids : DropGrant(id)

SaveStep ==
    \/ WriteTemp
    \/ SyncTemp
    \/ Rename
    \/ SyncDir
    \/ SaveFails

Next ==
    \/ Start
    \/ Handler
    \/ SaveStep
    \/ Crash
    \/ PowerLoss

Spec == Init /\ [][Next]_vars

----------------------------------------------------------------------------
\* The state's parts have their types, and a server that serves has an
\* upgraded state with an access key (New).
TypeOK ==
    /\ process \in {"down", "starting", "serving"}
    /\ step \in {"none", "write", "sync", "rename", "syncdir"}
    /\ signs \in BOOLEAN
    /\ {mem, undo, disk, acked} \cup durable \cup tried \subseteq File
    /\ temp \in [data : File, synced : BOOLEAN]
    /\ meant \in Grants /\ removed \subseteq DOMAIN meant
    /\ signed \subseteq Keys
    /\ process = "serving" => mem.version = StateVersion /\ mem.key \in Keys

\* What a start can find, after any crash of the process or the machine.
Findable == {disk} \cup durable

\* "A crash leaves either the old state or the new one, never a torn file"
\* (saveState): the file is the one of the last save that worked, or one that
\* a later save tried to write, whole.
OldOrNew == Findable \subseteq {acked} \cup tried

\* An access token outlives every crash: the server, whenever it serves, has
\* the key of all tokens it ever signed (New, issueAccessLocked).
KeyOfTokens == process = "serving" => signed \subseteq {mem.key}

\* Every grant allows what its owner allowed, or what that meant before
\* version 2: no crash between an upgrade and the next save repeats an upgrade
\* or applies it to a grant made since (migrate).
PoliciesAsMeant ==
    \A f \in Findable : \A id \in DOMAIN f.grants : Migrated(f).grants[id] = meant[id]

\* A grant whose removal was saved (it was revoked or evicted) is in no file a
\* start can find, after any later failures (revokeGrantLocked, saveState).  That
\* a revocation was answered is not enough: see TokenServer's RevokeAgain.
SavedRemovalLasts == \A f \in Findable : removed \cap DOMAIN f.grants = {}

\* saveState is atomic to its callers, though the machine may stop between any
\* two of its system calls and forget what was not synced: each handler's save
\* is one step of AtomicSave, by which the file goes from the old state to the
\* new one, and only a save that worked is sure to have got there.
Saves == INSTANCE AtomicSave WITH
    State    <- File,
    None     <- Empty,
    Starts   <- LoadedWithKey,
    memory   <- IF process = "down" THEN Empty ELSE mem,
    saving   <- step # "none",
    fallback <- IF step # "none" /\ process = "serving" THEN undo ELSE Empty,
    file     <- disk,
    possible <- durable

SavesAtomically == Saves!Spec

============================================================================

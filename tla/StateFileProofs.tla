-------------------------- MODULE StateFileProofs --------------------------
(***************************************************************************)
(* Safety of the state file for any number of grants and keys, any access  *)
(* policies, and any number of failures, crashes and upgrades.             *)
(***************************************************************************)
EXTENDS StateFile, TLAPS

----------------------------------------------------------------------------
(***************************************************************************)
(* The invariant.                                                          *)
(***************************************************************************)

\* File f agrees with what clients and owners were told: it has the key of all
\* access tokens (keys), means what the owners of its grants meant (meaning),
\* and has none of the grants whose removal was saved (gone).
Agrees(f, keys, meaning, gone) ==
    /\ f = Absent \/ f.version \in {1, StateVersion}
    /\ keys \subseteq {f.key}
    /\ DOMAIN f.grants \subseteq DOMAIN meaning
    /\ \A id \in DOMAIN f.grants : Migrated(f).grants[id] = meaning[id]
    /\ gone \cap DOMAIN f.grants = {}

Agreed(f) == Agrees(f, signed, meant, removed)

\* What a server has in memory that has started.
Live(f) == Agreed(f) /\ f.version = StateVersion /\ f.key \in Keys

\* How far saveState has come.
SavePoints ==
    /\ step # "none" => process # "down" /\ mem \in tried /\ Live(undo)
    /\ step \in {"sync", "rename"} => temp.data = mem
    /\ step = "rename" => temp.synced
    /\ step = "syncdir" => disk = mem

Inv ==
    /\ TypeOK
    /\ disk \in durable /\ durable \subseteq {acked} \cup tried
    /\ \A f \in {acked} \cup tried : Agreed(f)
    /\ process # "down" => Live(mem)
    /\ process = "starting" => step # "none" /\ ~ signs /\ signed = {}
    /\ SavePoints

----------------------------------------------------------------------------
(***************************************************************************)
(* Files.                                                                  *)
(***************************************************************************)
LEMMA NothingGranted == Nothing \in Grants /\ DOMAIN Nothing = {}
<1>1. Nothing \in [{} -> Policy]
  BY DEF Nothing
<1> QED  BY <1>1 DEF Grants

LEMMA SpecialFiles == Empty \in File /\ Absent \in File /\ Torn \in File
  BY NothingGranted DEF Empty, Absent, Torn, File, StateVersion

LEMMA UpgradedGrants ==
    ASSUME NEW g \in Grants
    PROVE  UpgradedAll(g) \in Grants /\ DOMAIN UpgradedAll(g) = DOMAIN g
<1>1. \A p \in Policy : Upgraded(p) \in Policy
  BY DEF Upgraded, Policy, Ops
<1>2. PICK ids \in SUBSET Ids : g \in [ids -> Policy]
  BY DEF Grants
<1>3. UpgradedAll(g) \in [ids -> Policy]
  BY <1>1, <1>2 DEF UpgradedAll
<1> QED  BY <1>2, <1>3 DEF Grants

LEMMA LoadedFile ==
    ASSUME NEW f \in File
    PROVE  Loaded(f) \in File /\ Loaded(f).key = f.key /\ DOMAIN Loaded(f).grants = DOMAIN f.grants
<1>1. UpgradedAll(f.grants) \in Grants /\ DOMAIN UpgradedAll(f.grants) = DOMAIN f.grants
  BY UpgradedGrants DEF File
<1>2. CASE f = Absent
  BY <1>2, SpecialFiles, NothingGranted DEF Loaded, Empty, Absent
<1>3. CASE f # Absent /\ f.version = 1
  <2>1. Loaded(f) = [f EXCEPT !.version = StateVersion, !.grants = UpgradedAll(f.grants)]
    BY <1>3 DEF Loaded, Migrated
  <2> DEFINE g == UpgradedAll(f.grants)
  <2>2. StateVersion \in -1..StateVersion
    BY DEF StateVersion
  <2> HIDE DEF g
  <2> QED  BY <1>1, <2>1, <2>2 DEF File, g
<1>4. CASE f # Absent /\ f.version # 1
  BY <1>4 DEF Loaded, Migrated
<1> QED  BY <1>2, <1>3, <1>4

\* What a start makes of a file that agrees.
LEMMA LoadedAgrees ==
    ASSUME NEW f \in File, NEW keys, NEW meaning, NEW gone, Agrees(f, keys, meaning, gone)
    PROVE  Agrees(Loaded(f), keys, meaning, gone) /\ Loaded(f).version = StateVersion
<1>1. Loaded(f).version = StateVersion
  BY DEF Agrees, Loaded, Migrated, File, Empty, StateVersion
<1>2. f # Absent => Loaded(f).grants = Migrated(f).grants
  BY DEF Loaded
<1>3. f = Absent => DOMAIN Loaded(f).grants = {}
  BY NothingGranted DEF Loaded, Empty
<1>4. Migrated(Loaded(f)).grants = Loaded(f).grants
  BY <1>1 DEF Migrated, StateVersion
<1> QED  BY <1>1, <1>2, <1>3, <1>4, LoadedFile DEF Agrees

----------------------------------------------------------------------------
(***************************************************************************)
(* The invariant holds at the start, and each step keeps it.               *)
(***************************************************************************)
LEMMA InvInit == Init => Inv
<1> SUFFICES ASSUME Init
             PROVE  Inv
  OBVIOUS
<1>1. disk \in File
  <2> SUFFICES ASSUME disk \in OldFiles
               PROVE  disk \in File
    BY SpecialFiles DEF Init
  <2>1. PICK ids \in SUBSET Ids : disk.grants \in [ids -> {p \in Policies : p.ops \subseteq {"run", "manage"}}]
    BY DEF OldFiles
  <2>2. disk.grants \in [ids -> Policy]
    BY <2>1, PoliciesAssumption
  <2>3. disk.grants \in Grants
    BY <2>2 DEF Grants
  <2> QED  BY <2>3 DEF OldFiles, File, StateVersion
<1>2. UpgradedAll(disk.grants) \in Grants /\ DOMAIN UpgradedAll(disk.grants) = DOMAIN disk.grants
  BY <1>1, UpgradedGrants DEF File
<1>3. TypeOK
  BY <1>1, <1>2, SpecialFiles DEF Init, TypeOK, NoTemp
<1>4. Agreed(disk)
  <2>1. CASE disk = Absent
    BY <2>1, NothingGranted, <1>2 DEF Init, Agreed, Agrees, Absent
  <2>2. CASE disk \in OldFiles
    BY <2>2, <1>2 DEF Init, OldFiles, Agreed, Agrees, Migrated
  <2> QED  BY <2>1, <2>2 DEF Init
<1> QED  BY <1>3, <1>4 DEF Init, Inv, SavePoints

\* New.
LEMMA StartKeeps == Inv /\ Start => Inv'
<1> SUFFICES ASSUME Inv, Start
             PROVE  Inv'
  OBVIOUS
<1> DEFINE st == Loaded(disk)
<1>1. disk \in File /\ Agreed(disk)
  BY DEF Inv, TypeOK
<1>2. st \in File /\ Agreed(st) /\ st.version = StateVersion /\ st.key = disk.key
  BY <1>1, LoadedAgrees, LoadedFile DEF Agreed
<1>3. step = "none"
  BY DEF Start, Inv, SavePoints, TypeOK
<1> HIDE DEF st
<1>4. UNCHANGED <<files, acked, meant, removed, signed>> /\ signs' = FALSE
  BY DEF Start
<1>5. CASE st.key # NoKey /\ process' = "serving" /\ mem' = st /\ UNCHANGED <<undo, step, tried>>
  <2>1. st.key \in Keys
    BY <1>2, <1>5 DEF File
  <2>2. TypeOK'
    BY <1>2, <1>4, <1>5, <2>1 DEF Inv, TypeOK, files
  <2> QED  BY <1>2, <1>3, <1>4, <1>5, <2>1, <2>2 DEF Inv, SavePoints, Live, Agreed, files
<1>6. ASSUME st.key = NoKey, NEW k \in Keys,
             process' = "starting", mem' = [st EXCEPT !.key = k], undo' = mem', step' = "write",
             tried' = tried \cup {mem'}
      PROVE  Inv'
  <2>1. signed = {}
    <3>1. signed \subseteq {NoKey} /\ signed \subseteq Keys
      BY <1>2, <1>6 DEF Agreed, Agrees, Inv, TypeOK
    <3> QED  BY <3>1, KeysAssumption
  <2>2. mem' \in File /\ mem'.version = StateVersion /\ mem'.key = k /\ mem'.grants = st.grants
    BY <1>2, <1>6 DEF File
  <2>3. Agrees(mem', signed, meant, removed)
    <3>1. Migrated(mem').grants = st.grants /\ Migrated(st).grants = st.grants
      BY <1>2, <2>2 DEF Migrated, StateVersion
    <3> QED  BY <1>2, <2>1, <2>2, <3>1 DEF Agreed, Agrees
  <2>4. TypeOK'
    BY <1>4, <1>6, <2>2 DEF Inv, TypeOK, files
  <2> QED  BY <1>4, <1>6, <2>1, <2>2, <2>3, <2>4 DEF Inv, SavePoints, Live, Agreed, files
<1> QED  BY <1>5, <1>6 DEF Start, StartSave, st

\* A handler, if what it leaves in memory, whether its save works or fails,
\* agrees with what is meant from now on.
LEMMA HandleKeeps ==
    ASSUME Inv,
           NEW new \in File, NEW failed \in File, NEW signing \in BOOLEAN, Handle(new, failed, signing),
           meant' \in Grants, removed \subseteq DOMAIN meant',
           \A f \in {new, failed} : /\ Agrees(f, signed, meant', removed)
                                    /\ f.version = StateVersion /\ f.key \in Keys,
           \A f \in {acked} \cup tried : Agrees(f, signed, meant', removed)
    PROVE  Inv'
<1>1. /\ mem' = new /\ undo' = failed /\ signs' = signing /\ step' = "write" /\ tried' = tried \cup {new}
      /\ process = "serving" /\ UNCHANGED <<process, files, acked, removed, signed>>
  BY DEF Handle, Idle, StartSave
<1>2. TypeOK'
  BY <1>1 DEF Inv, TypeOK, files
<1> QED  BY <1>1, <1>2 DEF Inv, SavePoints, Live, Agreed, files

\* What is left in memory without some of the grants.
LEMMA WithoutAgrees ==
    ASSUME Inv, Idle, NEW ids
    PROVE  Without(ids) \in File /\ Live(Without(ids))
<1> DEFINE rest == Restrict(mem.grants, DOMAIN mem.grants \ ids)
           new == [mem EXCEPT !.grants = rest]
<1>1. mem \in File /\ Live(mem)
  BY DEF Inv, TypeOK, Idle
<1>2. /\ rest \in Grants /\ DOMAIN rest \subseteq DOMAIN mem.grants
      /\ \A x \in DOMAIN rest : rest[x] = mem.grants[x]
  <2>1. PICK some \in SUBSET Ids : mem.grants \in [some -> Policy]
    BY <1>1 DEF File, Grants
  <2>2. rest \in [some \ ids -> Policy]
    BY <2>1 DEF Restrict
  <2> QED  BY <2>1, <2>2 DEF Grants, Restrict
<1>3. Without(ids) = new
  BY DEF Without
<1> HIDE DEF rest
<1>4. new \in File /\ new.version = StateVersion /\ new.key = mem.key /\ new.grants = rest
  BY <1>1, <1>2 DEF File, Live
<1>5. Agrees(new, signed, meant, removed)
  <2>1. Migrated(new).grants = rest /\ Migrated(mem).grants = mem.grants
    BY <1>1, <1>4 DEF Migrated, Live, StateVersion
  <2> HIDE DEF new
  <2> QED  BY <1>1, <1>2, <1>4, <2>1 DEF Agrees, Live, Agreed
<1> QED  BY <1>1, <1>3, <1>4, <1>5 DEF Live, Agreed

\* exchangeCode.
LEMMA AddGrantKeeps == ASSUME Inv, NEW id \in Ids, NEW policy \in Policies, AddGrant(id, policy)
                       PROVE  Inv'
<1>1. PICK evicted : LET rest == Without(evicted)
                     IN  Handle([rest EXCEPT !.grants = With(@, id, policy)], rest, TRUE)
  BY DEF AddGrant
<1> DEFINE rest == Without(evicted)
           new == [rest EXCEPT !.grants = With(rest.grants, id, policy)]
<1>2. Handle(new, rest, TRUE) /\ meant' = With(meant, id, policy) /\ id \notin DOMAIN meant
  BY <1>1 DEF AddGrant
<1>3. Idle /\ meant \in Grants /\ removed \subseteq DOMAIN meant
  BY <1>2 DEF Inv, TypeOK, Handle
<1>4. rest \in File /\ Live(rest)
  BY <1>3, WithoutAgrees
<1> HIDE DEF rest
<1>5. ASSUME NEW g \in Grants
      PROVE  /\ With(g, id, policy) \in Grants /\ DOMAIN With(g, id, policy) = DOMAIN g \cup {id}
             /\ \A x \in DOMAIN g \cup {id} : With(g, id, policy)[x] = IF x = id THEN policy ELSE g[x]
  <2>1. PICK ids \in SUBSET Ids : g \in [ids -> Policy]
    BY DEF Grants
  <2>2. With(g, id, policy) \in [ids \cup {id} -> Policy] /\ ids \cup {id} \in SUBSET Ids
    BY <2>1, PoliciesAssumption DEF With
  <2> QED  BY <2>1, <2>2 DEF Grants, With
<1>6. new \in File /\ new.version = StateVersion /\ new.key = rest.key
      /\ new.grants = With(rest.grants, id, policy)
  <2>1. With(rest.grants, id, policy) \in Grants
    BY <1>4, <1>5 DEF File
  <2> QED  BY <1>4, <2>1 DEF File, Live
<1>7. \A x \in DOMAIN meant : With(meant, id, policy)[x] = meant[x]
  BY <1>2, <1>3, <1>5
<1>8. ASSUME NEW f, Agreed(f)
      PROVE  Agrees(f, signed, With(meant, id, policy), removed)
  BY <1>3, <1>5, <1>7, <1>8 DEF Agreed, Agrees
<1>9. Agrees(new, signed, With(meant, id, policy), removed)
  <2>1. Migrated(new).grants = With(rest.grants, id, policy) /\ Migrated(rest).grants = rest.grants
    BY <1>4, <1>6 DEF Migrated, Live, StateVersion
  <2>2. /\ DOMAIN With(rest.grants, id, policy) = DOMAIN rest.grants \cup {id}
        /\ DOMAIN With(meant, id, policy) = DOMAIN meant \cup {id}
    BY <1>3, <1>4, <1>5 DEF File
  <2>3. /\ DOMAIN rest.grants \subseteq DOMAIN meant /\ removed \cap DOMAIN rest.grants = {}
        /\ signed \subseteq {rest.key}
        /\ \A x \in DOMAIN rest.grants : rest.grants[x] = meant[x]
    BY <1>4, <2>1 DEF Live, Agreed, Agrees
  <2>4. removed \cap (DOMAIN rest.grants \cup {id}) = {}
    BY <1>2, <1>3, <2>3
  <2>5. \A x \in DOMAIN With(rest.grants, id, policy) :
            With(rest.grants, id, policy)[x] = With(meant, id, policy)[x]
    <3>1. rest.grants \in Grants
      BY <1>4 DEF File
    <3> QED  BY <1>3, <1>5, <2>2, <2>3, <3>1
  <2> HIDE DEF new
  <2> QED  BY <1>6, <2>1, <2>2, <2>3, <2>4, <2>5 DEF Agrees
<1>10. With(meant, id, policy) \in Grants /\ removed \subseteq DOMAIN With(meant, id, policy)
  BY <1>3, <1>5
<1> HIDE DEF new
<1>11. \A f \in {new, rest} : Agrees(f, signed, meant', removed) /\ f.version = StateVersion /\ f.key \in Keys
  BY <1>2, <1>4, <1>6, <1>8, <1>9 DEF Live
<1>12. \A f \in {acked} \cup tried : Agrees(f, signed, meant', removed)
  BY <1>2, <1>8 DEF Inv
<1> QED  BY <1>2, <1>4, <1>6, <1>10, <1>11, <1>12, HandleKeeps

\* refresh, and Verify.
LEMMA RewriteKeeps == ASSUME Inv, NEW signing \in BOOLEAN, Rewrite(signing)
                      PROVE  Inv'
<1>1. Handle(mem, mem, signing) /\ meant' = meant
  BY DEF Rewrite
<1>2. mem \in File /\ meant \in Grants /\ removed \subseteq DOMAIN meant /\ Live(mem)
  BY <1>1 DEF Inv, TypeOK, Handle, Idle
<1>3. \A f \in {mem, mem} : Agrees(f, signed, meant', removed) /\ f.version = StateVersion /\ f.key \in Keys
  BY <1>1, <1>2 DEF Live, Agreed
<1>4. \A f \in {acked} \cup tried : Agrees(f, signed, meant', removed)
  BY <1>1 DEF Inv, Agreed
<1> QED  BY <1>1, <1>2, <1>3, <1>4, HandleKeeps

\* revoke.
LEMMA DropGrantKeeps == ASSUME Inv, NEW id \in Ids, DropGrant(id)
                        PROVE  Inv'
<1> DEFINE new == Without({id})
<1>1. Handle(new, new, FALSE) /\ meant' = meant
  BY DEF DropGrant
<1>2. Idle /\ meant \in Grants /\ removed \subseteq DOMAIN meant
  BY <1>1 DEF Inv, TypeOK, Handle
<1>3. new \in File /\ Live(new)
  BY <1>2, WithoutAgrees
<1> HIDE DEF new
<1>4. \A f \in {new, new} : Agrees(f, signed, meant', removed) /\ f.version = StateVersion /\ f.key \in Keys
  BY <1>1, <1>3 DEF Live, Agreed
<1>5. \A f \in {acked} \cup tried : Agrees(f, signed, meant', removed)
  BY <1>1 DEF Inv, Agreed
<1> QED  BY <1>1, <1>2, <1>3, <1>4, <1>5, HandleKeeps

\* The system calls of saveState.
LEMMA SaveKeeps == Inv /\ SaveStep => Inv'
<1> SUFFICES ASSUME Inv, SaveStep
             PROVE  Inv'
  OBVIOUS
<1>1. CASE WriteTemp
  <2>1. TypeOK'
    BY <1>1 DEF WriteTemp, Inv, TypeOK, server, history
  <2> QED  BY <1>1, <2>1 DEF WriteTemp, Inv, SavePoints, Live, Agreed, server, history
<1>2. CASE SyncTemp
  <2>1. temp' = [data |-> temp.data, synced |-> TRUE]
    BY <1>2 DEF SyncTemp, Inv, TypeOK
  <2>2. TypeOK'
    BY <1>2, <2>1 DEF SyncTemp, Inv, TypeOK, server, history
  <2> QED  BY <1>2, <2>1, <2>2 DEF SyncTemp, Inv, SavePoints, Live, Agreed, server, history
<1>3. CASE Rename
  <2>1. temp.data = mem /\ temp.synced /\ mem \in tried
    BY <1>3 DEF Rename, Inv, SavePoints
  <2>2. /\ disk' = mem /\ durable' = durable \cup {mem} /\ temp' = NoTemp /\ step' = "syncdir"
        /\ UNCHANGED <<server, history>>
    BY <1>3, <2>1 DEF Rename
  <2>3. TypeOK'
    BY <2>1, <2>2, SpecialFiles DEF Inv, TypeOK, NoTemp, server, history
  <2> QED  BY <1>3, <2>1, <2>2, <2>3 DEF Rename, Inv, SavePoints, Live, Agreed, server, history
<1>4. CASE SyncDir
  <2>1. /\ disk = mem /\ Live(mem) /\ process # "down"
        /\ mem \in File /\ meant \in Grants /\ removed \subseteq DOMAIN meant
    BY <1>4 DEF SyncDir, Inv, SavePoints, TypeOK
  <2>2. /\ durable' = {mem} /\ step' = "none" /\ process' = "serving" /\ acked' = mem /\ tried' = {}
        /\ removed' = removed \cup (DOMAIN meant \ DOMAIN mem.grants)
        /\ undo' = Empty /\ signs' = FALSE /\ UNCHANGED <<mem, temp, disk, meant>>
    BY <1>4, <2>1 DEF SyncDir, AfterSyncDir, HandlerOver
  <2>3. signed' \subseteq {mem.key} /\ signed' \subseteq Keys
    BY <1>4, <2>1 DEF SyncDir, Live, Agreed, Agrees
  <2>4. Agrees(mem, signed', meant, removed')
    BY <2>1, <2>2, <2>3 DEF Live, Agreed, Agrees
  <2>5. TypeOK'
    BY <2>1, <2>2, <2>3, SpecialFiles DEF Inv, TypeOK, Live
  <2> QED  BY <2>1, <2>2, <2>4, <2>5 DEF Inv, SavePoints, Live, Agreed
<1>5. CASE SaveFails
  <2>1. /\ temp' = NoTemp /\ mem' = undo /\ step' = "none" /\ undo' = Empty /\ signs' = FALSE
        /\ UNCHANGED <<disk, durable, history>>
        /\ process' = IF process = "starting" THEN "down" ELSE process
        /\ step # "none" /\ Live(undo)
    BY <1>5 DEF SaveFails, AfterError, HandlerOver, Inv, SavePoints
  <2>2. TypeOK'
    BY <2>1, SpecialFiles DEF Inv, TypeOK, NoTemp, history, Live
  <2> QED  BY <2>1, <2>2 DEF Inv, SavePoints, Live, Agreed, history
<1> QED  BY <1>1, <1>2, <1>3, <1>4, <1>5 DEF SaveStep

\* The process or the machine stops.
LEMMA StopKeeps == Inv /\ (Crash \/ PowerLoss) => Inv'
<1> SUFFICES ASSUME Inv, Crash \/ PowerLoss
             PROVE  Inv'
  OBVIOUS
<1>1. Stopped
  BY DEF Crash, PowerLoss
<1>2. disk' \in durable' /\ durable' \subseteq durable
  BY DEF Crash, PowerLoss, Inv
<1>3. TypeOK'
  BY <1>1, <1>2, SpecialFiles DEF Stopped, HandlerOver, Inv, TypeOK, NoTemp, history
<1> QED  BY <1>1, <1>2, <1>3 DEF Stopped, HandlerOver, Inv, SavePoints, Agreed, history

LEMMA InvNext == Inv /\ [Next]_vars => Inv'
<1> SUFFICES ASSUME Inv, [Next]_vars
             PROVE  Inv'
  OBVIOUS
<1>1. CASE UNCHANGED vars
  BY <1>1 DEF Inv, TypeOK, SavePoints, Live, Agreed, vars, server, files, history
<1>2. CASE Handler
  BY <1>2, AddGrantKeeps, RewriteKeeps, DropGrantKeeps DEF Handler
<1> QED  BY <1>1, <1>2, StartKeeps, SaveKeeps, StopKeeps DEF Next

LEMMA Invariance == Spec => []Inv
<1> QED  BY InvInit, InvNext, PTL DEF Spec

----------------------------------------------------------------------------
(***************************************************************************)
(* The theorems.                                                           *)
(***************************************************************************)

\* Every variable has its type, and a server that serves has an upgraded state
\* with an access key (New, saveState).
THEOREM TypeCorrect == Spec => []TypeOK
<1>1. Inv => TypeOK
  BY DEF Inv
<1> QED  BY <1>1, Invariance, PTL

\* Whatever fails or stops, a start finds the state of the last save that
\* worked, or one that a later save tried to write, whole (saveState).
THEOREM FileSafety == Spec => []OldOrNew
<1>1. Inv => OldOrNew
  BY DEF Inv, OldOrNew, Findable
<1> QED  BY <1>1, Invariance, PTL

\* A server that serves has the key of every access token that was ever signed
\* (New, issueAccessLocked).
THEOREM KeySafety == Spec => []KeyOfTokens
<1>1. Inv => KeyOfTokens
  BY DEF Inv, KeyOfTokens, Live, Agreed, Agrees
<1> QED  BY <1>1, Invariance, PTL

\* Every grant a start can find means what its owner allowed, however often an
\* upgrade is repeated (migrate).
THEOREM UpgradeSafety == Spec => []PoliciesAsMeant
<1>1. Inv => PoliciesAsMeant
  BY DEF Inv, PoliciesAsMeant, Findable, Agreed, Agrees
<1> QED  BY <1>1, Invariance, PTL

\* A grant whose removal was saved is in no file a start can find, whatever fails
\* or stops later (revokeGrantLocked, saveState).
THEOREM RemovalSafety == Spec => []SavedRemovalLasts
<1>1. Inv => SavedRemovalLasts
  BY DEF Inv, SavedRemovalLasts, Findable, Agreed, Agrees
<1> QED  BY <1>1, Invariance, PTL

----------------------------------------------------------------------------
(***************************************************************************)
(* The refinement: every step maps to a step of AtomicSave or to none.     *)
(***************************************************************************)

\* What AtomicSave sees of the server.
Memory == IF process = "down" THEN Empty ELSE mem
Fallback == IF step # "none" /\ process = "serving" THEN undo ELSE Empty
View == <<Memory, step # "none", Fallback, disk, durable>>

LEMMA ViewIsVars == View = Saves!vars
  BY DEF View, Memory, Fallback, Saves!vars

\* A server that runs is not taken for one that does not.
LEMMA RunningHasMemory == Inv /\ process # "down" => Memory # Empty /\ Memory = mem
  BY KeysAssumption DEF Inv, Live, Memory, Empty

LEMMA StartSaves == ASSUME Inv, Start PROVE Saves!Start
<1>1. disk \in File /\ Memory = Empty /\ Fallback = Empty
  BY DEF Start, Inv, TypeOK, Memory, Fallback
<1>2. step = "none" /\ UNCHANGED <<disk, durable>> /\ process' \in {"serving", "starting"}
  BY DEF Start, Inv, SavePoints, TypeOK, files
<1>3. mem' \in LoadedWithKey(disk)
  BY <1>1, KeysAssumption, LoadedFile DEF Start, LoadedWithKey, File
<1>4. Memory' = mem' /\ Fallback' = Empty
  BY <1>2 DEF Start, Memory, Fallback
<1> QED  BY <1>1, <1>2, <1>3, <1>4 DEF Saves!Start, Memory, Fallback

LEMMA HandlerSaves ==
    ASSUME Inv, Inv', NEW new, NEW failed, NEW signing, Handle(new, failed, signing)
    PROVE  Saves!Change
<1>1. process = "serving" /\ process' = "serving" /\ step = "none" /\ step' = "write"
      /\ UNCHANGED <<disk, durable>>
  BY DEF Handle, Idle, StartSave, files
<1>2. mem' \in File /\ undo' \in File
  BY DEF Inv, TypeOK
<1> QED  BY <1>1, <1>2, RunningHasMemory DEF Saves!Change, Memory

LEMMA StepSaves == ASSUME Inv, Inv', SaveStep PROVE Saves!Next \/ UNCHANGED View
<1>1. process # "down"
  BY DEF Inv, SavePoints, SaveStep, WriteTemp, SyncTemp, Rename, SyncDir, SaveFails
<1>2. CASE WriteTemp \/ SyncTemp
  <2>1. step # "none" /\ step' # "none" /\ UNCHANGED <<process, mem, undo, disk, durable>>
    BY <1>2 DEF WriteTemp, SyncTemp, server
  <2> QED  BY <2>1 DEF View, Memory, Fallback
<1>3. CASE Rename
  <2>1. temp.data = mem /\ temp.synced
    BY <1>3 DEF Rename, Inv, SavePoints
  <2>2. /\ step # "none" /\ step' # "none" /\ disk' = mem /\ durable' = durable \cup {mem}
        /\ UNCHANGED <<process, mem, undo>>
    BY <1>3, <2>1 DEF Rename, server
  <2> QED  BY <1>1, <2>2 DEF Saves!Next, Saves!Land
<1>4. CASE SyncDir
  <2>1. /\ step # "none" /\ step' = "none" /\ disk = mem /\ durable' = {mem} /\ process' = "serving"
        /\ UNCHANGED <<mem, disk>>
    BY <1>4 DEF SyncDir, AfterSyncDir, Inv, SavePoints
  <2> QED  BY <1>1, <2>1 DEF Saves!Next, Saves!Works
<1>5. CASE SaveFails
  <2>1. /\ step # "none" /\ step' = "none" /\ mem' = undo /\ UNCHANGED <<disk, durable>>
        /\ process' = IF process = "starting" THEN "down" ELSE process
    BY <1>5 DEF SaveFails, AfterError
  <2>2. process \in {"starting", "serving"}
    BY <1>1 DEF Inv, TypeOK
  <2> QED  BY <2>1, <2>2 DEF Saves!Next, Saves!Fails
<1> QED  BY <1>2, <1>3, <1>4, <1>5 DEF SaveStep

LEMMA StopSaves == ASSUME Crash \/ PowerLoss PROVE Saves!Stop
  BY DEF Crash, PowerLoss, Stopped, HandlerOver, Saves!Stop

LEMMA NextSaves == Inv /\ Inv' /\ [Next]_vars => [Saves!Next]_(Saves!vars)
<1> SUFFICES ASSUME Inv, Inv', [Next]_vars
             PROVE  Saves!Next \/ UNCHANGED View
  BY ViewIsVars DEF View, Memory, Fallback, Saves!vars
<1>1. CASE UNCHANGED vars
  BY <1>1 DEF vars, server, files, View, Memory, Fallback
<1>2. CASE Start
  BY <1>2, StartSaves DEF Saves!Next
<1>3. CASE Handler
  <2>1. \E new, failed, signing : Handle(new, failed, signing)
    BY <1>3 DEF Handler, AddGrant, Rewrite, DropGrant
  <2> QED  BY <2>1, HandlerSaves DEF Saves!Next
<1>4. CASE Crash \/ PowerLoss
  BY <1>4, StopSaves DEF Saves!Next
<1> QED  BY <1>1, <1>2, <1>3, <1>4, StepSaves DEF Next

\* To its callers a save is one step, whatever fails and whenever the process or
\* the machine stops: the state file implements AtomicSave (saveState).
THEOREM SavesAreAtomic == Spec => SavesAtomically
<1>1. Init => Saves!Init
  BY DEF Init, Saves!Init
<1> QED  BY <1>1, InvInit, InvNext, NextSaves, PTL DEF Spec, SavesAtomically, Saves!Spec

============================================================================

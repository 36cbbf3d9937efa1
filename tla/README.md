# Verification of exedev-mcp

exedev-mcp is an MCP server through which an assistant manages the VMs of an
exe.dev account. A remote client connects to it over HTTP with OAuth: the
server is its own authorization server, asks the owner of the account for
consent on a page, and then runs each tool call as one or more commands sent
to the exe.dev API with a short-lived token.

This directory holds TLA+ models of the parts of it where something can go
wrong that a test would hardly reach, the TLC configurations that check them
on small instances, and proofs checked by TLAPS. `PROJECT.json` maps every
definition to the source lines it stands for. Line numbers refer to the
repository; `oauth/` is `src/internal/oauth/`, `tools/` is
`src/internal/tools/`, `exe/` is `src/internal/exe/`.

    tlc -workers 2 -config TokenServer.cfg MCTokenServer.tla
    tlapm TokenServerProofs.tla

## 1. The system

| Component | Code | State | Operations |
|---|---|---|---|
| Token endpoint and grants | `oauth/token.go`, `server.go`, `store.go`, `authorize.go` | `Server.codes`, `Server.st.Grants`, the state file | `exchangeCode`, `refresh`, `Verify`, `revoke`, `evictOldestGrantLocked`, `saveState`, `loadState` |
| Consent flow | `oauth/authorize.go` | `Server.pending`, `Server.codes` | `authorize`, `consent`, `checkPolicy` |
| Client registration | `oauth/clients.go`, `token.go` | `Server.st.Clients`, the state file | `register`, `evictUnusedClientLocked`, `resolveClient` |
| Client metadata cache | `oauth/clients.go` | `Server.metadata` | `metadataClient` |
| File tools | `tools/files.go` | a file on a VM and a temporary file per call | `writeFile`, `editFile`, `put`, `cleanup`, `Client.Exec` |
| Access policies, tool authorization | `internal/access`, `tools/tools.go`, `share.go` | the policy of a connection; the account's VMs and their tags | `Validate`, `Can`, `Allows`, `authorize`, `requireManage`, `shareArgs` |
| Tool server cache | `cmd/exe-mcp/serve.go` | a table of MCP servers by allowed operations | `get`, `NewServer` |
| VM lifecycle and lobby tools | `tools/tools.go`, `share.go` | none | create, delete, restart, share, `exe_command` |
| Token sources | `exe/token.go`, `cmd/exe-mcp/stdio.go` | `AgentMinter`'s mutex and cached token; the locals of the key search | `FindAgentKey`, `orderKeys`, `AgentMinter.Token` |
| API client | `exe/client.go` | the token, the deadline and the output buffer of each call | `Exec`, `Lobby`, `headTail` |
| State file: writing, loading, upgrade | `oauth/store.go`, `server.go` | the state file, the temporary file, what of them is on the disk | `saveState`, `loadState`, `migrate`, `New` |
| Pages, discovery, encoding, redirect URIs, fetcher | `oauth/pages.go`, `access.go`, `clients.go` | none | rendering, validation, MACs, HTTP |
| Commands and configuration | `cmd/exe-mcp` | none after start | flags, discovery of settings, HTTP set-up |

How they interact. `authorize` looks the client up (in the registration table
or the metadata cache), keeps a pending request and shows a page. `consent`
takes the decision, turns the pending request into a code and redirects to
the client. The client exchanges the code for a grant, its access token and
its refresh token, and later refreshes. Each tool call goes through `Verify`,
which looks the grant up and hands its policy to the tools. The tables of
clients and of grants live in one state file, rewritten as a whole by every
handler that changes either of them. All tables are guarded by `Server.mu`.
The owners are configuration: a restart may change them. Over stdio there is no
OAuth: the process looks for a key in the SSH agent when it starts and signs
its own short-lived tokens with it, which all tool calls share.

What is hard about it:

- a handler changes memory, then saves, and undoes part of the change when the
  save fails; but a save can also fail after its rename, with the new state in
  place (`oauth/store.go:167`);
- the process can stop between any two steps, and only the file survives;
- `consent`, `metadataClient` and `put` release what they hold in the middle
  (the lock, or the VM), and use afterwards what they read before;
- the tables are bounded, and making room interacts with failing saves;
- a tool call is authorized on a list of VMs that others change before its
  command goes out;
- a machine that stops keeps what was synced, which is less than what the
  process had written and more than nothing (`oauth/store.go:160-177`), and an
  old file is upgraded again at every start until something is saved;
- tool calls share one token and one mutex that is held while a person may be
  asked to confirm a signature (`exe/token.go:135`), and each has a deadline
  that the mutex knows nothing of;
- output comes in blocks of any size and can break off anywhere;
- a caller can give up on a script that goes on running on the VM
  (`exe/client.go:148`), while the clean-up after it runs too;
- bearer tokens are honoured by comparison with what a grant says now, so that
  a grant that falls back to an earlier state would revive dead tokens.

What makes the components correct, in short: a superseded or revoked token
never works again; a crash loses nothing that was promised; a code is worth at
most one grant and carries what was approved; limits hold whatever fails; no
stranger can push out a client in use; a tool call reaches only VMs its policy
covers; cached documents are not older than
their lifetime; a reader of a file sees one whole text; a start finds a whole
state, old or new; calls end, with tokens that last and outputs that are what
the command printed. `PROJECT.json` lists
the hazards, each at its line with the properties that cover it.

## 2. Modules

    GrantLifecycle  <-- implemented by --  TokenServer  <-- TokenServerProofs
                                             ^      ^
                                     (codes) |      | (a save is one step)
                                             |      |
             ConsentFlowProofs --> ConsentFlow      |
                                                    |
    AtomicSave -------------------------------------+
    AtomicSave      <-- implemented by --  StateFile    <-- StateFileProofs
    ClientRegistry  <-- ClientRegistryProofs
    MetadataCache   <-- MetadataCacheProofs
    AtomicFile      <-- implemented by --  FileWrite    <-- FileWriteProofs
    ToolAccess      <-- ToolAccessProofs
    KeySearch, HeadTail  <-- used by --    ApiClient    <-- ApiClientProofs

`MC*.tla` add the symmetry sets TLC uses; the constants are in the `.cfg`
files. No definition is replaced in a configuration. `KeySearch` is the start
of the process whose calls `ApiClient` is about, and is part of its
specification; `HeadTail` is a pure algorithm instantiated there. Definitions marked "a
faulty ..." are not used by any specification: each is the form a plausible
slip would give the definition after it, kept to confirm that the properties
notice the slip.

### TokenServer and GrantLifecycle

Each handler runs under `Server.mu` from its first look at the tables to the
end of its save, so each is one action; requests, failures and restarts
interleave between actions.

| Model | Code |
|---|---|
| `codes`, `grants`, `disk` | `Server.codes`, `Server.st.Grants`, the grants in the state file |
| `Save(outcome, saved, failed)` | `saveLocked` over `saveState`: outcome `early` is an error before the rename, `late` one after it; `failed` is what the handler leaves in memory on an error |
| `IssueCode` | the second critical section of `consent` |
| `ExchangeCode`, `RejectCode` | `exchangeCode`; the code is deleted before it is checked |
| `RotateRefresh`, `ReuseRefresh`, `UnknownRefresh` | `refresh`: the current token, the previous one, any other |
| `Verify` | `Verify` when it records a use; otherwise it changes nothing |
| `Revoke`, `RevokeAgain` | `revoke` with the grant there, and without |
| `SaveOthers` | the save of `register`, which rewrites the grants in the file too (`oauth/clients.go:189`) |
| `Restart(newOwners)` | the process stops anywhere, then `New` and `loadState` |

A crash inside a handler is that handler with a failing outcome followed by
`Restart`. Codes, grant ids and refresh tokens are 256 random bits in the code
and counters in the model, so a fresh secret is new. The hash of a refresh
token is the token; an access token is the claims it carries. `issued`,
`presented`, `replayed` and `acked` are history: what clients and owners have
been told. So is `strayed`: the grants for which some save has failed late,
after writing what memory then took back.

`GrantLifecycle` is the promise seen from outside. It takes memory and file as
one store: a grant is live (honoured), stale (only in the file, so that a
restart would revive it) or gone. A request draws at most one new grant, drops
at most one, and a grant that is gone never returns (`GoneForGood`).
`TokenServer` implements it with `live` mapped to the grants in memory and
`stale` to those only in the file.

Properties: `SupersededStaysDead`, `CrashLosesNothing`, `TablesBounded`,
`CodeSingleUse` (a grant comes from the first presentation of one code, failed
attempts counted, and is of that code's client and owner),
`ExchangeCostsOne` (a failed exchange keeps the eviction it made, yet however
many fail, and however their saves fail, they leave at most one grant that
only the file still has), `HolderKeepsGrant` (no failure but the late one of a
grant's own save strands its client), `LifecycleSpec`. Which grant is evicted
(`Oldest`) is the loop of `evictOldestGrantLocked` given as what it finds; no
property is about the choice.

### ConsentFlow

`Authorize` is `authorize` for a valid request; `Submit` is `consent` up to
its first unlock and `IssueCode` the rest, with any number of submissions in
between. `TakeCode` is what the token endpoint does to a code. `IssueCode` and
`TakeCode` are `IssueCode` and `BurnCode` of `TokenServer`, here with what
leads to a code and there with what follows from it. Lifetimes are kept as
what is left of them, so that time needs no bound. A request keeps its
identifier until nothing refers to it any more; the code uses a fresh random
one. A policy is all VMs, VMs the page listed, VMs it did not list, or one
that `checkPolicy` refuses. The comment on `checkPolicy`
(`oauth/authorize.go:261`) says that it validates a choice against what the
page offered; the code (262-278) asks only whether the page could list VMs at
all and whether the host is among those chosen. The model does what the code
does: a form that names VMs its page did not list is approved.

Properties: `DecidedOnce` (two submissions of one form never lead to two
codes), `CodesAsApproved` (the code has the very policy that was submitted and
approved, which need not be one the page listed), `TablesBounded`, and the
liveness property `BusyEnds`. `DecidedOnce` says nothing of an approval that is
lost because the table of codes is full: the user is told to try again.

### ClientRegistry

`Register` is `register`, eviction and failed save included; `Authorize` and
`GrantTo` are the two ends of an authorization, between which the client may
be evicted; `GrantTo` includes the eviction `exchangeCode` makes from a full
table of grants, which a failed save does not undo. `EndGrant` is a revocation,
by the owner or for a reused token; `SaveGrant` is a refresh or a use that is
recorded, which saves the clients too; `Restart` reloads the file. Of a grant
only its client is kept; which one is evicted is any.

Properties: `RegistryBounded`, `CrashKeepsClients`, `FailuresCostOne` (a
failed registration keeps its eviction in memory, yet however many of them
fail, at most one client is missing from memory that the file still has),
`RegistrationOpen` (a full table always has a client without a grant to evict,
because there are fewer grants than places, so that `errTooManyClients` is
never answered; evictions, failed saves and restarts keep it so) and
`HolderStays` (strangers cannot push out a client that holds a grant).

A client evicted while its authorization is under way can still get its grant:
`HolderStays` is about clients that are registered.

### MetadataCache

`Ask` is the start of `metadataClient`, which reads the clock before it takes
the lock; `Hit` or `Miss` is its first critical section, `Fetch` or
`FetchFails` the request, `Store` the rest. The owner of a document may
`Publish` a new version at any time. `HitsAreFresh` holds because the lifetime
is counted from the time read before the fetch: an answer from the cache was
the published document less than a lifetime before the handler read its own
clock, in whatever order handlers store what they fetched. A handler that waits
for the lock after that adds its wait, as in the code. `CacheBounded` is the limit.

### FileWrite and AtomicFile

One path of one VM. A text is the set of calls that contributed to it and is
sent in `Size` chunks, or in one if its call is in `Short`; `AppendPiece` and
`Rename` are the two parts of the script put sends for a chunk, `AppendFails`
and `RenameFails` the points at which it can fail, `Remove` the script of
`cleanup`. The scripts run on the VM, so they have their own progress
(`script`, `rm`), and a call in `Hasty` may go on without their answers, as it
does when its context ends (`exe/client.go:145-172`).

`AtomicFile` says what a caller may rely on: each call takes effect at one
instant between its start and its answer, or never; never partly, never twice;
a success is reported after the effect. An edit takes effect on the text it
read, so a concurrent change between the read and the effect is lost, as in
the code. A hasty call (`Late` there) may take effect after it was reported as
failed.

Properties: `NoPartialFile`, `AtomicSpec` (the refinement) and `NoLitter`.

### ToolAccess

A call is `Begin` (the connection was verified and its policy copied; the MCP
server for its operations is looked up or built, and the tool makes the checks
that need nothing else), then `ListVMs` if the policy goes by tags, then
`Send`, once or, for the file tools, several times. `Return` is its end, for
whatever reason. In between, `Edit` is anything the owner or other connections
do to the VMs of the account, and the call's own commands may change them too.
A VM is known by its name, as in the code. `Covered` states what a policy
means, independently of the order in which `authorize` finds it out.

Properties: `OnlyCovered` (everything a call sees or touches was covered at
some time of the call: a call made after a VM was untagged does not reach it,
and the host VM is out of reach of limited connections), `ServersFit` (the
tools a connection is offered are exactly those the checks let it use, also by
a server that was built for another policy) and `SharingKept`.

A call that passed its check runs to its end, even if its grant is revoked or
its VM untagged meanwhile. The host is known by the name it had when the
server started; renaming it is a matter for a restart, since the public URL
changes with it.

### StateFile

What is one step for `TokenServer` and `ClientRegistry` is here a sequence of
system calls: `WriteTemp`, `SyncTemp`, `Rename`, `SyncDir`, each of which may
fail instead (`SaveFails`). `Crash` stops the process between any two of them;
`PowerLoss` stops the machine, after which the file is any member of
`durable`: what was there when the directory was last synced, or anything
renamed into its place since, torn if its data was not synced. `Start` is
`New`: it refuses a file it cannot parse, migrates an old one in memory only,
and draws and saves the access key if there is none. `AddGrant`, `Rewrite`
and `DropGrant` are the handlers up to their save, which holds the lock; `AddGrant`
includes the eviction from a full table, which stays when the save fails. Of a
grant its policy is kept, because `migrate` changes it. `acked`, `tried`,
`meant`, `removed` (the grants that a save which worked has left out) and
`signed` are history.

`AtomicSave` is the promise to the handlers: the file goes from the old state
to the new one at one instant, a save that works has made sure of it, and one
that fails or is cut off may have got there or not. What a stop of the machine
may leave is a set there (`possible`), to which every failed save may have
added its state and which a save that worked reduces to its own. `StateFile`
implements it, with everything but `Rename`, `SyncDir` and the ends as
stutters. This is what lets `TokenServer` and `ClientRegistry` take a save as
one step: each member of `possible` goes through the failed saves as `disk`
does there, being replaced (`late`) or not (`early`). As long as the process
runs, memory is the same either way, so that a machine that comes back with an
older file is, to those modules, one on which the later of the failed saves had
failed early. That is not so when the process restarts in between: it loads
the file of the save that failed late into memory, serves from it, and a power
loss can still bring back the older one. `TokenServer` and `ClientRegistry`
are about restarts of the process only; this sequence is in `StateFile`, whose
properties hold through it.

Properties: `SavesAtomically` (the refinement), `OldOrNew` ("a crash leaves
either the old state or the new one, never a torn file"), `KeyOfTokens`,
`PoliciesAsMeant` (an upgrade repeated any number of times never touches a
grant made after it) and `SavedRemovalLasts` (not even a power loss brings back
a grant once a save that worked has left it out, because it was revoked or
evicted). That a revocation was answered is not enough: `revoke` answers the
retry of a revocation whose save failed without saving anything, which is
`RevokeAgain` in `TokenServer` and what the run `TokenRevoke` shows.

A file system that keeps neither the old nor the new entry of a rename, or
that loses what was synced, is not considered; nor is one that reports a sync
as done before it is.

### ApiClient, KeySearch, HeadTail

`KeySearch` is `FindAgentKey` over every order of the agent's keys and every
list of preferences, with keys that vanish while they are tried, people who
refuse to sign, and a network that fails. `ApiClient` goes on from a key: calls
of `Exec` and `Lobby` run again and again and share one `AgentMinter`.
`FirstAccepted` and `PreferredFirst` are about an agent that lists each key
once; `OrderKeys` itself is `orderKeys` for any list, in which the keys that
were not asked for keep their repetitions. `ReuseToken` and `StartMint` are the
two ways through `Token` once the mutex is free; `Dial` and `Mint` are the
mint, which keeps the mutex; `Send`, `Receive`, `Finish` and the failures are
the request. `Expire` is the deadline of a call: it stops a dial, a request or
a read, and does not stop a call that waits for the mutex or the agent. A
lifetime is kept as what is left of it. The expiry that is signed into a token
is cut to whole seconds (`exe/token.go:142`) while the minter keeps it with its
fraction: `left` and `cached` are what is left of the token of a call and of
the one in the minter, `due` and `exp` the same by the uncut expiry, up to a
second more (`Second`, in the unit of the model). `HeadTail` is `headTail` on
sequences of bytes; in `ApiClient` a byte is its position in the output.

Properties: `FirstAccepted`, `PreferredFirst`, `MintsWhenDue`, `TokenLasts`,
`OutputExact` and the liveness property `CallsReturn`. A token is only sure to
be honoured if it is sent within a fifth of its lifetime from the call's turn
at the minter, its mint included, less the part of a second its expiry was cut
by: `TokenLasts` says exactly this much, since a mint that waits for a person
can use up the rest. `OutputExact` is about limits above 1; for 0 and 1 the
buffer still keeps two bytes, and no caller sets such a limit.

## 3. Runs

Every passing run explores its instance completely. `TypeOK` is the type
invariant of each module; those of `ClientRegistry`, `MetadataCache` and
`StateFile` are proved and not part of their runs.

| Run | Shows | Instance |
|---|---|---|
| `TokenServer` | all safety properties of the token endpoint, and that it implements `GrantLifecycle`, under every outcome of every save | 2 clients, 2 owners, 2 proofs, 3 codes, 3 grants, 3 refresh tokens, room for 2 grants and 1 code, 3 instants |
| `ConsentFlow` | the safety of concurrent submissions and `BusyEnds` | 2 owners, 2 submissions at once, 4 kinds of policy, 4 requests, room for 1 pending request and 1 code |
| `ClientRegistry` | the limits, crashes, failures, clients in use, room for new ones | 5 registrations, room for 3, 3 grants, room for 2, 3 instants |
| `MetadataCache` | freshness and the limit | 2 documents, 2 handlers, 3 versions each, lifetime 2, room for 1, 5 instants |
| `FileWrite` | atomicity and clean-up, with scripts that fail anywhere | 1 write and 1 edit of 2 chunks that are waited for, 1 edit of one chunk that may be given up on |
| `ToolAccess` | what calls reach, what servers offer, what is shared | the host and another VM, 1 tag, 6 policies of every kind, all requests, one call after another |
| `StateFile` | what a start can find after any crash, and that it implements `AtomicSave` | 3 grants, room for 2, 2 access keys, 2 policies, files of version 1 and no file |
| `ApiClient` | the key search, the minter, deadlines, outputs, `CallsReturn` | 3 keys, up to 3 preferences; 1 `Exec` and 1 `Lobby`, lifetime 10 in half seconds, outputs of up to 6 bytes with 4 kept |

Why these bounds. The token endpoint's hazards are an eviction (two grants and
a third), a rotation and its failure (two refreshes of one grant), a save that
fails followed by one that works, and a restart: three draws of each secret
allow any two of these to be combined. With lifetimes of 1, three instants let
a token be drawn after another has expired. For the limits, one entry above the
limit is the case that matters; a request in each of the two critical sections,
one at the limit and one more make four requests in `ConsentFlow`. In
`MetadataCache`, two handlers and three versions allow a newer document to be
overwritten by an older one, and five instants let the result outlive its
lifetime. Two chunks are a first and a last; three calls are two that race and
one that reads what they left. In `ClientRegistry`, a third grant meets a table
with room for two, and three places for clients are one more than the grants
can take up, as the limits of the code have it. In `StateFile`, two grants are
one from before an upgrade and one from after it and the third evicts; of the
two policies one is upgraded and one kept; a second start needs a second key.
In `ApiClient`, three keys are one before and one after the one that is found,
and two calls are one that holds the mutex and one that waits; a lifetime of 10
with seconds of 2 is the smallest in which the margin is longer than the
fraction of a second that a token's expiry loses, 4 of 6 bytes the smallest
that fill both ends of the buffer and drop some between them. The proofs of
both cover any number of calls, keys and grants. In `ToolAccess` one call at a
time is enough: what other calls do to it is what `Edit` does, and the cache of
servers stays from one call to the next. `MaxTime`, `LastVersion`, the
`Last...Drawn` constants and `MaxPrefer` (how many keys the flags and the SSH
configuration name; all three in any order, or one of them twice) are the only
bounds without a counterpart in the code; the limits and lifetimes are the
code's constants, made small. The proofs do not depend on their values.

`CHECK_DEADLOCK FALSE` is used by the `FileWrite` runs, where calls end, and
when all have, nothing is left to do, and by `ApiClient`, where a start that
finds no key ends the process.

Symmetry is used where the elements of a set are interchangeable and all the
properties of the run are safety properties; `ConsentFlow` and `ApiClient`,
with a liveness property each, use none. The run `TokenServer` has a `VIEW`
too: states that differ only in `replayed` or `acked` are taken for one. No
action reads these two, and no property of that run but their types does, so
that nothing the run checks can depend on them.

Fairness. In `ConsentFlow`, time passes (`Tick`); a submission being served
reaches its second critical section, since it waits for nothing but the lock;
and clients go on asking (`AuthorizeSome`), without which nobody would see the
server become available. No decision of a user is assumed, nor that a code is
exchanged: expiry alone must make room. In `ApiClient`, the mutex is strongly
fair to its waiters, because Go's `sync.Mutex` hands itself to whoever has
waited for more than a millisecond; the agent answers a mint in the end, with
a signature or a failure; the deadline of a call passes in the end; and a
request or a read whose deadline has passed fails. Nothing is assumed of
exe.dev, of the network, of time or of the caller. That the agent answers is
needed and is not something the code provides: `Token` signs without a
deadline, so that a person who never answers the agent's question would hold
up every call.

Four runs are expected to fail. Each states what the documentation or a
comment says and shows what the code does instead.

| Run | Statement | What happens |
|---|---|---|
| `TokenReuse` | "Reusing an old refresh token revokes the whole grant." (`src/README.md:177`) | only the last superseded token is remembered (`oauth/token.go:157`); one rotated out twice is refused as unknown and the grant lives on |
| `TokenRevoke` | "revoking a grant ... cuts them off at once" (`src/README.md:175`) | the save of a revocation fails; the retry finds no grant, saves nothing and answers as a success; a restart brings the grant back |
| `TokenRestart` | "connected clients don't notice a restart." (`src/README.md:192`) | a refresh whose save fails after the rename is undone in memory only; after a restart the client's tokens are superseded |
| `FileWritePartial` | "readers never see a partial file" (`tools/files.go:125`) | put gives up on the script of the last chunk and removes the temporary file under it; the script creates it anew with the last chunk alone and moves that into place |

The last one disappears for texts of one chunk and for scripts that are waited
for: in the passing run of `FileWrite` the hasty call is a short one.

## 4. Proofs

The theorems hold for every value of the constants that satisfies the named
assumptions of the module (lifetimes and bounds are naturals, limits are
positive, `NoClient` is not a client, policies are valid, sets that must be
disjoint are). Where a theorem needs more, its statement says so.

`TokenServerProofs`. `TypeCorrect` first; every later invariant is proved
relative to it. `CrashSafety` is inductive with the type and the fact that the
two copies agree on every grant after a save that worked. For
`SupersededSafety` the property is not inductive: it says nothing of tokens
that have not been superseded yet. The invariant `Ledger` orders what was
issued to a grant: of two responses for one grant, the one with the later
refresh token has the later generation, and what memory and file hold is at
least as new as every response. A failed refresh (undone in memory, or
already in the file) only ever moves a copy to a state that is new to every
client, which is why the property survives late failures. `HolderSafety`
holds with them too, because a copy that differs from what its client was
given is one whose save failed late, and `strayed` remembers those
(`TokenRestart` shows that they do differ). `CodeSafety` rests on
`BurntForGood`, that a code that was presented never returns to the table;
`BoundSafety` is a counting argument, and `ExchangeCosts` one on top of it and
of `CrashSafety`: memory is part of the file and the file at most full, so an
exchange that evicts found them the same, and the eviction leaves one grant
that only the file has. `LifecycleRefined` is the step simulation: the initial state maps
to the initial state and each action to an action of `GrantLifecycle` or a
stutter; `RevocationFinal` follows from it.

Three theorems say exactly what the failing runs `TokenRestart` and
`TokenRevoke` come from. `RestartCosts` holds whatever fails: a restart is
noticed by no client but that of a grant in `strayed`, because the file has the
current token of every grant that is not (`SameSecrets`). `RestartSafety` is
the README's promise itself, from the assumption that no save fails late:
`strayed` then stays empty. `RevocationSafety` is the other promise, from the
assumption that no save fails early: then what is acknowledged as revoked is in
no file, since the save of the revocation got there even if it failed
(`RevokedInv`). Each assumption leaves the other failure, crashes and restarts
in, and the run of each finding shows that it cannot be dropped.

`ClientRegistryProofs`. The inductive invariant is the type, the limits,
`CrashKeepsClients`, `FailuresCostOne`, and that the tables are finite. The
limits and the cost of failures depend on each other: memory is part of the
file and the file at most full, so an eviction from a full memory table means
that both are the same, and the failure that follows costs one; after it
memory is not full, and the next failure evicts nobody. `HolderSafety` is an
action property that needs the type only. `OpenSafety` rests on `FewGrants`,
that neither memory nor file has more than `MaxGrants` grants, which the
eviction of `exchangeCode` sees to, and on the assumption that `MaxClients` is
larger, as it is in the code.

`MetadataCacheProofs`. The invariant says of every cached document, and of
every document a handler holds, that it was the published one at the time its
lifetime started or later (`CachedOnTime`, `FetchedOnTime`), and that the
cache is finite. Publishing keeps both because a replaced document remembers
when it was replaced. `Freshness` and `CacheSafety` follow for any number of
handlers and any limit.

`ToolAccessProofs`. The invariant follows a call: one under way passed the
checks, and what its policy covers now is among what it could use since it
began; one about to send names such a VM; what it sent is what it was asked
for. The type invariant needs the second of these. `ServersSafety` rests on
the lemma `OffersFit`, that `NewServer` and the checks agree on every valid
policy, which needs that a policy with `manage` is for all VMs.

`ConsentFlowProofs`. The invariant `Sound` says that a request is in one place
(pending, with one submission, or one code), and that whatever carries it agrees
with what its owner was asked and approved: the pending request in its owner
and in what its page offered, the decision between the two locks and the code
in the approval itself. `DecidedOnce` and `CodesAsApproved` each need both. Most
steps only take requests away or age them, which `ShrinksSound` covers once;
asking, submitting and issuing have lemmas of their own. The limits are a
counting argument of their own (`Bounded`).

`FileWriteProofs`. `TypeCorrect` and `LitterSafety` hold for all calls.
`WholeFiles` and `AtomicCalls` assume `Hasty \subseteq Short`, and
`FileWritePartial` is the counterexample without it. The invariant follows each
call through its scripts: the temporary file is the prefix of the text that the
answered chunks stand for, a script about to rename has the whole text in it or
nothing (`Pieces`), and a patient call has no script running once it cleans up
(`Patient`). A hasty call has one chunk only, so that after the clean-up took
the file away there is nothing left to move. `AtomicCalls` is the step
simulation from the same invariant: `Rename` is `Land`, an answer is `Succeed`
or `Fail`, and the rest stutters.

`StateFileProofs`. The invariant `Inv` has three parts. What may be found in the
file's place is the last saved state or one tried since. Each of those, and
memory, `Agreed` with the history: it has the key of every token signed, its
grants upgraded are what was meant, and none of them is one whose removal was
saved. And
`SavePoints` follows a save: what is synced is what is in memory, and after the
rename so is the file. The four invariants are read off it. `SavesAreAtomic` is
the step simulation from the same invariant: the temporary file that is renamed
is whole and holds what is in memory, so that `Rename` is `Land`, and a server
that runs has an access key, so that it is never taken for one that does not.

`ApiClientProofs`. `MintSafety` needs that the mutex is held while a call mints,
and that the expiry the minter goes by is that of its token but for the fraction
of a second (`Cut` in `MinterInv`). `TokenSafety` is an invariant on top of it:
of a token a call holds or is having made, the time held, the life left and
that fraction add up to more than a fifth of a lifetime (`TokenInv`). `OutputSafety` is an
invariant of the buffer, that it always is the two ends of what has arrived,
which lemmas on `Written` preserve for blocks of any size and any limit.
`SearchSafety` is an invariant of the loop over the candidates: while it goes
on, none was accepted and none could not be reached.

`SearchOrder` needs to know what `orderKeys` computes, for agents and
preferences of any length. `OrderKeys` is a recursive function (`Available`)
over the keys in the order they are wanted, and `OrderKeysCorrect` says what it
returns: the keys it should, each once, and any two of them in the order in
which they were first wanted. That is an induction over the length. The
induction theorems of the library take an operator as a parameter, which the
provers cannot instantiate; `SetInduction` is the same for a set of naturals,
a plain variable, and follows from the least element of its complement
(`WFMin`, `NatLessThanWellFounded`). `OrderInv` then ties what was probed to a
prefix of the candidates, for an agent that lists each key once, as the model's
agents do. `TypeCorrect` collects the types: those of the search follow from
`OrderKeysCorrect`, for which the keys must be finitely many (`KeysAssumption`),
those of the clocks and counters from `Bounds`.

Only model-checked: liveness (`BusyEnds`, `CallsReturn`), which the prover does
not do, and the four runs that fail. Every safety property of the passing runs
is a theorem, two of them (`NoPartialFile`, `AtomicSpec`) under
`Hasty \subseteq Short`, as their run has it.

## 5. Not modelled

- Validation and encoding: redirect URIs, client metadata, PKCE, the MAC and
  format of access tokens, quoting of shell words, the signature of API tokens.
  They are pure functions of their input; the models take the accepted and the
  refused input as given.
- Rendering: pages, discovery documents, tool results, the wording of errors.
- I/O below the operations: HTTP and its time-outs, the protocol of the SSH
  agent, the fetcher of metadata documents, signals. A shutdown that cuts
  handlers off is a crash of the process.
- Commands and configuration, except for what they hand to the key search.
- `read_file` and `run_command` beyond `Exec`: they change no state here.

Two hazards have no property. A client can be evicted while its authorization
is under way (`oauth/clients.go:198`): it gets its grant, keeps it, and cannot
authorize again; `ClientRegistry` has these behaviours, and no document promises
otherwise. A tool call keeps the policy it came with when its grant is revoked
meanwhile (`oauth/server.go:255`); `OnlyCovered` is stated for that policy.

## 6. Plan

1. Done, with proofs: the token endpoint and its abstract specification, client
   registration, the metadata cache, the consent flow, the file tools and
   their abstract specification, tool calls with policies and the cache of
   tool servers, the state file under crashes of the machine and its abstract
   specification, and the API client with its token minter and key search.
2. Left: a composition of `ConsentFlow`, `ClientRegistry` and `TokenServer` in
   one state, for properties that cross all three: a grant carries the policy
   its owner approved on the page. Today `CodesAsApproved` goes as far as the
   code and `CodeSingleUse` from there to the grant, without the policy.
3. Left: clients in the state file. `StateFile` keeps grants only; that a
   registration survives what `ClientRegistry` takes as one step rests on
   `AtomicSave` being about the file as a whole.

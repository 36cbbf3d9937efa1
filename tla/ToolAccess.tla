----------------------------- MODULE ToolAccess -----------------------------
(***************************************************************************)
(* What a tool call may do: the policy of its connection (package access), *)
(* the tools its MCP server offers (serverCache, NewServer), the checks of *)
(* the tools (toolset.authorize, requireManage, shareArgs) and the         *)
(* commands they then send.                                                *)
(*                                                                         *)
(* A policy that goes by tags is decided on a list of the account's VMs    *)
(* fetched in one request, and the command goes out in another.  The owner *)
(* and other connections tag, untag, create, delete and rename VMs all the *)
(* while.                                                                  *)
(***************************************************************************)
EXTENDS Functions

CONSTANTS
    Names,       \* names of VMs
    HostVM,      \* the VM this server runs on, or none of Names
    Tags,
    Policies,    \* the policies of the connections there are
    Calls        \* calls being served

Ops == {"read", "write", "run", "restart", "share", "expose", "manage"}

\* Policy.Validate, for names and tags that are well formed.
ValidPolicies ==
    {p \in [all : BOOLEAN, vms : SUBSET Names, tags : SUBSET Tags, ops : SUBSET Ops] :
        /\ p.all <=> p.vms = {} /\ p.tags = {}
        /\ "manage" \in p.ops => p.all}

\* ("none" stands for a request without a VM.)
ASSUME NamesAssumption == Names # {} /\ "none" \notin Names
ASSUME PoliciesAssumption == Policies \subseteq ValidPolicies

VARIABLES
    vms,         \* the tags of each VM of the account
    servers,     \* serverCache.servers: the tools offered, by operations
    call,        \* what each call is, and how far it is
    could,       \* history: the VMs its policy covered at some time of the call
    sent         \* history: the commands the call has sent

vars == <<vms, servers, call, could, sent>>

----------------------------------------------------------------------------
\* The tools.

\* The parts of "share" that share_vm sends, "+" where it sends a value.
ShareActions ==
    {"show", "set-private", "set-public", "add", "add+shell", "remove", "add-link", "remove-link",
     "port", "port+", "receive-email", "receive-email+on", "receive-email+off"}

LobbyWords == {"tag", "share", "ssh", "other"}

\* A call of one of the tools NewServer registers, with what of its input the
\* checks look at: a VM, except for list_vms and exe_command, and what to do.
Requests ==
    [tool : {"read_file", "write_file", "edit_file", "run_command", "restart_vm",
             "create_vm", "delete_vm"}, vm : Names, arg : {"none"}]
    \cup [tool : {"share_vm"}, vm : Names, arg : ShareActions]
    \cup [tool : {"exe_command"}, vm : {"none"}, arg : LobbyWords]
    \cup [tool : {"list_vms"}, vm : {"none"}, arg : {"none"}]

ManageTools == {"create_vm", "delete_vm", "exe_command"}

\* (A faulty ShareOp: setting the port is taken for looking at it.)
ShareOpPort(action) ==
    IF action \in {"add+shell", "add-link", "set-public", "receive-email+on"}
    THEN "expose" ELSE "share"

\* shareArgs: the operation an action needs.
ShareOp(action) ==
    IF action \in {"add+shell", "add-link", "set-public", "port+", "receive-email+on"}
    THEN "expose" ELSE "share"

OpOf(r) ==
    CASE r.tool = "read_file" -> "read"
      [] r.tool \in {"write_file", "edit_file"} -> "write"
      [] r.tool = "run_command" -> "run"
      [] r.tool = "restart_vm" -> "restart"
      [] r.tool = "share_vm" -> ShareOp(r.arg)
      [] r.tool \in ManageTools -> "manage"

----------------------------------------------------------------------------
\* Policies.

\* Can
Can(p, op) == op \in p.ops \/ (op = "share" /\ "expose" \in p.ops)

NeedsTags(p, name) == ~ p.all /\ name \notin p.vms /\ p.tags # {}

\* (A faulty Allows: the host VM is like any other.)
AllowsHost(p, name, tags) == p.all \/ name \in p.vms \/ tags \cap p.tags # {}

\* toolset.allows
Allows(p, name, tags) == p.all \/ (name # HostVM /\ (name \in p.vms \/ tags \cap p.tags # {}))

\* The checks that need no list of VMs: of the operation, of the command
\* names exe_command leaves to other tools, and of the host's sharing.
Permitted(p, r) ==
    /\ r.tool # "list_vms" => Can(p, OpOf(r))
    /\ r.tool \in ManageTools => p.all
    /\ r.tool = "exe_command" => r.arg \notin {"share", "ssh"}
    /\ r.tool = "share_vm" /\ r.vm = HostVM => r.arg = "show"

\* (A faulty Offers: no operations are taken for no restriction.)
OffersUnlessEmpty(ops) ==
    LET offer(op) == ops = {} \/ op \in ops
    IN  {"list_vms"}
        \cup (IF offer("read") THEN {"read_file"} ELSE {})
        \cup (IF offer("write") THEN {"write_file", "edit_file"} ELSE {})
        \cup (IF offer("run") THEN {"run_command"} ELSE {})
        \cup (IF offer("restart") THEN {"restart_vm"} ELSE {})
        \cup (IF offer("share") \/ offer("expose") THEN {"share_vm"} ELSE {})
        \cup (IF offer("manage") THEN ManageTools ELSE {})

\* NewServer: the tools of a server for connections with these operations.
Offers(ops) ==
    {"list_vms"}
    \cup (IF "read" \in ops THEN {"read_file"} ELSE {})
    \cup (IF "write" \in ops THEN {"write_file", "edit_file"} ELSE {})
    \cup (IF "run" \in ops THEN {"run_command"} ELSE {})
    \cup (IF "restart" \in ops THEN {"restart_vm"} ELSE {})
    \cup (IF ops \cap {"share", "expose"} # {} THEN {"share_vm"} ELSE {})
    \cup (IF "manage" \in ops THEN ManageTools ELSE {})

\* serverCache.get
WithServer(ops) ==
    [o \in DOMAIN servers \cup {ops} |-> IF o \in DOMAIN servers THEN servers[o] ELSE Offers(o)]

----------------------------------------------------------------------------
\* A call.

Idle == [at |-> "idle"]

\* (A faulty Checked: the list of VMs is never waited for.)
CheckedAtOnce(p, r) ==
    IF r.vm = "none" \/ r.tool = "create_vm" \/ Allows(p, r.vm, {})
    THEN [at |-> "sending", policy |-> p, request |-> r]
    ELSE Idle

\* Where authorize goes from its checks: on to the list of VMs, on to the
\* command, or out with an error.
Checked(p, r) ==
    LET at(where) == [at |-> where, policy |-> p, request |-> r]
    IN  IF r.tool = "list_vms" \/ (r.vm # "none" /\ r.tool # "create_vm" /\ NeedsTags(p, r.vm))
        THEN at("listing")
        ELSE IF r.vm = "none" \/ r.tool = "create_vm" \/ Allows(p, r.vm, {}) THEN at("sending")
        ELSE Idle

\* The request of a verified connection reaches its server, which refuses
\* tools it does not offer, and then the tool.
Begin(c, p, r) ==
    /\ call[c] = Idle
    /\ servers' = WithServer(p.ops)
    /\ call' = [call EXCEPT ![c] =
                   IF r.tool \in servers'[p.ops] /\ Permitted(p, r) THEN Checked(p, r) ELSE Idle]
    /\ UNCHANGED <<vms, sent>>

TagsOf(name) == IF name \in DOMAIN vms THEN vms[name] ELSE {}

\* The call goes on, or fails, with the list of VMs there are now.
ListVMs(c) ==
    /\ call[c].at = "listing"
    /\ LET p == call[c].policy
           r == call[c].request
           visible == {n \in DOMAIN vms : Allows(p, n, vms[n])}
       IN  IF r.tool = "list_vms"
           THEN /\ sent' = [sent EXCEPT ![c] = {[r EXCEPT !.vm = n] : n \in visible}]
                /\ call' = [call EXCEPT ![c].at = "ending"]
           ELSE /\ call' = [call EXCEPT ![c] = IF Allows(p, r.vm, TagsOf(r.vm))
                                               THEN [@ EXCEPT !.at = "sending"] ELSE Idle]
                /\ UNCHANGED sent
    /\ UNCHANGED <<vms, servers>>

\* What may become of the VMs: one is created, deleted, or tagged otherwise.
Deleted(name) == Restrict(vms, DOMAIN vms \ {name})
Tagged(name, tags) == [n \in DOMAIN vms \cup {name} |-> IF n = name THEN tags ELSE vms[n]]
Renamed(name, new) == [n \in (DOMAIN vms \ {name}) \cup {new} |-> IF n = new THEN vms[name] ELSE vms[n]]

Edits ==
    {Deleted(n) : n \in DOMAIN vms}
    \cup {Tagged(n, tags) : n \in Names, tags \in SUBSET Tags}
    \cup {Renamed(n, new) : n \in DOMAIN vms, new \in Names \ DOMAIN vms}

\* What a command makes of the VMs.
After(r) ==
    CASE r.tool = "delete_vm" -> {Deleted(r.vm)}
      [] r.tool = "create_vm" /\ r.vm \notin DOMAIN vms -> {Tagged(r.vm, tags) : tags \in SUBSET Tags}
      [] r.tool = "exe_command" /\ r.arg # "ssh" -> Edits \cup {vms}
      [] OTHER -> {vms}

\* Tools that send several commands after one check.
Repeats == {"write_file", "edit_file"}

Send(c) ==
    /\ call[c].at = "sending"
    /\ LET r == call[c].request
       IN  /\ vms' \in After(r)
           /\ sent' = [sent EXCEPT ![c] = @ \cup {r}]
           /\ call' = IF r.tool \in Repeats THEN call ELSE [call EXCEPT ![c].at = "ending"]
    /\ UNCHANGED servers

\* The call returns: it is done, a command failed, or a deadline passed, which
\* each command has.
Return(c) ==
    /\ call[c] # Idle
    /\ call' = [call EXCEPT ![c] = Idle]
    /\ sent' = [sent EXCEPT ![c] = {}]
    /\ UNCHANGED <<vms, servers>>

\* The owner and everybody else.
Edit ==
    /\ vms' \in Edits
    /\ UNCHANGED <<servers, call, sent>>

Restart ==
    /\ servers' = [o \in {} |-> {}]
    /\ call' = [c \in Calls |-> Idle]
    /\ sent' = [c \in Calls |-> {}]
    /\ UNCHANGED vms

----------------------------------------------------------------------------
\* What a policy means: its VMs by name and, as they are tagged now, by tag;
\* never the host unless it is for all VMs (Policy, Options.HostVM).
Covered(p, tagged) ==
    IF p.all THEN Names
    ELSE (p.vms \cup {n \in DOMAIN tagged : tagged[n] \cap p.tags # {}}) \ {HostVM}

Observe ==
    could' = [c \in Calls |->
                 IF call'[c] = Idle THEN {} ELSE could[c] \cup Covered(call'[c].policy, vms')]

Init ==
    /\ vms \in UNION {[names -> SUBSET Tags] : names \in SUBSET Names}
    /\ servers = [o \in {} |-> {}]
    /\ call = [c \in Calls |-> Idle]
    /\ could = [c \in Calls |-> {}]
    /\ sent = [c \in Calls |-> {}]

Step ==
    \/ Edit
    \/ Restart
    \/ \E c \in Calls :
           \/ \E p \in Policies, r \in Requests : Begin(c, p, r)
           \/ ListVMs(c)
           \/ Send(c)
           \/ Return(c)

Next == Step /\ Observe

Spec == Init /\ [][Next]_vars

----------------------------------------------------------------------------
Busy == [at : {"listing", "sending", "ending"}, policy : Policies, request : Requests]

\* What list_vms shows is kept as one command for each VM.
Commands ==
    {r \in Requests : r.tool # "list_vms"} \cup [tool : {"list_vms"}, vm : Names, arg : {"none"}]

TypeOK ==
    /\ DOMAIN vms \subseteq Names /\ vms \in [DOMAIN vms -> SUBSET Tags]
    /\ DOMAIN servers \subseteq SUBSET Ops
    /\ call \in [Calls -> Busy \cup {Idle}]
    /\ could \in [Calls -> SUBSET Names]
    /\ sent \in [Calls -> SUBSET Commands]

\* A call sees, and runs something on, only VMs that its policy covered at
\* some time of the call.  So a call made after a VM was untagged does not
\* reach it, and the host is out of reach of limited connections (authorize,
\* listVMs).
OnlyCovered ==
    \A c \in Calls : \A r \in sent[c] : r.vm \in Names /\ r.tool # "create_vm" => r.vm \in could[c]

\* A server, whoever it was built for, offers exactly the tools that the
\* checks would not refuse a connection using it whatever it asks (NewServer,
\* serverCache, authorize, requireManage).
ServersFit ==
    \A p \in Policies : p.ops \in DOMAIN servers =>
        servers[p.ops] = {r.tool : r \in {s \in Requests : Permitted(p, s)}}

\* What OpExpose is for: "make the VM public, create share links, grant shell
\* access, change the proxy port and turn on inbound email".
Widening == {"set-public", "add-link", "add+shell", "port+", "receive-email+on"}

\* Sharing is widened only by connections that may expose, by no detour, and
\* the host's is not changed (shareVM, shareArgs, exeCommand).
SharingKept ==
    \A c \in Calls : \A r \in sent[c] :
        /\ r.arg \in Widening \cup {"share"} => r.tool = "share_vm" /\ "expose" \in call[c].policy.ops
        /\ r.arg \in ShareActions \ {"show"} => r.vm # HostVM

============================================================================

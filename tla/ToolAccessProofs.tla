------------------------- MODULE ToolAccessProofs -------------------------
(***************************************************************************)
(* Theorems about ToolAccess, for all VMs, tags, policies and calls.       *)
(***************************************************************************)
EXTENDS ToolAccess, TLAPS

USE NamesAssumption, PoliciesAssumption

----------------------------------------------------------------------------
(***************************************************************************)
(* The types.                                                              *)
(***************************************************************************)

IsVMs(v) == DOMAIN v \subseteq Names /\ v \in [DOMAIN v -> SUBSET Tags]

LEMMA TaggedVMs ==
    ASSUME IsVMs(vms), NEW name \in Names, NEW tags \in SUBSET Tags
    PROVE  IsVMs(Tagged(name, tags))
BY DEF IsVMs, Tagged

LEMMA DeletedVMs == ASSUME IsVMs(vms), NEW name PROVE IsVMs(Deleted(name))
BY DEF IsVMs, Deleted, Restrict

LEMMA RenamedVMs ==
    ASSUME IsVMs(vms), NEW name \in DOMAIN vms, NEW new \in Names
    PROVE  IsVMs(Renamed(name, new))
<1>1. vms[name] \in SUBSET Tags
  BY DEF IsVMs
<1>2. \A n \in (DOMAIN vms \ {name}) \cup {new} :
          n \in Names /\ (IF n = new THEN vms[name] ELSE vms[n]) \in SUBSET Tags
  BY <1>1 DEF IsVMs
<1> QED
  BY <1>2 DEF IsVMs, Renamed

LEMMA EditedVMs == ASSUME IsVMs(vms), NEW v \in Edits PROVE IsVMs(v)
<1>1. CASE v \in {Deleted(n) : n \in DOMAIN vms}
  BY <1>1, DeletedVMs
<1>2. CASE v \in {Tagged(n, tags) : n \in Names, tags \in SUBSET Tags}
  BY <1>2, TaggedVMs
<1>3. CASE v \in {Renamed(n, new) : n \in DOMAIN vms, new \in Names \ DOMAIN vms}
  BY <1>3, RenamedVMs
<1> QED
  BY <1>1, <1>2, <1>3 DEF Edits

LEMMA AfterVMs == ASSUME IsVMs(vms), NEW r \in Requests, NEW v \in After(r) PROVE IsVMs(v)
<1>1. CASE v = vms
  BY <1>1
<1>2. CASE v \in Edits
  BY <1>2, EditedVMs
<1>3. CASE r.tool = "delete_vm"
  BY <1>3, DeletedVMs DEF After
<1>4. CASE r.tool = "create_vm" /\ r.vm \notin DOMAIN vms
  <2>1. r.vm \in Names
    BY <1>4 DEF Requests
  <2>2. PICK tags \in SUBSET Tags : v = Tagged(r.vm, tags)
    BY <1>4 DEF After
  <2> QED
    BY <2>1, <2>2, TaggedVMs
<1> QED
  BY <1>1, <1>2, <1>3, <1>4 DEF After

\* What may be sent for a request.
LEMMA ToolNames ==
    ASSUME NEW r \in Requests
    PROVE  /\ r.tool = "list_vms" => r.vm = "none" /\ r.arg = "none"
           /\ r.tool = "exe_command" => r.vm = "none" /\ r.arg \in LobbyWords
           /\ r.tool \notin {"list_vms", "exe_command"} => r.vm \in Names
           /\ r.tool = "share_vm" => r.arg \in ShareActions
           /\ r.tool \notin {"share_vm", "exe_command"} => r.arg = "none"
           /\ \A n \in Names : r.tool = "list_vms" => [r EXCEPT !.vm = n] \in Commands
           /\ r.tool # "list_vms" => r \in Commands
BY DEF Requests, Commands

LEMMA CheckedType ==
    ASSUME NEW p \in Policies, NEW r \in Requests
    PROVE  /\ Checked(p, r) \in Busy \cup {Idle}
           /\ Checked(p, r) # Idle => Checked(p, r).policy = p /\ Checked(p, r).request = r
BY DEF Checked, Busy, Idle

----------------------------------------------------------------------------
(***************************************************************************)
(* The inductive invariant.                                                *)
(***************************************************************************)

\* A call that is under way passed the checks, and the VMs its policy covers
\* now are among those it could use.
Checks(c) ==
    call[c] # Idle => /\ Permitted(call[c].policy, call[c].request)
                      /\ Covered(call[c].policy, vms) \subseteq could[c]

\* A call that sends may do so.
Allowed(c) ==
    call[c].at = "sending" =>
        LET r == call[c].request
        IN  /\ r.tool # "list_vms"
            /\ r.vm \in Names /\ r.tool # "create_vm" => r.vm \in could[c]

\* What a call has sent is what it was asked for, on VMs it could use.
Sent(c) ==
    \A r \in sent[c] :
        /\ call[c] # Idle /\ call[c].at # "listing"
        /\ r.tool = call[c].request.tool /\ r.arg = call[c].request.arg
        /\ r.tool # "list_vms" => r = call[c].request
        /\ r.vm \in Names /\ r.tool # "create_vm" => r.vm \in could[c]

Served == \A ops \in DOMAIN servers : servers[ops] = Offers(ops)

IInv ==
    /\ TypeOK
    /\ Served
    /\ \A c \in Calls : Checks(c) /\ Allowed(c) /\ Sent(c)

LEMMA BusyParts ==
    ASSUME TypeOK, NEW c \in Calls, call[c] # Idle
    PROVE  /\ call[c] \in Busy
           /\ call[c].policy \in Policies
           /\ call[c].request \in Requests
           /\ call[c].at \in {"listing", "sending", "ending"}
BY DEF TypeOK, Busy

LEMMA TypeStep == IInv /\ [Next]_vars => TypeOK'
<1> SUFFICES ASSUME IInv, [Next]_vars PROVE TypeOK'
  OBVIOUS
<1>0. TypeOK /\ IsVMs(vms)
  BY DEF IInv, TypeOK, IsVMs
<1> USE <1>0
<1>a. ASSUME Observe, call' \in [Calls -> Busy \cup {Idle}], IsVMs(vms')
      PROVE  could' \in [Calls -> SUBSET Names]
  <2>1. ASSUME NEW c \in Calls, call'[c] # Idle PROVE Covered(call'[c].policy, vms') \subseteq Names
    <3>1. call'[c].policy \in ValidPolicies
      BY <1>a, <2>1 DEF Busy
    <3> QED
      BY <1>a, <3>1 DEF Covered, IsVMs, ValidPolicies
  <2> QED
    BY <1>a, <2>1 DEF Observe, TypeOK
<1>1. CASE Edit /\ Observe
  <2>1. IsVMs(vms')
    BY <1>0, <1>1, EditedVMs DEF Edit
  <2> QED
    BY <1>1, <1>a, <2>1 DEF Edit, TypeOK, IsVMs
<1>2. CASE Restart /\ Observe
  BY <1>2, <1>a DEF Restart, TypeOK, IsVMs
<1>3. ASSUME NEW c \in Calls, NEW p \in Policies, NEW r \in Requests, Begin(c, p, r), Observe
      PROVE  TypeOK'
  <2>1. p.ops \in SUBSET Ops
    BY DEF ValidPolicies
  <2>2. DOMAIN servers' \subseteq SUBSET Ops
    BY <1>3, <2>1 DEF Begin, WithServer, TypeOK
  <2>3. call' \in [Calls -> Busy \cup {Idle}]
    BY <1>3, CheckedType DEF Begin, TypeOK
  <2> QED
    BY <1>3, <1>a, <2>2, <2>3 DEF Begin, TypeOK, IsVMs
<1>4. ASSUME NEW c \in Calls, ListVMs(c), Observe PROVE TypeOK'
  <2>1. call[c] # Idle
    BY <1>4 DEF ListVMs, Idle
  <2>2. call[c] \in Busy /\ call[c].request \in Requests
    BY <2>1, BusyParts
  <2>3. [call[c] EXCEPT !.at = "sending"] \in Busy /\ [call[c] EXCEPT !.at = "ending"] \in Busy
    BY <2>2 DEF Busy
  <2>4. call' \in [Calls -> Busy \cup {Idle}]
    BY <1>4, <2>3 DEF ListVMs, TypeOK
  <2>5. sent' \in [Calls -> SUBSET Commands]
    BY <1>4, <2>2, ToolNames DEF ListVMs, TypeOK
  <2> QED
    BY <1>4, <1>a, <2>4, <2>5 DEF ListVMs, TypeOK, IsVMs
<1>5. ASSUME NEW c \in Calls, Send(c), Observe PROVE TypeOK'
  <2>1. call[c].at = "sending" /\ call[c] # Idle
    BY <1>5 DEF Send, Idle
  <2>2. call[c] \in Busy /\ call[c].request \in Requests
    BY <2>1, BusyParts
  <2>3. call[c].request \in Commands
    BY <2>1, <2>2, ToolNames DEF IInv, Allowed
  <2>4. sent' \in [Calls -> SUBSET Commands]
    BY <1>5, <2>3 DEF Send, TypeOK
  <2>5. [call[c] EXCEPT !.at = "ending"] \in Busy
    BY <2>2 DEF Busy
  <2>6. call' \in [Calls -> Busy \cup {Idle}]
    BY <1>5, <2>5 DEF Send, TypeOK
  <2>7. IsVMs(vms')
    BY <1>5, <2>2, AfterVMs DEF Send
  <2> QED
    BY <1>5, <1>a, <2>4, <2>6, <2>7 DEF Send, TypeOK, IsVMs
<1>6. ASSUME NEW c \in Calls, Return(c), Observe PROVE TypeOK'
  BY <1>6, <1>a DEF Return, TypeOK, IsVMs
<1>7. CASE UNCHANGED vars
  BY <1>7 DEF vars, TypeOK
<1> QED
  BY <1>1, <1>2, <1>3, <1>4, <1>5, <1>6, <1>7 DEF Next, Step

----------------------------------------------------------------------------
(***************************************************************************)
(* The steps of a call.                                                    *)
(***************************************************************************)

LEMMA ServedStep == IInv /\ [Next]_vars => Served'
<1> SUFFICES ASSUME IInv, [Next]_vars PROVE Served'
  OBVIOUS
<1>1. ASSUME NEW c \in Calls, NEW p \in Policies, NEW r \in Requests, Begin(c, p, r)
      PROVE  Served'
  BY <1>1 DEF Begin, WithServer, Served, IInv
<1>2. CASE Restart
  BY <1>2 DEF Restart, Served
<1>3. CASE UNCHANGED servers
  BY <1>3 DEF Served, IInv
<1> QED
  BY <1>1, <1>2, <1>3 DEF Next, Step, Edit, ListVMs, Send, Return, vars

\* A VM that authorize or list_vms lets through is covered at that time.
LEMMA AllowsCovers ==
    ASSUME NEW p \in ValidPolicies, NEW name \in Names, IsVMs(vms),
           Allows(p, name, TagsOf(name)) \/ Allows(p, name, {})
    PROVE  name \in Covered(p, vms)
BY DEF Allows, TagsOf, Covered

\* A call that goes on with its request keeps what it could use.
LEMMA CouldGrows ==
    ASSUME TypeOK, Observe, NEW c \in Calls, call'[c] # Idle
    PROVE  /\ Covered(call'[c].policy, vms') \subseteq could'[c]
           /\ could[c] \subseteq could'[c]
BY DEF Observe, TypeOK

CallOK(c) == Checks(c) /\ Allowed(c) /\ Sent(c)

\* Calls other than the one that takes the step.
LEMMA OthersOK ==
    ASSUME IInv, Observe, NEW c \in Calls, call'[c] = call[c], sent'[c] = sent[c]
    PROVE  CallOK(c)'
<1>1. TypeOK /\ CallOK(c)
  BY DEF IInv, CallOK
<1>2. CASE call[c] = Idle
  BY <1>1, <1>2 DEF CallOK, Checks, Allowed, Sent, Idle
<1>3. CASE call[c] # Idle
  BY <1>1, <1>3, CouldGrows DEF CallOK, Checks, Allowed, Sent
<1> QED
  BY <1>2, <1>3

LEMMA IdleOK ==
    ASSUME NEW c \in Calls, call'[c] = Idle, sent'[c] = {}
    PROVE  CallOK(c)'
BY DEF CallOK, Checks, Allowed, Sent, Idle

LEMMA NothingSent == ASSUME IInv, NEW c \in Calls, call[c] = Idle PROVE sent[c] = {}
BY DEF IInv, Sent

LEMMA BeginOK ==
    ASSUME IInv, TypeOK', Observe, NEW c \in Calls, NEW p \in Policies, NEW r \in Requests,
           Begin(c, p, r)
    PROVE  CallOK(c)'
<1>0. TypeOK /\ IsVMs(vms) /\ p \in ValidPolicies
  BY DEF IInv, TypeOK, IsVMs
<1>1. sent'[c] = {} /\ vms' = vms
  BY NothingSent DEF Begin
<1>2. CASE call'[c] = Idle
  BY <1>1, <1>2, IdleOK
<1>3. CASE call'[c] # Idle
  <2>1. call'[c] = Checked(p, r) /\ Permitted(p, r)
    BY <1>0, <1>3 DEF Begin, TypeOK
  <2>2. call'[c].policy = p /\ call'[c].request = r
    BY <1>3, <2>1, CheckedType
  <2>3. Covered(p, vms) \subseteq could'[c]
    BY <1>0, <1>1, <1>3, <2>2, CouldGrows
  <2>4. Checks(c)'
    BY <1>1, <2>1, <2>2, <2>3 DEF Checks
  <2>5. ASSUME call'[c].at = "sending" PROVE Allowed(c)'
    <3>1. r.tool # "list_vms"
      BY <2>1, <2>5 DEF Checked
    <3>2. ASSUME r.vm \in Names, r.tool # "create_vm" PROVE r.vm \in could'[c]
      <4>1. Allows(p, r.vm, {})
        BY <1>3, <2>1, <2>5, <3>2 DEF Checked, Idle
      <4> QED
        BY <1>0, <2>3, <3>2, <4>1, AllowsCovers
    <3> QED
      BY <2>2, <3>1, <3>2 DEF Allowed
  <2> QED
    BY <1>1, <2>4, <2>5 DEF CallOK, Allowed, Sent
<1> QED
  BY <1>2, <1>3

LEMMA ListOK ==
    ASSUME IInv, TypeOK', Observe, NEW c \in Calls, ListVMs(c)
    PROVE  CallOK(c)'
<1> DEFINE p == call[c].policy
           r == call[c].request
<1>0. TypeOK /\ IsVMs(vms) /\ CallOK(c) /\ vms' = vms
  BY DEF IInv, TypeOK, IsVMs, CallOK, ListVMs
<1>1. call[c] # Idle /\ call[c].at = "listing"
  BY DEF ListVMs, Idle
<1>2. p \in ValidPolicies /\ r \in Requests /\ call[c] \in Busy
  BY <1>0, <1>1, BusyParts
<1>3. Permitted(p, r) /\ Covered(p, vms) \subseteq could[c]
  BY <1>0, <1>1 DEF CallOK, Checks
<1>4. CASE r.tool = "list_vms"
  <2>1. /\ call'[c] = [call[c] EXCEPT !.at = "ending"]
        /\ sent'[c] = {[r EXCEPT !.vm = n] : n \in {m \in DOMAIN vms : Allows(p, m, vms[m])}}
    BY <1>0, <1>4 DEF ListVMs, TypeOK
  <2>2. call'[c] # Idle /\ call'[c].policy = p /\ call'[c].request = r /\ call'[c].at = "ending"
    BY <1>2, <2>1 DEF Busy, Idle
  <2>3. Covered(p, vms) \subseteq could'[c]
    BY <1>0, <2>2, CouldGrows
  <2>4. ASSUME NEW n \in DOMAIN vms, Allows(p, n, vms[n]) PROVE n \in could'[c]
    BY <1>0, <1>2, <2>3, <2>4, AllowsCovers DEF TagsOf, IsVMs
  <2>5. Sent(c)'
    <3> SUFFICES ASSUME NEW s \in sent'[c]
                 PROVE  s.tool = "list_vms" /\ s.arg = r.arg /\ s.vm \in could'[c]
      BY <1>4, <2>2 DEF Sent
    <3>1. PICK n \in DOMAIN vms : Allows(p, n, vms[n]) /\ s = [r EXCEPT !.vm = n]
      BY <2>1
    <3> QED
      BY <1>2, <1>4, <2>4, <3>1 DEF Requests
  <2> QED
    BY <1>0, <1>3, <2>2, <2>3, <2>5 DEF CallOK, Checks, Allowed
<1>5. CASE r.tool # "list_vms" /\ ~ Allows(p, r.vm, TagsOf(r.vm))
  <2>1. call'[c] = Idle /\ sent'[c] = sent[c]
    BY <1>0, <1>5 DEF ListVMs, TypeOK
  <2>2. sent[c] = {}
    BY <1>0, <1>1, <2>1 DEF CallOK, Sent
  <2> QED
    BY <2>1, <2>2, IdleOK
<1>6. CASE r.tool # "list_vms" /\ Allows(p, r.vm, TagsOf(r.vm))
  <2>1. call'[c] = [call[c] EXCEPT !.at = "sending"] /\ sent'[c] = sent[c]
    BY <1>0, <1>6 DEF ListVMs, TypeOK
  <2>2. call'[c] # Idle /\ call'[c].policy = p /\ call'[c].request = r
    BY <1>2, <2>1 DEF Busy, Idle
  <2>3. Covered(p, vms) \subseteq could'[c] /\ could[c] \subseteq could'[c]
    BY <1>0, <2>2, CouldGrows
  <2>4. r.vm \in Names => r.vm \in could'[c]
    BY <1>0, <1>2, <1>6, <2>3, AllowsCovers
  <2>5. Sent(c)'
    BY <1>0, <2>1, <2>2, <2>3 DEF CallOK, Sent
  <2> QED
    BY <1>0, <1>3, <1>6, <2>2, <2>3, <2>4, <2>5 DEF CallOK, Checks, Allowed
<1> QED
  BY <1>4, <1>5, <1>6

LEMMA SendOK ==
    ASSUME IInv, TypeOK', Observe, NEW c \in Calls, Send(c)
    PROVE  CallOK(c)'
<1> DEFINE p == call[c].policy
           r == call[c].request
<1>0. TypeOK /\ CallOK(c)
  BY DEF IInv, CallOK
<1>1. call[c] # Idle /\ call[c].at = "sending"
  BY DEF Send, Idle
<1>2. r \in Requests /\ call[c] \in Busy
  BY <1>0, <1>1, BusyParts
<1>3. call'[c] \in {call[c], [call[c] EXCEPT !.at = "ending"]} /\ sent'[c] = sent[c] \cup {r}
  BY <1>0 DEF Send, TypeOK
<1>4. /\ call'[c] # Idle /\ call'[c].policy = p /\ call'[c].request = r
      /\ call'[c].at \in {"sending", "ending"}
  BY <1>1, <1>2, <1>3 DEF Busy, Idle
<1>5. Covered(p, vms') \subseteq could'[c] /\ could[c] \subseteq could'[c]
  BY <1>0, <1>4, CouldGrows
<1>6. Checks(c)'
  BY <1>0, <1>1, <1>4, <1>5 DEF CallOK, Checks
<1>7. Allowed(c)'
  BY <1>0, <1>1, <1>4, <1>5 DEF CallOK, Allowed
<1>8. Sent(c)'
  BY <1>0, <1>1, <1>3, <1>4, <1>5 DEF CallOK, Allowed, Sent
<1> QED
  BY <1>6, <1>7, <1>8 DEF CallOK

LEMMA CallStep == IInv /\ [Next]_vars => \A c \in Calls : CallOK(c)'
<1> SUFFICES ASSUME IInv, [Next]_vars, NEW c \in Calls PROVE CallOK(c)'
  OBVIOUS
<1>0. TypeOK /\ TypeOK' /\ CallOK(c)
  BY TypeStep DEF IInv, CallOK
<1>1. CASE Edit /\ Observe
  BY <1>1, OthersOK DEF Edit
<1>2. CASE Restart
  BY <1>2, IdleOK DEF Restart
<1>3. ASSUME NEW d \in Calls, NEW p \in Policies, NEW r \in Requests, Begin(d, p, r), Observe
      PROVE  CallOK(c)'
  <2>1. d # c => call'[c] = call[c] /\ sent'[c] = sent[c]
    BY <1>0, <1>3 DEF Begin, TypeOK
  <2> QED
    BY <1>0, <1>3, <2>1, BeginOK, OthersOK
<1>4. ASSUME NEW d \in Calls, ListVMs(d), Observe PROVE CallOK(c)'
  <2>1. d # c => call'[c] = call[c] /\ sent'[c] = sent[c]
    BY <1>0, <1>4 DEF ListVMs, TypeOK
  <2> QED
    BY <1>0, <1>4, <2>1, ListOK, OthersOK
<1>5. ASSUME NEW d \in Calls, Send(d), Observe PROVE CallOK(c)'
  <2>1. d # c => call'[c] = call[c] /\ sent'[c] = sent[c]
    BY <1>0, <1>5 DEF Send, TypeOK
  <2> QED
    BY <1>0, <1>5, <2>1, SendOK, OthersOK
<1>6. ASSUME NEW d \in Calls, Return(d), Observe PROVE CallOK(c)'
  <2>1. CASE d = c
    BY <1>0, <1>6, <2>1, IdleOK DEF Return, TypeOK
  <2>2. CASE d # c
    BY <1>0, <1>6, <2>2, OthersOK DEF Return, TypeOK
  <2> QED
    BY <2>1, <2>2
<1>7. CASE UNCHANGED vars
  BY <1>0, <1>7 DEF vars, CallOK, Checks, Allowed, Sent
<1> QED
  BY <1>1, <1>2, <1>3, <1>4, <1>5, <1>6, <1>7 DEF Next, Step

LEMMA InitOK == Init => IInv
<1> SUFFICES ASSUME Init PROVE IInv
  OBVIOUS
<1>1. TypeOK
  BY DEF Init, TypeOK
<1>2. Served
  BY DEF Init, Served
<1>3. \A c \in Calls : Checks(c) /\ Allowed(c) /\ Sent(c)
  BY DEF Init, Checks, Allowed, Sent, Idle
<1> QED
  BY <1>1, <1>2, <1>3 DEF IInv

LEMMA Invariance == Spec => []IInv
<1>1. IInv /\ [Next]_vars => IInv'
  BY TypeStep, ServedStep, CallStep DEF IInv, CallOK
<1> QED
  BY <1>1, InitOK, PTL DEF Spec

----------------------------------------------------------------------------
\* Every variable has its type in every reachable state.
THEOREM TypeCorrect == Spec => []TypeOK
<1>1. IInv => TypeOK
  BY DEF IInv
<1> QED
  BY <1>1, Invariance, PTL

\* Calls reach only VMs that their policy covered at some time of the call,
\* however VMs are tagged, created, deleted and renamed meanwhile.
THEOREM CoverSafety == Spec => []OnlyCovered
<1>1. IInv => OnlyCovered
  BY DEF IInv, Sent, OnlyCovered
<1> QED
  BY <1>1, Invariance, PTL

----------------------------------------------------------------------------
\* NewServer and the checks agree on the tools of every valid policy.
LEMMA OffersFit ==
    ASSUME NEW p \in ValidPolicies
    PROVE  Offers(p.ops) = {r.tool : r \in {s \in Requests : Permitted(p, s)}}
<1>1. PICK name \in Names : TRUE
  OBVIOUS
<1>2. p.ops \subseteq Ops /\ ("manage" \in p.ops => p.all)
  BY DEF ValidPolicies
<1>3. ASSUME NEW r \in Requests, Permitted(p, r) PROVE r.tool \in Offers(p.ops)
  <2>1. CASE r.tool \in ManageTools
    BY <1>3, <2>1 DEF Permitted, OpOf, Can, Offers, ManageTools
  <2>2. CASE r.tool = "share_vm"
    BY <1>3, <2>2 DEF Permitted, OpOf, ShareOp, Can, Offers, ManageTools
  <2>3. CASE r.tool \notin ManageTools \cup {"share_vm"}
    BY <1>3, <2>3 DEF Permitted, OpOf, Can, Offers, ManageTools, Requests
  <2> QED
    BY <2>1, <2>2, <2>3
<1>4. ASSUME NEW tool \in Offers(p.ops) PROVE \E r \in Requests : Permitted(p, r) /\ r.tool = tool
  <2>1. CASE tool = "list_vms"
    <3> DEFINE r == [tool |-> tool, vm |-> "none", arg |-> "none"]
    <3>1. r \in Requests /\ Permitted(p, r)
      BY <2>1 DEF Requests, Permitted, ManageTools
    <3> QED
      BY <3>1
  <2>2. CASE tool = "share_vm"
    <3> DEFINE r == [tool |-> tool, vm |-> name, arg |-> "show"]
    <3>1. r \in Requests
      BY <2>2 DEF Requests, ShareActions
    <3>2. "share" \in p.ops \/ "expose" \in p.ops
      BY <2>2 DEF Offers, ManageTools
    <3>3. Permitted(p, r)
      BY <2>2, <3>2 DEF Permitted, ManageTools, OpOf, ShareOp, Can
    <3> QED
      BY <3>1, <3>3
  <2>3. CASE tool = "exe_command"
    <3> DEFINE r == [tool |-> tool, vm |-> "none", arg |-> "tag"]
    <3>1. r \in Requests
      BY <2>3 DEF Requests, LobbyWords
    <3>2. Permitted(p, r)
      BY <1>2, <2>3 DEF Permitted, ManageTools, OpOf, Can, Offers
    <3> QED
      BY <3>1, <3>2
  <2>4. CASE tool \notin {"list_vms", "share_vm", "exe_command"}
    <3> DEFINE r == [tool |-> tool, vm |-> name, arg |-> "none"]
    <3>1. r \in Requests
      BY <2>4 DEF Requests, Offers, ManageTools
    <3>2. Permitted(p, r)
      BY <1>2, <2>4 DEF Permitted, ManageTools, OpOf, Can, Offers
    <3> QED
      BY <3>1, <3>2
  <2> QED
    BY <2>1, <2>2, <2>3, <2>4
<1> QED
  BY <1>3, <1>4

\* Every server offers exactly the tools its connections may use.
THEOREM ServersSafety == Spec => []ServersFit
<1>1. IInv => ServersFit
  BY OffersFit DEF IInv, Served, ServersFit
<1> QED
  BY <1>1, Invariance, PTL

\* Sharing is widened only as its policy allows, and the host's stays.
THEOREM SharingSafety == Spec => []SharingKept
<1>1. ASSUME IInv, NEW c \in Calls, NEW r \in sent[c]
      PROVE  /\ r.arg \in Widening \cup {"share"}
                    => r.tool = "share_vm" /\ "expose" \in call[c].policy.ops
             /\ r.arg \in ShareActions \ {"show"} => r.vm # HostVM
  <2>1. /\ call[c] # Idle /\ TypeOK
        /\ r.tool # "list_vms" => r = call[c].request
        /\ r.tool = call[c].request.tool /\ r.arg = call[c].request.arg
    BY <1>1 DEF IInv, Sent
  <2>2. call[c].request \in Requests /\ Permitted(call[c].policy, call[c].request)
    BY <1>1, <2>1, BusyParts DEF IInv, Checks
  <2>3. r.arg \in Widening \cup ShareActions \cup {"share"} => r.tool \in {"share_vm", "exe_command"}
    BY <2>1, <2>2, ToolNames DEF Widening, ShareActions
  <2>4. CASE r.tool = "exe_command"
    BY <2>1, <2>2, <2>4, ToolNames DEF Permitted, LobbyWords, Widening, ShareActions
  <2>5. CASE r.tool = "share_vm"
    BY <2>1, <2>2, <2>5, ToolNames
       DEF Permitted, OpOf, ShareOp, Can, Widening, ShareActions, ManageTools
  <2> QED
    BY <2>3, <2>4, <2>5
<1>2. IInv => SharingKept
  BY <1>1 DEF SharingKept
<1> QED
  BY <1>2, Invariance, PTL
===========================================================================

--------------------------- MODULE MCToolAccess ---------------------------
\* ToolAccess with the host, another VM and a policy of every kind.
EXTENDS ToolAccess

CONSTANTS host, web, prod

Limited(vs, ts, ops) == [all |-> FALSE, vms |-> vs, tags |-> ts, ops |-> ops]

SomePolicies ==
    { [all |-> TRUE, vms |-> {}, tags |-> {}, ops |-> Ops],
      [all |-> TRUE, vms |-> {}, tags |-> {}, ops |-> {"manage", "restart"}],
      [all |-> TRUE, vms |-> {}, tags |-> {}, ops |-> {"expose"}],
      Limited({host, web}, {}, {"share", "read"}),
      Limited({host}, {prod}, {"write", "expose"}),
      Limited({}, {prod}, {}) }
===========================================================================

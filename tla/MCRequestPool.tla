--------------------------- MODULE MCRequestPool ---------------------------
(* Two keys that compete for the one slot of a capability.                  *)
EXTENDS RequestPool

MCCapabilityOf == [k \in Keys |-> "archive_state"]
MCLimit == [c \in Capabilities |-> 1]
MCTasks == 1..3
=============================================================================

------------------------- MODULE WSConnectorClaims -------------------------
(* What the documentation and the comments of pkg/websocket/connector.go   *)
(* say of the connector and its code does not do.  Each property quotes    *)
(* its sentence; the runs show how the code breaks it.                     *)
EXTENDS WSConnector

(* "This method is idempotent and safe to call multiple times" (103), "safe *)
(* to call multiple times without error" (902): Close closes c.done while  *)
(* a first Connect, between 415 and 423, has not made it yet.              *)
NeverPanics == panicked = "no"

(* "handle connection lifecycle events automatically (reconnection,         *)
(* heartbeats, etc.)" (82): when a connection is lost while no Connect is  *)
(* running, and every dial succeeds, a connector that was up comes back    *)
(* up for good.  The context of the reconnect is cancelled when it has     *)
(* succeeded, and the monitor of the new session then closes it.           *)
AutoReconnect ==
  [](reconnecting => \A k \in Sessions : link[k] # "broken") =>
    ((dialled > 0 /\ ~connected) ~> connected)

=============================================================================

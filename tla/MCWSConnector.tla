--------------------------- MODULE MCWSConnector ---------------------------
(* Model values for model checking WSConnector.                           *)
EXTENDS WSConnector

CONSTANTS c1, c2

MCCallers1 == {c1}
MCCallers2 == {c1, c2}

=============================================================================

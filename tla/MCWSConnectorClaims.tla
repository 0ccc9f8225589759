--------------------------- MODULE MCWSConnectorClaims ------------------------
(* Model values for model checking WSConnectorClaims.                      *)
EXTENDS WSConnectorClaims

CONSTANTS c1, c2

MCCallers1 == {c1}
MCCallers2 == {c1, c2}

=============================================================================

-------------------------- MODULE MCMessagePipeline --------------------------
(* Model values and symmetry for model checking MessagePipeline.           *)
EXTENDS MessagePipeline, TLC

CONSTANTS c1, t1, t2, h1, h2

MCCallers   == {c1}
MCTopics1   == {t1}
MCTopics2   == {t1, t2}
MCHandlers1 == {h1}
MCHandlers2 == {h1, h2}
MCSymmetry  == Permutations({h1, h2})

=============================================================================

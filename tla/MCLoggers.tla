------------------------------ MODULE MCLoggers ------------------------------
(* Model values for model checking Loggers.                                *)
EXTENDS Loggers

CONSTANTS g1, g2, f1, f2, t1, t2

MCGoroutines2 == {g1, g2}
MCFields == {f1, f2}
MCLists  == {<<f1>>, <<f2, f1>>}
MCTraces == {t1, t2, Blank}
MCMax    == [json |-> 3, zap |-> 5]

=============================================================================

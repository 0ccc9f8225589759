---------------------------- MODULE MCHTTPClient ----------------------------
(* Rates and callers for model checking HTTPClient: a second of 2 ticks,   *)
(* rates of 2 and 1 per second, one below 1 per second, and an invalid one.*)
EXTENDS HTTPClient, TLC

CONSTANTS c1, c2

MCCallers == {c1, c2}
MCRate(limit, interval) == [limit |-> limit, interval |-> interval]
MCInitial == MCRate(2, 2)
MCRates   == {MCRate(1, 2), MCRate(1, 4), MCRate(0, 2)}

=============================================================================

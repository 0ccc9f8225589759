--------------------------- MODULE ReconnectGuard ---------------------------
(* What the connector's reconnecting flag promises: a guard that one       *)
(* thread at a time acquires and that only this thread releases.  A thread *)
(* that finds it taken goes on without it; nobody takes it over.           *)

CONSTANTS Threads, Nobody

VARIABLE holder

Init == holder = Nobody

Acquire(t) == holder = Nobody /\ holder' = t

Release(t) == holder = t /\ holder' = Nobody

Next == \E t \in Threads : Acquire(t) \/ Release(t)

Spec == Init /\ [][Next]_holder

=============================================================================

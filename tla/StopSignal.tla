----------------------------- MODULE StopSignal -----------------------------
(* What the connector's done channel promises to the goroutines of a       *)
(* session: they join a channel that is still open, and a channel that     *)
(* somebody joined is replaced only after it has been closed, so one       *)
(* close, made once, reaches everyone who ever joined it.                  *)
EXTENDS Naturals

CONSTANT Sessions

VARIABLES
  chan,      \* the current channel, 0 when there is none
  stopped,   \* the channels closed so far
  joined     \* joined[k]: the channel session k listens on, 0 before it starts

vars == <<chan, stopped, joined>>

Init ==
  /\ chan = 0
  /\ stopped = {}
  /\ joined = [k \in Sessions |-> 0]

Open == chan # 0 /\ chan \notin stopped

JoinNew(k) ==
  /\ ~Open
  /\ joined[k] = 0 /\ k \notin stopped
  /\ chan' = k
  /\ joined' = [joined EXCEPT ![k] = k]
  /\ UNCHANGED stopped

JoinCurrent(k) ==
  /\ Open
  /\ joined[k] = 0
  /\ joined' = [joined EXCEPT ![k] = chan]
  /\ UNCHANGED <<chan, stopped>>

Stop ==
  /\ Open
  /\ stopped' = stopped \cup {chan}
  /\ UNCHANGED <<chan, joined>>

Next == Stop \/ \E k \in Sessions : JoinNew(k) \/ JoinCurrent(k)

Spec == Init /\ [][Next]_vars

=============================================================================

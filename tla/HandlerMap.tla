----------------------------- MODULE HandlerMap -----------------------------
(* What the WebSocket connector promises of its handlers to the code above *)
(* it.  A topic has the handler of a Subscribe that found the connector    *)
(* connected.  It keeps it, whatever connections are lost, until somebody  *)
(* registers another one or unsubscribes.  A resubscription registers all  *)
(* that it found in the map, except what it finds the connector down for.  *)

CONSTANTS
  Topics, Handlers,
  Writers  \* whoever registers handlers: one call of Subscribe at a time,
           \* or a resubscription

VARIABLES
  up,      \* whether the connector is connected
  map,     \* the pairs <<t, h>>: topic t has handler h
  owed     \* owed[w]: the pairs that w has still to put in the map

vars == <<up, map, owed>>

Init == up = FALSE /\ map = {} /\ owed = [w \in Writers |-> {}]

Rise == up' = TRUE /\ UNCHANGED <<map, owed>>
Fall == up' = FALSE /\ UNCHANGED <<map, owed>>

Owes(w, pairs) ==
  owed[w] = {} /\ owed' = [owed EXCEPT ![w] = pairs] /\ UNCHANGED <<up, map>>

Subscribe(w, t, h) == up /\ Owes(w, {<<t, h>>})

Resubscribe(w) == Owes(w, map)

Settles(w, pair) ==
  /\ pair \in owed[w]
  /\ owed' = [owed EXCEPT ![w] = @ \ {pair}]
  /\ UNCHANGED up

Without(t) == {pair \in map : pair[1] # t}

Register(w, pair) == Settles(w, pair) /\ map' = Without(pair[1]) \cup {pair}

GiveUp(w, pair) == ~up /\ Settles(w, pair) /\ UNCHANGED map

Unsubscribe(t) == map' = Without(t) /\ UNCHANGED <<up, owed>>

WriterStep(w) ==
  \/ Resubscribe(w)
  \/ \E pair \in owed[w] : Register(w, pair) \/ GiveUp(w, pair)
  \/ \E t \in Topics, h \in Handlers : Subscribe(w, t, h)

Next ==
  \/ Rise \/ Fall \/ \E t \in Topics : Unsubscribe(t)
  \/ \E w \in Writers : WriterStep(w)

Spec == Init /\ [][Next]_vars

=============================================================================

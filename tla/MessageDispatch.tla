-------------------------- MODULE MessageDispatch --------------------------
(* What the connector's message pipeline promises about each message: it   *)
(* is bound, once, to the handler registered for its topic at that moment; *)
(* it is then dropped, or handed to this handler, at most once.            *)

CONSTANTS Messages, Topics, Handlers, NoHandler

VARIABLES
  handlers,  \* handlers[t]: the handler registered for topic t, or NoHandler
  bound,     \* bound[m]: the handler message m is on its way to, or NoHandler
  given,     \* the pairs <<m, h>>: m was handed to h
  dropped    \* the messages dropped on the way

vars == <<handlers, bound, given, dropped>>

Init ==
  /\ handlers = [t \in Topics |-> NoHandler]
  /\ bound = [m \in Messages |-> NoHandler]
  /\ given = {}
  /\ dropped = {}

Register(t, h) ==
  /\ handlers' = [handlers EXCEPT ![t] = h]
  /\ UNCHANGED <<bound, given, dropped>>

Settled(m) == m \in dropped \/ \E h \in Handlers : <<m, h>> \in given

Bind(m, t) ==
  /\ bound[m] = NoHandler /\ ~Settled(m)
  /\ handlers[t] # NoHandler
  /\ bound' = [bound EXCEPT ![m] = handlers[t]]
  /\ UNCHANGED <<handlers, given, dropped>>

Unbind(m) == bound[m] # NoHandler /\ bound' = [bound EXCEPT ![m] = NoHandler]

Give(m) ==
  /\ Unbind(m)
  /\ given' = given \cup {<<m, bound[m]>>}
  /\ UNCHANGED <<handlers, dropped>>

Drop(m) ==
  /\ Unbind(m)
  /\ dropped' = dropped \cup {m}
  /\ UNCHANGED <<handlers, given>>

Next ==
  \/ \E t \in Topics, h \in Handlers \cup {NoHandler} : Register(t, h)
  \/ \E m \in Messages : Give(m) \/ Drop(m) \/ \E t \in Topics : Bind(m, t)

Spec == Init /\ [][Next]_vars

=============================================================================

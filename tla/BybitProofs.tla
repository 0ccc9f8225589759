----------------------------- MODULE BybitProofs -----------------------------
(* Proofs about BybitConnector: its types; that its table of subscriptions *)
(* agrees with the WebSocket connector's handlers and with what the callers*)
(* were told; that no two candles share a topic; and what its queries ask  *)
(* for.                                                                    *)
EXTENDS BybitConnector, TLAPS

(* The call that brings a caller to a place.                               *)
OpAt(place) ==
  CASE place \in WSPlaces \cup {"fetch", "mark"}                    -> "Connect"
    [] place \in {"wsclose", "down", "clear"}                       -> "Close"
    [] place \in {"lookup", "subscribe", "register", "record"}      -> "Subscribe"
    [] place \in {"find", "remove", "erase"}                        -> "Unsubscribe"
    [] OTHER                                                        -> "Get"

(* Where a thread is, and what it was called for.                          *)
CallsOK ==
  /\ pc \in [Threads -> Places]
  /\ did \in [Callers -> [op : Ops, arg : Args] \cup {NoCall}]
  /\ \A c \in Callers :
       /\ did[c] # NoCall => did[c] \in Uses[c]
       /\ pc[c] # "idle" => did[c] \in Uses[c] /\ did[c].op = OpAt(pc[c])

(* What is about to be recorded has its handler, or is known not to.       *)
Registered ==
  \A c \in Callers : pc[c] = "record" =>
    Handler(Called(c)) \in map \/ Called(c) \in parted

Moved(t, from, to) == pc[t] = from /\ pc' = [pc EXCEPT ![t] = to]

(* A thread goes on within its call, or returns.                           *)
GoesOn(t) ==
  \E from, to \in Places :
    /\ Moved(t, from, to) /\ did' = did /\ from # "idle"
    /\ to = "idle" \/ OpAt(to) = OpAt(from)

-----------------------------------------------------------------------------
(* The moves of the threads.                                               *)

(* Every step of the WebSocket connector's Connect.                        *)
LEMMA WSConnectMoves ==
  ASSUME NEW t \in Threads, WSConnect(t)
  PROVE  /\ \E from \in {"check", "dial", "snapshot", "restore"},
               to \in {"idle", "mark", "dial", "snapshot", "restore"} :
              /\ Moved(t, from, to)
              /\ to = "mark" => t # Reconnector
              /\ to = "idle" /\ t # Reconnector => Returns(t, from, "error")
              /\ to # "idle" \/ t = Reconnector => UNCHANGED call
         /\ UNCHANGED <<subscriptions, did, parted>>
<1> USE DEF Goes, Returns, Moved, table, ws, call, count, After
<1>1. CASE IsUp(t) \/ IsDown(t) \/ DialOk(t) \/ DialFails(t)
  BY <1>1 DEF IsUp, IsDown, DialOk, DialFails
<1>2. CASE Snapshot(t) \/ Restore(t) \/ Restored(t)
  BY <1>2 DEF Snapshot, Restore, Restored
<1> QED  BY <1>1, <1>2 DEF WSConnect

(* Every step of a caller inside its call, but those of a Connect.         *)
Middle(c) ==
  \/ FetchFails(c) \/ Fetched(c) \/ Mark(c) \/ WSClose(c) \/ CloseDown(c)
  \/ CloseClears(c) \/ Already(c) \/ Lookup(c) \/ SubscribeFails(c)
  \/ SubscribeGoes(c) \/ Register(c) \/ Record(c) \/ NotFound(c) \/ Find(c)
  \/ Remove(c) \/ Erase(c) \/ NoneListed(c) \/ SomeListed(c) \/ Listed(c)
  \/ Asked(c)

(* A query that has been answered returns.                                 *)
LEMMA AskedReturns ==
  ASSUME NEW c, Asked(c)
  PROVE  \E r \in {"ok", "error"} : Returns(c, "ask", r) /\ UNCHANGED <<table, ws>>
BY DEF Asked

(* Such a step stays within the call.                                      *)
LEMMA MiddleGoesOn == ASSUME NEW c, Middle(c) PROVE GoesOn(c)
<1> USE DEF Goes, Returns, Moved, GoesOn, OpAt, Places, WSPlaces, call, count
<1>1. CASE FetchFails(c) \/ Fetched(c) \/ Mark(c) \/ WSClose(c) \/ CloseDown(c)
            \/ CloseClears(c)
  BY <1>1 DEF FetchFails, Fetched, Mark, WSClose, CloseDown, CloseClears
<1>2. CASE Already(c) \/ Lookup(c) \/ SubscribeFails(c) \/ SubscribeGoes(c)
            \/ Register(c) \/ Record(c)
  BY <1>2 DEF Already, Lookup, SubscribeFails, SubscribeGoes, Register, Record
<1>3. CASE NotFound(c) \/ Find(c) \/ Remove(c) \/ Erase(c)
  BY <1>3 DEF NotFound, Find, Remove, Erase
<1>4. CASE NoneListed(c) \/ SomeListed(c)
  BY <1>4 DEF NoneListed, SomeListed
<1>5. CASE Listed(c) \/ Asked(c)
  BY <1>5, AskedReturns DEF Listed
<1> QED  BY <1>1, <1>2, <1>3, <1>4, <1>5 DEF Middle

(* Every step that begins a call.                                          *)
Start(c) ==
  \/ Connect(c) \/ Close(c) \/ CloseRefused(c) \/ SubscribeRefused(c)
  \/ Subscribe(c) \/ UnsubscribeRefused(c) \/ Unsubscribe(c) \/ GetRefused(c)
  \/ Get(c)

(* A call is refused, or begins at a place of its own.                     *)
LEMMA StartCalls ==
  ASSUME NEW c, Start(c)
  PROVE  \E op, r, to : /\ Calls(c, op, to, r) /\ to \in Places
                        /\ \/ to = "idle" /\ r = "error"
                           \/ /\ to \in {"fetch", "wsclose", "lookup", "find",
                                         "symbols"}
                              /\ op = OpAt(to) /\ r = "none"
                        /\ \/ to = "idle"
                           \/ op \notin {"Subscribe", "Unsubscribe"}
                           \/ did'[c].arg.interval \in Supported
BY DEF Start, Connect, Close, CloseRefused, SubscribeRefused, Subscribe,
       UnsubscribeRefused, Unsubscribe, GetRefused, Get, Begins, Refused, OpAt,
       Places, WSPlaces

(* Every step is one of these, or leaves the threads where they are.       *)
LEMMA StepCases ==
  ASSUME [Next]_vars
  PROVE  \/ \E c \in Callers : Start(c) \/ Middle(c)
         \/ \E t \in Threads : WSConnect(t)
         \/ Lost
         \/ UNCHANGED <<pc, did, result, overtaken, parted, subscriptions, map>>
BY DEF Next, CallerStep, Start, Middle, Threads, Closed, Lose, WS!Fall, Message,
       MapFault, Rest, vars, table, ws, call

(* Calls go on as they should.                                             *)
LEMMA CallsStep == CallsOK /\ [Next]_vars => CallsOK'
<1> SUFFICES ASSUME CallsOK, [Next]_vars PROVE CallsOK'
  OBVIOUS
<1>1. ASSUME NEW t \in Threads, GoesOn(t) PROVE CallsOK'
  <2>1. PICK from, to \in Places :
          /\ Moved(t, from, to) /\ did' = did /\ from # "idle"
          /\ to = "idle" \/ OpAt(to) = OpAt(from)
    BY <1>1 DEF GoesOn
  <2>2. \A d \in Callers : pc'[d] = IF d = t THEN to ELSE pc[d]
    BY <2>1 DEF CallsOK, Moved, Threads
  <2>3. pc' \in [Threads -> Places]
    BY <2>1 DEF CallsOK, Moved
  <2> QED  BY <2>1, <2>2, <2>3 DEF CallsOK, Moved
<1>2. ASSUME NEW c \in Callers, Start(c) PROVE CallsOK'
  <2>1. PICK op, r, to : /\ Calls(c, op, to, r) /\ to \in Places
                         /\ to = "idle" \/ op = OpAt(to)
    BY <1>2, StartCalls
  <2>2. PICK use \in Uses[c] : use.op = op /\ did' = [did EXCEPT ![c] = use]
    BY <2>1 DEF Calls
  <2>3. use \in [op : Ops, arg : Args]
    BY <2>2, BybitAssumption
  <2>4. pc' = [pc EXCEPT ![c] = to]
    BY <2>1 DEF Calls, Goes
  <2>5. \A d \in Callers : /\ pc'[d] = IF d = c THEN to ELSE pc[d]
                           /\ did'[d] = IF d = c THEN use ELSE did[d]
    BY <2>2, <2>4 DEF CallsOK, Threads
  <2>6. /\ pc' \in [Threads -> Places]
        /\ did' \in [Callers -> [op : Ops, arg : Args] \cup {NoCall}]
    BY <2>1, <2>2, <2>3, <2>4 DEF CallsOK
  <2> QED  BY <2>1, <2>2, <2>5, <2>6 DEF CallsOK
<1>3. ASSUME NEW c \in Callers, Middle(c) PROVE CallsOK'
  BY <1>1, <1>3, MiddleGoesOn DEF Threads
<1>4. ASSUME NEW t \in Threads, WSConnect(t) PROVE CallsOK'
  <2>1. GoesOn(t)
    BY <1>4, WSConnectMoves DEF GoesOn, OpAt, Places, WSPlaces
  <2> QED  BY <1>1, <2>1
<1>5. CASE Lost
  <2>1. pc' = [pc EXCEPT ![Reconnector] = "check"] /\ did' = did
    BY <1>5 DEF Lost, Lose, Goes, call
  <2> QED  BY <2>1, BybitAssumption DEF CallsOK, Threads, Places, WSPlaces
<1>6. CASE UNCHANGED <<pc, did>>
  BY <1>6 DEF CallsOK
<1> QED  BY <1>2, <1>3, <1>4, <1>5, <1>6, StepCases

(* Initially nobody has called.                                            *)
LEMMA InitCalls == Init => CallsOK
BY DEF Init, CallsOK, Places, WSPlaces, NoCall, Threads

-----------------------------------------------------------------------------
(* The topic of a call is a topic.                                         *)
LEMMA CalledTopics ==
  ASSUME CallsOK, NEW c \in Callers, pc[c] # "idle" PROVE Called(c) \in Topics
<1>1. did[c] \in [op : Ops, arg : Args]
  BY BybitAssumption DEF CallsOK
<1> QED  BY <1>1 DEF Called, Topics

(* The types but those of pc and did.                                      *)
FlagTypes == connected \in BOOLEAN /\ up \in BOOLEAN /\ crashed \in BOOLEAN
TopicTypes == subscriptions \subseteq Topics /\ parted \subseteq Topics
HandlerTypes == map \subseteq Handlers /\ owed \in [Threads -> SUBSET Handlers]
AnswerTypes ==
  /\ overtaken \subseteq Callers
  /\ result \in [Callers -> {"none", "ok", "error"}]

TypesInv ==
  /\ CallsOK /\ FlagTypes /\ TopicTypes /\ HandlerTypes /\ AnswerTypes
  /\ pc[Reconnector] \in WSPlaces /\ instruments \subseteq Symbols

(* What is registered and owed stays of its type, and every topic that had *)
(* a handler has one, if somebody registers a handler owed or gives it up. *)
LEMMA SettlesKeep ==
  ASSUME HandlerTypes, NEW t \in Threads, NEW pair \in owed[t],
         WS!Register(t, pair) \/ WS!GiveUp(t, pair)
  PROVE  /\ HandlerTypes' /\ UNCHANGED up
         /\ \A topic : Handler(topic) \in map => Handler(topic) \in map'
<1>1. pair \in Handlers /\ owed[t] \subseteq Handlers
  BY DEF HandlerTypes
<1>2. PICK known \in Topics : pair = <<known, "nil">>
  BY <1>1 DEF Handlers, Handler
<1>3. UNCHANGED up /\ owed' = [owed EXCEPT ![t] = @ \ {pair}]
  BY DEF WS!Register, WS!GiveUp, WS!Settles
<1>4. owed' \in [Threads -> SUBSET Handlers]
  BY <1>1, <1>3 DEF HandlerTypes
<1>5. CASE WS!Register(t, pair)
  <2>1. map' = {p \in map : p[1] # known} \cup {pair}
    BY <1>2, <1>5 DEF WS!Register, WS!Without
  <2> QED  BY <1>1, <1>2, <1>3, <1>4, <2>1 DEF HandlerTypes, Handler
<1>6. CASE WS!GiveUp(t, pair)
  BY <1>3, <1>4, <1>6 DEF WS!GiveUp, HandlerTypes
<1> QED  BY <1>5, <1>6

(* So with every step of the WebSocket connector's Connect.                *)
LEMMA WSConnectKeeps ==
  ASSUME HandlerTypes, up \in BOOLEAN, NEW t \in Threads, WSConnect(t)
  PROVE  /\ HandlerTypes' /\ up' \in BOOLEAN
         /\ \A topic : Handler(topic) \in map => Handler(topic) \in map'
<1>1. CASE IsUp(t) \/ IsDown(t) \/ DialFails(t) \/ Restored(t)
  BY <1>1 DEF IsUp, IsDown, DialFails, Restored, HandlerTypes, ws
<1>2. CASE DialOk(t)
  BY <1>2 DEF DialOk, WS!Rise, HandlerTypes
<1>3. CASE Snapshot(t)
  BY <1>3 DEF Snapshot, WS!Resubscribe, WS!Owes, HandlerTypes
<1>4. CASE Restore(t)
  BY <1>4, SettlesKeep DEF Restore
<1> QED  BY <1>1, <1>2, <1>3, <1>4 DEF WSConnect

(* It leaves the types as they are.                                        *)
LEMMA WSConnectTypes ==
  ASSUME TypesInv, CallsOK', NEW t \in Threads, WSConnect(t)
  PROVE  TypesInv'
<1>1. HandlerTypes' /\ up' \in BOOLEAN
  BY WSConnectKeeps DEF TypesInv, FlagTypes
<1>2. UNCHANGED <<table, crashed>>
  <2> USE DEF Returns, call, count
  <2>1. CASE IsUp(t) \/ IsDown(t) \/ DialOk(t) \/ DialFails(t)
    BY <2>1 DEF IsUp, IsDown, DialOk, DialFails
  <2>2. CASE Snapshot(t) \/ Restore(t) \/ Restored(t)
    BY <2>2 DEF Snapshot, Restore, Restored
  <2> QED  BY <2>1, <2>2 DEF WSConnect
<1>3. PICK from, to : /\ Moved(t, from, to)
                      /\ to \in {"idle", "mark", "dial", "snapshot", "restore"}
                      /\ to = "mark" => t # Reconnector
                      /\ UNCHANGED parted
                      /\ \/ UNCHANGED call
                         \/ t # Reconnector /\ Returns(t, from, "error")
  BY WSConnectMoves
<1>4. pc'[Reconnector] \in WSPlaces
  BY <1>3 DEF TypesInv, Moved, CallsOK, Threads, WSPlaces
<1>5. AnswerTypes'
  BY <1>3, BybitAssumption DEF TypesInv, AnswerTypes, Returns, call, Threads,
                               Overtakes
<1> QED
  BY <1>1, <1>2, <1>3, <1>4, <1>5 DEF TypesInv, FlagTypes, TopicTypes, table

(* What the calls within a step of a caller do to the handlers.            *)
LEMMA MiddleHandlers ==
  ASSUME HandlerTypes, CallsOK, NEW c \in Callers, Middle(c)
  PROVE  /\ HandlerTypes'
         /\ Remove(c) \/ \A topic : Handler(topic) \in map => Handler(topic) \in map'
<1>1. CASE Register(c)
  <2>1. Handler(Called(c)) \in owed[c]
    BY <1>1 DEF Register, WS!Register, WS!Settles
  <2> QED  BY <1>1, <2>1, SettlesKeep DEF Register, Threads
<1>2. CASE SubscribeGoes(c)
  <2>1. Handler(Called(c)) \in Handlers
    BY <1>2, CalledTopics DEF SubscribeGoes, Goes, Handlers
  <2> QED
    BY <1>2, <2>1 DEF SubscribeGoes, WS!Subscribe, WS!Owes, Handler, HandlerTypes
<1>3. CASE Remove(c)
  BY <1>3 DEF Remove, WS!Unsubscribe, WS!Without, HandlerTypes
<1>4. CASE WSClose(c)
  BY <1>4 DEF WSClose, WS!Fall, HandlerTypes
<1>5. CASE UNCHANGED ws
  BY <1>5 DEF ws, HandlerTypes
<1> QED
  BY <1>1, <1>2, <1>3, <1>4, <1>5, AskedReturns
     DEF Middle, FetchFails, Fetched, Mark, CloseDown, CloseClears, Already, Lookup,
         SubscribeFails, Record, NotFound, Find, Erase, NoneListed, SomeListed,
         Listed

(* A step of a caller within its call keeps the types.                     *)
LEMMA MiddleTypes ==
  ASSUME TypesInv, CallsOK', NEW c \in Callers, Middle(c)
  PROVE  TypesInv'
<1>1. UNCHANGED crashed /\ pc'[Reconnector] = pc[Reconnector]
  <2>1. UNCHANGED crashed
    <3> USE DEF Returns, count
    <3>1. CASE FetchFails(c) \/ Fetched(c) \/ Mark(c) \/ WSClose(c) \/ CloseDown(c)
                \/ CloseClears(c)
      BY <3>1 DEF FetchFails, Fetched, Mark, WSClose, CloseDown, CloseClears
    <3>2. CASE Already(c) \/ Lookup(c) \/ SubscribeFails(c) \/ SubscribeGoes(c)
                \/ Register(c) \/ Record(c)
      BY <3>2 DEF Already, Lookup, SubscribeFails, SubscribeGoes, Register, Record
    <3>3. CASE NotFound(c) \/ Find(c) \/ Remove(c) \/ Erase(c)
      BY <3>3 DEF NotFound, Find, Remove, Erase
    <3>4. CASE NoneListed(c) \/ SomeListed(c) \/ Listed(c) \/ Asked(c)
      BY <3>4, AskedReturns DEF NoneListed, SomeListed, Listed
    <3> QED  BY <3>1, <3>2, <3>3, <3>4 DEF Middle
  <2>2. PICK from, to : Moved(c, from, to)
    BY MiddleGoesOn DEF GoesOn
  <2> QED  BY <2>1, <2>2, BybitAssumption DEF TypesInv, CallsOK, Moved, Threads
<1>2. \/ UNCHANGED <<result, overtaken>>
      \/ \E from, r : Returns(c, from, r) /\ r \in {"ok", "error"}
  <2> USE DEF call
  <2>1. CASE FetchFails(c) \/ Fetched(c) \/ Mark(c) \/ WSClose(c) \/ CloseDown(c)
              \/ CloseClears(c)
    BY <2>1 DEF FetchFails, Fetched, Mark, WSClose, CloseDown, CloseClears
  <2>2. CASE Already(c) \/ Lookup(c) \/ SubscribeFails(c) \/ SubscribeGoes(c)
              \/ Register(c) \/ Record(c)
    BY <2>2 DEF Already, Lookup, SubscribeFails, SubscribeGoes, Register, Record
  <2>3. CASE NotFound(c) \/ Find(c) \/ Remove(c) \/ Erase(c)
    BY <2>3 DEF NotFound, Find, Remove, Erase
  <2>4. CASE NoneListed(c) \/ SomeListed(c) \/ Listed(c) \/ Asked(c)
    BY <2>4, AskedReturns DEF NoneListed, SomeListed, Listed
  <2> QED  BY <2>1, <2>2, <2>3, <2>4 DEF Middle
<1>3. /\ connected' \in BOOLEAN /\ up' \in BOOLEAN /\ instruments' \subseteq Symbols
      /\ subscriptions' \subseteq Topics /\ parted' \subseteq Topics
  <2> USE DEF table, ws, call, Returns, FlagTypes, TopicTypes, TypesInv
  <2>1. CASE FetchFails(c) \/ Fetched(c) \/ Mark(c) \/ WSClose(c) \/ CloseDown(c)
              \/ CloseClears(c)
    BY <2>1 DEF FetchFails, Fetched, Mark, WSClose, CloseDown, CloseClears, Trading,
                WS!Fall
  <2>2. CASE Already(c) \/ Lookup(c) \/ SubscribeFails(c) \/ SubscribeGoes(c)
    BY <2>2 DEF Already, Lookup, SubscribeFails, SubscribeGoes, WS!Subscribe, WS!Owes
  <2>3. CASE Register(c) \/ Record(c)
    BY <2>3, CalledTopics DEF Register, Record, Goes, WS!Register, WS!Settles
  <2>4. CASE NotFound(c) \/ Find(c) \/ Erase(c)
    BY <2>4 DEF NotFound, Find, Erase
  <2>5. CASE Remove(c)
    BY <2>5, CalledTopics DEF Remove, Goes, WS!Unsubscribe
  <2>6. CASE NoneListed(c) \/ SomeListed(c) \/ Listed(c) \/ Asked(c)
    BY <2>6, AskedReturns DEF NoneListed, SomeListed, Listed
  <2> QED  BY <2>1, <2>2, <2>3, <2>4, <2>5, <2>6 DEF Middle
<1>4. HandlerTypes'
  BY MiddleHandlers DEF TypesInv
<1>5. AnswerTypes'
  BY <1>2 DEF TypesInv, AnswerTypes, Returns, Overtakes
<1> QED  BY <1>1, <1>3, <1>4, <1>5 DEF TypesInv, FlagTypes, TopicTypes

(* Every step keeps them.                                                  *)
LEMMA TypesStep == TypesInv /\ [Next]_vars => TypesInv'
<1> SUFFICES ASSUME TypesInv, [Next]_vars PROVE TypesInv'
  OBVIOUS
<1>1. CallsOK'
  BY CallsStep DEF TypesInv
<1>2. ASSUME NEW c \in Callers, Start(c) PROVE TypesInv'
  <2>1. PICK op, r, to : Calls(c, op, to, r) /\ r \in {"none", "error"}
    BY <1>2, StartCalls
  <2>2. /\ pc' = [pc EXCEPT ![c] = to] /\ result' = [result EXCEPT ![c] = r]
        /\ overtaken' = overtaken \ {c}
        /\ UNCHANGED <<table, ws, parted, crashed>>
    BY <2>1 DEF Calls, Goes
  <2> QED
    BY <1>1, <2>1, <2>2, BybitAssumption
       DEF TypesInv, FlagTypes, TopicTypes, HandlerTypes, AnswerTypes, CallsOK,
           Threads, table, ws
<1>3. ASSUME NEW c \in Callers, Middle(c) PROVE TypesInv'
  BY <1>1, <1>3, MiddleTypes
<1>4. ASSUME NEW t \in Threads, WSConnect(t) PROVE TypesInv'
  BY <1>1, <1>4, WSConnectTypes
<1>5. CASE Lost \/ Closed
  BY <1>1, <1>5
     DEF Lost, Closed, Lose, Goes, table, call, TypesInv, FlagTypes, TopicTypes,
         HandlerTypes, AnswerTypes, CallsOK, Threads, WSPlaces, WS!Fall
<1>6. ASSUME Message \/ Rest \/ UNCHANGED vars
             \/ \E c, d \in Callers : MapFault(c, d)
      PROVE  TypesInv'
  BY <1>1, <1>6
     DEF Message, MapFault, Rest, vars, table, ws, call, count, TypesInv,
         FlagTypes, TopicTypes, HandlerTypes, AnswerTypes
<1> QED
  BY <1>2, <1>3, <1>4, <1>5, <1>6
     DEF Next, CallerStep, Start, Middle, Threads

(* Initially everything is of its type.                                    *)
LEMMA InitTypes == Init => TypesInv
BY InitCalls DEF Init, TypesInv, FlagTypes, TopicTypes, HandlerTypes, AnswerTypes,
                 WSPlaces, Threads, WS!Init

(* The state stays of its type for any callers, calls, losses and symbols: *)
(* in particular what is subscribed, registered again or answered is a     *)
(* topic of a known symbol and interval (476-556, ws 937-975).             *)
THEOREM BybitTypeCorrect == Spec => []BybitTypeOK
<1>1. Init => TypesInv
  BY InitTypes
<1>2. TypesInv /\ [Next]_vars => TypesInv'
  BY TypesStep
<1>3. TypesInv => BybitTypeOK
  BY DEF TypesInv, CallsOK, FlagTypes, TopicTypes, HandlerTypes, AnswerTypes,
         BybitTypeOK
<1> QED  BY <1>1, <1>2, <1>3, PTL DEF Spec

-----------------------------------------------------------------------------
(* The table and the handlers.                                             *)
Served(topic) == Handler(topic) \in map \/ topic \in parted
Erasing(topic) == \E c \in Callers : pc[c] = "erase" /\ Called(c) = topic

(* A step that neither records nor erases, but keeps what is served.       *)
LEMMA MovesServe ==
  ASSUME CallsOK, Registered, TableServed, NEW t \in Threads, NEW from, NEW to,
         Moved(t, from, to), from # "erase", to # "record",
         UNCHANGED did, subscriptions' \subseteq subscriptions,
         \A topic : Served(topic) => Served(topic)'
  PROVE  Registered' /\ TableServed'
<1>1. \A d \in Callers : pc'[d] = IF d = t THEN to ELSE pc[d]
  BY DEF CallsOK, Moved, Threads
<1>2. Registered'
  BY <1>1 DEF Registered, Served, Called
<1>3. \A topic : Erasing(topic) => Erasing(topic)'
  BY <1>1 DEF Erasing, Moved, Called
<1>4. TableServed'
  BY <1>3 DEF TableServed, Served, Erasing
<1> QED  BY <1>2, <1>4

(* A step of a caller within its call keeps every topic of the table       *)
(* served.                                                                 *)
LEMMA MiddleServes ==
  ASSUME CallsOK, HandlerTypes, Registered, TableServed, NEW c \in Callers,
         Middle(c)
  PROVE  Registered' /\ TableServed'
<1>1. c \in Threads /\ pc \in [Threads -> Places]
  BY DEF Threads, CallsOK
<1>2. CASE Register(c)
  <2>1. /\ pc[c] = "register" /\ pc' = [pc EXCEPT ![c] = "record"]
        /\ parted' = parted \ {Called(c)}
        /\ UNCHANGED <<subscriptions, did>>
        /\ Handler(Called(c)) \in map'
    BY <1>2 DEF Register, Goes, WS!Register, table
  <2>2. \A topic : Handler(topic) \in map => Handler(topic) \in map'
    BY <1>2, MiddleHandlers DEF Remove, Register, Goes
  <2>3. \A topic : Served(topic) => Served(topic)'
    BY <2>1, <2>2 DEF Served
  <2>4. \A d \in Callers : pc'[d] = IF d = c THEN "record" ELSE pc[d]
    BY <1>1, <2>1 DEF Threads
  <2>5. Registered'
    BY <2>1, <2>3, <2>4 DEF Registered, Served, Called
  <2>6. \A topic : Erasing(topic) => Erasing(topic)'
    BY <2>1, <2>4 DEF Erasing, Called
  <2>7. TableServed'
    BY <2>1, <2>3, <2>6 DEF TableServed, Served, Erasing
  <2> QED  BY <2>5, <2>7
<1>3. CASE Record(c)
  <2>1. /\ pc[c] = "record" /\ pc' = [pc EXCEPT ![c] = "idle"]
        /\ subscriptions' = subscriptions \cup {Called(c)}
        /\ UNCHANGED <<did, parted, map>>
    BY <1>3 DEF Record, Returns, Goes, ws
  <2>2. \A d \in Callers : pc'[d] = IF d = c THEN "idle" ELSE pc[d]
    BY <1>1, <2>1 DEF Threads
  <2>3. Registered'
    BY <2>1, <2>2 DEF Registered, Called, Handler
  <2>4. Handler(Called(c)) \in map \/ Called(c) \in parted
    BY <2>1 DEF Registered
  <2>5. \A topic : Erasing(topic) => Erasing(topic)'
    BY <2>1, <2>2 DEF Erasing, Called
  <2>6. \A topic : Served(topic)' <=> Served(topic)
    BY <2>1 DEF Served, Handler
  <2>7. TableServed'
    BY <2>1, <2>4, <2>5, <2>6 DEF TableServed, Served, Erasing
  <2> QED  BY <2>3, <2>7
<1>4. CASE Remove(c)
  <2>1. /\ pc[c] = "remove" /\ pc' = [pc EXCEPT ![c] = "erase"]
        /\ map' = {pair \in map : pair[1] # Called(c)}
        /\ parted' = parted \cup {topic \in {Called(c)} : Recording(topic)}
        /\ UNCHANGED <<did, subscriptions>>
    BY <1>4 DEF Remove, Goes, WS!Unsubscribe, WS!Without, table
  <2>2. \A d \in Callers : pc'[d] = IF d = c THEN "erase" ELSE pc[d]
    BY <1>1, <2>1 DEF Threads
  <2>3. \A topic : topic # Called(c) /\ Served(topic) => Served(topic)'
    BY <2>1 DEF Served, Handler
  <2>4. Registered'
    <3> SUFFICES ASSUME NEW d \in Callers, pc'[d] = "record"
                 PROVE  Served(Called(d))'
      BY DEF Registered, Served
    <3>1. pc[d] = "record" /\ Called(d)' = Called(d) /\ Served(Called(d))
      BY <2>1, <2>2 DEF Registered, Called, Served
    <3>2. CASE Called(d) = Called(c)
      BY <2>1, <3>1, <3>2 DEF Recording, Served
    <3>3. CASE Called(d) # Called(c)
      BY <2>3, <3>1, <3>3 DEF Served
    <3> QED  BY <3>2, <3>3
  <2>5. \A topic : Erasing(topic) => Erasing(topic)'
    BY <2>1, <2>2 DEF Erasing, Called
  <2>6. ASSUME NEW topic \in subscriptions PROVE Served(topic)' \/ Erasing(topic)'
    <3>1. Served(topic) \/ Erasing(topic)
      BY DEF TableServed, Served, Erasing
    <3>2. CASE topic = Called(c)
      BY <2>1, <2>2, <3>2 DEF Erasing, Called
    <3>3. CASE topic # Called(c)
      BY <3>1, <3>3, <2>3, <2>5
    <3> QED  BY <3>2, <3>3
  <2>7. TableServed'
    BY <2>1, <2>6 DEF TableServed, Served, Erasing
  <2> QED  BY <2>4, <2>7
<1>5. CASE Erase(c)
  <2>1. /\ pc[c] = "erase" /\ pc' = [pc EXCEPT ![c] = "idle"]
        /\ subscriptions' = subscriptions \ {Called(c)}
        /\ UNCHANGED <<did, parted, map>>
    BY <1>5 DEF Erase, Returns, Goes, ws
  <2>2. \A d \in Callers : pc'[d] = IF d = c THEN "idle" ELSE pc[d]
    BY <1>1, <2>1 DEF Threads
  <2>3. Registered'
    BY <2>1, <2>2 DEF Registered, Called, Handler
  <2>4. \A topic : topic # Called(c) /\ Erasing(topic) => Erasing(topic)'
    BY <2>1, <2>2 DEF Erasing, Called
  <2>5. \A topic : Served(topic)' <=> Served(topic)
    BY <2>1 DEF Served, Handler
  <2>6. TableServed'
    BY <2>1, <2>4, <2>5 DEF TableServed, Served, Erasing
  <2> QED  BY <2>3, <2>6
<1>6. CASE CloseClears(c)
  <2>1. /\ Moved(c, "clear", "idle") /\ UNCHANGED <<did, parted, map>>
        /\ subscriptions' = {}
    BY <1>6 DEF CloseClears, Returns, Goes, Moved, ws
  <2>2. \A topic : Served(topic) => Served(topic)'
    BY <2>1 DEF Served, Handler
  <2> QED  BY <1>1, <2>1, <2>2, MovesServe
<1>7. CASE \/ FetchFails(c) \/ Fetched(c) \/ Mark(c) \/ WSClose(c) \/ CloseDown(c)
           \/ Already(c) \/ Lookup(c) \/ SubscribeFails(c) \/ SubscribeGoes(c)
           \/ NotFound(c) \/ Find(c)
  <2> USE DEF Goes, Returns, Moved, table, call
  <2>1. \E from, to : /\ Moved(c, from, to) /\ from # "erase" /\ to # "record"
                      /\ UNCHANGED <<did, parted, subscriptions>>
    <3>1. CASE FetchFails(c) \/ Fetched(c) \/ Mark(c) \/ WSClose(c) \/ CloseDown(c)
      BY <3>1 DEF FetchFails, Fetched, Mark, WSClose, CloseDown
    <3>2. CASE \/ Already(c) \/ Lookup(c) \/ SubscribeFails(c)
               \/ SubscribeGoes(c) \/ NotFound(c) \/ Find(c)
      BY <3>2 DEF Already, Lookup, SubscribeFails, SubscribeGoes, NotFound, Find
    <3> QED  BY <1>7, <3>1, <3>2
  <2>2. ~Remove(c)
    BY <1>7 DEF FetchFails, Fetched, Mark, WSClose, CloseDown, Already, Lookup,
                SubscribeFails, SubscribeGoes, NotFound, Find, Remove
  <2>3. \A topic : Served(topic) => Served(topic)'
    BY <2>1, <2>2, MiddleHandlers DEF Served
  <2> QED  BY <1>1, <2>1, <2>3, MovesServe
<1>8. CASE NoneListed(c) \/ SomeListed(c) \/ Listed(c) \/ Asked(c)
  <2> USE DEF Goes, Returns, Moved, table, ws, call
  <2>1. \E from, to : /\ Moved(c, from, to) /\ from # "erase" /\ to # "record"
                      /\ UNCHANGED <<did, parted, subscriptions, map>>
    <3>1. CASE NoneListed(c) \/ SomeListed(c)
      BY <3>1 DEF NoneListed, SomeListed
    <3>2. CASE Listed(c) \/ Asked(c)
      BY <3>2, AskedReturns DEF Listed
    <3> QED  BY <1>8, <3>1, <3>2
  <2>2. \A topic : Served(topic) => Served(topic)'
    BY <2>1 DEF Served, Handler
  <2> QED  BY <1>1, <2>1, <2>2, MovesServe
<1> QED  BY <1>2, <1>3, <1>4, <1>5, <1>6, <1>7, <1>8 DEF Middle

(* Every step does.                                                        *)
LEMMA ServedStep ==
  ASSUME TypesInv, Registered, TableServed, [Next]_vars
  PROVE  Registered' /\ TableServed'
<1>1. CallsOK /\ HandlerTypes /\ up \in BOOLEAN
  BY DEF TypesInv, FlagTypes
<1>2. ASSUME NEW c \in Callers, Start(c) PROVE Registered' /\ TableServed'
  <2>1. PICK op, r, to :
          /\ Calls(c, op, to, r)
          /\ to \in {"idle", "fetch", "wsclose", "lookup", "find", "symbols"}
    BY <1>2, StartCalls
  <2>2. /\ pc[c] = "idle" /\ pc' = [pc EXCEPT ![c] = to]
        /\ \E use \in Uses[c] : did' = [did EXCEPT ![c] = use]
        /\ UNCHANGED <<subscriptions, map, parted>>
    BY <2>1 DEF Calls, Goes, table, ws
  <2>3. \A d \in Callers : /\ pc'[d] = IF d = c THEN to ELSE pc[d]
                           /\ d # c => did'[d] = did[d]
    BY <1>1, <2>2 DEF CallsOK, Threads
  <2>4. Registered'
    BY <2>1, <2>2, <2>3 DEF Registered, Called, Handler
  <2>5. \A topic : Erasing(topic) => Erasing(topic)'
    BY <2>2, <2>3 DEF Erasing, Called
  <2>6. \A topic : Served(topic)' <=> Served(topic)
    BY <2>2 DEF Served, Handler
  <2>7. TableServed'
    BY <2>2, <2>5, <2>6 DEF TableServed, Served, Erasing
  <2> QED  BY <2>4, <2>7
<1>3. ASSUME NEW c \in Callers, Middle(c) PROVE Registered' /\ TableServed'
  BY <1>1, <1>3, MiddleServes
<1>4. ASSUME NEW t \in Threads, WSConnect(t) PROVE Registered' /\ TableServed'
  <2>1. \A topic : Served(topic) => Served(topic)'
    BY <1>1, <1>4, WSConnectKeeps, WSConnectMoves DEF Served
  <2>2. \E from, to : /\ Moved(t, from, to) /\ from # "erase" /\ to # "record"
                      /\ UNCHANGED <<did, subscriptions>>
    BY <1>4, WSConnectMoves
  <2> QED  BY <1>1, <2>1, <2>2, MovesServe
<1>5. CASE Lost
  <2>1. /\ Moved(Reconnector, "idle", "check")
        /\ UNCHANGED <<did, subscriptions, map, parted>>
    BY <1>5 DEF Lost, Lose, Goes, Moved, table, call, WS!Fall
  <2>2. \A topic : Served(topic) => Served(topic)'
    BY <2>1 DEF Served, Handler
  <2> QED  BY <1>1, <2>1, <2>2, MovesServe DEF Threads
<1>6. CASE UNCHANGED <<pc, did, result, overtaken, parted, subscriptions, map>>
  BY <1>6 DEF Registered, TableServed, Called, Handler
<1> QED  BY <1>2, <1>3, <1>4, <1>5, <1>6, StepCases

(* Every topic of the table has its handler, but for the two exceptions    *)
(* that TableServed names, for any number of callers, of one topic or of   *)
(* several, of connections lost and of calls.                              *)
THEOREM TablesServed == Spec => []TableServed
<1>1. Init => TypesInv /\ Registered /\ TableServed
  BY InitTypes DEF Init, Registered, TableServed, Threads
<1>2. TypesInv /\ Registered /\ TableServed /\ [Next]_vars
        => TypesInv' /\ Registered' /\ TableServed'
  BY TypesStep, ServedStep
<1> QED  BY <1>1, <1>2, PTL DEF Spec

-----------------------------------------------------------------------------
(* What one caller was told.                                               *)
Told(c) ==
  pc[c] = "idle" /\ result[c] = "ok" /\ c \notin overtaken =>
    /\ did[c].op = "Subscribe" => Called(c) \in subscriptions
    /\ did[c].op = "Unsubscribe" => Called(c) \notin subscriptions

(* A step within a call tells nobody anything.                             *)
LEMMA MovesTell ==
  ASSUME CallsOK, TableTells, NEW t \in Threads, NEW from, NEW to,
         Moved(t, from, to), t \in Callers => to # "idle",
         UNCHANGED <<subscriptions, did, result, overtaken>>
  PROVE  TableTells'
<1> SUFFICES ASSUME NEW d \in Callers PROVE Told(d)'
  BY DEF TableTells, Told
<1>1. Told(d)
  BY DEF TableTells, Told
<1>2. pc'[d] = IF d = t THEN to ELSE pc[d]
  BY DEF CallsOK, Moved, Threads
<1> QED  BY <1>1, <1>2 DEF Told, Called

(* A call that ends says what the table says, if what it does to the table *)
(* is what was asked of it and overtakes those whose business it is.       *)
LEMMA ReturnsTell ==
  ASSUME CallsOK, AnswerTypes, TableTells, NEW c \in Callers, NEW from, NEW r,
         Returns(c, from, r), from # "idle",
         r # "error" => Told(c)',
         \A d \in Callers \ {c} :
           \/ did[d].op \notin Streams \/ d \in overtaken'
           \/ Called(d) \in subscriptions' <=> Called(d) \in subscriptions
  PROVE  TableTells'
<1> SUFFICES ASSUME NEW d \in Callers PROVE Told(d)'
  BY DEF TableTells, Told
<1>1. Told(d)
  BY DEF TableTells, Told
<1>2. /\ did' = did
      /\ pc'[d] = IF d = c THEN "idle" ELSE pc[d]
      /\ result'[d] = IF d = c THEN r ELSE result[d]
      /\ d # c => (d \notin overtaken' => d \notin overtaken)
  BY DEF Returns, Goes, CallsOK, AnswerTypes, Threads
<1>3. CASE d = c
  BY <1>2, <1>3 DEF Told
<1>4. CASE d # c
  BY <1>1, <1>2, <1>4 DEF Told, Called, Streams
<1> QED  BY <1>3, <1>4

(* Whoever shares the topic of a successful call is overtaken by it.       *)
LEMMA SharersOvertaken ==
  ASSUME NEW c \in Callers, NEW from, Returns(c, from, "ok"),
         did[c].op \in Streams,
         NEW d \in Callers \ {c}, did[d].op \in Streams, Called(d) = Called(c)
  PROVE  d \in overtaken'
BY DEF Returns, Overtakes, Shares

(* A step of a caller within its call keeps what the callers were told.    *)
LEMMA MiddleTells ==
  ASSUME CallsOK, AnswerTypes, TableTells, NEW c \in Callers, Middle(c)
  PROVE  TableTells'
<1>1. pc[c] # "idle" => did[c].op = OpAt(pc[c])
  BY DEF CallsOK
<1>2. CASE \/ Fetched(c) \/ WSClose(c) \/ CloseDown(c) \/ Lookup(c)
           \/ SubscribeGoes(c) \/ Register(c) \/ Find(c) \/ Remove(c)
           \/ SomeListed(c)
  <2>1. \E from, to : /\ Moved(c, from, to) /\ to # "idle"
                      /\ UNCHANGED <<subscriptions, did, result, overtaken>>
    BY <1>2 DEF Fetched, WSClose, CloseDown, Lookup, SubscribeGoes, Register,
                Find, Remove, SomeListed, Goes, Moved, table, call
  <2> QED  BY <2>1, MovesTell DEF Threads
<1>3. CASE FetchFails(c) \/ SubscribeFails(c) \/ NotFound(c)
  <2>1. \E from : /\ Returns(c, from, "error") /\ from # "idle"
                  /\ UNCHANGED subscriptions
    BY <1>3 DEF FetchFails, SubscribeFails, NotFound, table
  <2> QED  BY <2>1, ReturnsTell DEF Called, Returns
<1>4. CASE Mark(c) \/ NoneListed(c) \/ Listed(c) \/ Asked(c)
  <2>1. CASE \E from : /\ Moved(c, from, "ask")
                      /\ UNCHANGED <<subscriptions, did, result, overtaken>>
    BY <2>1, MovesTell DEF Threads
  <2>2. CASE \E from \in {"mark", "symbols", "listed", "ask"},
                r \in {"ok", "error"} :
               Returns(c, from, r) /\ UNCHANGED subscriptions
    <3>1. PICK from \in {"mark", "symbols", "listed", "ask"},
               r \in {"ok", "error"} :
            Returns(c, from, r) /\ UNCHANGED subscriptions
      BY <2>2
    <3>2. /\ did[c].op \in {"Connect", "Get"} /\ did' = did
      BY <1>1, <3>1 DEF Returns, Goes, OpAt, WSPlaces
    <3> QED  BY <3>1, <3>2, ReturnsTell DEF Told
  <2>3. CASE Mark(c) \/ Asked(c)
    BY <2>2, <2>3, AskedReturns DEF Mark, table
  <2>4. CASE NoneListed(c) \/ Listed(c)
    BY <2>1, <2>2, <2>4 DEF NoneListed, Listed, Goes, Moved, table, call
  <2> QED  BY <1>4, <2>3, <2>4
<1>5. CASE CloseClears(c)
  <2>1. PICK r : Returns(c, "clear", r) /\ subscriptions' = {}
    BY <1>5 DEF CloseClears
  <2>2. did[c].op = "Close" /\ did' = did
    BY <1>1, <2>1 DEF Returns, Goes, OpAt, WSPlaces
  <2>3. Callers \ {c} \subseteq overtaken'
    BY <2>1, <2>2 DEF Returns, Overtakes
  <2> QED  BY <2>1, <2>2, <2>3, ReturnsTell DEF Told
<1>6. CASE Already(c) \/ Record(c)
  <2>1. PICK from \in {"lookup", "record"} : Returns(c, from, "ok")
    BY <1>6 DEF Already, Record
  <2>2. did[c].op = "Subscribe" /\ did' = did
    BY <1>1, <2>1 DEF Returns, Goes, OpAt, WSPlaces
  <2>3. /\ Called(c) \in subscriptions'
        /\ subscriptions' = subscriptions \cup {Called(c)}
    BY <1>6 DEF Already, Record, table
  <2>4. ASSUME NEW d \in Callers \ {c}, did[d].op \in Streams,
               d \notin overtaken'
        PROVE  Called(d) \in subscriptions' <=> Called(d) \in subscriptions
    BY <2>1, <2>2, <2>3, <2>4, SharersOvertaken DEF Streams
  <2>5. Told(c)'
    BY <2>2, <2>3 DEF Told, Called
  <2> QED  BY <2>1, <2>4, <2>5, ReturnsTell
<1>7. CASE Erase(c)
  <2>1. /\ Returns(c, "erase", "ok")
        /\ subscriptions' = subscriptions \ {Called(c)}
    BY <1>7 DEF Erase
  <2>2. did[c].op = "Unsubscribe" /\ did' = did
    BY <1>1, <2>1 DEF Returns, Goes, OpAt, WSPlaces
  <2>3. ASSUME NEW d \in Callers \ {c}, did[d].op \in Streams,
               d \notin overtaken'
        PROVE  Called(d) \in subscriptions' <=> Called(d) \in subscriptions
    BY <2>1, <2>2, <2>3, SharersOvertaken DEF Streams
  <2>4. Told(c)'
    BY <2>1, <2>2 DEF Told, Called
  <2> QED  BY <2>1, <2>3, <2>4, ReturnsTell
<1> QED  BY <1>2, <1>3, <1>4, <1>5, <1>6, <1>7 DEF Middle

(* Every step keeps what the callers were told.                            *)
LEMMA TellsStep ==
  ASSUME TypesInv, TableTells, [Next]_vars PROVE TableTells'
<1>1. CallsOK /\ AnswerTypes
  BY DEF TypesInv
<1>2. ASSUME NEW c \in Callers, Start(c) PROVE TableTells'
  <2>1. PICK op, r, to : Calls(c, op, to, r) /\ (to = "idle" => r = "error")
    BY <1>2, StartCalls
  <2>2. /\ Moved(c, "idle", to) /\ UNCHANGED subscriptions
        /\ \E use \in Uses[c] : did' = [did EXCEPT ![c] = use]
        /\ result' = [result EXCEPT ![c] = r] /\ overtaken' = overtaken \ {c}
    BY <2>1 DEF Calls, Goes, Moved, table
  <2>3. \A d \in Callers : /\ pc'[d] = IF d = c THEN to ELSE pc[d]
                           /\ result'[d] = IF d = c THEN r ELSE result[d]
                           /\ d # c => did'[d] = did[d]
    BY <1>1, <2>2 DEF CallsOK, AnswerTypes, Moved, Threads
  <2> QED  BY <2>1, <2>2, <2>3 DEF TableTells, Called
<1>3. ASSUME NEW c \in Callers, Middle(c) PROVE TableTells'
  BY <1>1, <1>3, MiddleTells
<1>4. ASSUME NEW t \in Threads, WSConnect(t) PROVE TableTells'
  <2>1. PICK from, to :
          /\ Moved(t, from, to) /\ UNCHANGED <<subscriptions, did>>
          /\ from \in {"check", "dial", "snapshot", "restore"}
          /\ to = "idle" /\ t # Reconnector => Returns(t, from, "error")
          /\ to # "idle" \/ t = Reconnector => UNCHANGED call
    BY <1>4, WSConnectMoves
  <2>2. CASE to # "idle" \/ t = Reconnector
    BY <1>1, <2>1, <2>2, MovesTell, BybitAssumption DEF call
  <2>3. CASE to = "idle" /\ t # Reconnector
    BY <1>1, <2>1, <2>3, ReturnsTell DEF Threads, Called
  <2> QED  BY <2>2, <2>3
<1>5. CASE Lost
  <2>1. /\ Moved(Reconnector, "idle", "check") /\ Reconnector \notin Callers
        /\ UNCHANGED <<subscriptions, did, result, overtaken>>
    BY <1>5, BybitAssumption DEF Lost, Lose, Goes, Moved, table, call
  <2> QED  BY <1>1, <2>1, MovesTell DEF Threads
<1>6. CASE UNCHANGED <<pc, did, result, overtaken, parted, subscriptions, map>>
  BY <1>6 DEF TableTells, Called
<1> QED  BY <1>2, <1>3, <1>4, <1>5, <1>6, StepCases

(* What a caller has been told is what the table says, until another one   *)
(* overtakes it, for any number of callers, of one topic or of several, of *)
(* connections lost and of calls.                                          *)
THEOREM TablesTell == Spec => []TableTells
<1>1. Init => TypesInv /\ TableTells
  BY InitTypes DEF Init, TableTells
<1>2. TypesInv /\ TableTells /\ [Next]_vars => TypesInv' /\ TableTells'
  BY TypesStep, TellsStep
<1> QED  BY <1>1, <1>2, PTL DEF Spec

-----------------------------------------------------------------------------
(* A subscription or an unsubscription under way is of a supported         *)
(* interval.                                                               *)
SupportedOK ==
  \A c \in Callers : OpAt(pc[c]) \in {"Subscribe", "Unsubscribe"} =>
                       did[c].arg.interval \in Supported

(* Every step keeps that.                                                  *)
LEMMA SupportedStep ==
  ASSUME CallsOK, SupportedOK, [Next]_vars PROVE SupportedOK'
<1>1. ASSUME NEW t \in Threads, GoesOn(t) PROVE SupportedOK'
  <2>1. PICK from, to \in Places :
          /\ Moved(t, from, to) /\ did' = did /\ from # "idle"
          /\ to = "idle" \/ OpAt(to) = OpAt(from)
    BY <1>1 DEF GoesOn
  <2>2. \A d \in Callers : pc'[d] = IF d = t THEN to ELSE pc[d]
    BY <2>1 DEF CallsOK, Moved, Threads
  <2>3. OpAt("idle") = "Connect"
    BY DEF OpAt, WSPlaces
  <2> QED  BY <2>1, <2>2, <2>3 DEF SupportedOK, Moved
<1>2. ASSUME NEW c \in Callers, Start(c) PROVE SupportedOK'
  <2>1. PICK op, r, to :
          /\ Calls(c, op, to, r)
          /\ \/ to \in {"idle", "fetch", "wsclose", "symbols"}
             \/ did'[c].arg.interval \in Supported
    BY <1>2, StartCalls DEF OpAt, WSPlaces
  <2>2. /\ pc' = [pc EXCEPT ![c] = to]
        /\ \E use \in Uses[c] : did' = [did EXCEPT ![c] = use]
    BY <2>1 DEF Calls, Goes
  <2>3. \A d \in Callers : /\ pc'[d] = IF d = c THEN to ELSE pc[d]
                           /\ d # c => did'[d] = did[d]
    BY <2>2 DEF CallsOK, Threads
  <2>4. to \in {"idle", "fetch", "wsclose", "symbols"} =>
          OpAt(to) \notin {"Subscribe", "Unsubscribe"}
    BY DEF OpAt, WSPlaces
  <2> QED  BY <2>1, <2>3, <2>4 DEF SupportedOK
<1>3. ASSUME NEW c \in Callers, Middle(c) PROVE SupportedOK'
  BY <1>1, <1>3, MiddleGoesOn DEF Threads
<1>4. ASSUME NEW t \in Threads, WSConnect(t) PROVE SupportedOK'
  <2>1. GoesOn(t)
    BY <1>4, WSConnectMoves DEF GoesOn, OpAt, Places, WSPlaces
  <2> QED  BY <1>1, <2>1
<1>5. CASE Lost
  <2>1. pc' = [pc EXCEPT ![Reconnector] = "check"] /\ did' = did
    BY <1>5 DEF Lost, Lose, Goes, call
  <2> QED  BY <2>1, BybitAssumption DEF CallsOK, SupportedOK, Threads
<1>6. CASE UNCHANGED <<pc, did>>
  BY <1>6 DEF SupportedOK
<1> QED  BY <1>2, <1>3, <1>4, <1>5, <1>6, StepCases

(* Two supported intervals convert to different ones.                      *)
LEMMA ConvertInjective ==
  ASSUME NEW i \in Supported, NEW j \in Supported, Convert(i) = Convert(j)
  PROVE  i = j
BY DEF Supported, Convert

(* Two arguments of supported intervals have different topics.             *)
LEMMA TopicInjective ==
  ASSUME NEW a \in Args, NEW b \in Args, a # b,
         a.interval \in Supported, b.interval \in Supported
  PROVE  Topic(a) # Topic(b)
<1>1. a.symbol # b.symbol \/ a.interval # b.interval
  BY DEF Args
<1> QED  BY <1>1, ConvertInjective DEF Topic

(* Recording or erasing a subscription touches that of no other symbol and *)
(* supported interval, for any symbols and callers.                        *)
THEOREM SubscriptionsKeptApart == Spec => OthersKept
<1> DEFINE Inv == CallsOK /\ SupportedOK
           Kept == \A c \in Callers : pc[c] \in {"record", "erase"} /\ pc'[c] = "idle" =>
                     \A a \in Args :
                       a.interval \in Supported /\ a # did[c].arg =>
                         (Topic(a) \in subscriptions' <=> Topic(a) \in subscriptions)
<1>1. Init => Inv
  BY InitCalls DEF Init, SupportedOK, OpAt, WSPlaces, Threads
<1>2. Inv /\ [Next]_vars => Inv'
  BY CallsStep, SupportedStep
<1>3. Inv /\ [Next]_vars => [Kept]_vars
  <2> SUFFICES ASSUME Inv, Next, NEW c \in Callers, pc[c] \in {"record", "erase"},
                      pc'[c] = "idle", NEW a \in Args, a.interval \in Supported,
                      a # did[c].arg
               PROVE  Topic(a) \in subscriptions' <=> Topic(a) \in subscriptions
    OBVIOUS
  <2>1. CASE UNCHANGED subscriptions
    BY <2>1
  <2>2. CASE \E d \in Callers : Record(d) \/ Erase(d)
    <3>1. Record(c) \/ Erase(c)
      BY <2>2 DEF Record, Erase, Returns, Goes, CallsOK, Threads
    <3>2. did[c] \in [op : Ops, arg : Args] /\ did[c].arg.interval \in Supported
      BY BybitAssumption DEF CallsOK, SupportedOK, OpAt, WSPlaces
    <3> QED  BY <3>1, <3>2, TopicInjective DEF Record, Erase, Called
  <2>3. CASE \E d \in Callers : CloseClears(d)
    BY <2>3 DEF CloseClears, Returns, Goes, CallsOK, Threads
  <2>4. ASSUME NEW d \in Callers, Middle(d)
        PROVE  UNCHANGED subscriptions \/ Record(d) \/ Erase(d) \/ CloseClears(d)
    BY <2>4, AskedReturns
       DEF Middle, FetchFails, Fetched, Mark, WSClose, CloseDown, Already, Lookup,
           SubscribeFails, SubscribeGoes, Register, NotFound, Find, Remove,
           NoneListed, SomeListed, Listed, table
  <2>5. ASSUME NEW d \in Callers, Start(d) PROVE UNCHANGED subscriptions
    BY <2>5, StartCalls DEF Calls, table
  <2>6. Lost => UNCHANGED subscriptions
    BY DEF Lost, Lose, table
  <2> QED  BY <2>1, <2>2, <2>3, <2>4, <2>5, <2>6, StepCases, WSConnectMoves
<1> QED  BY <1>1, <1>2, <1>3, PTL DEF Spec, OthersKept

-----------------------------------------------------------------------------
(* Whatever limit is given, GetCandles asks for one that the server takes, *)
(* and for the one given if that is one (342-346).                         *)
THEOREM LimitInBounds ==
  \A n \in Int : Limit(n) \in 1 .. 1000 /\ (n \in 1 .. 1000 => Limit(n) = n)
BY DEF Limit

(* Whatever depth is given, GetOrderBook asks for the smallest the server  *)
(* knows that covers it, or for the largest there is (411-418).            *)
THEOREM DepthCovers ==
  \A d \in Int : /\ Depth(d) \in {1, 50, 200}
                 /\ Depth(d) >= d \/ Depth(d) = 200
                 /\ \A e \in {1, 50, 200} : e >= d => Depth(d) <= e
BY DEF Depth

=============================================================================

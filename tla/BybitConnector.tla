--------------------------- MODULE BybitConnector ---------------------------
(* The Bybit connector, pkg/exchanges/bybit/connector.go: the connected    *)
(* flag, the table of subscriptions and the list of instruments, none of   *)
(* them under a lock, on top of the WebSocket connector that it drives     *)
(* (pkg/websocket/connector.go).  Of that one it knows what HandlerMap     *)
(* promises, which MessagePipeline implements: its state is HandlerMap's,  *)
(* and whatever happens to it is a step of HandlerMap, made by a call of   *)
(* this connector, by a lost connection or by the reconnect after it.      *)
EXTENDS BybitQueries

CONSTANTS
  Callers,      \* goroutines of the application
  Reconnector,  \* the WebSocket connector's own Connect, made by reconnect
  Symbols,      \* the trading pairs
  Long,         \* those with at least five characters
  Intervals,    \* the intervals asked for, supported or not
  Uses,         \* Uses[c]: the calls that caller c may make
  MaxCalls,     \* BOUND: calls of each caller
  MaxLosses     \* BOUND: connections lost or closed by their context

(* supportedIntervals, and what convertIntervalToBybit makes of them.      *)
Supported == {"1m", "3m", "5m", "15m", "30m", "1h", "2h", "4h", "6h", "12h",
              "1d", "1w", "1M"}

ConvertFolded(i) ==                                                 \* a mutant
  IF i \in {"1m", "1M"} THEN "1" ELSE i

Convert(i) ==
  CASE i = "1m" -> "1"   [] i = "3m" -> "3"    [] i = "5m" -> "5"
    [] i = "15m" -> "15" [] i = "30m" -> "30"  [] i = "1h" -> "60"
    [] i = "2h" -> "120" [] i = "4h" -> "240"  [] i = "6h" -> "360"
    [] i = "12h" -> "720" [] i = "1d" -> "D"   [] i = "1w" -> "W"
    [] i = "1M" -> "M"   [] OTHER -> i

Args == [symbol : Symbols, interval : Intervals]
Topic(a) == <<Convert(a.interval), a.symbol>>
Topics == {Topic(a) : a \in Args}
Ops == {"Connect", "Close", "Subscribe", "Unsubscribe", "Get"}

ASSUME BybitAssumption ==
  /\ Reconnector \notin Callers
  /\ Long \subseteq Symbols
  /\ Uses \in [Callers -> SUBSET [op : Ops, arg : Args]]

Threads == Callers \cup {Reconnector}

VARIABLES
  connected,      \* c.connected
  subscriptions,  \* c.subscriptions: the topics in the table
  instruments,    \* c.instruments: the symbols that are trading
  up, map, owed,  \* the WebSocket connector, as in HandlerMap
  pc,             \* pc[t]: where thread t is
  did,            \* did[c]: the last call of c, with its arguments
  result,         \* result[c]: what it returned
  overtaken,      \* history: the callers since whose last return another one
                  \* has cleared the table, or done something to their topic
  parted,         \* history: the topics whose handler was removed by one
                  \* caller while another one was about to record it
  calls, losses,  \* calls and losses so far
  crashed         \* the program is gone

table == <<connected, subscriptions, instruments>>
ws    == <<up, map, owed>>
call  == <<did, result, overtaken, parted>>
count == <<calls, losses, crashed>>
vars  == <<table, ws, pc, call, count>>

(* The handlers that this connector registers are all the same: nil.       *)
WS == INSTANCE HandlerMap WITH Handlers <- {"nil"}, Writers <- Threads
Handler(topic) == <<topic, "nil">>
Handlers == {Handler(topic) : topic \in Topics}

WSPlaces == {"idle", "check", "dial", "snapshot", "restore"}
Places == WSPlaces \cup {"fetch", "mark", "wsclose", "down", "clear", "lookup",
                         "subscribe", "register", "record", "find", "remove",
                         "erase", "symbols", "listed", "ask"}

NoCall == [op |-> "none", arg |-> "none"]
Called(c) == Topic(did[c].arg)

BybitTypeOK ==
  /\ connected \in BOOLEAN /\ up \in BOOLEAN /\ crashed \in BOOLEAN
  /\ subscriptions \subseteq Topics /\ parted \subseteq Topics
  /\ map \subseteq Handlers /\ owed \in [Threads -> SUBSET Handlers]
  /\ instruments \subseteq Symbols
  /\ pc \in [Threads -> Places] /\ pc[Reconnector] \in WSPlaces
  /\ did \in [Callers -> [op : Ops, arg : Args] \cup {NoCall}]
  /\ overtaken \subseteq Callers
  /\ result \in [Callers -> {"none", "ok", "error"}]

Init ==
  /\ connected = FALSE /\ subscriptions = {} /\ instruments = {}
  /\ WS!Init
  /\ pc = [t \in Threads |-> "idle"]
  /\ did = [c \in Callers |-> NoCall]
  /\ overtaken = {} /\ parted = {}
  /\ result = [c \in Callers |-> "none"]
  /\ calls = [c \in Callers |-> 0] /\ losses = 0 /\ crashed = FALSE

-----------------------------------------------------------------------------
Goes(t, from, to) ==
  ~crashed /\ pc[t] = from /\ pc' = [pc EXCEPT ![t] = to]

(* Whose subscription the call of c is about.                              *)
Streams == {"Subscribe", "Unsubscribe"}
Shares(c, d) ==
  did[c].op \in Streams /\ did[d].op \in Streams /\ Called(c) = Called(d)
Overtakes(c) == {d \in Callers : did[c].op = "Close" \/ Shares(c, d)}

Returns(c, from, r) ==
  /\ Goes(c, from, "idle")
  /\ result' = [result EXCEPT ![c] = r]
  /\ overtaken' = (IF r = "ok" \/ did[c].op = "Close"
                   THEN overtaken \cup Overtakes(c) ELSE overtaken) \ {c}
  /\ UNCHANGED <<did, parted, count>>

Calls(c, op, to, r) ==
  /\ Goes(c, "idle", to) /\ calls[c] < MaxCalls
  /\ calls' = [calls EXCEPT ![c] = @ + 1]
  /\ \E use \in Uses[c] : use.op = op /\ did' = [did EXCEPT ![c] = use]
  /\ result' = [result EXCEPT ![c] = r] /\ overtaken' = overtaken \ {c}
  /\ UNCHANGED <<table, ws, parted, losses, crashed>>

Begins(c, op, to) == Calls(c, op, to, "none")
Refused(c, op) == Calls(c, op, "idle", "error")

(* Connect fetches the instruments, connects the WebSocket and raises the  *)
(* flag, also when it was up before.                                       *)
Connect(c) == Begins(c, "Connect", "fetch")

FetchFails(c) == Returns(c, "fetch", "error") /\ UNCHANGED <<table, ws>>

Fetched(c) ==
  /\ Goes(c, "fetch", "check")
  /\ \E status \in [Symbols -> {"Trading", "other"}] :
       instruments' = Trading(status)
  /\ UNCHANGED <<connected, subscriptions, ws, call, count>>

Mark(c) ==
  /\ Returns(c, "mark", "ok") /\ connected' = TRUE
  /\ UNCHANGED <<subscriptions, instruments, ws>>

-----------------------------------------------------------------------------
(* The WebSocket connector's Connect, run by Connect or by its reconnect.  *)
AfterMark(t) == "mark"                                               \* a mutant
After(t) == IF t = Reconnector THEN "idle" ELSE "mark"

IsUp(t) ==
  /\ up /\ Goes(t, "check", After(t))
  /\ UNCHANGED <<table, ws, call, count>>

IsDown(t) ==
  /\ ~up /\ Goes(t, "check", "dial")
  /\ UNCHANGED <<table, ws, call, count>>

DialOk(t) ==
  /\ Goes(t, "dial", "snapshot") /\ WS!Rise
  /\ UNCHANGED <<table, call, count>>

DialFails(t) ==
  /\ IF t = Reconnector
     THEN Goes(t, "dial", "idle") /\ UNCHANGED <<call, count>>
     ELSE Returns(t, "dial", "error")
  /\ UNCHANGED <<table, ws>>

Snapshot(t) ==          \* resubscribe copies the handlers,
  /\ Goes(t, "snapshot", "restore") /\ WS!Resubscribe(t)
  /\ UNCHANGED <<table, call, count>>

Restore(t) ==           \* and subscribes to each topic again
  /\ Goes(t, "restore", "restore")
  /\ \E pair \in owed[t] : WS!Register(t, pair) \/ WS!GiveUp(t, pair)
  /\ UNCHANGED <<table, call, count>>

Restored(t) ==
  /\ owed[t] = {} /\ Goes(t, "restore", After(t))
  /\ UNCHANGED <<table, ws, call, count>>

WSConnect(t) ==
  \/ IsUp(t) \/ IsDown(t) \/ DialOk(t) \/ DialFails(t) \/ Snapshot(t)
  \/ Restore(t) \/ Restored(t)

(* The connection is lost, and reconnect called, unless one is running; or *)
(* it is closed because the context of its Connect has ended.              *)
Lose ==
  /\ up /\ WS!Fall
  /\ losses < MaxLosses /\ losses' = losses + 1
  /\ UNCHANGED <<table, call, calls, crashed>>

Lost == Goes(Reconnector, "idle", "check") /\ Lose
Closed == ~crashed /\ Lose /\ UNCHANGED pc

(* A message of a topic with a handler: the handler is nil.                *)
Message ==
  /\ ~crashed /\ up /\ map # {} /\ crashed' = TRUE
  /\ UNCHANGED <<table, ws, pc, call, calls, losses>>

-----------------------------------------------------------------------------
CloseRefused(c) == ~connected /\ Refused(c, "Close")
Close(c) == connected /\ Begins(c, "Close", "wsclose")

WSClose(c) ==
  /\ Goes(c, "wsclose", "down") /\ WS!Fall
  /\ UNCHANGED <<table, call, count>>

CloseDown(c) ==
  /\ Goes(c, "down", "clear") /\ connected' = FALSE
  /\ UNCHANGED <<subscriptions, instruments, ws, call, count>>

(* The table is cleared, whether or not the connection closed well.        *)
CloseClears(c) ==
  /\ \E r \in {"ok", "error"} : Returns(c, "clear", r)
  /\ subscriptions' = {}
  /\ UNCHANGED <<connected, instruments, ws>>

-----------------------------------------------------------------------------
(* SubscribeCandles: the handler is registered, then the topic recorded.   *)
SubscribeRefused(c) ==
  /\ Refused(c, "Subscribe")
  /\ ~connected \/ did'[c].arg.interval \notin Supported

Subscribe(c) ==
  /\ connected /\ Begins(c, "Subscribe", "lookup")
  /\ did'[c].arg.interval \in Supported

AlreadyHandled(c) ==                                                 \* a mutant
  /\ Returns(c, "lookup", "ok") /\ Handler(Called(c)) \in map
  /\ UNCHANGED <<table, ws>>

Already(c) ==
  /\ Returns(c, "lookup", "ok") /\ Called(c) \in subscriptions
  /\ UNCHANGED <<table, ws>>

Lookup(c) ==
  /\ Goes(c, "lookup", "subscribe") /\ Called(c) \notin subscriptions
  /\ UNCHANGED <<table, ws, call, count>>

SubscribeFailsRecording(c) ==                                        \* a mutant
  /\ ~up /\ Goes(c, "subscribe", "record")
  /\ UNCHANGED <<table, ws, call, count>>

SubscribeFails(c) ==
  ~up /\ Returns(c, "subscribe", "error") /\ UNCHANGED <<table, ws>>

SubscribeGoes(c) ==
  /\ Goes(c, "subscribe", "register") /\ WS!Subscribe(c, Called(c), "nil")
  /\ UNCHANGED <<table, call, count>>

Register(c) ==
  /\ Goes(c, "register", "record") /\ WS!Register(c, Handler(Called(c)))
  /\ parted' = parted \ {Called(c)}
  /\ UNCHANGED <<table, did, result, overtaken, count>>

Record(c) ==
  /\ Returns(c, "record", "ok")
  /\ subscriptions' = subscriptions \cup {Called(c)}
  /\ UNCHANGED <<connected, instruments, ws>>

(* UnsubscribeCandles: the handler is removed, then the topic erased.      *)
UnsubscribeRefused(c) ==
  /\ Refused(c, "Unsubscribe")
  /\ ~connected \/ did'[c].arg.interval \notin Supported

Unsubscribe(c) ==
  /\ connected /\ Begins(c, "Unsubscribe", "find")
  /\ did'[c].arg.interval \in Supported

NotFound(c) ==
  /\ Returns(c, "find", "error") /\ Called(c) \notin subscriptions
  /\ UNCHANGED <<table, ws>>

Find(c) ==
  /\ Goes(c, "find", "remove") /\ Called(c) \in subscriptions
  /\ UNCHANGED <<table, ws, call, count>>

Recording(topic) == \E d \in Callers : pc[d] = "record" /\ Called(d) = topic

Remove(c) ==
  /\ Goes(c, "remove", "erase") /\ WS!Unsubscribe(Called(c))
  /\ parted' = parted \cup {topic \in {Called(c)} : Recording(topic)}
  /\ UNCHANGED <<table, did, result, overtaken, count>>

Erase(c) ==
  /\ Returns(c, "erase", "ok")
  /\ subscriptions' = subscriptions \ {Called(c)}
  /\ UNCHANGED <<connected, instruments, ws>>

(* A map that one goroutine writes while another one writes or reads it    *)
(* ends the program.                                                       *)
MapFault(c, d) ==
  /\ ~crashed /\ c # d
  /\ pc[c] \in {"record", "erase"}
  /\ pc[d] \in {"record", "erase", "lookup", "find"}
  /\ crashed' = TRUE
  /\ UNCHANGED <<table, ws, pc, call, calls, losses>>

-----------------------------------------------------------------------------
(* GetCandles and GetOrderBook: the instruments are read twice; then       *)
(* GetCandles checks the interval and the times, and both ask the server.  *)
(* What they send and return is in BybitQueries.                           *)
GetRefused(c) == ~connected /\ Refused(c, "Get")
Get(c) == connected /\ Begins(c, "Get", "symbols")

NoneListed(c) ==
  /\ pc[c] = "symbols" /\ instruments = {}
  /\ IF did[c].arg.symbol \in Long
     THEN Goes(c, "symbols", "ask") /\ UNCHANGED <<call, count>>
     ELSE Returns(c, "symbols", "error")
  /\ UNCHANGED <<table, ws>>

SomeListed(c) ==
  /\ instruments # {} /\ Goes(c, "symbols", "listed")
  /\ UNCHANGED <<table, ws, call, count>>

Listed(c) ==
  /\ pc[c] = "listed"
  /\ IF did[c].arg.symbol \in instruments
     THEN Goes(c, "listed", "ask") /\ UNCHANGED <<call, count>>
     ELSE Returns(c, "listed", "error")
  /\ UNCHANGED <<table, ws>>

Asked(c) ==
  \E book \in BOOLEAN, start \in {0, 2}, end \in {1, 2}, a \in Answers :
    LET checked == did[c].arg.interval \in Supported /\ ValidRange(start, end)
    IN  /\ Returns(c, "ask", IF (book \/ checked) /\ Counts(a) THEN "ok" ELSE "error")
        /\ UNCHANGED <<table, ws>>

-----------------------------------------------------------------------------
CallerStep(c) ==
  \/ Connect(c) \/ FetchFails(c) \/ Fetched(c) \/ WSConnect(c) \/ Mark(c)
  \/ CloseRefused(c) \/ Close(c) \/ WSClose(c) \/ CloseDown(c) \/ CloseClears(c)
  \/ SubscribeRefused(c) \/ Subscribe(c) \/ Already(c) \/ Lookup(c)
  \/ SubscribeFails(c) \/ SubscribeGoes(c) \/ Register(c) \/ Record(c)
  \/ UnsubscribeRefused(c) \/ Unsubscribe(c) \/ NotFound(c) \/ Find(c)
  \/ Remove(c) \/ Erase(c)
  \/ GetRefused(c) \/ Get(c) \/ NoneListed(c) \/ SomeListed(c) \/ Listed(c)
  \/ Asked(c)

Rest ==
  /\ \/ crashed
     \/ /\ pc[Reconnector] = "idle"
        /\ \A c \in Callers : pc[c] = "idle" /\ calls[c] = MaxCalls
  /\ UNCHANGED vars

Next ==
  \/ \E c \in Callers : CallerStep(c)
  \/ WSConnect(Reconnector) \/ Lost \/ Closed \/ Message
  \/ \E c, d \in Callers : MapFault(c, d)
  \/ Rest

Spec == Init /\ [][Next]_vars

-----------------------------------------------------------------------------
(* Every subscription in the table has its handler in the WebSocket        *)
(* connector, whoever subscribes to what and whatever is lost,             *)
(* reconnected, closed or resubscribed in between, with two exceptions:    *)
(* while an UnsubscribeCandles is between removing one and erasing it,     *)
(* and when it has removed the handler that a SubscribeCandles of the same *)
(* topic had registered and was about to record (504-511, 540-549).        *)
TableServed ==
  \A topic \in subscriptions :
    \/ Handler(topic) \in map \/ topic \in parted
    \/ \E c \in Callers : pc[c] = "erase" /\ Called(c) = topic

(* What a caller has been told is what the table says: after a successful  *)
(* SubscribeCandles its topic is in the table, and after a successful      *)
(* UnsubscribeCandles it is not, until somebody else clears the table or   *)
(* succeeds in subscribing to or unsubscribing from that topic, whatever   *)
(* the others do meanwhile (123-131, 495-511, 535-549).                    *)
TableTells ==
  \A c \in Callers :
    LET recorded == Called(c) \in subscriptions
    IN  pc[c] = "idle" /\ result[c] = "ok" /\ c \notin overtaken =>
          /\ did[c].op = "Subscribe" => recorded
          /\ did[c].op = "Unsubscribe" => ~recorded

(* Recording or erasing a subscription leaves that of every other symbol   *)
(* and supported interval alone: no two of them share a topic (491-492,    *)
(* 588-619).                                                               *)
OthersKept ==
  [][\A c \in Callers : pc[c] \in {"record", "erase"} /\ pc'[c] = "idle" =>
       \A a \in Args :
         a.interval \in Supported /\ a # did[c].arg =>
           (Topic(a) \in subscriptions' <=> Topic(a) \in subscriptions)]_vars

=============================================================================

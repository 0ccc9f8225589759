--------------------------- MODULE MessagePipeline ---------------------------
(* The message pipeline of the WebSocket connector,                        *)
(* pkg/websocket/connector.go: Subscribe, Unsubscribe, processMessage, the *)
(* message queue and its workers, and the resubscription that Connect      *)
(* makes.  The life cycle around it is the one of WSConnector, reduced to  *)
(* what the pipeline sees: c.connected, and the done channel as StopSignal *)
(* describes it.  Sessions are numbered in the order of their dials, and a *)
(* queue by the session that made it; 0 is the queue of NewConnector.      *)
(* The Close of a heartbeat or a monitor does to the pipeline what a       *)
(* pump's exit does, and is not a step of its own.                         *)
EXTENDS Naturals, Sequences, FiniteSets

CONSTANTS
  Callers,      \* goroutines of the application
  Ops,          \* the methods they call: "Subscribe", "Unsubscribe", "Close"
  Topics, Handlers,
  NoHandler,    \* no entry in the map
  PoolSize,     \* workerPoolSize: workers of each session
  QueueSize,    \* DefaultMessageQueueSize
  MaxSessions,  \* BOUND: calls of Connect that dial
  MaxMessages,  \* BOUND: messages the peer sends
  MaxCalls      \* BOUND: calls made by each caller

Sessions == 1 .. MaxSessions
Messages == 1 .. MaxMessages
Workers  == Sessions \X (1 .. PoolSize)

ASSUME PipelineAssumption ==
  /\ Ops \subseteq {"Subscribe", "Unsubscribe", "Close"}
  /\ NoHandler \notin Handlers
  /\ PoolSize \in Nat /\ QueueSize \in Nat
  /\ MaxSessions \in Nat /\ MaxMessages \in Nat /\ MaxCalls \in Nat

VARIABLES
  connected,  \* c.connected
  handlers,   \* c.handlers
  queue,      \* c.messageQueue: the queue in use
  queues,     \* queues[q]: the content of queue q
  done,       \* c.done, the current done channel
  stopped,    \* the done channels closed so far
  sessDone,   \* sessDone[s]: the done channel captured by session s
  cpc,        \* cpc[s]: where the Connect of session s is
  snap,       \* snap[s]: the handlers its resubscribe has still to register
  checked,    \* checked[s]: the topic whose registration passed IsConnected
  ppc, task,  \* ppc[s]: where the pump of session s is; task[s]: what it holds
  wpc, wq,    \* wpc[w]: where worker w is; wq[w]: the queue it waits on
  job,        \* job[w]: the task worker w waits for
  running,    \* the tasks whose handler is running
  started,    \* the tasks whose handler was called
  dropped,    \* the messages dropped because the queue was full
  nread,      \* messages read so far
  crashed,    \* a handler panicked: the program is gone
  apc, arg,   \* apc[c]: where caller c is; arg[c]: what it subscribes
  calls       \* calls[c]: calls made by caller c

life   == <<connected, done, stopped, sessDone, cpc, snap,
            checked>>
pumps  == <<ppc, task, nread, dropped>>
pool   == <<wpc, wq, job>>
runs   == <<running, started, crashed>>
app    == <<apc, arg, calls>>
vars   == <<life, handlers, queue, queues, pumps, pool, runs, app>>

Signal == INSTANCE StopSignal WITH chan <- done, joined <- sessDone

NoTask == [msg |-> 0]
Task   == [msg : Messages, topic : Topics, handler : Handlers]
Read   == [msg : Messages, topic : Topics]
Map    == [Topics -> Handlers \cup {NoHandler}]
Empty  == [t \in Topics |-> NoHandler]

TypeOK ==
  /\ connected \in BOOLEAN /\ crashed \in BOOLEAN
  /\ handlers \in Map
  /\ queue \in 0 .. MaxSessions
  /\ queues \in [0 .. MaxSessions -> Seq(Task)]
  /\ \A q \in 0 .. MaxSessions : Len(queues[q]) <= QueueSize
  /\ done \in 0 .. MaxSessions /\ stopped \subseteq Sessions
  /\ sessDone \in [Sessions -> 0 .. MaxSessions]
  /\ cpc \in [Sessions -> {"none", "publish", "join", "queue", "snapshot",
                           "restore"}]
  /\ snap \in [Sessions -> Map]
  /\ checked \in [Sessions -> SUBSET Topics]
  /\ ppc \in [Sessions -> {"none", "top", "read", "lookup", "enqueue", "stop", "end"}]
  /\ task \in [Sessions -> Task \cup Read \cup {NoTask}]
  /\ wpc \in [Workers -> {"none", "top", "select", "busy", "end"}]
  /\ wq \in [Workers -> 0 .. MaxSessions]
  /\ job \in [Workers -> Task \cup {NoTask}]
  /\ running \subseteq started /\ started \subseteq Task
  /\ dropped \subseteq Messages /\ nread \in 0 .. MaxMessages
  /\ apc \in [Callers -> {"idle", "sub_write", "close_done"}]
  /\ arg \in [Callers -> {<<>>} \cup (Topics \X Handlers)]
  /\ calls \in [Callers -> 0 .. MaxCalls]

Init ==
  /\ connected = FALSE /\ done = 0 /\ stopped = {}
  /\ sessDone = [s \in Sessions |-> 0]
  /\ cpc = [s \in Sessions |-> "none"] /\ snap = [s \in Sessions |-> Empty]
  /\ checked = [s \in Sessions |-> {}]
  /\ handlers = Empty
  /\ queue = 0 /\ queues = [q \in 0 .. MaxSessions |-> <<>>]
  /\ ppc = [s \in Sessions |-> "none"] /\ task = [s \in Sessions |-> NoTask]
  /\ nread = 0 /\ dropped = {}
  /\ wpc = [w \in Workers |-> "none"] /\ wq = [w \in Workers |-> 0]
  /\ job = [w \in Workers |-> NoTask]
  /\ running = {} /\ started = {} /\ crashed = FALSE
  /\ apc = [c \in Callers |-> "idle"] /\ arg = [c \in Callers |-> <<>>]
  /\ calls = [c \in Callers |-> 0]

-----------------------------------------------------------------------------
(* The life cycle, as the pipeline sees it.                                *)

ConnectAt(s, from, to) ==
  /\ ~crashed /\ cpc[s] = from
  /\ cpc' = [cpc EXCEPT ![s] = to]

(* A Connect, the application's or a reconnect's, has found the connector  *)
(* down and dialled.                                                       *)
Dial(s) ==
  /\ ConnectAt(s, "none", "publish")
  /\ ~connected
  /\ \A r \in 1 .. (s - 1) : cpc[r] # "none"
  /\ UNCHANGED <<connected, done, stopped, sessDone, snap, checked, handlers,
                 queue, queues, pumps, pool, runs, app>>

Publish(s) ==
  /\ ConnectAt(s, "publish", "join")
  /\ connected' = TRUE
  /\ UNCHANGED <<done, stopped, sessDone, snap, checked, handlers, queue,
                 queues, pumps, pool, runs, app>>

Join(s) ==
  /\ ConnectAt(s, "join", "queue")
  /\ Signal!JoinNew(s) \/ Signal!JoinCurrent(s)
  /\ UNCHANGED <<connected, snap, checked, handlers, queue, queues, pumps, pool,
                 runs, app>>

(* The new queue, the workers and the pump.                                *)
StartWorkers(s) ==
  wpc' = [w \in Workers |-> IF w[1] = s THEN "top" ELSE wpc[w]]

Launch(s) ==
  /\ ConnectAt(s, "queue", "snapshot")
  /\ queue' = s
  /\ StartWorkers(s)
  /\ ppc' = [ppc EXCEPT ![s] = "top"]
  /\ UNCHANGED <<connected, done, stopped, sessDone, snap, checked, handlers,
                 queues, task, nread, dropped, wq, job, runs, app>>

(* if !c.closed { close(c.done); c.closed = true }: a nil channel panics.  *)
StopDone ==
  \/ Signal!Stop /\ UNCHANGED crashed
  \/ /\ ~Signal!Open
     /\ crashed' = (done = 0)
     /\ UNCHANGED <<done, stopped, sessDone>>

(* The connector is down at the top of the loop, or a read fails: the      *)
(* pump's deferred function.                                               *)
PumpFail(s) ==
  /\ ~crashed
  /\ ppc[s] \in {"top", "read"} /\ (ppc[s] = "top" => ~connected)
  /\ connected' = FALSE
  /\ ppc' = [ppc EXCEPT ![s] = "stop"]
  /\ UNCHANGED <<done, stopped, sessDone, cpc, snap, checked, handlers, queue,
                 queues, task, nread, dropped, pool, runs, app>>

PumpStop(s) ==
  /\ ~crashed /\ ppc[s] = "stop"
  /\ StopDone
  /\ ppc' = [ppc EXCEPT ![s] = "end"]
  /\ UNCHANGED <<connected, cpc, snap, checked, handlers, queue, queues, task,
                 nread, dropped, pool, running, started, app>>

-----------------------------------------------------------------------------
(* The application: Subscribe, Unsubscribe, Close.                         *)

Calls(c, op) ==
  /\ ~crashed /\ apc[c] = "idle"
  /\ op \in Ops
  /\ calls[c] < MaxCalls
  /\ calls' = [calls EXCEPT ![c] = @ + 1]

Register(t, h) == handlers' = [handlers EXCEPT ![t] = h]

Subscribe(c) ==         \* IsConnected
  /\ Calls(c, "Subscribe")
  /\ \/ ~connected /\ UNCHANGED <<apc, arg>>
     \/ /\ connected
        /\ apc' = [apc EXCEPT ![c] = "sub_write"]
        /\ \E t \in Topics, h \in Handlers : arg' = [arg EXCEPT ![c] = <<t, h>>]
  /\ UNCHANGED <<life, handlers, queue, queues, pumps, pool, runs>>

SubscribeWrite(c) ==
  /\ ~crashed /\ apc[c] = "sub_write"
  /\ Register(arg[c][1], arg[c][2])
  /\ apc' = [apc EXCEPT ![c] = "idle"]
  /\ arg' = [arg EXCEPT ![c] = <<>>]
  /\ UNCHANGED <<life, queue, queues, pumps, pool, runs, calls>>

Unsubscribe(c) ==
  /\ Calls(c, "Unsubscribe")
  /\ \E t \in Topics : Register(t, NoHandler)
  /\ UNCHANGED <<life, queue, queues, pumps, pool, runs, apc, arg>>

Close(c) ==
  /\ Calls(c, "Close")
  /\ connected
  /\ connected' = FALSE
  /\ apc' = [apc EXCEPT ![c] = "close_done"]
  /\ UNCHANGED <<done, stopped, sessDone, cpc, snap, checked, handlers, queue,
                 queues, pumps, pool, runs, arg>>

CloseDone(c) ==
  /\ ~crashed /\ apc[c] = "close_done"
  /\ StopDone
  /\ apc' = [apc EXCEPT ![c] = "idle"]
  /\ UNCHANGED <<connected, cpc, snap, checked, handlers, queue, queues, pumps,
                 pool, running, started, arg, calls>>

-----------------------------------------------------------------------------
(* resubscribe(): a copy of the map, then Subscribe for each of its topics. *)

SnapshotTaking(s) ==                                           \* a mutant
  /\ ConnectAt(s, "snapshot", "restore")
  /\ snap' = [snap EXCEPT ![s] = handlers]
  /\ handlers' = Empty
  /\ UNCHANGED <<connected, done, stopped, sessDone, checked, queue, queues,
                 pumps, pool, runs, app>>

Snapshot(s) ==
  /\ ConnectAt(s, "snapshot", "restore")
  /\ snap' = [snap EXCEPT ![s] = handlers]
  /\ UNCHANGED <<connected, done, stopped, sessDone, checked, handlers, queue,
                 queues, pumps, pool, runs, app>>

(* Subscribe(topic, handler), in two steps as in the application.          *)
RestoreCheck(s, t) ==
  /\ ConnectAt(s, "restore", "restore")
  /\ checked[s] = {}
  /\ snap[s][t] # NoHandler
  /\ \/ connected /\ checked' = [checked EXCEPT ![s] = {t}] /\ UNCHANGED snap
     \/ /\ ~connected
        /\ snap' = [snap EXCEPT ![s][t] = NoHandler]
        /\ UNCHANGED checked
  /\ UNCHANGED <<connected, done, stopped, sessDone, handlers, queue, queues,
                 pumps, pool, runs, app>>

RestoreWrite(s, t) ==
  /\ ConnectAt(s, "restore", "restore")
  /\ t \in checked[s]
  /\ Register(t, snap[s][t])
  /\ snap' = [snap EXCEPT ![s][t] = NoHandler]
  /\ checked' = [checked EXCEPT ![s] = {}]
  /\ UNCHANGED <<connected, done, stopped, sessDone, queue, queues, pumps,
                 pool, runs, app>>

(* Connect returns when nothing is left to register.                       *)
Connected(s) == cpc[s] = "restore" /\ snap[s] = Empty

-----------------------------------------------------------------------------
(* readPump hands each message to processMessage.                          *)

PumpGoes(s, from, to) ==
  /\ ~crashed /\ ppc[s] = from
  /\ ppc' = [ppc EXCEPT ![s] = to]

PumpTop(s) ==
  /\ PumpGoes(s, "top", "read")
  /\ connected
  /\ UNCHANGED <<life, handlers, queue, queues, task, nread, dropped, pool,
                 runs, app>>

PumpRead(s) ==
  /\ PumpGoes(s, "read", "lookup")
  /\ nread < MaxMessages
  /\ nread' = nread + 1
  /\ \E t \in Topics : task' = [task EXCEPT ![s] = [msg |-> nread', topic |-> t]]
  /\ UNCHANGED <<life, handlers, queue, queues, dropped, pool, runs, app>>

(* No handler: the message is ignored.  Otherwise the task is bound to the *)
(* handler found now.                                                      *)
Ignore(s) ==
  /\ PumpGoes(s, "lookup", "top")
  /\ handlers[task[s].topic] = NoHandler
  /\ task' = [task EXCEPT ![s] = NoTask]
  /\ UNCHANGED <<life, handlers, queue, queues, nread, dropped, pool, runs, app>>

Lookup(s) ==
  LET r == task[s] IN
  /\ PumpGoes(s, "lookup", "enqueue")
  /\ handlers[r.topic] # NoHandler
  /\ task' = [task EXCEPT ![s] = [msg |-> r.msg, topic |-> r.topic,
                                  handler |-> handlers[r.topic]]]
  /\ UNCHANGED <<life, handlers, queue, queues, nread, dropped, pool, runs, app>>

(* select { case c.messageQueue <- task: default: drop }                   *)
EnqueueRetrying(s) ==                                          \* a mutant
  \/ /\ PumpGoes(s, "enqueue", "top")
     /\ Len(queues[queue]) < QueueSize
     /\ queues' = [queues EXCEPT ![queue] = Append(@, task[s])]
     /\ task' = [task EXCEPT ![s] = NoTask]
     /\ UNCHANGED <<life, handlers, queue, nread, dropped, pool, runs, app>>
  \/ /\ PumpGoes(s, "enqueue", "enqueue")
     /\ Len(queues[queue]) = QueueSize
     /\ UNCHANGED <<life, handlers, queue, queues, task, nread, dropped, pool,
                    runs, app>>

Enqueue(s) ==
  /\ PumpGoes(s, "enqueue", "top")
  /\ \/ /\ Len(queues[queue]) < QueueSize
        /\ queues' = [queues EXCEPT ![queue] = Append(@, task[s])]
        /\ UNCHANGED dropped
     \/ /\ Len(queues[queue]) = QueueSize
        /\ dropped' = dropped \cup {task[s].msg}
        /\ UNCHANGED queues
  /\ task' = [task EXCEPT ![s] = NoTask]
  /\ UNCHANGED <<life, handlers, queue, nread, pool, runs, app>>

-----------------------------------------------------------------------------
(* messageWorker(done).  c.messageQueue is read again at every turn.       *)

WorkerGoes(w, from, to) ==
  /\ ~crashed /\ wpc[w] = from
  /\ wpc' = [wpc EXCEPT ![w] = to]

WorkerTop(w) ==
  /\ WorkerGoes(w, "top", "select")
  /\ wq' = [wq EXCEPT ![w] = queue]
  /\ UNCHANGED <<life, handlers, queue, queues, pumps, job, runs, app>>

RemainingAll(q) == queues[q]                                   \* a mutant
Remaining(q) == Tail(queues[q])

TakenCurrent(q) ==                                             \* a mutant
  LET k == Head(queues[q]) IN [k EXCEPT !.handler = handlers[k.topic]]
TakenRouted(q) ==                                              \* a mutant
  LET k == Head(queues[q])
  IN  IF handlers[k.topic] = NoHandler THEN k
      ELSE [k EXCEPT !.handler = handlers[k.topic]]
Taken(q) == Head(queues[q])

WorkerTake(w) ==        \* receives a task and calls its handler
  LET q == wq[w] IN
  /\ WorkerGoes(w, "select", "busy")
  /\ queues[q] # <<>>
  /\ queues' = [queues EXCEPT ![q] = Remaining(q)]
  /\ job' = [job EXCEPT ![w] = Taken(q)]
  /\ running' = running \cup {Taken(q)}
  /\ started' = started \cup {Taken(q)}
  /\ wq' = [wq EXCEPT ![w] = 0]
  /\ UNCHANGED <<life, handlers, queue, pumps, crashed, app>>

StoppedCurrent(w) == done \in stopped                          \* a mutant
WorkerStopped(w) == sessDone[w[1]] \in stopped

WorkerStop(w) ==
  /\ WorkerGoes(w, "select", "end")
  /\ WorkerStopped(w)
  /\ wq' = [wq EXCEPT ![w] = 0]
  /\ UNCHANGED <<life, handlers, queue, queues, pumps, job, runs, app>>

(* The handler has returned, or five seconds have passed.                  *)
MayLeaveHung(w) == job[w] \notin running                       \* a mutant
MayLeave(w) == TRUE

WorkerNext(w) ==
  /\ WorkerGoes(w, "busy", "top")
  /\ MayLeave(w)
  /\ job' = [job EXCEPT ![w] = NoTask]
  /\ UNCHANGED <<life, handlers, queue, queues, pumps, wq, runs, app>>

(* The handler runs in a goroutine of its own, which the worker's recover  *)
(* does not protect.                                                       *)
HandlerReturns(k) ==
  /\ ~crashed
  /\ running' = running \ {k}
  /\ UNCHANGED <<life, handlers, queue, queues, pumps, pool, started, crashed,
                 app>>

HandlerPanics(k) ==
  /\ ~crashed
  /\ crashed' = TRUE
  /\ UNCHANGED <<life, handlers, queue, queues, pumps, pool, running, started,
                 app>>

-----------------------------------------------------------------------------
ConnectStep(s) ==
  \/ Dial(s) \/ Publish(s) \/ Join(s) \/ Launch(s) \/ Snapshot(s)
  \/ \E t \in Topics : RestoreCheck(s, t) \/ RestoreWrite(s, t)

ProcessStep(s) == Ignore(s) \/ Lookup(s) \/ Enqueue(s)

PumpStep(s) ==
  ProcessStep(s) \/ PumpTop(s) \/ PumpRead(s) \/ PumpFail(s) \/ PumpStop(s)

CallerStep(c) ==
  Subscribe(c) \/ SubscribeWrite(c) \/ Unsubscribe(c) \/ Close(c) \/ CloseDone(c)

WorkerStep(w) == WorkerTop(w) \/ WorkerTake(w) \/ WorkerStop(w) \/ WorkerNext(w)

(* The program has crashed, or everything in it waits for a message.       *)
Rest ==
  /\ \/ crashed
     \/ /\ \A c \in Callers : apc[c] = "idle"
        /\ \A s \in Sessions : /\ cpc[s] = "none" \/ Connected(s)
                              /\ ppc[s] \in {"none", "read", "end"}
        /\ \A w \in Workers : wpc[w] \in {"none", "select", "end"}
  /\ UNCHANGED vars

Next ==
  \/ \E c \in Callers : CallerStep(c)
  \/ \E s \in Sessions : ConnectStep(s) \/ PumpStep(s)
  \/ \E w \in Workers : WorkerStep(w)
  \/ \E k \in running : HandlerReturns(k) \/ HandlerPanics(k)
  \/ Rest

Spec == Init /\ [][Next]_vars

(* The goroutines of the connector run, and the five-second timer fires;   *)
(* select is fair to the done channel.  A handler may never return.        *)
Fairness ==
  /\ \A s \in Sessions : WF_vars(ProcessStep(s))
  /\ \A w \in Workers : WF_vars(WorkerStep(w)) /\ SF_vars(WorkerStop(w))

FairSpec == Spec /\ Fairness

-----------------------------------------------------------------------------
(* A message is handed to one handler, once: the one registered for its    *)
(* topic when the pump looked it up, whatever happens to the map, to the   *)
(* queue and to the sessions meanwhile (604-624, 986-1027).                *)
InFlight == {task[s] : s \in {s \in Sessions : ppc[s] = "enqueue"}}
              \cup UNION {{queues[q][i] : i \in 1 .. Len(queues[q])}
                            : q \in 0 .. MaxSessions}

Bound == [m \in Messages |->
            IF \E k \in InFlight : k.msg = m
            THEN (CHOOSE k \in InFlight : k.msg = m).handler
            ELSE NoHandler]

Dispatch == INSTANCE MessageDispatch
              WITH bound <- Bound,
                   given <- {<<k.msg, k.handler>> : k \in started}

ImplementsDispatch == Dispatch!Spec

(* Whoever registers handlers: a caller in Subscribe, or the resubscription *)
(* of a session; and what it has still to register.                        *)
Writers == ({"caller"} \X Callers) \cup ({"session"} \X Sessions)

Pairs(map) == {<<t, map[t]>> : t \in {t \in Topics : map[t] # NoHandler}}

Owed == [w \in Writers |->
           IF w[1] = "session" THEN Pairs(snap[w[2]])
           ELSE IF apc[w[2]] = "sub_write" THEN {arg[w[2]]} ELSE {}]

HMap == INSTANCE HandlerMap
          WITH up <- connected, map <- Pairs(handlers), owed <- Owed

(* A handler outlives the connections: it is registered after its          *)
(* Subscribe has found the connector connected, removed by Unsubscribe     *)
(* alone, and registered again by each resubscription that has found it,   *)
(* unless the connector is down again (807-836, 960-976).                  *)
ImplementsHandlerMap == HMap!Spec

(* A message in flight or handled was meant for the handler's topic, and   *)
(* is in one place only: no pump and no queue holds it twice, and none     *)
(* holds it still when its handler has been called (608-615, 988-1013).    *)
OnePlace ==
  /\ \A k, j \in InFlight \cup started : k.msg = j.msg => k = j
  /\ InFlight \cap started = {}
  /\ \A q, r \in 0 .. MaxSessions :
       \A i \in 1 .. Len(queues[q]), j \in 1 .. Len(queues[r]) :
         queues[q][i] = queues[r][j] => q = r /\ i = j

(* processMessage never blocks the pump, although handlers may hang and    *)
(* the queue be full (608-623).                                            *)
PumpNeverBlocks ==
  \A s \in Sessions :
    ppc[s] \in {"lookup", "enqueue"} ~> (ppc[s] = "top" \/ crashed)

(* A queued message is handed over as long as its queue is in use and its  *)
(* session is not stopped, although handlers may hang (994-1020).          *)
QueueDrains ==
  \A s \in Sessions, m \in Messages :
    LET Waits == \E i \in 1 .. Len(queues[s]) : queues[s][i].msg = m
        Served == queue = s /\ sessDone[s] \notin stopped /\ ~crashed
    IN  (Waits /\ Served) ~> (~Waits \/ ~Served)

(* The workers of a session end once its done channel is closed, whatever  *)
(* queue and channel the connector uses by then (988, 1023).               *)
WorkersStop ==
  \A w \in Workers :
    (wpc[w] # "none" /\ sessDone[w[1]] \in stopped)
      ~> (wpc[w] = "end" \/ crashed)

=============================================================================

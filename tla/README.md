# Verification of the exchange connector

TLA+ modules, TLC runs and TLAPS proofs about `veiloq/exchange-connector`, a Go
library that connects to cryptocurrency exchanges.  Line numbers refer to the
sources in `src/` of this commit.

## 1. The system

| component | state | operations | depends on |
|---|---|---|---|
| WebSocket connector, life cycle (`src/pkg/websocket/connector.go`) | `connected`, `conn`, `reconnecting` (under `reconnectMu`); `done`, `closed` (under `doneMu`); `writeMu`; one read pump, heartbeat and context monitor per session | `Connect`, `Close`, `Send`; `readPump`, `heartbeatLoop`, the monitor goroutine, `reconnect` | gorilla/websocket, retry-go |
| WebSocket connector, message pipeline (same file) | `handlers` (under `handlersMu`), `messageQueue`, the workers, metrics | `Subscribe`, `Unsubscribe`, `processMessage`, `messageWorker`, `resubscribe` | called by the life cycle |
| Bybit connector (`src/pkg/exchanges/bybit/connector.go`) | `connected`, `subscriptions`, `instruments`, none of them under a lock | `Connect`, `Close`, `SubscribeCandles`, `UnsubscribeCandles`, `GetCandles`, `GetOrderBook` | WebSocket connector, net/http |
| Exchange interface (`src/pkg/exchanges/interfaces`) | none | declarations, error types | |
| HTTP client (`src/pkg/common/http.go`) | configuration, limiter | `Do` with retries | rate limiter, retry-go |
| Rate limiter (`src/pkg/ratelimit/limiter.go`) | limit, interval, underlying limiter | `Wait`, `SetLimit` | go.uber.org/ratelimit |
| Logging (`src/pkg/logging`) | level, fields, context, writer, a mutex, per logger | `Debug` ... `Error`, `SetLevel`, `SetOutput`, `WithContext`, `WithFields` | zap |
| Test doubles (`mock_connector.go`, `mock_server.go`) | recorded calls | used by tests | |

How they interact.  An application calls an exchange connector (Bybit's is the
only one), which subscribes through the WebSocket connector and queries Bybit's
REST interface with `http.DefaultClient` (bybit/connector.go 189).  The HTTP client
of `pkg/common` and its rate limiter are offered to other connectors and to the
application; Bybit's does not use them, nor the options that configure them.

`websocket.connector.Connect` dials, publishes the connection
in `c.conn`, makes or joins the done channel and starts four kinds of goroutine:
the read pump, the heartbeat, a monitor of the caller's context and the workers
of the message queue.  The pump hands messages to the queue, the workers call
the handlers.  When a read or a ping fails the pump or the heartbeat takes the
connection down and starts `reconnect`, which calls `Connect` again under
`retry.Do`.  All of this is shared state: `Connect` may be called by the
application and by `reconnect` at the same time, `Close` by the application, the
monitor and the heartbeat.

What is hard, and where the properties aim (`PROJECT.json`, "hazards"):

* every check of `c.connected` is made in one critical section and acted on in
  another (343/413, 487/494, 849/861, 910/933);
* three locks and two channels are acquired piecemeal, `writeMu` around the
  others;
* goroutines outlive the session that started them: a pump blocks in
  `ReadMessage`, a heartbeat waits for its ticker;
* the reconnecting flag is one boolean shared by `Connect` and `reconnect`,
  each of which resets it in a deferred function;
* the done channel is closed by `Close` and by every pump that exits, and
  replaced by `Connect`;
* contexts are cancelled, dials fail, connections break, at any moment;
* callers of the rate limiter race for its one word of state in a loop of clock
  reading, load and compare-and-swap, and the clock runs on between them;
* the Bybit connector checks its table of subscriptions, calls the WebSocket
  connector and writes the table, with nothing that keeps other callers, a `Close`
  or a reconnect out in between;
* a logger is derived by copying a struct: the copy shares the array behind the
  slice of fields, to which both may append, and takes the mutex over as it is,
  held or not;
* an HTTP call is retried with a reader that the attempt before has consumed,
  while its context, its timeout and the server's answer race.

What makes each component correct: a connection, a done channel and the
reconnecting flag have one owner, lost connections are noticed and goroutines of
closed sessions end (life cycle); a message is handed once to the handler of its
topic and the queue never stops the pump (pipeline); slots are spaced and the rate
is kept over every window, and every `Wait` returns (limiter); every attempt sends
the same body, a response is returned exactly when the last request was answered,
and a cancelled call returns (HTTP client); the subscription table agrees with the
WebSocket connector's handlers and with what the callers were told (Bybit); an entry
carries the fields given to its logger and no others, and logging calls return
(logging).

## 2. Modules

| module | what it is |
|---|---|
| `WSConnector` | the life cycle of the WebSocket connector, one action per critical section |
| `ReconnectGuard` | what the reconnecting flag promises: one holder at a time, released by its holder |
| `StopSignal` | what the done channel promises: nobody's channel is dropped while open, none is closed twice |
| `WSConnectorClaims` | sentences of the documentation that the code does not keep, as properties |
| `MCWSConnector`, `MCWSConnectorClaims` | model values and symmetry for TLC |
| `WSConnectorProofs`, `WSConnectorSafety` | the inductive invariant and the two refinements, proved for all constants |
| `MessagePipeline` | handlers, message queue and workers of the same connector, with the life cycle reduced to what they see |
| `MessageDispatch` | what the pipeline promises: a message is bound once to the handler of its topic, then dropped or handed to it, once |
| `HandlerMap` | what the connector promises of its handlers: they outlive connections, and change by `Subscribe`, `Unsubscribe` and a resubscription's copy alone |
| `MCMessagePipeline` | its model values |
| `MessagePipelineProofs` | its type correctness, proved for all constants |
| `MessagePipelineSafety` | that a message is in one place, and the refinements of `MessageDispatch` and `HandlerMap`, proved for all constants |
| `RateLimiter` | `Wait` and `SetLimit` around the lock-free `Take` of the vendored limiter |
| `RateLimiterProofs`, `MCRateLimiter` | its inductive invariant, proved for all constants; its model values |
| `HTTPClient` | `Do`, `Get`, `Post` with the retry loop, and `SetRateLimit`, on top of `RateLimiter` |
| `MCHTTPClient` | its model values |
| `HTTPClientProofs` | that it implements `RateLimiter`, what a call returns, what it sends and on which permit, proved for all constants |
| `BybitConnector` | the Bybit connector's table of subscriptions, on top of the WebSocket connector as `HandlerMap` promises it |
| `BybitQueries` | the pure parts of its queries: what they ask for and what they keep of an answer |
| `BybitProofs`, `MCBybitConnector` | its types, its table and its queries, proved for all constants; its model values |
| `Loggers` | the default logger and `ZapLogger`: derivation, shared arrays, copied mutexes |
| `LoggersProofs`, `MCLoggers` | its inductive invariant, proved for all constants; its model values |

`WSConnector` and `MessagePipeline` are two views of one program and meet in
`StopSignal`: the first is proved to implement it, the second uses its actions
for the done channel and abstracts the rest of the life cycle (dials that fail,
retries, contexts, `writeMu`) to "a Connect finds the connector down and dials",
"a read fails", "the application calls Close".

`MessagePipeline` and `BybitConnector` meet in `HandlerMap`.  The state of the
WebSocket connector in `BybitConnector` is `HandlerMap`'s, and every change of it is
one of `HandlerMap`'s actions (`WS!Rise`, `WS!Fall`, `WS!Subscribe`, `WS!Resubscribe`,
`WS!Register`, `WS!GiveUp`, `WS!Unsubscribe`), at any time for those that the
environment makes.  `RefinesHandlerMap` says that the pipeline's handlers do nothing
else, which is what the Bybit connector relies on.  In which order the actions come
within one call (look, dial, copy, register one topic after the other) is taken from
the code of `Connect` and `Subscribe`.  In the pipeline who registers handlers is a
caller in `Subscribe` or the resubscription of a session, and owes what it has still
to write (`Writers`, `Owed`); in the Bybit connector it is a thread.

### WSConnector

State.  `connected`, `conn`, `reconnecting`, `done`, `closed`, `writeMu` are the
fields of `connector` (206-235).  A session is a successful dial; its number
names its connection and the done channel its `Connect` may make, so `conn` and
`done` are numbers with 0 for nil, and a channel is closed when it is in
`stopped`.  `link[k]` is the state of connection k: not dialled, open, broken by
the network, closed by the connector.  `pc`, `was`, `lconn`, `attempt`, `tries`
are the program counters and local variables of the threads: the callers of the
application and a pump, a heartbeat and a monitor for every session.  A
`go c.reconnect()` is the last thing its goroutine does, so the model lets the
same thread run it.  `sessCtx[k]` and `sessDone[k]` are the context and the done
channel that session k's goroutines captured.  `cancelled` is the set of threads
whose context (the one they pass to `Connect`) is cancelled.

Actions.  `reconnectMu` and `doneMu` are never held across a blocking operation,
so each of their critical sections is one action; `writeMu` is held by `Close`
across several of them, and is a variable.  Code outside a lock that touches no
shared state is merged with the neighbouring critical section.  `readPump`'s
deferred function is four actions (`PumpClear`, `PumpClose`, `PumpDone`,
`PumpExit`), as the lock is released between them; `Close` is `CloseTake`,
`CloseDone`, `CloseConn`; `Connect` is `ConnectEarly | ConnectBegin`, then dials
(`DialOk`, `DialFail`, `Backoff`, `ConnectStop`), `Publish`, `Launch`,
`ConnectExit`.  `close(c.done)` panics in Go when the channel is nil or closed:
`panicked` records it and stops the program.

Environment.  The application calls the methods in any order (`Call`) and cancels
its contexts; reconnect's one-minute timeout is the same action (`CancelCtx`);
the network breaks a connection (`Break`), which also stands for a read deadline
that passes; a dial succeeds or fails.  A read on a connection that is no longer
`c.conn` fails sooner or later, because only `c.conn`'s deadline is extended
(530-553).

Abstracted: payloads, logging, metrics, the durations (a timer may fire whenever
the code waits for it), the error values.  `retry.Do` is modelled by its loop
(vendored `retry.go` 126-162), with `attempts` = `MaxRetries`.

### MessagePipeline

State.  `handlers` is the map (210); `queue` is the number of the queue in
`c.messageQueue`, and `queues` keeps the content of every queue ever made, for
workers and pumps go on using the old ones.  `wq[w]` is the channel that worker w
evaluated when it entered its `select` (988): it waits on that one although the
field may be replaced meanwhile.  `task[s]` is the message the pump of session s
is processing; a `MessageTask` carries the handler it was made with.  `running`
and `started` are the tasks whose handler goroutine runs, or was ever started;
`crashed` is the end of the program by a panic.

Actions.  A `Connect` is `Dial`, `Publish`, `Join` (the done channel), `Launch`
(queue, workers, pump), then `resubscribe`: `Snapshot`, and for each topic the
two critical sections of `Subscribe`, `RestoreCheck` and `RestoreWrite`.  The
pump is `PumpTop`, `PumpRead`, then `processMessage`: `Ignore` or `Lookup`, and
`Enqueue`, which drops when the queue is full.  A worker is `WorkerTop`,
`WorkerTake` (which starts the handler's goroutine), `WorkerNext` (the handler
has returned, or five seconds have passed) and `WorkerStop`.  `HandlerReturns`
and `HandlerPanics` are the handler's.

`c.messageQueue` is written by `Connect` (434) and read by old workers and pumps
(609, 989) without a lock.  Every read is a load of one word made at that point
of the program, so a race has two outcomes, the old queue and the new one, and
both are the interleavings of `Launch` with `WorkerTop` and `Enqueue`.

Abstracted: the payload (a message is its number and its topic; one that does
not parse is `Ignore`d as one without a handler is), metrics and logging.

### RateLimiter

State.  `limiters` are the limiters made so far, the last one being `l.limiter`
(limiter.go 105); a limiter is its `perRequest` and the time slots it has issued,
of which `state` is the last (0 before the first, as in
limiter_atomic_int64.go 52).  `pc` and `take` are where a caller is in `Wait` and
the locals of its `Take`: `now`, `timeOfNextPermissionIssue` as `loaded`, and the
end of its sleep.  `permits` records every `Wait` that returned nil, with the clock
reading it began with and the time it ended; the properties speak of these.

Actions.  `Wait` looks at the context once (`WaitCancelled`, `WaitBegin`); the
loop of `Take` is `ReadClock`, `LoadState`, `SwapFails | Swap`, and a sleep ends in
`Wake`.  `NextSlot` is the `switch` of 67-78.  `SetLimit` refuses an invalid rate
(`SetLimitInvalid`), divides by zero for a rate below one per second
(`SetLimitPanics`), or makes a new limiter.  Take's compare-and-swap succeeds when
the state equals what was loaded; slots of one limiter grow, so the same value
means the same slot.

Abstracted: time is a natural number that only `Tick` advances, a second is
`Second` ticks, the wall clock is assumed not to go back (Go's `UnixNano` may), and
it starts later than 0.  `Rps` divides integers where the code divides floating
point numbers and truncates.  `l.limiter` is an interface value that `SetLimit`
writes and `Wait` reads without a lock; both values have the same dynamic type, so
a torn read has the same two outcomes, the old limiter and the new one.

### HTTPClient

State.  `attempts` and `logger` are the configuration (`MaxRetries`, whether there
is a `Logger`).  `at[c]` is where the call of caller c is: in the limiter, at
`retry.Do`'s look at the context, about to attempt, in flight, failed, in the
delay.  `body[c]` is `req.Body`: what kind of reader the caller gave, whether it has
been replaced by a copy (257-258) and what it holds.  `n[c]` is retry-go's counter,
`log[c]` the requests of the call with what each met, `outcome[c]` what it
returned; `requests` counts the requests of all callers.

Actions.  `NoRequest` is a `Get` or `Post` that cannot build its request;
`DoRejected`, `DoBegin`, `DoWaits` are the limiter's `Wait`, with RateLimiter's own
actions; `StartCancelled | Start` and `Exhausted` are retry.go 114 and 126.  An
attempt is `ReadFails`, `SendCancelled` or `Send`; a request in flight ends with
`Answer`, `FlightFails` (an error or the client's timeout) or `FlightCancelled`.
After a failed attempt `OnRetry` logs (`LogPanics` without a logger), then
`GiveUp`, or `Delay` and `DelayEnds | DelayCancelled`.  `SetRateLimit` is the
limiter's `SetLimit`.

External: the server and net/http.  A request is answered with a final status, a
retryable one (429 or 5xx), fails, or is given up when its context ends; net/http
sends nothing for a context that has ended.  A reader given to `Do` may be a
stream that fails; `Post`'s does not.  The length of the delay, headers and the
bodies of the responses are abstracted.

### BybitConnector

State.  `connected`, `subscriptions` and `instruments` are the fields (41-43), the
last one reduced to its symbols.  The WebSocket connector is `HandlerMap`'s `up`
(`IsConnected`), `map` (the topics that have a handler, all of them nil, 504) and
`owed` (what a `Subscribe` or a `resubscribe` under way has still to register).
`pc[t]` is where a thread is; the threads are the callers and `Reconnector`, the
`Connect` that `reconnect` makes.  `did[c]` and `result[c]` are a caller's last call
and what it returned.  Two history variables serve the properties: `overtaken`, the
callers since whose last return another one has cleared the table or succeeded in a
call about the same topic, and `parted`, the topics whose handler an
`UnsubscribeCandles` has removed while a `SubscribeCandles` was about to record them.

Actions.  No method holds a lock, so each access of a shared field is an action.
`Connect` is `Fetched` (or `FetchFails`), the WebSocket connector's `Connect`
(`WSConnect`), `Mark`; `Close` is `WSClose`, `CloseDown`, `CloseClears`;
`SubscribeCandles` is `Already | Lookup`, `SubscribeFails | SubscribeGoes`,
`Register`, `Record`; `UnsubscribeCandles` is `NotFound | Find`, `Remove`, `Erase`.
A query reads `instruments` twice (144, 148).  `Lost` and `Closed` take the
connection down, with and without a reconnect.  Go ends a program in which one
goroutine writes a map while another one uses it: `MapFault` is that outcome, and
the interleaving of the two accesses is the other.

`Uses[c]` says what caller c may ask for: any calls, also the same ones as others.
A topic is the pair of the converted interval and the symbol.

What the queries make of their arguments and of an answer is in `BybitQueries`,
without state: the time range, the limit and the depth (`ValidRange`, `Limit`,
`Depth`), which answers count (`Counts`: whole, status 200, JSON, `retCode` 0) and
which rows become candles and levels (`Candles`, `Levels`).  A cell of a row is what
`strconv` makes of it: an integer, a number, or neither.  `RowsKept`, an assumption
that TLC evaluates in `MCBybitConnector`, compares them with a reference definition
on every list of up to two rows, short, complete, or with one cell that does not
parse: no bad row gets in, no good one is lost or moved.

External: Bybit's REST interface answers a call or fails it, and lists any
instruments.  A message of any topic may arrive; Bybit's connector itself never
sends the exchange a request to subscribe.

### Loggers

State.  `kind` is what the program uses, the default logger (`json`) or `ZapLogger`
(`zap`); `loggers` are the loggers made so far, the root first, each with the array
and the length of its slice of fields, the trace its context carries, its level and
its mutex.  `arrays` are the arrays behind the slices.  `given[l]` is a history
variable: the fields and traces that were given to l and to those it was derived
from.  `pc` and `call` are where a goroutine is.

Actions.  `WithContext`, `WithTrace` (ZapLogger's `WithContext`, with a trace) and
`WithFields` copy the struct (`Clone`).  `append(l.fields, ...)` writes in place
while the array has room and otherwise makes one of twice the size (`Appended`);
`make` and `copy` make one of the exact size (`Copied`).  A mutex copied while it is
held stays held by nobody (`Nobody`).  `log` is `Log` (the level, read without the
lock), `Acquire`, `Release`; `SetLevel` is `SetLevel`, `Acquire`, `Release`.
`SetOutput` is the same critical section as `SetLevel` and differs in the field it
writes only, so it has no action of its own.

Abstracted: formatting, writers, the fields given to a single call, which never
reach the slice, and zap's own core, which locks by itself.  Fields have keys other
than `trace_id`.

## 3. Runs

| run | constants | checks |
|---|---|---|
| `lifecycle` | 1 caller, 2 calls (Connect, Close), 2 sessions, 1 fault, 1 retry | `TypeOK`, `OneOwner`, `DoneDiscipline`, `Watched`, `ImplementsGuard`, `ImplementsSignal` |
| `returns` | 2 callers, 1 call each (Connect, Close, Send), 1 session, 1 fault, fair | `ReconnectOwnership`, `OneWriter`, `CloseReturns`, `FlagCleared`, `LossNoticed` |
| `stops` | 1 caller, 3 calls (Connect, Close), 2 sessions, fair | `SessionStops` |
| `dispatch` | 2 sessions, 1 topic, 2 handlers, 1 message, 2 calls (Subscribe, Unsubscribe) | `ImplementsDispatch`, `ImplementsHandlerMap` |
| `overflow` | 1 session, queue of 1, 3 messages, 2 calls, fair | `TypeOK`, `OnePlace`, `PumpNeverBlocks`, `QueueDrains` |
| `workers` | 2 sessions, 1 call, 1 message, fair | `WorkersStop` |
| `limiter` | 2 callers, 2 calls each, a second of 2 ticks, slack 1, 2 limiters, clock to 5, fair | `TypeOK`, `SlotsSpaced`, `WindowKept`, `OldLimiterDrains`, `WaitReturns` |
| `http` | 2 callers, 1 call each, 0, 1 or 3 attempts, with and without logger, 2 limiters, fair | `HTTPTypeOK`, `SameBody`, `DoOutcome`, `RequestsPermitted`, `CancelledReturns` |
| `bybit` | 2 callers, 4 calls each, one topic for both and a second one for the first caller, 1 lost connection, intervals `1m`, `1M` and one not supported | `BybitTypeOK`, `TableServed`, `TableTells`, `OthersKept` |
| `logging` | 2 goroutines, 3 loggers (`json`) or 5 (`zap`), 2 fields in lists of one and two, 2 traces and the empty one, 2 levels, fair | `LoggersTypeOK`, `FieldsKept`, `LogReturns` |
| `claim_panic`, `claim_autoreconnect` | one or two callers, at most 2 sessions | one sentence of the documentation each, violated |

Bounds.  `MaxSessions` bounds successful dials: a dial beyond it fails.  Two
sessions are what it takes for a pump, a heartbeat or a channel of an old session
to meet the state of a new one, and for a reconnect to succeed.  Two callers with
one session give five threads, four of which can be in `Connect` or `Close` at the
same time; that safety holds for more callers and sessions is what the theorems
of section 5 say.  `MaxCalls` bounds each caller, `MaxFaults` the
lost connections and cancelled contexts.  One retry makes both loops (`Connect`'s
and `retry.Do`'s) go round and give up.  Nothing the properties speak of counts
higher than that, and the theorems drop the bounds.

For the pipeline, two sessions are what it takes to have two queues and a
resubscription; three messages fill a queue of one behind a busy worker and
overflow it (one handled, one waiting, one dropped).  A run combines either two
sessions or several messages: both at once exceed five minutes.  `dispatch` has one
topic; that a change of one leaves the handlers of the others alone is shown by
`RefinesHandlerMap`, for any number of them.

For the limiter, two callers are what it takes to lose the compare-and-swap, and
two calls each give three slots and a pause between them.  The code's slack is 10
(ratelimit.go 64); with a slack of 1 and a clock that reaches 5 a pause exceeds
`maxSlack + perRequest` (71), which is what the slack is about, and the theorems
hold for every slack, 0 included.  `MaxClock` stops the clock only when nobody
sleeps.  The rates are 1 per second, one below 1 per second and an invalid one,
after an initial 2 per second.  For the client, `MaxRetries` = 3 is the default
configuration's; 0 and 1 are the boundaries of the retry loop.

For Bybit, four calls are `Connect`, a subscription, and two more that can undo it:
`Close` and `Connect` again, or an unsubscription and a query.  The second caller's
four are subscriptions to and unsubscriptions from the same topic, which overlap with
each of them; without the exception for `parted` the run violates `TableServed`.  One
loss is enough for a reconnect to register handlers again beside all of it.  `1m` and
`1M` are the two intervals whose names differ in case only.

For the loggers, five of zap's are what it takes to overwrite a cell: the root, one
with two fields, one with a trace, whose array grows to four cells and has room, and
two that append to that array from the same parent.  The
default logger never appends in place, so three of its loggers do: one, one derived
from it while its mutex is held, and one derived from that.  Two goroutines are a
holder and one that copies or waits.

Deadlock is checked, except in `logging`: `Rest` lets a system stop in which every
goroutine has returned, or that has panicked; any other stop would be reported.  In
`logging` the program really may stop, when all goroutines wait for mutexes that
were copied while held, and a bounded one has nothing else to do once all its
loggers are made.

Fairness (`Fairness`).  Go's scheduler runs every goroutine that can run, timers fire,
a dial ends, and a `sync.Mutex` is handed to a goroutine that has waited (starvation
mode), hence strong fairness for the threads that take `writeMu`. `select` chooses at
random among ready cases, hence strong fairness of `BeatDone`. No fairness is assumed
of the application, the peer or the network.  In particular a write may never end:
`WriteMessage` (652, 861, 870, 935) has no deadline, so a thread is fair while it
writes only if the connector has closed the connection, which makes the write fail
(`MayBlock`).  Hence the alternative `WriteHangs` in `CloseReturns` and
`SessionStops`, without which both are violated: `Close` takes `writeMu` behind a
blocked `Send` or ping, or blocks in its own close frame, and a heartbeat may wait for
`writeMu` behind either.  `FlagCleared` and `LossNoticed` need no write to end.  In
`MessagePipeline` the pump's processing and the workers are fair, the five-second
timer fires, and the worker's `select` is fair to the done channel; handlers are not
assumed to return.  In `RateLimiter` time passes and a goroutine inside `Take` runs:
weak fairness of its steps is enough, as a caller goes round only when another one has
got a slot; the loop is lock-free only, and `WaitReturns` holds of callers that make
finitely many calls, as `MaxCalls` has it.  In `Loggers` the mutex is again handed to
who has waited (strong fairness of `Acquire`), and who holds it goes on (weak,
`Release`), which takes a writer that does not block (logger.go 177).  In `HTTPClient`
the same holds of the client's own steps, and net/http gives a cancelled request up;
nothing is assumed of the server, which may never answer.

## 4. Divergences

Each `claim_*` run shows the code doing something else than a sentence of its
documentation (quoted in `PROJECT.json`, "findings"):

* `NeverPanics`: `Close` between the publication of the first connection (413) and
  the creation of the done channel (425) closes a nil channel.
* `AutoReconnect`: reconnect's deferred `cancel()` (729) cancels the context of the
  session it has just made; its monitor closes the connection and nothing reconnects.

The models show more of the kind, which no run asks about:

* a `Connect` between `c.connected = false` (488) and `close(c.done)` (501) of a pump on
  its way out joins a channel that is then closed: connected, without workers or
  heartbeat (`Join`, then `StopDone`, in `MessagePipeline`);
* `Do` asks the limiter once (http.go 241), its retries are sent on that permit,
  although 236 says "Each retry respects the rate limiter": up to `MaxRetries`
  requests for a permit, and no more (`RequestsPermitted`);
* the pump of a closed session is still in `ReadMessage` when the next session
  begins, and takes down its connection (`PumpClear`, connector.go 488);
* of two concurrent `Connect`s, the second overwrites the connection of the first
  (413), which nobody closes;
* `Close` (916, 928) may return without closing the connection it has taken: between
  its two critical sections a pump at the top of its loop sees the connector down and
  closes the done channel first (501), and `Close`, which finds it closed, goes no
  further (`CloseTake`, `PumpTop` to `PumpDone`, then `CloseDone`);
* `resubscribe` writes back a copy of the handlers (961-970), and undoes an
  `Unsubscribe` or a `Subscribe` made meanwhile (`HandlerMap` allows it: a `Register`
  of what is still owed);
* a loss while the flag's owner is finishing is not reconnected (707-711), although
  512-513 says "Always try to reconnect (...) regardless of reconnecting state flag";
* `Close` during an automatic reconnect finds nothing to close (911) and does not stop it;
* `MaxRetries = 0`, "unlimited" (180, 739), makes the vendored `retry.Do` try zero times:
  `RetryTurn` goes to `rec_cancel` at once;
* after two concurrent `Connect`s both pumps read the connection in `c.conn`;
* a queued task calls the handler it was made with after `Unsubscribe` has returned
  (`Lookup` binds it, `WorkerTake` calls it), although connector.go 129 and 828 say
  "After unsubscribing, no more messages for the topic will be routed to handlers.":
  `ImplementsDispatch` says to whom a message may be handed, not until when;
* no write has a deadline: a peer that sends and never reads blocks `Send` (861, 870)
  or the heartbeat's ping (652) with `writeMu` held, and every `Close` behind them
  (935); once `Close` has taken the connection (916), nobody is left to close it under
  a close frame that blocks (`MayBlock`);
* the worker's `recover` (1000) does not cover the goroutine that runs the handler
  (1010): `HandlerPanics` ends the program;
* tasks in the queue of a session that stops are never handled: its workers end
  (1023) and the next `Connect` makes a new queue (434);
* a context cancelled while its caller sleeps in `Take` is not noticed before the
  slot (limiter.go 168), although 73-74 says "the method will return immediately with
  an error": `Wake` does not look at `cancelled`;
* a rate below one operation per second divides by zero (`SetLimitPanics`), also
  the documented "50 operations per minute" (limiter.go 196);
* a new limiter (limiter.go 206) knows nothing of the slots of the old one, whose
  sleepers go on: together they admit more than either rate;
* a configuration without a logger, which http.go calls optional, ends the program
  at the first failed attempt (278, `LogPanics`);
* a stream whose reading failed is sent by the next attempt with what is left of it
  (`ReadFails`, then `Send`);
* Bybit's `SubscribeCandles` registers a nil handler (504), so the first message of its
  topic ends the program (`Message`), and never asks the exchange for the topic;
* Bybit's flag stays up when the connection is lost, although errors.go says of
  `ErrNotConnected` "or lost connection": calls fail with other errors (`SubscribeFails`);
* Bybit's `Close` clears the table (131) but leaves the handlers, which the next
  `Connect` registers again; a `SubscribeCandles` that passes its checks before a
  `Close` and records after it leaves an entry in the table of a closed connector;
* two Bybit calls that write the table at the same time end the program (`MapFault`),
  although interfaces/connector.go 81 says "Exchange connectors should be
  thread-safe";
* with two Bybit callers on one topic the table and the handlers may part:
  `UnsubscribeCandles` removes the handler (bybit/connector.go 540) of a topic that a
  `SubscribeCandles` between 504 and 511 records, and subscribing again then does
  nothing (495).  `parted` names these topics; `TablesServed` says that there is no
  other way;
* two loggers that ZapLogger's `WithContext` derives from one parent may share the
  array they append to, so an entry may carry the other's `trace_id` in front of its
  own (zap.go 151-161): `FieldsKept` says no more of a trace than that it is one;
* `ZapLogger.WithContext(nil)` panics (zap.go 156), the default logger's does not: in
  the model every `WithContext` is given a context;
* a logger derived while another goroutine holds its parent's mutex (logger.go 170,
  204) gets a held mutex that nobody will release: its `log` never returns
  (`Nobody`), although 141-142 lock and unlock properly;
* loggers derived from one share its writer but not its mutex, so two entries may be
  written at once; and the copy reads `out` and the level without the lock under
  which `SetOutput` and `SetLevel` write them;
* `ZapLogger.SetLevel` changes nothing, and `NewZapLogger` returns the default logger
  when zap cannot be built.

## 5. Proofs

Everything below is proved for every value of the constants that satisfies the named
assumptions of its module: any set of callers, any methods, any number of sessions,
retries, faults, messages or loggers.  For `WSConnector` these are
`BoundsAssumption` and `ThreadsAssumption`.

`WSConnectorProofs`: `TypeCorrect`, `Spec => []TypeOK`.  `TypeOK` alone is not
inductive: `Launch` writes `sessDone[lconn[t]]`, which is in range only if a
launching thread holds a connection (`HeldConn`), and that a `Close` that finds
`connected` holds one needs `connected <=> conn # 0` (`ConnectedIffConn`).
`TypeInv` is their conjunction; each conjunct has a step lemma, with one case per
action.

`WSConnectorSafety`: `Invariant`, `Spec => []IInv`, and its conjuncts as theorems.
The lemmas come in the order in which they need each other:

1. `Numbered`: connections are numbered in the order of the dials, so a dial's
   number is new.
2. `Launches`: hence only one `Connect` is about to launch a session, and its
   goroutines have not started.  Every later part uses this for `Launch`.
3. `ReconnectOwnership` (`FlagHasOneOwner`), with `FlagFound`: a step keeps,
   acquires or releases the flag (`FlagMove`), for each function; that a `Connect`
   made by a reconnect found the flag up is what keeps it from resetting it.
4. `OneWriter` (`WritesExclude`): the same argument for `writeMu`.
5. `OneOwner` (`ConnectionHasOneOwner`): a step leaves every connection with its
   owner, or moves one.  `OneWriter` is not enough here: a pump takes the
   connection without `writeMu`.
6. `Channels` and `DoneDiscipline` (`DoneClosedOnce`): a step launches a session,
   closes the current channel, or leaves the channels alone (`ChannelCases`).
   `Channels` says a channel is named after a session that joined it, so a channel
   that a launch makes has not been closed before.
7. `Watched` (`ConnectionIsWatched`): from `OneOwner` and `Launches`.

`RefinesGuard` and `RefinesSignal` show that the connector implements
`ReconnectGuard` and `StopSignal`; the flag's holder is `FlagHolder`, a `CHOOSE`
over the owners that `ReconnectOwnership` makes unique.

`RateLimiterProofs`: everything for every value of the constants that satisfies
`LimiterAssumption`, so for any rates, any slack, any number of callers.
`SlotsSpaced` and `WindowKept` are not inductive.  `IInv` adds to the types what the
locals of a caller inside `Take` mean (`TakesOK`: its reading is not later than the
clock, and a sleeper's slot has been issued and is not later than its wake-up), what
a permit records (it ended no earlier than its slot, and its slot is earlier than
its reading by the slack at most), and that no slot is held twice, by sleepers or
permits (`OwnSlots`): a compare-and-swap that succeeds issues a slot that nobody has
(`NewSlotIsFree`).  `NextSlotBounds` is the one fact about `NextSlot` that all of
this needs.  Two permits' bounds and the spacing of their slots give `RateKept`, an
inequality of times (`TimelyKeepsRate`, `LimiterKeepsRate`).  `WindowKept` is a count,
and the counting is `Spread`: a finite set of naturals has an element at least its
size less one away from its least (`LeastElement`).  The slots of the calls admitted
in a window are such a set, as large as the set of calls because of `OwnSlots`; its
two ends satisfy `RateKept` (`OwnSlotsKeepWindow`, `LimiterKeepsWindow`).
`OldLimitersDrain` proves `OldLimiterDrains`: `SetLimit` (206) takes no lock, but a
caller chooses its limiter once, so a replaced one loses callers only, one for each
slot it still issues.

`HTTPClientProofs` (with `AttemptsAssumption`): `ClientTypeCorrect`;
`ClientImplementsLimiter` maps every step of the client to a step of `RateLimiter` or
a stutter, so `RateKept` and `WindowKept` hold of the client too (`ClientKeepsRate`,
`ClientKeepsWindow`). `RequestsArePermitted` proves `RequestsPermitted`.  A count of
all requests is not inductive by itself: `Charged` says that there is an `Account`, as
many pairs of a permit and one of the numbers 1 to `attempts` as there were requests,
in which each call under way has a permit of its own, charged with no more than its
`log` has.  The account is existential because the code keeps none; each step shows
how to go on with it: a call that gets past the limiter brings a permit that nobody
had (`TakeGrants`), and a request is the next number of its call's.
`DoReturnsItsAnswer` and `RetriesSendSameBody` come from `DoInv`, which says for each
place in `Do` how many requests there were (`Counted`), that a pending answer is the
last one's and a final one ends the call (`Waiting`), and that what was sent is what
the reader still holds (`Intact`).  A step changes the call of one caller only
(`OneCaller`).

`MessagePipelineProofs`: `PipelineTypeCorrect`, the types in parts, with what a pump
or a caller holds depending on where it is.  `MessagePipelineSafety`:
`MessageInOnePlace`, `RefinesDispatch` and `RefinesHandlerMap`.  That a message is in
one place is not inductive, because a message read may be one that is under way
already: `Once` adds that every number in use is at most `nread` (`Fresh`), that what
a pump holds is in no queue and no worker has taken it (`HeldOnce`), that a queue
holds it once and no other queue does (`QueuedOnce`), that it was started once
(`StartedOnce`), and that a pump begins only after its session has its queue
(`PumpAfterQueue`), so that `Launch` starts no pump that holds a message.  A step is
one of four kinds: a pump reads, a pump puts its task in a queue, a worker takes one,
or none of these (`QuietStep`). For `MessageDispatch` the handler a message is bound
to is that of the one task with its number, a `CHOOSE` that `OnePlace` makes unique
(`BoundIs`, `BoundWillBe`); then `Lookup` binds, `Enqueue` keeps or drops,
`WorkerTake` gives. For `HandlerMap` a resubscription owes the pairs of its copy,
which `Restoring` says is empty before `Snapshot` and always has the topic that passed
its check.  A step changes what one writer owes (`CallerOwes`, `SessionOwes`) and one
topic of the map (`PairsChange`, `PairsCleared`): `Snapshot` is a `Resubscribe`,
`RestoreCheck` a `GiveUp` or nothing, both writes are a `Register`.

`BybitProofs`, for any callers, of one topic or of several, symbols, calls and losses:
`BybitTypeCorrect`; `TablesServed`, `TableServed`; `TablesTell`, `TableTells`;
`SubscriptionsKeptApart`, `OthersKept`.  All of them rest on `CallsOK`, that a thread
is at a place of the call it was called for, whose steps come in three kinds
(`StepCases`): a call begins, a caller goes on or returns within its call
(`MiddleGoesOn`), or the WebSocket connector's `Connect` moves (`WSConnectMoves`).
Whatever it registers or gives up, no topic loses its handler by it (`SettlesKeep`,
`WSConnectKeeps`), because all handlers are one.  `TableServed` is not inductive: it
needs in addition that what is about to be recorded has its handler or has been
parted from it (`Registered`), which another caller's `Remove` keeps because it adds
to `parted`.  `TableTells` needs that whoever shares the topic of a call that
succeeds is overtaken by it (`SharersOvertaken`), so that its effect on the table is
nobody else's (`ReturnsTell`).  `OthersKept` needs that a subscription under way is of
a supported interval (`SupportedOK`), and that `Convert` is injective on those
(`ConvertInjective`).  About the queries: `LimitInBounds`, `DepthCovers`.

`LoggersProofs`: `LoggersInvariant`, `LoggersTypeCorrect`, `FieldsAreKept`.
`FieldsKept` is not inductive: an append in place writes behind the fields of the
logger that appends, where a longer logger on the same array has cells of its own.
`Shared` says that those cells are traces, never fields: fields come by `copy` into
an array that nobody else has.

What only TLC checks: the liveness properties (temporal proofs under fairness are out
of the prover's reach) and `RowsKept`, which is about folds (induction over data is
out of reach too).

## 6. Plan

1. Done: the life cycle, its abstract specifications, its claims, type
   correctness, the inductive invariant and the refinements.
2. Done: the message pipeline, its types, `OnePlace` and the refinement of
   `MessageDispatch`.  That its life cycle implements `StopSignal` is not a theorem:
   it is built from `StopSignal`'s actions.
3. Done: `RateLimiter` and `HTTPClient`, checked and proved: the count of admitted
   calls in a window, and of requests for a permit.
4. Done: `BybitConnector` and its queries, checked and proved, on top of `HandlerMap`,
   which `MessagePipeline` is proved to implement.
5. Done: `Loggers`, checked and proved.
6. Left: an abstract life cycle that `WSConnector` and `MessagePipeline` both implement,
   beyond the done channel: a `Connect` publishes only after it has found the connector
   down and joins a channel only after it has published, and a channel is closed only by
   who has taken the connection down.

## 7. Not modelled

* The metrics of the WebSocket connector (`GetMetrics`, `HealthCheck`): counters
  that no decision depends on.
* The test doubles: `mock_connector.go` returns what a test has set, and
  `mock_server.go` is an echo server whose reactions are those of the peer in
  `WSConnector`.  Neither runs in the program.
* The exchange interface: declarations and error types.
* Of logging: formatting, writers, zap's core, and `ZapLogger.SetOutput`, which
  rebuilds it.
* Bybit's methods that return `ErrNotImplemented`, and the contents of candles and
  levels beyond which cells parse.
* Of the HTTP client: a caller's stream that blocks in `io.ReadAll` (252), which no
  context ends.
* The vendored libraries beyond what the call sites rely on, and CI.

The reasons are also in `PROJECT.json`, "components".

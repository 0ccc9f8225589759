---------------------------- MODULE WSConnector ----------------------------
(***************************************************************************)
(* The life cycle of the WebSocket connector, pkg/websocket/connector.go:  *)
(* Connect, Close, Send, the read pump, the heartbeat loop, the context    *)
(* monitor and the automatic reconnection, interleaved at the granularity  *)
(* of the code's critical sections.                                        *)
(*                                                                         *)
(* Every successful dial starts a session, numbered in order.  A session   *)
(* number also names the connection it dialled and the done channel its    *)
(* Connect may create; 0 is nil.  A goroutine that outlives its first      *)
(* task keeps its identity: the pump and the heartbeat of a session run    *)
(* the `go c.reconnect()` they start as their last task.  A local variable *)
(* that goes out of scope is reset to its first value.                     *)
(***************************************************************************)
EXTENDS Naturals, FiniteSets

CONSTANTS
  Callers,      \* goroutines of the application that call the connector
  Ops,          \* the methods they call: "Connect", "Close", "Send"
  NoThread,     \* nobody: an unlocked mutex, a context not yet known
  MaxSessions,  \* BOUND: successful dials
  MaxCalls,     \* BOUND: calls made by each caller
  FaultKinds,   \* what may go wrong around the program: "dial" (a dial
                \* fails), "break" (a connection is lost), "cancel" (a context)
  MaxFaults,    \* BOUND: lost connections and cancelled contexts
  MaxRetries    \* Config.MaxRetries

Sessions == 1 .. MaxSessions

Pump(k) == <<"pump", k>>   \* go c.readPump(ctx)
Beat(k) == <<"beat", k>>   \* go c.heartbeatLoop(done)
Mon(k)  == <<"mon", k>>    \* the goroutine that monitors the context

Pumps    == {Pump(k) : k \in Sessions}
Beats    == {Beat(k) : k \in Sessions}
Monitors == {Mon(k) : k \in Sessions}
Threads  == Callers \cup Pumps \cup Beats \cup Monitors

ASSUME BoundsAssumption ==
  /\ Ops \subseteq {"Connect", "Close", "Send"}
  /\ FaultKinds \subseteq {"dial", "break", "cancel"}
  /\ MaxSessions \in Nat
  /\ MaxCalls \in Nat
  /\ MaxFaults \in Nat
  /\ MaxRetries \in Nat

ASSUME ThreadsAssumption ==
  /\ Callers \cap (Pumps \cup Beats \cup Monitors) = {}
  /\ NoThread \notin Threads

VARIABLES
  connected,     \* c.connected      } under reconnectMu
  conn,          \* c.conn           }
  reconnecting,  \* c.reconnecting   }
  done,          \* c.done           } under doneMu
  closed,        \* c.closed         }
  writeMu,       \* the thread that holds c.writeMu
  dialled,       \* sessions dialled so far
  link,          \* link[k]: the state of connection k
  stopped,       \* the done channels that have been closed
  cancelled,     \* the threads whose context is cancelled
  panicked,      \* the run-time panic that ended the program, if any
  pc,            \* pc[t]: where thread t is
  was,           \* was[t]: its wasReconnecting or wasConnected
  lconn,         \* lconn[t]: its copy of a connection
  attempt,       \* attempt[t]: dials made by its Connect
  tries,         \* tries[t]: attempts completed by its retry.Do
  calls,         \* calls[c]: calls made by caller c
  faults,        \* connections lost and contexts cancelled so far
  sessCtx,       \* sessCtx[k]: the thread whose context session k observes
  sessDone       \* sessDone[k]: the done channel session k observes

state == <<connected, conn, reconnecting>>
chans == <<done, closed, stopped>>
local == <<was, lconn, attempt, tries>>
sess  == <<sessCtx, sessDone>>
env   == <<calls, faults>>
vars  == <<state, chans, writeMu, dialled, link, cancelled, panicked, pc,
           local, env, sess>>

-----------------------------------------------------------------------------
(* Program counters, grouped by the function they belong to.               *)

ConnectBody == {"conn_dial", "conn_backoff", "conn_publish", "conn_done",
                "conn_ok", "conn_fail"}
ConnectPcs  == ConnectBody \cup {"conn_check"}
ClosePcs    == {"close_take", "close_done", "close_conn"}
SendPcs     == {"send_check", "send_lock", "send_write"}
PumpPcs     == {"pump_top", "pump_read", "pump_clear", "pump_close",
                "pump_done", "pump_exit"}
BeatPcs     == {"beat_wait", "beat_ping"}
ReconnectBody == {"rec_try", "rec_failed", "rec_cancel", "rec_exit"}
ReconnectPcs  == ReconnectBody \cup {"rec_enter"}

CallerPcs == {"idle"} \cup ConnectPcs \cup ClosePcs \cup SendPcs
PumpAll   == {"none", "end"} \cup PumpPcs \cup ReconnectPcs \cup ConnectPcs
BeatAll   == {"none", "end"} \cup BeatPcs \cup ClosePcs \cup ReconnectPcs
                             \cup ConnectPcs
MonAll    == {"none", "end", "mon_wait"} \cup ClosePcs
Pcs       == CallerPcs \cup PumpAll \cup BeatAll \cup MonAll

PcType(t) == /\ t \in Callers => pc[t] \in CallerPcs
             /\ t \in Pumps => pc[t] \in PumpAll
             /\ t \in Beats => pc[t] \in BeatAll
             /\ t \in Monitors => pc[t] \in MonAll

FlagsType ==
  /\ connected \in BOOLEAN
  /\ reconnecting \in BOOLEAN
  /\ closed \in BOOLEAN
  /\ was \in [Threads -> BOOLEAN]

PcsType ==
  /\ pc \in [Threads -> Pcs]
  /\ \A t \in Threads : PcType(t)

DataType ==
  /\ conn \in 0 .. MaxSessions
  /\ done \in 0 .. MaxSessions
  /\ dialled \in 0 .. MaxSessions
  /\ writeMu \in Threads \cup {NoThread}
  /\ link \in [Sessions -> {"none", "open", "broken", "closed"}]
  /\ stopped \subseteq Sessions
  /\ cancelled \subseteq Threads
  /\ panicked \in {"no", "nil_channel", "closed_channel"}
  /\ lconn \in [Threads -> 0 .. MaxSessions]
  /\ attempt \in [Threads -> Nat]
  /\ tries \in [Threads -> Nat]
  /\ calls \in [Callers -> 0 .. MaxCalls]
  /\ faults \in 0 .. MaxFaults
  /\ sessCtx \in [Sessions -> Threads \cup {NoThread}]
  /\ sessDone \in [Sessions -> 0 .. MaxSessions]

TypeOK == FlagsType /\ PcsType /\ DataType

Init ==
  /\ connected = FALSE /\ conn = 0 /\ reconnecting = FALSE
  /\ done = 0 /\ closed = FALSE /\ stopped = {}
  /\ writeMu = NoThread
  /\ dialled = 0
  /\ link = [k \in Sessions |-> "none"]
  /\ cancelled = {}
  /\ panicked = "no"
  /\ pc = [t \in Threads |-> IF t \in Callers THEN "idle" ELSE "none"]
  /\ was = [t \in Threads |-> FALSE]
  /\ lconn = [t \in Threads |-> 0]
  /\ attempt = [t \in Threads |-> 0]
  /\ tries = [t \in Threads |-> 0]
  /\ calls = [c \in Callers |-> 0] /\ faults = 0
  /\ sessCtx = [k \in Sessions |-> NoThread]
  /\ sessDone = [k \in Sessions |-> 0]

(* A step of a thread: it is at `from`, the program has not crashed, and   *)
(* it goes on at `to`.                                                     *)
At(t, from) == pc[t] = from /\ panicked = "no"
Goto(t, to) == pc' = [pc EXCEPT ![t] = to]

(* c.writeMu.Lock(); every other lock is released within the action that   *)
(* acquires it.                                                            *)
LockUnguarded(t) == writeMu' = t                               \* a mutant
Lock(t) == writeMu = NoThread /\ writeMu' = t

(* c.connected = false; c.conn = nil                                       *)
TakeConnKeepingIt == connected' = FALSE /\ conn' = conn        \* a mutant
TakeConn == connected' = FALSE /\ conn' = 0

-----------------------------------------------------------------------------
(* Calls of the application, and what surrounds the program.               *)

Call(c) ==
  /\ At(c, "idle")
  /\ calls[c] < MaxCalls
  /\ calls' = [calls EXCEPT ![c] = @ + 1]
  /\ \/ "Connect" \in Ops /\ Goto(c, "conn_check")
     \/ "Close" \in Ops /\ Goto(c, "close_take")
     \/ "Send" \in Ops /\ Goto(c, "send_check")
  /\ UNCHANGED <<state, chans, writeMu, dialled, link, cancelled, panicked,
                 local, faults, sess>>

NewFault(kind) ==
  /\ kind \in FaultKinds
  /\ faults < MaxFaults
  /\ faults' = faults + 1

(* The peer or the network drops connection k, or nothing has been read    *)
(* from it before its read deadline: a read on it fails from now on.       *)
Break(k) ==
  /\ panicked = "no"
  /\ link[k] = "open"
  /\ link' = [link EXCEPT ![k] = "broken"]
  /\ NewFault("break")
  /\ UNCHANGED <<state, chans, writeMu, dialled, cancelled, panicked, pc,
                 local, calls, sess>>

(* The application cancels the context a caller passes to Connect, or the  *)
(* one-minute context of a running reconnect expires.                      *)
CancelCtx(t) ==
  /\ panicked = "no"
  /\ t \notin cancelled
  /\ t \in Callers \/ pc[t] \in ReconnectBody \cup ConnectPcs
  /\ cancelled' = cancelled \cup {t}
  /\ NewFault("cancel")
  /\ UNCHANGED <<state, chans, writeMu, dialled, link, panicked, pc, local,
                 calls, sess>>

-----------------------------------------------------------------------------
(* Connect(ctx).  A caller returns to the application; a reconnect goes on *)
(* with the result of the attempt.                                         *)

ConnectReturn(t, ok) ==
  Goto(t, IF t \in Callers THEN "idle"
          ELSE IF ok THEN "rec_cancel" ELSE "rec_failed")

ConnectEarly(t) ==      \* already connected, or the context is cancelled
  /\ At(t, "conn_check")
  /\ \/ connected /\ ConnectReturn(t, TRUE)
     \/ ~connected /\ t \in cancelled /\ ConnectReturn(t, FALSE)
  /\ UNCHANGED <<state, chans, writeMu, dialled, link, cancelled, panicked,
                 local, env, sess>>

ConnectBegin(t) ==
  /\ At(t, "conn_check")
  /\ ~connected /\ t \notin cancelled
  /\ was' = [was EXCEPT ![t] = reconnecting]
  /\ reconnecting' = TRUE
  /\ attempt' = [attempt EXCEPT ![t] = 0]
  /\ Goto(t, "conn_dial")
  /\ UNCHANGED <<connected, conn, chans, writeMu, dialled, link, cancelled,
                 panicked, lconn, tries, env, sess>>

(* MaxRetries = 0 is unlimited: attempts are then not counted.             *)
Exhausted(t) == MaxRetries > 0 /\ attempt[t] = MaxRetries
NextAttempt(t) ==
  attempt' = IF MaxRetries > 0 THEN [attempt EXCEPT ![t] = @ + 1] ELSE attempt

ConnectStop(t) ==       \* the top of the loop, or the wait, gives up
  /\ \/ At(t, "conn_dial") /\ (Exhausted(t) \/ t \in cancelled)
     \/ At(t, "conn_backoff") /\ t \in cancelled
  /\ Goto(t, "conn_fail")
  /\ UNCHANGED <<state, chans, writeMu, dialled, link, cancelled, panicked,
                 local, env, sess>>

DialOk(t) ==
  /\ At(t, "conn_dial")
  /\ ~Exhausted(t) /\ t \notin cancelled
  /\ dialled < MaxSessions
  /\ dialled' = dialled + 1
  /\ link' = [link EXCEPT ![dialled'] = "open"]
  /\ lconn' = [lconn EXCEPT ![t] = dialled']
  /\ NextAttempt(t)
  /\ Goto(t, "conn_publish")
  /\ UNCHANGED <<state, chans, writeMu, cancelled, panicked, was, tries,
                 env, sess>>

DialFail(t) ==
  /\ At(t, "conn_dial")
  /\ "dial" \in FaultKinds \/ dialled = MaxSessions
  /\ ~Exhausted(t) /\ t \notin cancelled
  /\ NextAttempt(t)
  /\ Goto(t, "conn_backoff")
  /\ UNCHANGED <<state, chans, writeMu, dialled, link, cancelled, panicked,
                 was, lconn, tries, env, sess>>

Backoff(t) ==           \* ReconnectInterval has passed
  /\ At(t, "conn_backoff")
  /\ Goto(t, "conn_dial")
  /\ UNCHANGED <<state, chans, writeMu, dialled, link, cancelled, panicked,
                 local, env, sess>>

Publish(t) ==
  /\ At(t, "conn_publish")
  /\ conn' = lconn[t]
  /\ connected' = TRUE
  /\ Goto(t, "conn_done")
  /\ UNCHANGED <<reconnecting, chans, writeMu, dialled, link, cancelled,
                 panicked, local, env, sess>>

(* The done channel of a new session: a new one only when there is no open *)
(* one to share.                                                           *)
NeedsChannelAlways == TRUE                                     \* a mutant
NeedsChannel == done = 0 \/ closed

Launch(t) ==
  LET k == lconn[t] IN
  /\ At(t, "conn_done")
  /\ done' = IF NeedsChannel THEN k ELSE done
  /\ closed' = (IF NeedsChannel THEN FALSE ELSE closed)
  /\ sessCtx' = [sessCtx EXCEPT ![k] = t]
  /\ sessDone' = [sessDone EXCEPT ![k] = done']
  /\ pc' = [pc EXCEPT ![t] = "conn_ok", ![Pump(k)] = "pump_top",
                      ![Beat(k)] = "beat_wait", ![Mon(k)] = "mon_wait"]
  /\ lconn' = [lconn EXCEPT ![t] = 0]
  /\ UNCHANGED <<state, stopped, writeMu, dialled, link, cancelled, panicked,
                 was, attempt, tries, env>>

FlagAfterReset(t) == FALSE                                     \* a mutant
FlagNotReset(t) == reconnecting                                \* a mutant
FlagAfter(t) == reconnecting /\ was[t]

ConnectExit(t) ==       \* the deferred reset, then the return
  /\ \/ At(t, "conn_ok") /\ ConnectReturn(t, TRUE)
     \/ At(t, "conn_fail") /\ ConnectReturn(t, FALSE)
  /\ reconnecting' = FlagAfter(t)
  /\ was' = [was EXCEPT ![t] = FALSE]
  /\ attempt' = [attempt EXCEPT ![t] = 0]
  /\ UNCHANGED <<connected, conn, chans, writeMu, dialled, link, cancelled,
                 panicked, lconn, tries, env, sess>>

-----------------------------------------------------------------------------
(* Close(), called by the application, by the context monitor and by the   *)
(* heartbeat.  writeMu is held from the first action to the last.          *)

CloseReturnReconnecting(t) ==                                  \* a mutant
  Goto(t, IF t \in Callers THEN "idle" ELSE "rec_enter")
CloseReturn(t) == Goto(t, IF t \in Callers THEN "idle"
                          ELSE IF t \in Beats THEN "rec_enter" ELSE "end")

CloseTake(t) ==
  /\ At(t, "close_take")
  /\ Lock(t)
  /\ connected
  /\ TakeConn
  /\ lconn' = [lconn EXCEPT ![t] = conn]
  /\ Goto(t, "close_done")
  /\ UNCHANGED <<reconnecting, chans, dialled, link, cancelled, panicked,
                 was, attempt, tries, env, sess>>

CloseNotConnected(t) ==
  /\ At(t, "close_take")
  /\ writeMu = NoThread
  /\ ~connected
  /\ CloseReturn(t)
  /\ UNCHANGED <<state, chans, writeMu, dialled, link, cancelled, panicked,
                 local, env, sess>>

(* if !c.closed { close(c.done); c.closed = true }                         *)
SignalDone ==
  \/ closed /\ UNCHANGED <<chans, panicked>>
  \/ /\ ~closed
     /\ closed' = TRUE
     /\ stopped' = IF done = 0 THEN stopped ELSE stopped \cup {done}
     /\ panicked' = IF done = 0 THEN "nil_channel"
                    ELSE IF done \in stopped THEN "closed_channel"
                    ELSE panicked
     /\ UNCHANGED done

CloseDone(t) ==
  /\ At(t, "close_done")
  /\ SignalDone
  /\ \/ ~closed /\ Goto(t, "close_conn") /\ UNCHANGED <<writeMu, lconn>>
     \/ /\ closed                                         \* wasClosed
        /\ CloseReturn(t)
        /\ writeMu' = NoThread
        /\ lconn' = [lconn EXCEPT ![t] = 0]
  /\ UNCHANGED <<state, dialled, link, cancelled, was, attempt, tries, env,
                 sess>>

CloseConn(t) ==         \* the close frame, the pause, and conn.Close()
  /\ At(t, "close_conn")
  /\ link' = [link EXCEPT ![lconn[t]] = "closed"]
  /\ lconn' = [lconn EXCEPT ![t] = 0]
  /\ writeMu' = NoThread
  /\ CloseReturn(t)
  /\ UNCHANGED <<state, chans, dialled, cancelled, panicked, was, attempt,
                 tries, env, sess>>

-----------------------------------------------------------------------------
(* Send(message): the connection is copied before writeMu is acquired.     *)

SendCheck(t) ==
  /\ At(t, "send_check")
  /\ \/ ~connected /\ Goto(t, "idle") /\ UNCHANGED lconn
     \/ /\ connected
        /\ lconn' = [lconn EXCEPT ![t] = conn]
        /\ Goto(t, "send_lock")
  /\ UNCHANGED <<state, chans, writeMu, dialled, link, cancelled, panicked,
                 was, attempt, tries, env, sess>>

SendLock(t) ==
  /\ At(t, "send_lock")
  /\ Lock(t)
  /\ Goto(t, "send_write")
  /\ UNCHANGED <<state, chans, dialled, link, cancelled, panicked, local,
                 env, sess>>

SendWrite(t) ==
  /\ At(t, "send_write")
  /\ writeMu' = NoThread
  /\ lconn' = [lconn EXCEPT ![t] = 0]
  /\ Goto(t, "idle")
  /\ UNCHANGED <<state, chans, dialled, link, cancelled, panicked, was,
                 attempt, tries, env, sess>>

-----------------------------------------------------------------------------
(* readPump(ctx) of session k.  It reads whatever connection c.conn is at  *)
(* the top of its loop, not the one its session dialled.                   *)

PumpTop(k) ==
  LET p == Pump(k) IN
  /\ At(p, "pump_top")
  /\ \/ /\ sessCtx[k] \in cancelled \/ conn = 0 \/ ~connected
        /\ Goto(p, "pump_clear")
        /\ lconn' = [lconn EXCEPT ![p] = 0]
     \/ /\ sessCtx[k] \notin cancelled /\ conn # 0 /\ connected
        /\ lconn' = [lconn EXCEPT ![p] = conn]
        /\ Goto(p, "pump_read")
  /\ UNCHANGED <<state, chans, writeMu, dialled, link, cancelled, panicked,
                 was, attempt, tries, env, sess>>

PumpMessage(k) ==       \* a message is read and handed to processMessage
  /\ At(Pump(k), "pump_read")
  /\ link[lconn[Pump(k)]] = "open"
  /\ Goto(Pump(k), "pump_top")
  /\ UNCHANGED <<state, chans, writeMu, dialled, link, cancelled, panicked,
                 local, env, sess>>

(* The read fails: the connection is gone, or it is no longer c.conn, whose *)
(* read deadline alone is extended, and the deadline passes.               *)
ReadFailsWhenClosed(p) == link[lconn[p]] = "closed"            \* a mutant
ReadFails(p) == link[lconn[p]] # "open" \/ lconn[p] # conn

PumpError(k) ==
  /\ At(Pump(k), "pump_read")
  /\ ReadFails(Pump(k))
  /\ Goto(Pump(k), "pump_clear")
  /\ UNCHANGED <<state, chans, writeMu, dialled, link, cancelled, panicked,
                 local, env, sess>>

(* The deferred function of readPump, one action per critical section.     *)
PumpClear(k) ==
  LET p == Pump(k) IN
  /\ At(p, "pump_clear")
  /\ was' = [was EXCEPT ![p] = connected]
  /\ lconn' = [lconn EXCEPT ![p] = conn]
  /\ TakeConn
  /\ Goto(p, "pump_close")
  /\ UNCHANGED <<reconnecting, chans, writeMu, dialled, link, cancelled,
                 panicked, attempt, tries, env, sess>>

PumpClose(k) ==
  LET p == Pump(k) IN
  /\ At(p, "pump_close")
  /\ link' = IF lconn[p] = 0 THEN link ELSE [link EXCEPT ![lconn[p]] = "closed"]
  /\ lconn' = [lconn EXCEPT ![p] = 0]
  /\ Goto(p, "pump_done")
  /\ UNCHANGED <<state, chans, writeMu, dialled, cancelled, panicked, was,
                 attempt, tries, env, sess>>

PumpDone(k) ==
  /\ At(Pump(k), "pump_done")
  /\ SignalDone
  /\ Goto(Pump(k), "pump_exit")
  /\ UNCHANGED <<state, writeMu, dialled, link, cancelled, local, env, sess>>

PumpExit(k) ==
  /\ At(Pump(k), "pump_exit")
  /\ Goto(Pump(k), IF sessCtx[k] \notin cancelled /\ was[Pump(k)]
                   THEN "rec_enter" ELSE "end")
  /\ was' = [was EXCEPT ![Pump(k)] = FALSE]
  /\ UNCHANGED <<state, chans, writeMu, dialled, link, cancelled, panicked,
                 lconn, attempt, tries, env, sess>>

-----------------------------------------------------------------------------
(* heartbeatLoop(done) of session k.                                       *)

(* The channel the goroutines of session k captured when they started.     *)
StoppedCurrent(k) == done \in stopped                          \* a mutant
Stopped(k) == sessDone[k] \in stopped

BeatTick(k) ==
  LET b == Beat(k) IN
  /\ At(b, "beat_wait")
  /\ \/ /\ writeMu = NoThread
        /\ ~connected \/ conn = 0
        /\ Goto(b, "end")
        /\ UNCHANGED <<lconn, writeMu>>
     \/ /\ Lock(b)
        /\ connected /\ conn # 0
        /\ lconn' = [lconn EXCEPT ![b] = conn]
        /\ Goto(b, "beat_ping")
  /\ UNCHANGED <<state, chans, dialled, link, cancelled, panicked,
                 was, attempt, tries, env, sess>>

BeatPingHoldingLock(k) ==                                      \* a mutant
  LET b == Beat(k) IN
  /\ At(b, "beat_ping")
  /\ \/ link[lconn[b]] # "closed" /\ Goto(b, "beat_wait") /\ writeMu' = NoThread
     \/ link[lconn[b]] # "open" /\ Goto(b, "close_take") /\ UNCHANGED writeMu
  /\ lconn' = [lconn EXCEPT ![b] = 0]
  /\ UNCHANGED <<state, chans, dialled, link, cancelled, panicked, was,
                 attempt, tries, env, sess>>

(* A ping to an open peer is written; a failed one closes and reconnects.  *)
BeatPing(k) ==
  LET b == Beat(k) IN
  /\ At(b, "beat_ping")
  /\ writeMu' = NoThread
  /\ \/ link[lconn[b]] # "closed" /\ Goto(b, "beat_wait")
     \/ link[lconn[b]] # "open" /\ Goto(b, "close_take")
  /\ lconn' = [lconn EXCEPT ![b] = 0]
  /\ UNCHANGED <<state, chans, dialled, link, cancelled, panicked, was,
                 attempt, tries, env, sess>>

BeatDone(k) ==
  /\ At(Beat(k), "beat_wait")
  /\ Stopped(k)
  /\ Goto(Beat(k), "end")
  /\ UNCHANGED <<state, chans, writeMu, dialled, link, cancelled, panicked,
                 local, env, sess>>

(* The context monitor of session k.                                       *)
MonSelect(k) ==
  /\ At(Mon(k), "mon_wait")
  /\ \/ sessCtx[k] \in cancelled /\ Goto(Mon(k), "close_take")
     \/ Stopped(k) /\ Goto(Mon(k), "end")
  /\ UNCHANGED <<state, chans, writeMu, dialled, link, cancelled, panicked,
                 local, env, sess>>

-----------------------------------------------------------------------------
(* reconnect(), run by the pump or the heartbeat t that started it.        *)

MayReconnectUnguarded == ~connected                            \* a mutant
MayReconnect == ~connected /\ ~reconnecting

ReconnectSkip(t) ==
  /\ At(t, "rec_enter")
  /\ ~MayReconnect
  /\ Goto(t, "end")
  /\ UNCHANGED <<state, chans, writeMu, dialled, link, cancelled, panicked,
                 local, env, sess>>

ReconnectBegin(t) ==
  /\ At(t, "rec_enter")
  /\ MayReconnect
  /\ reconnecting' = TRUE
  /\ tries' = [tries EXCEPT ![t] = 0]
  /\ Goto(t, "rec_try")
  /\ UNCHANGED <<connected, conn, chans, writeMu, dialled, link, cancelled,
                 panicked, was, lconn, attempt, env, sess>>

(* One turn of retry.Do's loop, which makes `attempts` = MaxRetries turns. *)
RetryTurn(t) ==
  /\ At(t, "rec_try")
  /\ Goto(t, IF tries[t] = MaxRetries \/ t \in cancelled \/ connected
             THEN "rec_cancel" ELSE "conn_check")
  /\ UNCHANGED <<state, chans, writeMu, dialled, link, cancelled, panicked,
                 local, env, sess>>

(* A failed turn: the delay before the next one, unless the context ends.  *)
RetryFailed(t) ==
  /\ At(t, "rec_failed")
  /\ tries' = [tries EXCEPT ![t] = @ + 1]
  /\ \/ Goto(t, "rec_try")
     \/ t \in cancelled /\ Goto(t, "rec_cancel")
  /\ UNCHANGED <<state, chans, writeMu, dialled, link, cancelled, panicked,
                 was, lconn, attempt, env, sess>>

(* The deferred calls, last one first: cancel(), then the flag is reset.   *)
ReconnectCancel(t) ==
  /\ At(t, "rec_cancel")
  /\ cancelled' = cancelled \cup {t}
  /\ tries' = [tries EXCEPT ![t] = 0]
  /\ Goto(t, "rec_exit")
  /\ UNCHANGED <<state, chans, writeMu, dialled, link, panicked, was, lconn,
                 attempt, env, sess>>

ReconnectExit(t) ==
  /\ At(t, "rec_exit")
  /\ reconnecting' = FALSE
  /\ Goto(t, "end")
  /\ UNCHANGED <<connected, conn, chans, writeMu, dialled, link, cancelled,
                 panicked, local, env, sess>>

-----------------------------------------------------------------------------
ConnectStep(t) ==
  \/ ConnectEarly(t) \/ ConnectBegin(t) \/ ConnectStop(t)
  \/ DialOk(t) \/ DialFail(t) \/ Backoff(t)
  \/ Publish(t) \/ Launch(t) \/ ConnectExit(t)

CloseStep(t) ==
  CloseTake(t) \/ CloseNotConnected(t) \/ CloseDone(t) \/ CloseConn(t)

SendStep(t) == SendCheck(t) \/ SendLock(t) \/ SendWrite(t)

ReconnectStep(t) ==
  \/ ReconnectSkip(t) \/ ReconnectBegin(t)
  \/ RetryTurn(t) \/ RetryFailed(t)
  \/ ReconnectCancel(t) \/ ReconnectExit(t)

CallerStep(c) == ConnectStep(c) \/ CloseStep(c) \/ SendStep(c)

PumpStep(k) ==
  \/ PumpTop(k) \/ PumpMessage(k) \/ PumpError(k)
  \/ PumpClear(k) \/ PumpClose(k) \/ PumpDone(k) \/ PumpExit(k)
  \/ ReconnectStep(Pump(k)) \/ ConnectStep(Pump(k))

BeatStep(k) ==
  \/ BeatTick(k) \/ BeatPing(k) \/ BeatDone(k)
  \/ CloseStep(Beat(k)) \/ ReconnectStep(Beat(k)) \/ ConnectStep(Beat(k))

MonStep(k) == MonSelect(k) \/ CloseStep(Mon(k))

(* The program is at rest: it has crashed, or nothing is left to run.      *)
Rest ==
  /\ panicked # "no" \/ \A t \in Threads : pc[t] \in {"idle", "none", "end"}
  /\ UNCHANGED vars

Next ==
  \/ \E c \in Callers : Call(c) \/ CallerStep(c)
  \/ \E k \in Sessions : PumpStep(k) \/ BeatStep(k) \/ MonStep(k) \/ Break(k)
  \/ \E t \in Threads : CancelCtx(t)
  \/ Rest

Spec == Init /\ [][Next]_vars

(* A write may wait for a peer that does not read: WriteMessage (652, 861, *)
(* 870, 935) has no deadline, and is sure to end only when the connector   *)
(* has closed the connection.                                              *)
WritePcs == {"send_write", "beat_ping", "close_conn"}
MayBlock(t) == pc[t] \in WritePcs /\ link[lconn[t]] # "closed"

(* Go runs every goroutine that can go on, timers fire, a dial ends one way *)
(* or the other, and a sync.Mutex is handed to a goroutine that waits for   *)
(* it; select chooses fairly among the cases that are ready.  Nothing makes *)
(* the application call, the peer send or read, or the network fail.        *)
CallerProgram(c) == ~MayBlock(c) /\ CallerStep(c)
PumpProgram(k) ==
  \/ PumpTop(k) \/ PumpError(k)
  \/ PumpClear(k) \/ PumpClose(k) \/ PumpDone(k) \/ PumpExit(k)
  \/ ReconnectStep(Pump(k)) \/ ConnectStep(Pump(k))
BeatProgram(k) == ~MayBlock(Beat(k)) /\ BeatStep(k)
MonProgram(k)  == ~MayBlock(Mon(k)) /\ MonStep(k)

Fairness ==
  /\ \A c \in Callers : SF_vars(CallerProgram(c))
  /\ \A k \in Sessions : /\ WF_vars(PumpProgram(k))
                         /\ SF_vars(BeatProgram(k)) /\ SF_vars(BeatDone(k))
                         /\ SF_vars(MonProgram(k))

FairSpec == Spec /\ Fairness
-----------------------------------------------------------------------------
(* Safety.                                                                 *)

(* A thread that runs reconnect(), its calls of Connect included.          *)
InReconnect(t) == \/ pc[t] \in ReconnectBody
                  \/ t \notin Callers /\ pc[t] \in ConnectPcs

(* A thread that will reset the flag: a running reconnect, or a Connect    *)
(* that found the flag down.                                               *)
OwnsFlag(t) == \/ InReconnect(t)
               \/ t \in Callers /\ pc[t] \in ConnectBody /\ ~was[t]

(* The reconnecting flag is up exactly while one thread is bound to reset  *)
(* it, and never two: a Connect that finds the flag up does not reset it   *)
(* under another thread's feet (343-366, 697-725), so there is at most one *)
(* reconnect loop and the flag is never left up for good.                  *)
ReconnectOwnership ==
  /\ reconnecting <=> \E t \in Threads : OwnsFlag(t)
  /\ \A t, u \in Threads : OwnsFlag(t) /\ OwnsFlag(u) => t = u

(* A thread that alone may publish, use up or close connection k.          *)
Holds(t, k) ==
  /\ lconn[t] = k
  /\ pc[t] \in {"conn_publish", "close_done", "close_conn", "pump_close"}

(* A connection has one owner at a time: the field c.conn, the Connect     *)
(* that dialled it, or the one Close or pump that took it out of c.conn.   *)
(* So the published connection is never one the connector has closed, and  *)
(* no connection is closed twice (412-415, 486-496, 910-946).              *)
OneOwner ==
  /\ conn # 0 => link[conn] \in {"open", "broken"}
  /\ \A t \in Threads, k \in Sessions :
       Holds(t, k) => /\ conn # k
                      /\ link[k] \in {"open", "broken"}
                      /\ \A u \in Threads : Holds(u, k) => u = t

(* The done channel is closed at most once whatever the order of Close and *)
(* of the pumps' exits, and a session never listens on a channel that can  *)
(* no longer be closed: its channel is the current one, or closed already  *)
(* (423-431, 499-504, 920-926).                                            *)
DoneDiscipline ==
  /\ panicked # "closed_channel"
  /\ panicked = "no" => (closed <=> done \in stopped)
  /\ \A k \in Sessions : sessDone[k] # 0 =>
       sessDone[k] = done \/ sessDone[k] \in stopped

(* A published connection always has a reader that will notice its loss:   *)
(* the pump of its session, or the Connect about to start it (412-441).    *)
Watched ==
  conn # 0 => \/ pc[Pump(conn)] \in {"pump_top", "pump_read", "pump_clear"}
              \/ \E t \in Threads : pc[t] = "conn_done" /\ lconn[t] = conn

(* WriteMessage has one caller at a time (Send, heartbeat, Close), as      *)
(* gorilla/websocket demands, and so has conn.Close() called by Close.     *)
Writing(t) == pc[t] \in {"send_write", "beat_ping", "close_done", "close_conn"}
OneWriter ==
  /\ \A t, u \in Threads : Writing(t) /\ Writing(u) => t = u
  /\ \A t \in Threads : writeMu = t <=> Writing(t)
-----------------------------------------------------------------------------
(* The inductive invariant behind these properties.                        *)

(* A connection is published exactly while the connector is connected.     *)
ConnectedIffConn == connected <=> conn # 0

(* The threads that must hold a connection do.                             *)
Carries(t) == pc[t] \in {"conn_publish", "conn_done", "close_done", "close_conn"}
HeldConn == \A t \in Threads : Carries(t) => lconn[t] # 0

(* Sessions are numbered in the order of the dials.                        *)
Numbered ==
  /\ conn <= dialled
  /\ \A t \in Threads : lconn[t] <= dialled

(* A Connect that has dialled session k, and has not launched it yet, is   *)
(* the only one, and the session has no goroutine yet.                     *)
Launching(t, k) == pc[t] \in {"conn_publish", "conn_done"} /\ lconn[t] = k
Unlaunched(k) == /\ sessDone[k] = 0
                 /\ pc[Pump(k)] = "none" /\ pc[Beat(k)] = "none"
                 /\ pc[Mon(k)] = "none"
Launches ==
  \A k \in Sessions :
    /\ k > dialled => Unlaunched(k)
    /\ \A t \in Threads : Launching(t, k) =>
         Unlaunched(k) /\ \A u \in Threads : Launching(u, k) => u = t

(* Every channel was made by the session it is named after.                *)
Channels ==
  /\ done # 0 => sessDone[done] = done
  /\ \A j \in stopped : sessDone[j] = j

(* A Connect made by a reconnect found the flag up.                        *)
FlagFound ==
  \A t \in Threads \ Callers : pc[t] \in ConnectBody => was[t]

IInv ==
  /\ TypeOK /\ ConnectedIffConn /\ HeldConn
  /\ FlagFound /\ ReconnectOwnership
  /\ Numbered /\ OneOwner
  /\ Launches /\ Channels /\ DoneDiscipline
  /\ Watched
  /\ OneWriter

-----------------------------------------------------------------------------
(* Liveness, as long as the program has not crashed.                       *)

Running == panicked = "no"

(* A connection that is lost does not stay published: a pump or a heartbeat *)
(* finds out and takes it down (483-496, 652-666).                         *)
LossNoticed ==
  LET Lost == conn # 0 /\ link[conn] = "broken"
  IN  (Lost /\ Running) ~> (~Lost \/ ~Running)

(* A write that never returns, in a thread that writes: the peer does not  *)
(* read, and nobody closes the connection.                                 *)
Writers == Callers \cup Beats \cup Monitors
WriteHangs == \E u \in Writers : <>[]MayBlock(u)

(* Once its done channel is closed, the heartbeat and the context monitor  *)
(* of a session stop, unless a write hangs, for which the heartbeat may    *)
(* wait (452-460, 638-676).                                                *)
SessionStops ==
  \/ WriteHangs
  \/ \A k \in Sessions :
       (sessDone[k] \in stopped /\ Running) ~>
         ((pc[Beat(k)] \notin BeatPcs /\ pc[Mon(k)] # "mon_wait") \/ ~Running)

(* Close returns, whoever holds writeMu when it is called, unless a write  *)
(* hangs: nothing but a peer that does not read keeps it (906-949).        *)
CloseReturns ==
  \/ WriteHangs
  \/ \A t \in Writers :
       (pc[t] = "close_take" /\ Running) ~> (pc[t] \notin ClosePcs \/ ~Running)

(* With a retry limit, the reconnecting flag does not stay up: an attempt  *)
(* ends in a connection or in an error (343-366, 720-725).                 *)
FlagCleared ==
  (MaxRetries > 0 /\ reconnecting /\ Running) ~> (~reconnecting \/ ~Running)

-----------------------------------------------------------------------------
(* What the flag and the done channel promise, as specifications of their  *)
(* own that the connector implements.                                      *)

FlagHolder == IF \E t \in Threads : OwnsFlag(t)
              THEN CHOOSE t \in Threads : OwnsFlag(t)
              ELSE NoThread

Guard == INSTANCE ReconnectGuard WITH Nobody <- NoThread, holder <- FlagHolder

Signal == INSTANCE StopSignal WITH chan <- done, joined <- sessDone

(* The reconnecting flag is acquired by one thread at a time and released  *)
(* by that thread: Connect and reconnect implement ReconnectGuard.         *)
ImplementsGuard == Guard!Spec

(* Close, the pumps and Connect together implement StopSignal: no done     *)
(* channel that a session listens on is ever dropped while it is open.     *)
ImplementsSignal == Signal!Spec

=============================================================================

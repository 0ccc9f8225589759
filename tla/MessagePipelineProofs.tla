------------------------ MODULE MessagePipelineProofs ------------------------
(* Types of MessagePipeline, for any number of sessions, workers, callers, *)
(* messages, topics and handlers.                                          *)
EXTENDS MessagePipeline, TLAPS

LifeOK ==
  /\ connected \in BOOLEAN
  /\ done \in 0 .. MaxSessions /\ stopped \subseteq Sessions
  /\ sessDone \in [Sessions -> 0 .. MaxSessions]
  /\ cpc \in [Sessions -> {"none", "publish", "join", "queue", "snapshot",
                           "restore"}]
  /\ snap \in [Sessions -> Map]
  /\ checked \in [Sessions -> SUBSET Topics]

MapOK ==
  /\ handlers \in Map
  /\ queue \in 0 .. MaxSessions
  /\ queues \in [0 .. MaxSessions -> Seq(Task)]
  /\ \A q \in 0 .. MaxSessions : Len(queues[q]) <= QueueSize

(* What a pump holds depends on where it is.                               *)
PumpsOK ==
  /\ ppc \in [Sessions -> {"none", "top", "read", "lookup", "enqueue", "stop", "end"}]
  /\ task \in [Sessions -> Task \cup Read \cup {NoTask}]
  /\ dropped \subseteq Messages /\ nread \in 0 .. MaxMessages
  /\ \A s \in Sessions : /\ ppc[s] = "lookup" => task[s] \in Read
                         /\ ppc[s] = "enqueue" => task[s] \in Task

PoolOK ==
  /\ wpc \in [Workers -> {"none", "top", "select", "busy", "end"}]
  /\ wq \in [Workers -> 0 .. MaxSessions]
  /\ job \in [Workers -> Task \cup {NoTask}]

RunsOK == running \subseteq started /\ started \subseteq Task /\ crashed \in BOOLEAN

AppOK ==
  /\ apc \in [Callers -> {"idle", "sub_write", "close_done"}]
  /\ arg \in [Callers -> {<<>>} \cup (Topics \X Handlers)]
  /\ calls \in [Callers -> 0 .. MaxCalls]
  /\ \A c \in Callers : apc[c] = "sub_write" => arg[c] \in Topics \X Handlers

TypeInv == LifeOK /\ MapOK /\ PumpsOK /\ PoolOK /\ RunsOK /\ AppOK

-----------------------------------------------------------------------------
(* Types.                                                                  *)

(* Initially everything is idle and empty.                                 *)
LEMMA InitTypes == Init => TypeInv
<1> SUFFICES ASSUME Init PROVE TypeInv
  OBVIOUS
<1>1. 0 \in 0 .. MaxSessions /\ 0 \in 0 .. MaxMessages /\ 0 \in 0 .. MaxCalls
  BY PipelineAssumption
<1>2. Empty \in Map
  BY DEF Empty, Map
<1>3. LifeOK
  BY <1>1, <1>2 DEF LifeOK, Init
<1>4. MapOK
  <2>1. <<>> \in Seq(Task) /\ Len(<<>>) <= QueueSize
    BY PipelineAssumption
  <2> QED  BY <1>1, <1>2, <2>1 DEF MapOK, Init
<1>5. PumpsOK
  BY <1>1 DEF PumpsOK, Init
<1>6. PoolOK
  BY <1>1 DEF PoolOK, Init
<1>7. RunsOK
  BY Zenon DEF RunsOK, Init
<1>8. AppOK
  BY <1>1 DEF AppOK, Init
<1> QED  BY <1>3, <1>4, <1>5, <1>6, <1>7, <1>8 DEF TypeInv

(* The life cycle.                                                         *)
LEMMA LifeStep == TypeInv /\ [Next]_vars => LifeOK'
<1> SUFFICES ASSUME TypeInv, [Next]_vars PROVE LifeOK'
  OBVIOUS
<1>0. LifeOK /\ MapOK
  BY DEF TypeInv
<1>1. CASE UNCHANGED life
  BY <1>0, <1>1 DEF life, LifeOK
<1>2. ASSUME NEW s \in Sessions,
             Dial(s) \/ Publish(s) \/ Join(s) \/ Launch(s) \/ Snapshot(s)
      PROVE  LifeOK'
  <2>1. s \in 0 .. MaxSessions
    BY PipelineAssumption DEF Sessions
  <2>2. CASE Dial(s) \/ Launch(s)
    BY <1>0, <2>2 DEF Dial, Launch, ConnectAt, LifeOK
  <2>3. CASE Publish(s)
    BY <1>0, <2>3 DEF Publish, ConnectAt, LifeOK
  <2>4. CASE Join(s)
    BY <1>0, <2>1, <2>4
       DEF Join, ConnectAt, LifeOK, Signal!JoinNew, Signal!JoinCurrent
  <2>5. CASE Snapshot(s)
    BY <1>0, <2>5 DEF Snapshot, ConnectAt, LifeOK, MapOK
  <2> QED  BY <1>2, <2>2, <2>3, <2>4, <2>5
<1>3. ASSUME NEW s \in Sessions, NEW t \in Topics,
             RestoreCheck(s, t) \/ RestoreWrite(s, t)
      PROVE  LifeOK'
  <2>1. [snap[s] EXCEPT ![t] = NoHandler] \in Map
    BY <1>0 DEF LifeOK, Map
  <2>2. /\ snap' = snap \/ snap' = [snap EXCEPT ![s] = [snap[s] EXCEPT ![t] = NoHandler]]
        /\ \/ checked' = checked \/ checked' = [checked EXCEPT ![s] = {t}]
           \/ checked' = [checked EXCEPT ![s] = {}]
        /\ cpc' = [cpc EXCEPT ![s] = "restore"]
        /\ UNCHANGED <<connected, done, stopped, sessDone>>
    BY <1>3 DEF RestoreCheck, RestoreWrite, ConnectAt
  <2> QED  BY <1>0, <2>1, <2>2 DEF LifeOK
<1>4. ASSUME NEW s \in Sessions, PumpFail(s) PROVE LifeOK'
  BY <1>0, <1>4 DEF PumpFail, LifeOK
<1>5. ASSUME StopDone, UNCHANGED <<connected, cpc, snap, checked>> PROVE LifeOK'
  <2>1. done # 0 => done \in Sessions
    BY <1>0, PipelineAssumption DEF LifeOK, Sessions
  <2>2. stopped' \subseteq Sessions /\ UNCHANGED <<done, sessDone>>
    BY <1>0, <1>5, <2>1 DEF StopDone, Signal!Stop, Signal!Open, LifeOK
  <2> QED  BY <1>0, <1>5, <2>2 DEF LifeOK
<1>6. ASSUME NEW s \in Sessions, PumpStop(s) PROVE LifeOK'
  BY <1>5, <1>6 DEF PumpStop
<1>7. ASSUME NEW c \in Callers, Close(c) \/ CloseDone(c) PROVE LifeOK'
  <2>1. CASE Close(c)
    BY <1>0, <2>1 DEF Close, LifeOK
  <2>2. CASE CloseDone(c)
    BY <1>5, <2>2 DEF CloseDone
  <2> QED  BY <1>7, <2>1, <2>2
<1> QED
  BY <1>1, <1>2, <1>3, <1>4, <1>6, <1>7
     DEF Next, CallerStep, ConnectStep, ProcessStep, PumpStep, WorkerStep, Rest,
         Subscribe, SubscribeWrite, Unsubscribe, Ignore, Lookup, Enqueue,
         PumpTop, PumpRead, WorkerTop, WorkerTake, WorkerStop, WorkerNext,
         HandlerReturns, HandlerPanics, vars

(* The handlers and the queues.                                            *)
LEMMA MapStep == TypeInv /\ [Next]_vars => MapOK'
<1> SUFFICES ASSUME TypeInv, [Next]_vars PROVE MapOK'
  OBVIOUS
<1>0. LifeOK /\ MapOK /\ PumpsOK /\ PoolOK /\ AppOK
  BY DEF TypeInv
<1>1. CASE UNCHANGED <<handlers, queue, queues>>
  BY <1>0, <1>1 DEF MapOK
<1>2. ASSUME NEW t \in Topics, NEW h \in Handlers \cup {NoHandler},
             Register(t, h), UNCHANGED <<queue, queues>>
      PROVE  MapOK'
  BY <1>0, <1>2 DEF MapOK, Map, Register
<1>3. ASSUME NEW c \in Callers, SubscribeWrite(c) \/ Unsubscribe(c) PROVE MapOK'
  <2>1. CASE SubscribeWrite(c)
    <3>1. arg[c][1] \in Topics /\ arg[c][2] \in Handlers
      BY <1>0, <2>1 DEF SubscribeWrite, AppOK
    <3> QED  BY <1>2, <2>1, <3>1 DEF SubscribeWrite
  <2>2. CASE Unsubscribe(c)
    BY <1>2, <2>2 DEF Unsubscribe
  <2> QED  BY <1>3, <2>1, <2>2
<1>4. ASSUME NEW s \in Sessions, NEW t \in Topics, RestoreWrite(s, t) PROVE MapOK'
  <2>1. snap[s][t] \in Handlers \cup {NoHandler}
    BY <1>0 DEF LifeOK, Map
  <2> QED  BY <1>2, <1>4, <2>1 DEF RestoreWrite
<1>5. ASSUME NEW s \in Sessions, Launch(s) PROVE MapOK'
  BY <1>0, <1>5, PipelineAssumption DEF Launch, MapOK, Sessions
<1>6. ASSUME NEW s \in Sessions, Enqueue(s) PROVE MapOK'
  <2>1. task[s] \in Task /\ queue \in 0 .. MaxSessions /\ queues[queue] \in Seq(Task)
    BY <1>0, <1>6 DEF Enqueue, PumpGoes, PumpsOK, MapOK
  <2>2. /\ Append(queues[queue], task[s]) \in Seq(Task)
        /\ Len(Append(queues[queue], task[s])) = Len(queues[queue]) + 1
        /\ Len(queues[queue]) \in Nat
    BY <2>1
  <2>3. \/ queues' = queues
        \/ /\ queues' = [queues EXCEPT ![queue] = Append(queues[queue], task[s])]
           /\ Len(queues[queue]) < QueueSize
    BY <1>6 DEF Enqueue
  <2>4. handlers' = handlers /\ queue' = queue
    BY <1>6 DEF Enqueue
  <2>5. CASE queues' = queues
    BY <1>0, <2>4, <2>5 DEF MapOK
  <2>6. CASE queues' # queues
    <3> DEFINE longer == Append(queues[queue], task[s])
    <3>1. /\ longer \in Seq(Task) /\ Len(longer) <= QueueSize
          /\ queues' = [queues EXCEPT ![queue] = longer]
      BY <2>2, <2>3, <2>6, PipelineAssumption
    <3> HIDE DEF longer
    <3> QED  BY <1>0, <2>4, <3>1 DEF MapOK
  <2> QED  BY <2>5, <2>6
<1>7. ASSUME NEW w \in Workers, WorkerTake(w) PROVE MapOK'
  <2> DEFINE q == wq[w]
  <2>1. q \in 0 .. MaxSessions /\ queues[q] \in Seq(Task) /\ queues[q] # <<>>
    BY <1>0, <1>7 DEF WorkerTake, PoolOK, MapOK
  <2>2. /\ Tail(queues[q]) \in Seq(Task)
        /\ Len(Tail(queues[q])) = Len(queues[q]) - 1 /\ Len(queues[q]) \in Nat
    BY <2>1
  <2>3. /\ queues' = [queues EXCEPT ![q] = Tail(queues[q])]
        /\ handlers' = handlers /\ queue' = queue
    BY <1>7 DEF WorkerTake, Remaining
  <2> HIDE DEF q
  <2> QED  BY <1>0, <2>1, <2>2, <2>3, PipelineAssumption DEF MapOK
<1> QED
  BY <1>1, <1>3, <1>4, <1>5, <1>6, <1>7
     DEF Next, CallerStep, ConnectStep, ProcessStep, PumpStep, WorkerStep, Rest,
         Subscribe, Close, CloseDone, Dial, Publish, Join, Snapshot, RestoreCheck,
         Ignore, Lookup, PumpTop, PumpRead, PumpFail, PumpStop, WorkerTop,
         WorkerStop, WorkerNext, HandlerReturns, HandlerPanics, vars

(* The pumps: a message is looked up before it is bound to its handler.    *)
LEMMA PumpsStep == TypeInv /\ [Next]_vars => PumpsOK'
<1> SUFFICES ASSUME TypeInv, [Next]_vars PROVE PumpsOK'
  OBVIOUS
<1>0. PumpsOK /\ MapOK
  BY DEF TypeInv
<1>1. CASE UNCHANGED pumps
  BY <1>0, <1>1 DEF pumps, PumpsOK
<1>2. ASSUME NEW s \in Sessions,
             Launch(s) \/ PumpTop(s) \/ PumpFail(s) \/ PumpStop(s)
      PROVE  PumpsOK'
  <2>1. /\ \E to \in {"top", "read", "stop", "end"} : ppc' = [ppc EXCEPT ![s] = to]
        /\ UNCHANGED <<task, nread, dropped>>
    BY <1>2 DEF Launch, PumpTop, PumpFail, PumpStop, PumpGoes
  <2> QED  BY <1>0, <2>1 DEF PumpsOK
<1>3. ASSUME NEW s \in Sessions, PumpRead(s) PROVE PumpsOK'
  <2>1. PICK t \in Topics : task' = [task EXCEPT ![s] = [msg |-> nread', topic |-> t]]
    BY <1>3 DEF PumpRead
  <2>2. /\ nread' = nread + 1 /\ nread' \in Messages /\ nread' \in 0 .. MaxMessages
        /\ ppc' = [ppc EXCEPT ![s] = "lookup"] /\ dropped' = dropped
    BY <1>0, <1>3, PipelineAssumption DEF PumpRead, PumpGoes, PumpsOK, Messages
  <2>3. [msg |-> nread', topic |-> t] \in Read
    BY <2>2 DEF Read
  <2> QED  BY <1>0, <2>1, <2>2, <2>3 DEF PumpsOK
<1>4. ASSUME NEW s \in Sessions, Lookup(s) PROVE PumpsOK'
  <2> DEFINE r == task[s]
             k == [msg |-> r.msg, topic |-> r.topic, handler |-> handlers[r.topic]]
  <2>1. r \in Read /\ r.msg \in Messages /\ r.topic \in Topics
    BY <1>0, <1>4 DEF Lookup, PumpGoes, PumpsOK, Read
  <2>2. handlers[r.topic] \in Handlers
    BY <1>0, <1>4, <2>1 DEF Lookup, MapOK, Map
  <2>3. k \in Task
    BY <2>1, <2>2 DEF Task
  <2>4. /\ task' = [task EXCEPT ![s] = k] /\ ppc' = [ppc EXCEPT ![s] = "enqueue"]
        /\ UNCHANGED <<nread, dropped>>
    BY <1>4 DEF Lookup, PumpGoes
  <2> HIDE DEF k
  <2> QED  BY <1>0, <2>3, <2>4 DEF PumpsOK
<1>5. ASSUME NEW s \in Sessions, Ignore(s) \/ Enqueue(s) PROVE PumpsOK'
  <2>1. /\ task' = [task EXCEPT ![s] = NoTask] /\ ppc' = [ppc EXCEPT ![s] = "top"]
        /\ nread' = nread
    BY <1>5 DEF Ignore, Enqueue, PumpGoes
  <2>2. dropped' \subseteq Messages
    <3>1. CASE Enqueue(s)
      <4>1. task[s].msg \in Messages
        BY <1>0, <3>1 DEF Enqueue, PumpGoes, PumpsOK, Task
      <4> QED  BY <1>0, <3>1, <4>1 DEF Enqueue, PumpsOK
    <3>2. CASE Ignore(s)
      BY <1>0, <3>2 DEF Ignore, PumpsOK
    <3> QED  BY <1>5, <3>1, <3>2
  <2> QED  BY <1>0, <2>1, <2>2 DEF PumpsOK
<1> QED
  BY <1>1, <1>2, <1>3, <1>4, <1>5
     DEF Next, CallerStep, ConnectStep, ProcessStep, PumpStep, WorkerStep, Rest,
         Subscribe, SubscribeWrite, Unsubscribe, Close, CloseDone, Dial, Publish,
         Join, Snapshot, RestoreCheck, RestoreWrite, WorkerTop, WorkerTake,
         WorkerStop, WorkerNext, HandlerReturns, HandlerPanics, vars

(* The workers.                                                            *)
LEMMA PoolStep == TypeInv /\ [Next]_vars => PoolOK'
<1> SUFFICES ASSUME TypeInv, [Next]_vars PROVE PoolOK'
  OBVIOUS
<1>0. PoolOK /\ MapOK
  BY DEF TypeInv
<1>1. CASE UNCHANGED pool
  BY <1>0, <1>1 DEF pool, PoolOK
<1>2. ASSUME NEW s \in Sessions, Launch(s) PROVE PoolOK'
  BY <1>0, <1>2 DEF Launch, StartWorkers, PoolOK
<1>3. ASSUME NEW w \in Workers, WorkerTop(w) \/ WorkerStop(w) \/ WorkerNext(w)
      PROVE  PoolOK'
  <2>1. 0 \in 0 .. MaxSessions /\ queue \in 0 .. MaxSessions
    BY <1>0, PipelineAssumption DEF MapOK
  <2>2. \E to \in {"select", "end", "top"} : wpc' = [wpc EXCEPT ![w] = to]
    BY <1>3 DEF WorkerTop, WorkerStop, WorkerNext, WorkerGoes
  <2>3. wq' = wq \/ wq' = [wq EXCEPT ![w] = 0] \/ wq' = [wq EXCEPT ![w] = queue]
    BY <1>3 DEF WorkerTop, WorkerStop, WorkerNext
  <2>4. job' = job \/ job' = [job EXCEPT ![w] = NoTask]
    BY <1>3 DEF WorkerTop, WorkerStop, WorkerNext
  <2>5. wpc' \in [Workers -> {"none", "top", "select", "busy", "end"}]
    BY <1>0, <2>2 DEF PoolOK
  <2>6. wq' \in [Workers -> 0 .. MaxSessions]
    BY <1>0, <2>1, <2>3 DEF PoolOK
  <2>7. job' \in [Workers -> Task \cup {NoTask}]
    BY <1>0, <2>4 DEF PoolOK
  <2> QED  BY <2>5, <2>6, <2>7 DEF PoolOK
<1>4. ASSUME NEW w \in Workers, WorkerTake(w) PROVE PoolOK'
  <2>1. queues[wq[w]] \in Seq(Task) /\ queues[wq[w]] # <<>>
    BY <1>0, <1>4 DEF WorkerTake, PoolOK, MapOK
  <2>2. Taken(wq[w]) \in Task /\ 0 \in 0 .. MaxSessions
    BY <2>1, PipelineAssumption DEF Taken
  <2> QED  BY <1>0, <1>4, <2>2 DEF WorkerTake, WorkerGoes, PoolOK
<1> QED
  BY <1>1, <1>2, <1>3, <1>4
     DEF Next, CallerStep, ConnectStep, ProcessStep, PumpStep, WorkerStep, Rest,
         Subscribe, SubscribeWrite, Unsubscribe, Close, CloseDone, Dial, Publish,
         Join, Snapshot, RestoreCheck, RestoreWrite, Ignore, Lookup, Enqueue,
         PumpTop, PumpRead, PumpFail, PumpStop, HandlerReturns, HandlerPanics,
         vars

(* The handlers that run.                                                  *)
LEMMA RunsStep == TypeInv /\ [Next]_vars => RunsOK'
<1> SUFFICES ASSUME TypeInv, [Next]_vars PROVE RunsOK'
  OBVIOUS
<1>0. RunsOK /\ PoolOK /\ MapOK
  BY DEF TypeInv
<1>1. CASE UNCHANGED runs
  BY <1>0, <1>1 DEF runs, RunsOK
<1>2. ASSUME StopDone PROVE crashed' \in BOOLEAN
  BY <1>0, <1>2, Zenon DEF StopDone, RunsOK
<1>3. ASSUME StopDone, UNCHANGED <<running, started>> PROVE RunsOK'
  BY <1>0, <1>2, <1>3 DEF RunsOK
<1>4. ASSUME NEW w \in Workers, WorkerTake(w) PROVE RunsOK'
  <2>1. queues[wq[w]] \in Seq(Task) /\ queues[wq[w]] # <<>>
    BY <1>0, <1>4 DEF WorkerTake, PoolOK, MapOK
  <2>2. Taken(wq[w]) \in Task
    BY <2>1 DEF Taken
  <2> QED  BY <1>0, <1>4, <2>2 DEF WorkerTake, RunsOK
<1>5. ASSUME NEW k \in running, HandlerReturns(k) \/ HandlerPanics(k) PROVE RunsOK'
  BY <1>0, <1>5 DEF HandlerReturns, HandlerPanics, RunsOK
<1>6. ASSUME NEW s \in Sessions, PumpStop(s) PROVE RunsOK'
  BY <1>3, <1>6 DEF PumpStop
<1>7. ASSUME NEW c \in Callers, CloseDone(c) PROVE RunsOK'
  BY <1>3, <1>7 DEF CloseDone
<1> QED
  BY <1>1, <1>4, <1>5, <1>6, <1>7
     DEF Next, CallerStep, ConnectStep, ProcessStep, PumpStep, WorkerStep, Rest,
         Subscribe, SubscribeWrite, Unsubscribe, Close, Dial, Publish, Join,
         Launch, Snapshot, RestoreCheck, RestoreWrite, Ignore, Lookup, Enqueue,
         PumpTop, PumpRead, PumpFail, WorkerTop, WorkerStop, WorkerNext, vars

(* The application.                                                        *)
LEMMA AppStep == TypeInv /\ [Next]_vars => AppOK'
<1> SUFFICES ASSUME TypeInv, [Next]_vars PROVE AppOK'
  OBVIOUS
<1>0. AppOK
  BY DEF TypeInv
<1>1. CASE UNCHANGED app
  BY <1>0, <1>1 DEF app, AppOK
<1>2. ASSUME NEW c \in Callers, NEW op, Calls(c, op)
      PROVE  calls' \in [Callers -> 0 .. MaxCalls]
  <2>1. calls[c] \in 0 .. MaxCalls /\ calls[c] < MaxCalls
    BY <1>0, <1>2 DEF Calls, AppOK
  <2>2. calls[c] + 1 \in 0 .. MaxCalls
    BY <2>1, PipelineAssumption
  <2> QED  BY <1>0, <1>2, <2>2 DEF Calls, AppOK
<1>3. ASSUME NEW c \in Callers, Subscribe(c) PROVE AppOK'
  <2>1. \/ UNCHANGED <<apc, arg>>
        \/ /\ apc' = [apc EXCEPT ![c] = "sub_write"]
           /\ \E t \in Topics, h \in Handlers : arg' = [arg EXCEPT ![c] = <<t, h>>]
    BY <1>3 DEF Subscribe
  <2>2. calls' \in [Callers -> 0 .. MaxCalls]
    BY <1>2, <1>3 DEF Subscribe
  <2>3. CASE UNCHANGED <<apc, arg>>
    BY <1>0, <2>2, <2>3 DEF AppOK
  <2>4. ASSUME NEW x \in Topics \X Handlers,
               apc' = [apc EXCEPT ![c] = "sub_write"], arg' = [arg EXCEPT ![c] = x]
        PROVE  AppOK'
    BY <1>0, <2>2, <2>4 DEF AppOK
  <2> QED  BY <2>1, <2>3, <2>4
<1>4. ASSUME NEW c \in Callers, Unsubscribe(c) \/ Close(c) PROVE AppOK'
  <2>1. /\ apc' = apc \/ apc' = [apc EXCEPT ![c] = "close_done"]
        /\ arg' = arg
    BY <1>4 DEF Unsubscribe, Close
  <2>2. calls' \in [Callers -> 0 .. MaxCalls]
    BY <1>2, <1>4 DEF Unsubscribe, Close
  <2> QED  BY <1>0, <2>1, <2>2 DEF AppOK
<1>5. ASSUME NEW c \in Callers, SubscribeWrite(c) \/ CloseDone(c) PROVE AppOK'
  <2>1. /\ apc' = [apc EXCEPT ![c] = "idle"] /\ calls' = calls
        /\ arg' = arg \/ arg' = [arg EXCEPT ![c] = <<>>]
    BY <1>5 DEF SubscribeWrite, CloseDone
  <2> QED  BY <1>0, <2>1 DEF AppOK
<1> QED
  BY <1>1, <1>3, <1>4, <1>5
     DEF Next, CallerStep, ConnectStep, ProcessStep, PumpStep, WorkerStep, Rest,
         Dial, Publish, Join, Launch, Snapshot, RestoreCheck, RestoreWrite,
         Ignore, Lookup, Enqueue, PumpTop, PumpRead, PumpFail, PumpStop,
         WorkerTop, WorkerTake, WorkerStop, WorkerNext, HandlerReturns,
         HandlerPanics, vars

(* The types hold of every behaviour.                                      *)
LEMMA TypesHold == Spec => []TypeInv
<1>1. TypeInv /\ [Next]_vars => TypeInv'
  BY LifeStep, MapStep, PumpsStep, PoolStep, RunsStep, AppStep DEF TypeInv
<1> QED  BY <1>1, InitTypes, PTL DEF Spec

(* Every state of the pipeline is well typed: no queue exceeds its size    *)
(* and every handler that runs was called.                                 *)
THEOREM PipelineTypeCorrect == Spec => []TypeOK
<1>1. TypeInv => TypeOK
  BY DEF TypeInv, LifeOK, MapOK, PumpsOK, PoolOK, RunsOK, AppOK, TypeOK
<1> QED  BY <1>1, TypesHold, PTL

=============================================================================

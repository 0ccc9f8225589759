------------------------- MODULE WSConnectorProofs -------------------------
(* Proofs about WSConnector, for any callers, sessions and bounds.         *)
EXTENDS WSConnector, TLAPS

(* Callers, pumps, heartbeats and monitors are disjoint sets of threads.   *)
LEMMA ThreadKinds ==
  ASSUME NEW k \in Sessions
  PROVE  /\ Pump(k) \in Pumps /\ Pump(k) \notin Callers \cup Beats \cup Monitors
         /\ Beat(k) \in Beats /\ Beat(k) \notin Callers \cup Pumps \cup Monitors
         /\ Mon(k) \in Monitors /\ Mon(k) \notin Callers \cup Pumps \cup Beats
<1>1. Pump(k) \in Pumps /\ Beat(k) \in Beats /\ Mon(k) \in Monitors
  BY DEF Pumps, Beats, Monitors
<1>2. Pump(k) \notin Callers /\ Beat(k) \notin Callers /\ Mon(k) \notin Callers
  BY <1>1, ThreadsAssumption
<1>3. \A j : Pump(j) # Beat(k) /\ Pump(j) # Mon(k) /\ Beat(j) # Mon(k)
             /\ Pump(k) # Beat(j) /\ Pump(k) # Mon(j) /\ Beat(k) # Mon(j)
  BY DEF Pump, Beat, Mon
<1> QED
  BY <1>1, <1>2, <1>3 DEF Pumps, Beats, Monitors

(* Every step is one of these, for some thread or session.                 *)
ThreadActs(t) ==
  \/ ConnectStep(t) \/ CloseStep(t) \/ SendStep(t) \/ ReconnectStep(t)
  \/ CancelCtx(t)

SessionActs(k) ==
  \/ PumpTop(k) \/ PumpMessage(k) \/ PumpError(k)
  \/ PumpClear(k) \/ PumpClose(k) \/ PumpDone(k) \/ PumpExit(k)
  \/ BeatTick(k) \/ BeatPing(k) \/ BeatDone(k)
  \/ MonSelect(k) \/ Break(k)

(* Next, one disjunct per kind of goroutine and per event around the       *)
(* program.                                                                *)
LEMMA StepCases ==
  ASSUME [Next]_vars
  PROVE  \/ \E t \in Threads : ThreadActs(t)
         \/ \E k \in Sessions : SessionActs(k)
         \/ \E c \in Callers : Call(c)
         \/ UNCHANGED vars
<1>1. Callers \subseteq Threads /\ \A k \in Sessions : Pump(k) \in Threads
                               /\ Beat(k) \in Threads /\ Mon(k) \in Threads
  BY DEF Threads, Pumps, Beats, Monitors
<1>2. CASE \E c \in Callers : Call(c) \/ CallerStep(c)
  BY <1>1, <1>2 DEF CallerStep, ThreadActs
<1>3. CASE \E k \in Sessions : PumpStep(k) \/ BeatStep(k) \/ MonStep(k) \/ Break(k)
  BY <1>1, <1>3 DEF PumpStep, BeatStep, MonStep, ThreadActs, SessionActs
<1>4. CASE \E t \in Threads : CancelCtx(t)
  BY <1>4 DEF ThreadActs
<1>5. CASE Rest \/ UNCHANGED vars
  BY <1>5 DEF Rest
<1> QED
  BY <1>2, <1>3, <1>4, <1>5 DEF Next

-----------------------------------------------------------------------------
(* Type correctness.                                                       *)

(* The state that NewConnector returns is well typed.                      *)
LEMMA InitType == Init => TypeOK
<1> SUFFICES ASSUME Init PROVE TypeOK
  OBVIOUS
<1>1. \A t \in Threads : PcType(t) /\ pc[t] \in Pcs
  BY ThreadsAssumption
  DEF Init, PcType, Pcs, CallerPcs, PumpAll, BeatAll, MonAll
<1>2. PcsType
  BY <1>1 DEF Init, PcsType
<1>3. FlagsType
  BY DEF Init, FlagsType
<1>4. DataType
  BY BoundsAssumption DEF Init, DataType
<1> QED
  BY <1>2, <1>3, <1>4 DEF TypeOK

(* Which goroutine can be in which function.                               *)
LEMMA PcClass ==
  ASSUME PcsType, NEW t \in Threads
  PROVE  /\ pc[t] \in ConnectPcs => t \notin Monitors
         /\ pc[t] \in ClosePcs => t \notin Pumps
         /\ pc[t] \in SendPcs => t \in Callers
         /\ pc[t] \in ReconnectPcs => t \in Pumps \cup Beats
<1>1. PcType(t) /\ (t \in Callers \/ t \in Pumps \/ t \in Beats \/ t \in Monitors)
  BY DEF PcsType, Threads
<1>2. CASE t \in Callers
  <2>1. t \notin Monitors /\ t \notin Pumps
    BY <1>2, ThreadsAssumption
  <2>2. pc[t] \notin ReconnectPcs
    BY <1>1, <1>2 DEF PcType, CallerPcs, ConnectPcs, ConnectBody,
       ClosePcs, SendPcs, ReconnectPcs, ReconnectBody
  <2> QED
    BY <1>2, <2>1, <2>2
<1>3. CASE t \in Pumps
  <2>1. t \notin Monitors
    BY <1>3, ThreadKinds DEF Pumps
  <2>2. pc[t] \notin ClosePcs \cup SendPcs
    BY <1>1, <1>3 DEF PcType, PumpAll, PumpPcs, ConnectPcs, ConnectBody,
       ClosePcs, SendPcs, ReconnectPcs, ReconnectBody
  <2> QED
    BY <1>3, <2>1, <2>2
<1>4. CASE t \in Beats
  <2>1. t \notin Monitors /\ t \notin Pumps
    BY <1>4, ThreadKinds DEF Beats
  <2>2. pc[t] \notin SendPcs
    BY <1>1, <1>4 DEF PcType, BeatAll, BeatPcs, ConnectPcs, ConnectBody,
       ClosePcs, SendPcs, ReconnectPcs, ReconnectBody
  <2> QED
    BY <1>4, <2>1, <2>2
<1>5. CASE t \in Monitors
  <2>1. t \notin Pumps
    BY <1>5, ThreadKinds DEF Monitors
  <2>2. pc[t] \notin ConnectPcs \cup SendPcs \cup ReconnectPcs
    BY <1>1, <1>5 DEF PcType, MonAll, ConnectPcs, ConnectBody,
       ClosePcs, SendPcs, ReconnectPcs, ReconnectBody
  <2> QED
    BY <1>5, <2>1, <2>2
<1> QED
  BY <1>1, <1>2, <1>3, <1>4, <1>5

(* A thread that goes on in a function of its own keeps pc well typed.     *)
LEMMA GotoType ==
  ASSUME PcsType, NEW t \in Threads, NEW to, Goto(t, to),
         t \in Callers => to \in CallerPcs,
         t \in Pumps => to \in PumpAll,
         t \in Beats => to \in BeatAll,
         t \in Monitors => to \in MonAll
  PROVE  PcsType'
<1>1. to \in Pcs
  BY DEF Threads, Pcs
<1>2. pc' \in [Threads -> Pcs]
  BY <1>1 DEF PcsType, Goto
<1>3. ASSUME NEW u \in Threads PROVE PcType(u)'
  <2>1. CASE u = t
    BY <2>1 DEF PcsType, Goto, PcType
  <2>2. CASE u # t
    BY <2>2 DEF PcsType, Goto, PcType
  <2> QED
    BY <2>1, <2>2
<1> QED
  BY <1>2, <1>3 DEF PcsType

(* Connect returns to the application, or to the reconnect that called it. *)
LEMMA ConnectReturnType ==
  ASSUME PcsType, NEW t \in Threads, t \notin Monitors, NEW ok,
         ConnectReturn(t, ok)
  PROVE  PcsType'
<1> DEFINE to == IF t \in Callers THEN "idle"
                 ELSE IF ok THEN "rec_cancel" ELSE "rec_failed"
<1>1. Goto(t, to)
  BY DEF ConnectReturn
<1>2. /\ t \in Callers => to \in CallerPcs
      /\ t \notin Callers => to \in PumpAll /\ to \in BeatAll
  BY DEF CallerPcs, PumpAll, BeatAll, ReconnectPcs, ReconnectBody
<1>3. t \in Pumps \cup Beats => t \notin Callers
  BY ThreadsAssumption
<1> HIDE DEF to
<1> QED
  BY <1>1, <1>2, <1>3, GotoType

(* Close returns to the application, to the heartbeat or to the monitor.   *)
LEMMA CloseReturnType ==
  ASSUME PcsType, NEW t \in Threads, t \notin Pumps, CloseReturn(t)
  PROVE  PcsType'
<1> DEFINE to == IF t \in Callers THEN "idle"
                 ELSE IF t \in Beats THEN "rec_enter" ELSE "end"
<1>1. Goto(t, to)
  BY DEF CloseReturn
<1>2. /\ t \in Callers => to \in CallerPcs
      /\ t \notin Callers /\ t \in Beats => to \in BeatAll
      /\ t \notin Callers /\ t \notin Beats => to \in MonAll
  BY DEF CallerPcs, BeatAll, MonAll, ReconnectPcs
<1>3. t \in Beats \cup Monitors => t \notin Callers
  BY ThreadsAssumption
<1>4. t \in Monitors => t \notin Beats
  BY ThreadKinds DEF Monitors
<1> HIDE DEF to
<1> QED
  BY <1>1, <1>2, <1>3, <1>4, GotoType

(* The goroutines of a session start at the first line of their function.  *)
LEMMA LaunchType ==
  ASSUME PcsType, NEW t \in Threads, t \notin Monitors, Launch(t),
         lconn[t] \in Sessions
  PROVE  PcsType'
<1> DEFINE k == lconn[t]
<1>1. pc[t] = "conn_done"
  BY DEF Launch, At
<1>2. ASSUME NEW u \in Threads
      PROVE  pc'[u] = IF u = Mon(k) THEN "mon_wait"
                      ELSE IF u = Beat(k) THEN "beat_wait"
                      ELSE IF u = Pump(k) THEN "pump_top"
                      ELSE IF u = t THEN "conn_ok" ELSE pc[u]
  BY DEF Launch, PcsType
<1>3. pc' \in [Threads -> Pcs]
  <2>1. {"mon_wait", "beat_wait", "pump_top", "conn_ok"} \subseteq Pcs
    BY DEF Pcs, PumpAll, BeatAll, MonAll, CallerPcs, PumpPcs, BeatPcs, ConnectPcs,
       ConnectBody
  <2> QED
    BY <2>1, <1>2 DEF Launch, PcsType
<1>4. ASSUME NEW u \in Threads PROVE PcType(u)'
  <2>1. CASE u = Mon(k)
    BY <1>2, <2>1, ThreadKinds DEF PcType, MonAll
  <2>2. CASE u = Beat(k)
    BY <1>2, <2>2, ThreadKinds DEF PcType, BeatAll, BeatPcs
  <2>3. CASE u = Pump(k)
    BY <1>2, <2>3, ThreadKinds DEF PcType, PumpAll, PumpPcs
  <2>4. CASE u = t /\ u # Mon(k) /\ u # Beat(k) /\ u # Pump(k)
    BY <1>2, <2>4 DEF PcType, PumpAll, BeatAll, CallerPcs, ConnectPcs, ConnectBody
  <2>5. CASE u # t /\ u # Mon(k) /\ u # Beat(k) /\ u # Pump(k)
    <3>1. pc'[u] = pc[u] /\ PcType(u)
      BY <1>2, <2>5 DEF PcsType
    <3> QED
      BY <3>1 DEF PcType
  <2> QED
    BY <2>1, <2>2, <2>3, <2>4, <2>5
<1> QED
  BY <1>3, <1>4 DEF PcsType

(* The steps of Connect keep pc well typed (connector.go:339-471).         *)
LEMMA ConnectPcsType ==
  ASSUME PcsType, DataType, HeldConn, NEW t \in Threads, ConnectStep(t)
  PROVE  PcsType'
<1>1. pc[t] \in ConnectPcs /\ t \notin Monitors
  <2>1. pc[t] \in ConnectPcs
    BY DEF ConnectStep, ConnectEarly, ConnectBegin, ConnectStop, DialOk, DialFail,
       Backoff, Publish, Launch, ConnectExit, At, ConnectPcs, ConnectBody
  <2> QED
    BY <2>1, PcClass
<1>2. \A to \in ConnectPcs : to \in CallerPcs /\ to \in PumpAll /\ to \in BeatAll
  BY DEF CallerPcs, PumpAll, BeatAll
<1>3. ASSUME NEW to \in ConnectPcs, Goto(t, to) PROVE PcsType'
  BY <1>1, <1>2, <1>3, GotoType
<1>4. CASE ConnectEarly(t) \/ ConnectExit(t)
  BY <1>1, <1>4, ConnectReturnType DEF ConnectEarly, ConnectExit
<1>5. CASE Launch(t)
  <2>1. lconn[t] \in Sessions
    BY <1>5, BoundsAssumption DEF Launch, At, HeldConn, Carries, DataType, Sessions
  <2> QED
    BY <1>1, <1>5, <2>1, LaunchType
<1>6. CASE \/ ConnectBegin(t) \/ ConnectStop(t) \/ DialOk(t) \/ DialFail(t)
           \/ Backoff(t) \/ Publish(t)
  BY <1>3, <1>6 DEF ConnectBegin, ConnectStop, DialOk, DialFail, Backoff, Publish,
     ConnectPcs, ConnectBody
<1> QED
  BY <1>4, <1>5, <1>6 DEF ConnectStep

(* So do the steps of Close, Send and reconnect, whoever runs them.        *)
LEMMA ThreadPcsType ==
  ASSUME PcsType, DataType, HeldConn, NEW t \in Threads, ThreadActs(t)
  PROVE  PcsType'
<1>1. CASE ConnectStep(t)
  BY <1>1, ConnectPcsType
<1>2. CASE CloseStep(t)
  <2>1. pc[t] \in ClosePcs /\ t \notin Pumps
    <3>1. pc[t] \in ClosePcs
      BY <1>2 DEF CloseStep, CloseTake, CloseNotConnected, CloseDone, CloseConn, At,
         ClosePcs
    <3> QED
      BY <3>1, PcClass
  <2>2. \A to \in ClosePcs : to \in CallerPcs /\ to \in BeatAll /\ to \in MonAll
    BY DEF CallerPcs, BeatAll, MonAll
  <2>3. CASE CloseReturn(t)
    BY <2>1, <2>3, CloseReturnType
  <2>4. CASE Goto(t, "close_done") \/ Goto(t, "close_conn")
    BY <2>1, <2>2, <2>4, GotoType DEF ClosePcs
  <2> QED
    BY <1>2, <2>3, <2>4 DEF CloseStep, CloseTake, CloseNotConnected, CloseDone,
       CloseConn
<1>3. CASE SendStep(t)
  <2>1. t \in Callers /\ t \notin Pumps \cup Beats \cup Monitors
    BY <1>3, PcClass, ThreadsAssumption DEF SendStep, SendCheck, SendLock, SendWrite,
       At, SendPcs
  <2> QED
    BY <1>3, <2>1, GotoType DEF SendStep, SendCheck, SendLock, SendWrite, SendPcs,
       CallerPcs
<1>4. CASE ReconnectStep(t)
  <2>1. t \in Pumps \cup Beats /\ t \notin Callers \cup Monitors
    <3>1. t \in Pumps \cup Beats
      BY <1>4, PcClass DEF ReconnectStep, ReconnectSkip, ReconnectBegin, RetryTurn,
         RetryFailed, ReconnectCancel, ReconnectExit, At, ReconnectPcs, ReconnectBody
    <3> QED
      BY <3>1, ThreadKinds DEF Pumps, Beats
  <2>2. ASSUME NEW to \in {"end", "conn_check"} \cup ReconnectBody, Goto(t, to)
        PROVE  PcsType'
    <3>1. to \in PumpAll /\ to \in BeatAll
      BY DEF PumpAll, BeatAll, ReconnectPcs, ConnectPcs
    <3> QED
      BY <2>1, <2>2, <3>1, GotoType
  <2> QED
    BY <1>4, <2>2 DEF ReconnectStep, ReconnectSkip, ReconnectBegin, RetryTurn,
       RetryFailed, ReconnectCancel, ReconnectExit, ReconnectBody
<1>5. CASE CancelCtx(t)
  BY <1>5 DEF CancelCtx, PcsType, PcType
<1> QED
  BY <1>1, <1>2, <1>3, <1>4, <1>5 DEF ThreadActs

(* So do the steps of the pump, the heartbeat and the monitor.             *)
LEMMA SessionPcsType ==
  ASSUME PcsType, NEW k \in Sessions, SessionActs(k)
  PROVE  PcsType'
<1>1. ASSUME NEW to \in {"end", "rec_enter"} \cup PumpPcs, Goto(Pump(k), to)
      PROVE  PcsType'
  <2>1. to \in PumpAll
    BY DEF PumpAll, ReconnectPcs
  <2> QED
    BY <1>1, <2>1, ThreadKinds, GotoType DEF Threads
<1>2. ASSUME NEW to \in {"end", "close_take"} \cup BeatPcs, Goto(Beat(k), to)
      PROVE  PcsType'
  <2>1. to \in BeatAll
    BY DEF BeatAll, ClosePcs
  <2> QED
    BY <1>2, <2>1, ThreadKinds, GotoType DEF Threads
<1>3. ASSUME NEW to \in {"end", "close_take"}, Goto(Mon(k), to)
      PROVE  PcsType'
  <2>1. to \in MonAll
    BY DEF MonAll, ClosePcs
  <2> QED
    BY <1>3, <2>1, ThreadKinds, GotoType DEF Threads
<1>4. CASE \/ PumpTop(k) \/ PumpMessage(k) \/ PumpError(k)
           \/ PumpClear(k) \/ PumpClose(k) \/ PumpDone(k) \/ PumpExit(k)
  BY <1>1, <1>4 DEF PumpTop, PumpMessage, PumpError, PumpClear, PumpClose, PumpDone,
     PumpExit, PumpPcs
<1>5. CASE BeatTick(k) \/ BeatPing(k) \/ BeatDone(k)
  BY <1>2, <1>5 DEF BeatTick, BeatPing, BeatDone, BeatPcs
<1>6. CASE MonSelect(k)
  BY <1>3, <1>6 DEF MonSelect
<1>7. CASE Break(k)
  BY <1>7 DEF Break, PcsType, PcType
<1> QED
  BY <1>4, <1>5, <1>6, <1>7 DEF SessionActs

(* Every step keeps the Boolean variables Boolean.                         *)
LEMMA StepFlagsType ==
  ASSUME FlagsType, [Next]_vars
  PROVE  FlagsType'
<1> USE DEF FlagsType, state, chans, local, sess, env
<1>1. ASSUME NEW t \in Threads, ThreadActs(t) PROVE FlagsType'
  <2>1. CASE ConnectStep(t)
    BY <2>1 DEF ConnectStep, ConnectEarly, ConnectBegin, ConnectStop, DialOk,
       DialFail, Backoff, Publish, Launch, ConnectExit, FlagAfter
  <2>2. CASE CloseStep(t)
    BY <2>2 DEF CloseStep, CloseTake, CloseNotConnected, CloseDone, CloseConn,
       SignalDone, TakeConn
  <2>3. CASE SendStep(t) \/ CancelCtx(t)
    BY <2>3 DEF SendStep, SendCheck, SendLock, SendWrite, CancelCtx
  <2>4. CASE ReconnectStep(t)
    BY <2>4 DEF ReconnectStep, ReconnectSkip, ReconnectBegin, RetryTurn,
       RetryFailed, ReconnectCancel, ReconnectExit
  <2> QED
    BY <1>1, <2>1, <2>2, <2>3, <2>4 DEF ThreadActs
<1>2. ASSUME NEW k \in Sessions, SessionActs(k) PROVE FlagsType'
  BY <1>2 DEF SessionActs, PumpTop, PumpMessage, PumpError, PumpClear, PumpClose,
     PumpDone, PumpExit, BeatTick, BeatPing, BeatDone, MonSelect, Break, SignalDone,
     TakeConn
<1>3. ASSUME NEW c \in Callers, Call(c) PROVE FlagsType'
  BY <1>3 DEF Call
<1>4. CASE UNCHANGED vars
  BY <1>4 DEF vars
<1> QED
  BY <1>1, <1>2, <1>3, <1>4, StepCases

(* Every step writes c.connected and c.conn together (connector.go:412,    *)
(* 487, 915).                                                              *)
LEMMA StepConnectedIffConn ==
  ASSUME FlagsType, DataType, ConnectedIffConn, HeldConn, [Next]_vars
  PROVE  ConnectedIffConn'
<1> USE DEF ConnectedIffConn, state
<1>1. ASSUME NEW t \in Threads, ThreadActs(t) PROVE ConnectedIffConn'
  <2>1. CASE Publish(t)
    <3>1. lconn[t] # 0
      BY <2>1 DEF Publish, At, HeldConn, Carries
    <3> QED
      BY <2>1, <3>1 DEF Publish
  <2>2. CASE ConnectStep(t) /\ ~Publish(t)
    BY <2>2 DEF ConnectStep, ConnectEarly, ConnectBegin, ConnectStop, DialOk,
       DialFail, Backoff, Launch, ConnectExit
  <2>3. CASE CloseStep(t)
    BY <2>3 DEF CloseStep, CloseTake, CloseNotConnected, CloseDone, CloseConn,
       TakeConn
  <2>4. CASE SendStep(t) \/ CancelCtx(t) \/ ReconnectStep(t)
    BY <2>4 DEF SendStep, SendCheck, SendLock, SendWrite, CancelCtx, ReconnectStep,
       ReconnectSkip, ReconnectBegin, RetryTurn, RetryFailed, ReconnectCancel,
       ReconnectExit
  <2> QED
    BY <1>1, <2>1, <2>2, <2>3, <2>4 DEF ThreadActs
<1>2. ASSUME NEW k \in Sessions, SessionActs(k) PROVE ConnectedIffConn'
  BY <1>2 DEF SessionActs, PumpTop, PumpMessage, PumpError, PumpClear, PumpClose,
     PumpDone, PumpExit, BeatTick, BeatPing, BeatDone, MonSelect, Break, TakeConn
<1>3. ASSUME NEW c \in Callers, Call(c) PROVE ConnectedIffConn'
  BY <1>3 DEF Call
<1>4. CASE UNCHANGED vars
  BY <1>4 DEF vars
<1> QED
  BY <1>1, <1>2, <1>3, <1>4, StepCases

(* A thread that goes where it must hold a connection has just obtained    *)
(* one.                                                                    *)
LEMMA StepHeldConn ==
  ASSUME PcsType, DataType, ConnectedIffConn, HeldConn, [Next]_vars
  PROVE  HeldConn'
<1> USE DEF HeldConn, Carries, PcsType, DataType, At, Goto, local
<1>1. ASSUME NEW t \in Threads, ThreadActs(t) PROVE HeldConn'
  <2>1. CASE ConnectStep(t) /\ ~Launch(t)
    BY <2>1 DEF ConnectStep, ConnectEarly, ConnectBegin, ConnectStop, DialOk,
       DialFail, Backoff, Publish, ConnectExit, ConnectReturn
  <2>2. CASE Launch(t)
    BY <2>2 DEF Launch
  <2>3. CASE CloseStep(t)
    BY <2>3 DEF CloseStep, CloseTake, CloseNotConnected, CloseDone, CloseConn,
       CloseReturn, ConnectedIffConn
  <2>4. CASE SendStep(t)
    BY <2>4 DEF SendStep, SendCheck, SendLock, SendWrite
  <2>5. CASE CancelCtx(t) \/ ReconnectStep(t)
    BY <2>5 DEF CancelCtx, ReconnectStep, ReconnectSkip, ReconnectBegin, RetryTurn,
       RetryFailed, ReconnectCancel, ReconnectExit
  <2> QED
    BY <1>1, <2>1, <2>2, <2>3, <2>4, <2>5 DEF ThreadActs
<1>2. ASSUME NEW k \in Sessions, SessionActs(k) PROVE HeldConn'
  <2>1. CASE \/ PumpTop(k) \/ PumpMessage(k) \/ PumpError(k)
             \/ PumpClear(k) \/ PumpClose(k) \/ PumpDone(k) \/ PumpExit(k)
    BY <2>1 DEF PumpTop, PumpMessage, PumpError, PumpClear, PumpClose, PumpDone,
       PumpExit
  <2>2. CASE BeatTick(k) \/ BeatPing(k) \/ BeatDone(k) \/ MonSelect(k) \/ Break(k)
    BY <2>2 DEF BeatTick, BeatPing, BeatDone, MonSelect, Break
  <2> QED
    BY <1>2, <2>1, <2>2 DEF SessionActs
<1>3. ASSUME NEW c \in Callers, Call(c) PROVE HeldConn'
  BY <1>3 DEF Call
<1>4. CASE UNCHANGED vars
  BY <1>4 DEF vars
<1> QED
  BY <1>1, <1>2, <1>3, <1>4, StepCases

(* if !c.closed { close(c.done) } keeps the channels well typed.           *)
LEMMA SignalType ==
  ASSUME DataType, SignalDone
  PROVE  /\ stopped' \subseteq Sessions
         /\ panicked' \in {"no", "nil_channel", "closed_channel"}
         /\ done' = done
<1>1. done # 0 => done \in Sessions
  BY BoundsAssumption DEF DataType, Sessions
<1>2. stopped \subseteq Sessions /\ panicked \in {"no", "nil_channel", "closed_channel"}
  BY DEF DataType
<1>3. CASE closed /\ UNCHANGED <<chans, panicked>>
  BY <1>2, <1>3 DEF chans
<1>4. CASE ~(closed /\ UNCHANGED <<chans, panicked>>)
  BY <1>1, <1>2, <1>4 DEF SignalDone
<1> QED
  BY <1>3, <1>4

(* Every step keeps connections, channels, contexts and counters in their  *)
(* ranges.                                                                 *)
LEMMA StepDataType ==
  ASSUME DataType, HeldConn, [Next]_vars
  PROVE  DataType'
<1> USE BoundsAssumption DEF DataType, state, chans, local, sess, env
<1>1. ASSUME NEW t \in Threads, ThreadActs(t) PROVE DataType'
  <2>1. CASE ConnectEarly(t)
    BY <2>1 DEF ConnectEarly
  <2>2. CASE ConnectBegin(t)
    BY <2>2 DEF ConnectBegin
  <2>3. CASE ConnectStop(t)
    BY <2>3 DEF ConnectStop
  <2>4. CASE DialOk(t)
    <3>1. dialled' \in 0 .. MaxSessions
      BY <2>4 DEF DialOk, NextAttempt
    <3>2. link' \in [Sessions -> {"none", "open", "broken", "closed"}]
      BY <2>4 DEF DialOk, NextAttempt
    <3>3. lconn' \in [Threads -> 0 .. MaxSessions]
      BY <2>4 DEF DialOk, NextAttempt
    <3>4. attempt' \in [Threads -> Nat]
      BY <2>4 DEF DialOk, NextAttempt
    <3> QED
      BY <2>4, <3>1, <3>2, <3>3, <3>4 DEF DialOk
  <2>5. CASE DialFail(t)
    BY <2>5 DEF DialFail, NextAttempt
  <2>6. CASE Backoff(t)
    BY <2>6 DEF Backoff
  <2>7. CASE Publish(t)
    BY <2>7 DEF Publish
  <2>8. CASE Launch(t)
    <3>1. done' \in 0 .. MaxSessions
      BY <2>8 DEF Launch
    <3>2. sessCtx' \in [Sessions -> Threads \cup {NoThread}]
      BY <2>8 DEF Launch
    <3>3. sessDone' \in [Sessions -> 0 .. MaxSessions]
      BY <2>8 DEF Launch
    <3>4. lconn' \in [Threads -> 0 .. MaxSessions]
      BY <2>8 DEF Launch
    <3> QED
      BY <2>8, <3>1, <3>2, <3>3, <3>4 DEF Launch
  <2>9. CASE ConnectExit(t)
    BY <2>9 DEF ConnectExit
  <2>10. CASE CloseTake(t)
    BY <2>10 DEF CloseTake, TakeConn, Lock
  <2>11. CASE CloseNotConnected(t)
    BY <2>11 DEF CloseNotConnected
  <2>12. CASE CloseDone(t)
    <3>1. SignalDone /\ UNCHANGED <<state, dialled, link, cancelled, attempt, tries>>
                     /\ UNCHANGED <<env, sess>>
      BY <2>12 DEF CloseDone
    <3>2. writeMu' \in Threads \cup {NoThread}
      BY <2>12 DEF CloseDone
    <3>3. lconn' = lconn \/ lconn' = [lconn EXCEPT ![t] = 0]
      BY <2>12 DEF CloseDone
    <3>4. lconn' \in [Threads -> 0 .. MaxSessions]
      BY <3>3
    <3> QED
      BY <3>1, <3>2, <3>4, SignalType
  <2>13. CASE CloseConn(t)
    <3>1. link' \in [Sessions -> {"none", "open", "broken", "closed"}]
      BY <2>13 DEF CloseConn
    <3>2. lconn' \in [Threads -> 0 .. MaxSessions]
      BY <2>13 DEF CloseConn
    <3>3. writeMu' \in Threads \cup {NoThread}
      BY <2>13 DEF CloseConn
    <3> QED
      BY <2>13, <3>1, <3>2, <3>3 DEF CloseConn
  <2>14. CASE SendCheck(t)
    BY <2>14 DEF SendCheck
  <2>15. CASE SendLock(t)
    BY <2>15 DEF SendLock, Lock
  <2>16. CASE SendWrite(t)
    BY <2>16 DEF SendWrite
  <2>17. CASE ReconnectSkip(t)
    BY <2>17 DEF ReconnectSkip
  <2>18. CASE ReconnectBegin(t)
    BY <2>18 DEF ReconnectBegin
  <2>19. CASE RetryTurn(t)
    BY <2>19 DEF RetryTurn
  <2>20. CASE RetryFailed(t)
    BY <2>20 DEF RetryFailed
  <2>21. CASE ReconnectCancel(t)
    BY <2>21 DEF ReconnectCancel
  <2>22. CASE ReconnectExit(t)
    BY <2>22 DEF ReconnectExit
  <2>23. CASE CancelCtx(t)
    BY <2>23 DEF CancelCtx, NewFault
  <2> QED
    BY <1>1, <2>1, <2>2, <2>3, <2>4, <2>5, <2>6, <2>7, <2>8, <2>9, <2>10, <2>11, <2>12, <2>13, <2>14, <2>15, <2>16, <2>17, <2>18, <2>19, <2>20, <2>21, <2>22, <2>23
    DEF ThreadActs, ConnectStep, CloseStep, SendStep, ReconnectStep
<1>2. ASSUME NEW k \in Sessions, SessionActs(k) PROVE DataType'
  <2>1. CASE PumpTop(k)
    BY <2>1 DEF PumpTop
  <2>2. CASE PumpMessage(k)
    BY <2>2 DEF PumpMessage
  <2>3. CASE PumpError(k)
    BY <2>3 DEF PumpError
  <2>4. CASE PumpClear(k)
    <3>1. lconn' \in [Threads -> 0 .. MaxSessions]
      BY <2>4 DEF PumpClear, TakeConn
    <3>2. conn' \in 0 .. MaxSessions
      BY <2>4 DEF PumpClear, TakeConn
    <3> QED
      BY <2>4, <3>1, <3>2 DEF PumpClear
  <2>5. CASE PumpClose(k)
    <3>1. link' \in [Sessions -> {"none", "open", "broken", "closed"}]
      BY <2>5 DEF PumpClose
    <3>2. lconn' = [lconn EXCEPT ![Pump(k)] = 0]
      BY <2>5 DEF PumpClose
    <3>3. lconn' \in [Threads -> 0 .. MaxSessions]
      <4>1. lconn \in [Threads -> 0 .. MaxSessions] /\ 0 \in 0 .. MaxSessions
        OBVIOUS
      <4> QED
        BY <3>2, <4>1, Zenon
    <3> QED
      BY <2>5, <3>1, <3>3 DEF PumpClose
  <2>6. CASE PumpDone(k)
    <3>1. SignalDone /\ UNCHANGED <<state, writeMu, dialled, link, cancelled, local>>
                     /\ UNCHANGED <<env, sess>>
      BY <2>6 DEF PumpDone
    <3> QED
      BY <3>1, SignalType
  <2>7. CASE PumpExit(k)
    BY <2>7 DEF PumpExit
  <2>8. CASE BeatTick(k)
    BY <2>8, ThreadKinds DEF BeatTick, Lock, Threads
  <2>9. CASE BeatPing(k)
    <3>1. lconn' \in [Threads -> 0 .. MaxSessions]
      BY <2>9, ThreadKinds DEF BeatPing, Threads
    <3>2. writeMu' \in Threads \cup {NoThread}
      BY <2>9, ThreadKinds DEF BeatPing, Threads
    <3> QED
      BY <2>9, <3>1, <3>2 DEF BeatPing
  <2>10. CASE BeatDone(k)
    BY <2>10, ThreadKinds DEF BeatDone, Threads
  <2>11. CASE MonSelect(k)
    BY <2>11 DEF MonSelect
  <2>12. CASE Break(k)
    BY <2>12 DEF Break, NewFault
  <2> QED
    BY <1>2, <2>1, <2>2, <2>3, <2>4, <2>5, <2>6, <2>7, <2>8, <2>9, <2>10, <2>11, <2>12
    DEF SessionActs
<1>3. ASSUME NEW c \in Callers, Call(c) PROVE DataType'
  BY <1>3 DEF Call
<1>4. CASE UNCHANGED vars
  BY <1>4 DEF vars
<1> QED
  BY <1>1, <1>2, <1>3, <1>4, StepCases

(* The type invariant is inductive together with two facts about the       *)
(* connection: c.connected says whether c.conn is set, and whoever is about *)
(* to publish, launch or close a connection holds one.                     *)
TypeInv == TypeOK /\ ConnectedIffConn /\ HeldConn

(* The typing invariant holds when NewConnector has returned.              *)
LEMMA InitTypeInv == Init => TypeInv
<1> SUFFICES ASSUME Init PROVE ConnectedIffConn /\ HeldConn
  BY InitType DEF TypeInv
<1>1. ConnectedIffConn
  BY DEF Init, ConnectedIffConn
<1>2. HeldConn
  BY DEF Init, HeldConn, Carries
<1> QED
  BY <1>1, <1>2

(* The typing invariant is preserved by every step of the connector.       *)
LEMMA StepTypeInv == TypeInv /\ [Next]_vars => TypeInv'
<1> SUFFICES ASSUME TypeInv, [Next]_vars PROVE TypeInv'
  OBVIOUS
<1> USE DEF TypeInv, TypeOK
<1>1. PcsType'
  <2>1. ASSUME NEW c \in Callers, Call(c) PROVE PcsType'
    <3>1. c \in Threads /\ c \notin Pumps \cup Beats \cup Monitors
      BY ThreadsAssumption DEF Threads
    <3>2. {"conn_check", "close_take", "send_check"} \subseteq CallerPcs
      BY DEF CallerPcs, ConnectPcs, ClosePcs, SendPcs
    <3>3. Goto(c, "conn_check") \/ Goto(c, "close_take") \/ Goto(c, "send_check")
      BY <2>1 DEF Call
    <3> QED
      BY <3>1, <3>2, <3>3, GotoType
  <2>2. CASE UNCHANGED vars
    BY <2>2 DEF vars, PcsType, PcType
  <2> QED
    BY <2>1, <2>2, StepCases, ThreadPcsType, SessionPcsType
<1> QED
  BY <1>1, StepFlagsType, StepDataType, StepConnectedIffConn, StepHeldConn

(* Every state of the connector is well typed, connected exactly when it   *)
(* has a connection, and every thread that needs a connection holds one.   *)
THEOREM TypeInvariant == Spec => []TypeInv
  BY InitTypeInv, StepTypeInv, PTL DEF Spec

(* Type correctness of the connector: in particular a goroutine is only    *)
(* ever in a function it runs, and every connection is a dialled one.      *)
THEOREM TypeCorrect == Spec => []TypeOK
<1>1. TypeInv => TypeOK
  BY DEF TypeInv
<1> QED
  BY <1>1, TypeInvariant, PTL

=============================================================================

------------------------- MODULE WSConnectorSafety -------------------------
(* The safety properties of WSConnector, proved for any callers, sessions  *)
(* and bounds: the parts of IInv, one after the other, each inductive      *)
(* relative to those before it.                                            *)
EXTENDS WSConnectorProofs

(* All threads but t are where they were, with the same local variables.   *)
Only(t) ==
  \A u \in Threads \ {t} :
    pc'[u] = pc[u] /\ lconn'[u] = lconn[u] /\ was'[u] = was[u]

(* An action of thread t leaves the threads it does not start as they are. *)
LEMMA ThreadOnly ==
  ASSUME PcsType, DataType, FlagsType, NEW t \in Threads, ThreadActs(t), ~Launch(t)
  PROVE  Only(t)
<1> USE DEF Only, Goto, PcsType, DataType, FlagsType, local
<1>1. CASE ConnectStep(t)
  BY <1>1 DEF ConnectStep, ConnectEarly, ConnectBegin, ConnectStop, DialOk,
     DialFail, Backoff, Publish, ConnectExit, ConnectReturn
<1>2. CASE CloseStep(t)
  BY <1>2 DEF CloseStep, CloseTake, CloseNotConnected, CloseDone, CloseConn,
     CloseReturn
<1>3. CASE SendStep(t)
  BY <1>3 DEF SendStep, SendCheck, SendLock, SendWrite
<1>4. CASE ReconnectStep(t) \/ CancelCtx(t)
  BY <1>4 DEF ReconnectStep, ReconnectSkip, ReconnectBegin, RetryTurn, RetryFailed,
     ReconnectCancel, ReconnectExit, CancelCtx
<1> QED
  BY <1>1, <1>2, <1>3, <1>4 DEF ThreadActs

PumpActs(k) ==
  \/ PumpTop(k) \/ PumpMessage(k) \/ PumpError(k)
  \/ PumpClear(k) \/ PumpClose(k) \/ PumpDone(k) \/ PumpExit(k)

BeatActs(k) == BeatTick(k) \/ BeatPing(k) \/ BeatDone(k)

(* So does the action of a session's goroutine.                            *)
LEMMA SessionOnly ==
  ASSUME PcsType, DataType, FlagsType, NEW k \in Sessions
  PROVE  /\ PumpActs(k) => Only(Pump(k))
         /\ BeatActs(k) => Only(Beat(k))
         /\ MonSelect(k) => Only(Mon(k))
         /\ Break(k) => Only(Mon(k))
<1> USE DEF Only, Goto, PcsType, DataType, FlagsType, local
<1>1. PumpActs(k) => Only(Pump(k))
  BY DEF PumpActs, PumpTop, PumpMessage, PumpError, PumpClear, PumpClose, PumpDone,
     PumpExit
<1>2. BeatActs(k) => Only(Beat(k))
  BY DEF BeatActs, BeatTick, BeatPing, BeatDone
<1>3. MonSelect(k) => Only(Mon(k))
  BY DEF MonSelect
<1>4. Break(k) => Only(Mon(k))
  BY DEF Break
<1> QED
  BY <1>1, <1>2, <1>3, <1>4

-----------------------------------------------------------------------------
(* Connections are numbered in the order of the dials.                     *)

(* Every step keeps the sessions numbered in the order of the dials.       *)
LEMMA StepNumbered ==
  ASSUME TypeInv, Numbered, [Next]_vars
  PROVE  Numbered'
<1> USE DEF TypeInv, TypeOK, DataType, Numbered, state, local
<1>1. ASSUME NEW t \in Threads, ThreadActs(t) PROVE Numbered'
  <2>1. CASE DialOk(t)
    BY <2>1 DEF DialOk
  <2>2. CASE ConnectStep(t) /\ ~DialOk(t) /\ ~Launch(t)
    BY <2>2 DEF ConnectStep, ConnectEarly, ConnectBegin, ConnectStop, DialFail,
       Backoff, Publish, ConnectExit
  <2>6. CASE Launch(t)
    BY <2>6 DEF Launch
  <2>3. CASE CloseStep(t)
    BY <2>3 DEF CloseStep, CloseTake, CloseNotConnected, CloseDone, CloseConn,
       TakeConn
  <2>4. CASE SendStep(t)
    BY <2>4 DEF SendStep, SendCheck, SendLock, SendWrite
  <2>5. CASE ReconnectStep(t) \/ CancelCtx(t)
    BY <2>5 DEF ReconnectStep, ReconnectSkip, ReconnectBegin, RetryTurn,
       RetryFailed, ReconnectCancel, ReconnectExit, CancelCtx
  <2> QED
    BY <1>1, <2>1, <2>2, <2>3, <2>4, <2>5, <2>6 DEF ThreadActs
<1>2. ASSUME NEW k \in Sessions, SessionActs(k) PROVE Numbered'
  <2>1. CASE \/ PumpTop(k) \/ PumpMessage(k) \/ PumpError(k) \/ PumpClear(k)
             \/ PumpClose(k) \/ PumpDone(k) \/ PumpExit(k)
    BY <2>1 DEF PumpTop, PumpMessage, PumpError, PumpClear, PumpClose, PumpDone,
       PumpExit, TakeConn
  <2>2. CASE BeatTick(k) \/ BeatPing(k) \/ BeatDone(k) \/ MonSelect(k) \/ Break(k)
    BY <2>2 DEF BeatTick, BeatPing, BeatDone, MonSelect, Break
  <2> QED
    BY <1>2, <2>1, <2>2 DEF SessionActs
<1>3. ASSUME NEW c \in Callers, Call(c) PROVE Numbered'
  BY <1>3 DEF Call
<1>4. CASE UNCHANGED vars
  BY <1>4 DEF vars
<1> QED
  BY <1>1, <1>2, <1>3, <1>4, StepCases

-----------------------------------------------------------------------------
(* A session is launched once, by the Connect that dialled it.             *)

(* A step that starts no goroutine and no launch preserves Launches.       *)
LEMMA LaunchesFrame ==
  ASSUME PcsType, DataType, Launches, NEW t \in Threads, Only(t),
         pc[t] # "none" \/ pc'[t] = pc[t],
         UNCHANGED <<dialled, sessDone>>,
         pc'[t] \in {"conn_publish", "conn_done"} =>
           pc[t] \in {"conn_publish", "conn_done"} /\ lconn'[t] = lconn[t]
  PROVE  Launches'
<1> USE DEF Only
<1>1. ASSUME NEW k \in Sessions, Unlaunched(k) PROVE Unlaunched(k)'
  <2>1. Pump(k) \in Threads /\ Beat(k) \in Threads /\ Mon(k) \in Threads
    BY DEF Threads, Pumps, Beats, Monitors
  <2> QED
    BY <1>1, <2>1 DEF Unlaunched
<1>2. ASSUME NEW u \in Threads, NEW k \in Sessions, Launching(u, k)'
      PROVE  Launching(u, k)
  BY <1>2 DEF Launching
<1> QED
  BY <1>1, <1>2 DEF Launches

(* Every step preserves Launches (connector.go:384-415, 423-460).          *)
LEMMA StepLaunches ==
  ASSUME TypeInv, Numbered, Launches, [Next]_vars
  PROVE  Launches'
<1> USE DEF TypeInv, TypeOK
<1>1. ASSUME NEW t \in Threads, ThreadActs(t) PROVE Launches'
  <2>1. CASE DialOk(t)
    <3> DEFINE n == dialled + 1
    <3>1. /\ n \in Sessions /\ dialled' = n
          /\ Only(t) /\ pc[t] = "conn_dial" /\ pc'[t] = "conn_publish"
          /\ lconn'[t] = n /\ sessDone' = sessDone
      <4>1. Only(t)
        BY <1>1, <2>1, ThreadOnly DEF DialOk, Launch, At
      <4>2. n \in Sessions
        BY <2>1, BoundsAssumption DEF DialOk, DataType, Sessions
      <4> QED
        BY <2>1, <4>1, <4>2 DEF DialOk, At, Goto, PcsType, DataType, sess
    <3>2. ASSUME NEW k \in Sessions, Unlaunched(k) PROVE Unlaunched(k)'
      <4>1. Pump(k) \in Threads /\ Beat(k) \in Threads /\ Mon(k) \in Threads
        BY DEF Threads, Pumps, Beats, Monitors
      <4> QED
        BY <3>1, <3>2, <4>1 DEF Unlaunched, Only
    <3>3. ASSUME NEW k \in Sessions, k > dialled' PROVE Unlaunched(k)'
      <4>1. k > dialled
        BY <3>1, <3>3 DEF DataType, Sessions
      <4> QED
        BY <3>2, <4>1 DEF Launches
    <3>4. ASSUME NEW u \in Threads, NEW k \in Sessions, Launching(u, k)'
          PROVE  Unlaunched(k)' /\ ((u = t /\ k = n) \/ (u # t /\ k # n /\ Launching(u, k)))
      <4>1. CASE u = t
        <5>1. k = n /\ n > dialled
          BY <3>1, <3>4, <4>1 DEF Launching, DataType
        <5> QED
          BY <3>2, <4>1, <5>1 DEF Launches
      <4>2. CASE u # t
        <5>1. Launching(u, k) /\ k <= dialled
          BY <3>1, <3>4, <4>2 DEF Launching, Only, Numbered
        <5>2. k # n
          BY <5>1 DEF DataType, Sessions
        <5> QED
          BY <3>2, <4>2, <5>1, <5>2 DEF Launches
      <4> QED
        BY <4>1, <4>2
    <3> QED
      BY <3>3, <3>4 DEF Launches
  <2>2. CASE Launch(t)
    <3> DEFINE n == lconn[t]
    <3>1. /\ n \in Sessions /\ pc[t] = "conn_done" /\ n <= dialled
          /\ dialled' = dialled
      BY <2>2, BoundsAssumption
      DEF Launch, At, HeldConn, Carries, DataType, Sessions, Numbered
    <3>2. /\ \A k \in Sessions : k # n => sessDone'[k] = sessDone[k]
          /\ \A u \in Threads :
               u # t /\ u # Pump(n) /\ u # Beat(n) /\ u # Mon(n) =>
                 pc'[u] = pc[u] /\ lconn'[u] = lconn[u]
          /\ pc'[t] \in {"conn_ok", "pump_top", "beat_wait", "mon_wait"}
          /\ pc'[Pump(n)] \in {"pump_top", "beat_wait", "mon_wait"}
          /\ pc'[Beat(n)] \in {"beat_wait", "mon_wait"}
          /\ pc'[Mon(n)] = "mon_wait"
      BY <2>2, <3>1 DEF Launch, PcsType, DataType, Threads, Pumps, Beats, Monitors
    <3>3. ASSUME NEW k \in Sessions, k # n, Unlaunched(k) PROVE Unlaunched(k)'
      <4>1. \A u \in {Pump(k), Beat(k), Mon(k)} :
              u \in Threads /\ u # Pump(n) /\ u # Beat(n) /\ u # Mon(n) /\ u # t
        <5>1. {Pump(k), Beat(k), Mon(k)} \cap {Pump(n), Beat(n), Mon(n)} = {}
          BY <3>3 DEF Pump, Beat, Mon
        <5> QED
          BY <3>1, <3>3, <5>1 DEF Threads, Pumps, Beats, Monitors, Unlaunched
      <4> QED
        BY <3>2, <3>3, <4>1 DEF Unlaunched
    <3>4. ASSUME NEW u \in Threads, NEW k \in Sessions, Launching(u, k)'
          PROVE  Launching(u, k) /\ k # n
      <4>1. u # t /\ u # Pump(n) /\ u # Beat(n) /\ u # Mon(n)
        BY <3>2, <3>4 DEF Launching
      <4>2. Launching(u, k)
        BY <3>2, <3>4, <4>1 DEF Launching
      <4>3. Launching(t, n)
        BY <3>1 DEF Launching
      <4> QED
        BY <4>1, <4>2, <4>3, <3>1 DEF Launches
    <3>5. \A k \in Sessions : k > dialled => k # n
      BY <3>1 DEF DataType, Sessions
    <3> QED
      BY <3>1, <3>3, <3>4, <3>5 DEF Launches
  <2>3. CASE ~DialOk(t) /\ ~Launch(t)
    <3>1. Only(t)
      BY <1>1, <2>3, ThreadOnly
    <3> USE DEF At, Goto, PcsType, DataType, sess, local
    <3>2. CASE ConnectStep(t)
      <4>1. pc[t] # "none" /\ UNCHANGED <<dialled, sessDone>>
        BY <2>3, <3>2 DEF ConnectStep, ConnectEarly, ConnectBegin, ConnectStop,
           DialFail, Backoff, Publish, ConnectExit
      <4>2. pc'[t] \in {"conn_publish", "conn_done"} =>
              pc[t] \in {"conn_publish", "conn_done"} /\ lconn'[t] = lconn[t]
        BY <2>3, <3>2 DEF ConnectStep, ConnectEarly, ConnectBegin, ConnectStop,
           DialFail, Backoff, Publish, ConnectExit, ConnectReturn
      <4> QED
        BY <3>1, <4>1, <4>2, LaunchesFrame
    <3>3. CASE CloseStep(t)
      <4>1. pc[t] # "none" /\ UNCHANGED <<dialled, sessDone>>
        BY <3>3 DEF CloseStep, CloseTake, CloseNotConnected, CloseDone, CloseConn
      <4>2. pc'[t] \notin {"conn_publish", "conn_done"}
        BY <3>3 DEF CloseStep, CloseTake, CloseNotConnected, CloseDone, CloseConn,
           CloseReturn
      <4> QED
        BY <3>1, <4>1, <4>2, LaunchesFrame
    <3>4. CASE SendStep(t) \/ ReconnectStep(t)
      <4>1. pc[t] # "none" /\ UNCHANGED <<dialled, sessDone>>
        BY <3>4 DEF SendStep, SendCheck, SendLock, SendWrite, ReconnectStep,
           ReconnectSkip, ReconnectBegin, RetryTurn, RetryFailed, ReconnectCancel,
           ReconnectExit
      <4>2. pc'[t] \notin {"conn_publish", "conn_done"}
        BY <3>4 DEF SendStep, SendCheck, SendLock, SendWrite, ReconnectStep,
           ReconnectSkip, ReconnectBegin, RetryTurn, RetryFailed, ReconnectCancel,
           ReconnectExit
      <4> QED
        BY <3>1, <4>1, <4>2, LaunchesFrame
    <3>5. CASE CancelCtx(t)
      BY <3>1, <3>5, LaunchesFrame DEF CancelCtx
    <3> QED
      BY <1>1, <3>2, <3>3, <3>4, <3>5 DEF ThreadActs
  <2> QED
    BY <2>1, <2>2, <2>3
<1>2. ASSUME NEW k \in Sessions, SessionActs(k) PROVE Launches'
  <2> USE DEF At, Goto, PcsType, DataType, sess, local
  <2>1. Pump(k) \in Threads /\ Beat(k) \in Threads /\ Mon(k) \in Threads
    BY DEF Threads, Pumps, Beats, Monitors
  <2>2. CASE PumpActs(k)
    <3>1. /\ pc[Pump(k)] # "none" /\ UNCHANGED <<dialled, sessDone>>
          /\ pc'[Pump(k)] \notin {"conn_publish", "conn_done"}
      BY <2>1, <2>2 DEF PumpActs, PumpTop, PumpMessage, PumpError, PumpClear,
         PumpClose, PumpDone, PumpExit
    <3> QED
      BY <2>1, <2>2, <3>1, SessionOnly, LaunchesFrame
  <2>3. CASE BeatActs(k)
    <3>1. /\ pc[Beat(k)] # "none" /\ UNCHANGED <<dialled, sessDone>>
          /\ pc'[Beat(k)] \notin {"conn_publish", "conn_done"}
      BY <2>1, <2>3 DEF BeatActs, BeatTick, BeatPing, BeatDone
    <3> QED
      BY <2>1, <2>3, <3>1, SessionOnly, LaunchesFrame
  <2>4. CASE MonSelect(k)
    <3>1. /\ pc[Mon(k)] # "none" /\ UNCHANGED <<dialled, sessDone>>
          /\ pc'[Mon(k)] \notin {"conn_publish", "conn_done"}
      BY <2>1, <2>4 DEF MonSelect
    <3> QED
      BY <2>1, <2>4, <3>1, SessionOnly, LaunchesFrame
  <2>5. CASE Break(k)
    <3>1. pc' = pc /\ lconn' = lconn /\ UNCHANGED <<dialled, sessDone>>
      BY <2>5 DEF Break
    <3> QED
      BY <2>1, <2>5, <3>1, SessionOnly, LaunchesFrame
  <2> QED
    BY <1>2, <2>2, <2>3, <2>4, <2>5 DEF SessionActs, PumpActs, BeatActs
<1>3. ASSUME NEW c \in Callers, Call(c) PROVE Launches'
  <2>1. c \in Threads
    BY DEF Threads
  <2>2. /\ Only(c) /\ pc[c] # "none" /\ UNCHANGED <<dialled, sessDone>>
        /\ pc'[c] \notin {"conn_publish", "conn_done"}
    BY <1>3, <2>1 DEF Call, At, Goto, Only, PcsType, local, sess
  <2> QED
    BY <2>1, <2>2, LaunchesFrame
<1>4. CASE UNCHANGED vars
  BY <1>4 DEF vars, local, sess, Launches, Launching, Unlaunched
<1> QED
  BY <1>1, <1>2, <1>3, <1>4, StepCases

-----------------------------------------------------------------------------
(* The reconnecting flag has one owner.                                    *)

(* What a step of t may do to the flag and to its ownership: nothing,      *)
(* acquire it, or release it.                                              *)
FlagKept(t)     == (OwnsFlag(t)' <=> OwnsFlag(t)) /\ reconnecting' = reconnecting
FlagAcquired(t) == ~reconnecting /\ reconnecting' /\ OwnsFlag(t)'
FlagReleased(t) == OwnsFlag(t) /\ ~OwnsFlag(t)' /\ ~reconnecting'

FlagMove(t) == /\ \A u \in Threads \ {t} : OwnsFlag(u)' <=> OwnsFlag(u)
               /\ FlagKept(t) \/ FlagAcquired(t) \/ FlagReleased(t)

(* The owner of the flag is the one thread that owns it.                   *)
LEMMA OnlyOwner ==
  ASSUME NEW t \in Threads, Only(t)
  PROVE  \A u \in Threads \ {t} : OwnsFlag(u)' <=> OwnsFlag(u)
BY DEF Only, OwnsFlag, InReconnect

(* A launched goroutine owns nothing, and had not started before.          *)
LEMMA LaunchFlag ==
  ASSUME TypeInv, Launches, NEW t \in Threads, Launch(t)
  PROVE  FlagMove(t) /\ (FlagFound => FlagFound')
<1> USE DEF TypeInv, TypeOK
<1> DEFINE n == lconn[t]
<1>1. n \in Sessions /\ pc[t] = "conn_done" /\ Unlaunched(n)
  BY BoundsAssumption
  DEF Launch, At, HeldConn, Carries, DataType, Sessions, Launches, Launching
<1>2. /\ Pump(n) \in Threads \ Callers /\ Beat(n) \in Threads \ Callers
      /\ Mon(n) \in Threads \ Callers
  BY <1>1, ThreadKinds DEF Threads
<1>3. /\ \A u \in Threads \ {t, Pump(n), Beat(n), Mon(n)} : pc'[u] = pc[u]
      /\ t \notin {Pump(n), Beat(n), Mon(n)}
      /\ pc'[t] = "conn_ok"
      /\ pc'[Pump(n)] \in {"pump_top", "beat_wait", "mon_wait"}
      /\ pc'[Beat(n)] \in {"beat_wait", "mon_wait"}
      /\ pc'[Mon(n)] = "mon_wait"
      /\ was' = was /\ reconnecting' = reconnecting
  BY <1>1, <1>2 DEF Launch, PcsType, Unlaunched, state
<1>4. \A u \in {Pump(n), Beat(n), Mon(n)} : ~OwnsFlag(u) /\ ~OwnsFlag(u)'
  BY <1>1, <1>2, <1>3
  DEF Unlaunched, OwnsFlag, InReconnect, ReconnectBody, ConnectPcs, ConnectBody
<1>5. OwnsFlag(t)' <=> OwnsFlag(t)
  BY <1>1, <1>3 DEF OwnsFlag, InReconnect, ReconnectBody, ConnectPcs, ConnectBody
<1>6. \A u \in Threads \ {t, Pump(n), Beat(n), Mon(n)} : OwnsFlag(u)' <=> OwnsFlag(u)
  BY <1>3 DEF OwnsFlag, InReconnect
<1>7. FlagMove(t)
  BY <1>3, <1>4, <1>5, <1>6 DEF FlagMove, FlagKept
<1>8. FlagFound => FlagFound'
  BY <1>1, <1>2, <1>3 DEF FlagFound, ConnectBody
<1> QED
  BY <1>7, <1>8

(* The flag in Connect (connector.go:355-366).                             *)
LEMMA ConnectFlag ==
  ASSUME TypeInv, FlagFound, ReconnectOwnership, NEW t \in Threads,
         ConnectStep(t), ~Launch(t)
  PROVE  FlagMove(t) /\ FlagFound'
<1> USE DEF TypeInv, TypeOK
<1>1. Only(t)
  BY ThreadOnly DEF ThreadActs
<1>2. \A u \in Threads \ {t} : OwnsFlag(u)' <=> OwnsFlag(u)
  BY <1>1, OnlyOwner
<1>3. ASSUME t \notin Callers /\ pc'[t] \in ConnectBody => was'[t]
      PROVE  FlagFound'
  BY <1>1, <1>3 DEF FlagFound, Only
<1> USE DEF At, Goto, PcsType, FlagsType, state, local, OwnsFlag, InReconnect,
            ReconnectBody, ConnectPcs, ConnectBody
<1>4. CASE ConnectEarly(t)
  <2>1. FlagKept(t)
    BY <1>4 DEF ConnectEarly, ConnectReturn, FlagKept
  <2>2. pc'[t] \notin ConnectBody
    BY <1>4 DEF ConnectEarly, ConnectReturn
  <2> QED
    BY <1>2, <1>3, <2>1, <2>2 DEF FlagMove
<1>5. CASE ConnectBegin(t)
  <2>1. /\ pc[t] = "conn_check" /\ pc'[t] = "conn_dial"
        /\ was'[t] = reconnecting /\ reconnecting' = TRUE
    BY <1>5 DEF ConnectBegin
  <2>2. t \notin Callers => reconnecting
    BY <2>1 DEF ReconnectOwnership
  <2>3. FlagKept(t) \/ FlagAcquired(t)
    BY <2>1, <2>2 DEF FlagKept, FlagAcquired
  <2> QED
    BY <1>2, <1>3, <2>1, <2>2, <2>3 DEF FlagMove
<1>6. CASE ConnectStop(t) \/ DialOk(t) \/ DialFail(t) \/ Backoff(t) \/ Publish(t)
  <2>1. pc[t] \in ConnectBody /\ pc'[t] \in ConnectBody
    BY <1>6 DEF ConnectStop, DialOk, DialFail, Backoff, Publish
  <2>2. was' = was /\ reconnecting' = reconnecting
    BY <1>6 DEF ConnectStop, DialOk, DialFail, Backoff, Publish
  <2>3. FlagKept(t)
    BY <2>1, <2>2 DEF FlagKept
  <2> QED
    BY <1>2, <1>3, <2>1, <2>2, <2>3 DEF FlagMove, FlagFound
<1>7. CASE ConnectExit(t)
  <2>1. /\ pc[t] \in {"conn_ok", "conn_fail"}
        /\ reconnecting' = (reconnecting /\ was[t])
        /\ t \in Callers => pc'[t] = "idle"
        /\ t \notin Callers => pc'[t] \in {"rec_cancel", "rec_failed"}
    BY <1>7 DEF ConnectExit, ConnectReturn, FlagAfter
  <2>2. t \notin Callers => was[t]
    BY <2>1 DEF FlagFound
  <2>3. was[t] \in BOOLEAN /\ reconnecting \in BOOLEAN
    OBVIOUS
  <2>4. FlagKept(t) \/ FlagReleased(t)
    BY <2>1, <2>2, <2>3 DEF FlagKept, FlagReleased
  <2> QED
    BY <1>2, <1>3, <2>1, <2>4 DEF FlagMove
<1> QED
  BY <1>4, <1>5, <1>6, <1>7 DEF ConnectStep

(* The flag in reconnect (connector.go:706-725).                           *)
LEMMA ReconnectFlag ==
  ASSUME TypeInv, FlagFound, ReconnectOwnership, NEW t \in Threads,
         ReconnectStep(t)
  PROVE  FlagMove(t) /\ FlagFound'
<1> USE DEF TypeInv, TypeOK
<1>1. Only(t) /\ t \notin Callers
  <2>1. pc[t] \in ReconnectPcs
    BY DEF ReconnectStep, ReconnectSkip, ReconnectBegin, RetryTurn, RetryFailed,
       ReconnectCancel, ReconnectExit, At, ReconnectPcs, ReconnectBody
  <2>2. Only(t)
    <3>1. ~Launch(t)
      BY <2>1 DEF Launch, At, ReconnectPcs, ReconnectBody
    <3> QED
      BY <3>1, ThreadOnly DEF ThreadActs
  <2> QED
    BY <2>1, <2>2, PcClass, ThreadKinds DEF Pumps, Beats
<1>2. \A u \in Threads \ {t} : OwnsFlag(u)' <=> OwnsFlag(u)
  BY <1>1, OnlyOwner
<1> USE DEF At, Goto, PcsType, state, local, OwnsFlag, InReconnect,
            ReconnectBody, ConnectPcs, ConnectBody
<1>3. FlagKept(t) \/ FlagAcquired(t) \/ FlagReleased(t)
  <2>1. CASE ReconnectBegin(t)
    BY <1>1, <2>1 DEF ReconnectBegin, MayReconnect, FlagAcquired
  <2>2. CASE ReconnectExit(t)
    BY <1>1, <2>2 DEF ReconnectExit, FlagReleased
  <2>3. CASE ReconnectSkip(t) \/ RetryTurn(t) \/ RetryFailed(t) \/ ReconnectCancel(t)
    BY <1>1, <2>3 DEF ReconnectSkip, RetryTurn, RetryFailed, ReconnectCancel, FlagKept
  <2> QED
    BY <2>1, <2>2, <2>3 DEF ReconnectStep
<1>4. pc'[t] \notin ConnectBody
  BY DEF ReconnectStep, ReconnectSkip, ReconnectBegin, RetryTurn, RetryFailed,
     ReconnectCancel, ReconnectExit
<1>5. FlagFound'
  BY <1>1, <1>4 DEF FlagFound, Only
<1> QED
  BY <1>2, <1>3, <1>5 DEF FlagMove

(* Elsewhere nobody touches the flag or comes to own it.                   *)
LEMMA OtherFlag ==
  ASSUME TypeInv, FlagFound, NEW t \in Threads, Only(t), reconnecting' = reconnecting,
         \/ t \in Callers /\ pc[t] \notin ConnectBody /\ pc'[t] \notin ConnectBody
         \/ t \notin Callers /\ pc[t] \notin ReconnectBody \cup ConnectPcs
                             /\ pc'[t] \notin ReconnectBody \cup ConnectPcs
         \/ pc'[t] = pc[t] /\ was'[t] = was[t],
         t \in Callers => pc[t] \notin ReconnectBody /\ pc'[t] \notin ReconnectBody
  PROVE  FlagMove(t) /\ FlagFound'
<1>1. \A u \in Threads \ {t} : OwnsFlag(u)' <=> OwnsFlag(u)
  BY OnlyOwner
<1>2. FlagKept(t)
  BY DEF FlagKept, OwnsFlag, InReconnect
<1>3. FlagFound'
  BY DEF FlagFound, Only, ConnectPcs
<1> QED
  BY <1>1, <1>2, <1>3 DEF FlagMove

(* Every step of the connector keeps, acquires or releases the flag.       *)
LEMMA StepFlag ==
  ASSUME TypeInv, Launches, FlagFound, ReconnectOwnership, [Next]_vars
  PROVE  /\ FlagFound'
         /\ \/ \E t \in Threads : FlagMove(t)
            \/ UNCHANGED <<pc, was, reconnecting>>
<1> USE DEF TypeInv, TypeOK
<1>0. \A t \in Callers : t \in Threads /\ pc[t] \notin ReconnectBody
  BY DEF Threads, PcsType, PcType, CallerPcs, ConnectPcs, ConnectBody, ClosePcs,
     SendPcs, ReconnectBody
<1>1. ASSUME NEW t \in Threads, ThreadActs(t)
      PROVE  FlagMove(t) /\ FlagFound'
  <2>1. CASE Launch(t)
    BY <2>1, LaunchFlag
  <2>2. CASE ConnectStep(t) /\ ~Launch(t)
    BY <2>2, ConnectFlag
  <2>3. CASE ReconnectStep(t)
    BY <2>3, ReconnectFlag
  <2>4. CASE CloseStep(t) \/ SendStep(t)
    <3>1. /\ pc[t] \in ClosePcs \cup SendPcs
          /\ pc'[t] \in ClosePcs \cup SendPcs \cup {"idle", "rec_enter", "end"}
          /\ reconnecting' = reconnecting
      BY <2>4 DEF CloseStep, CloseTake, CloseNotConnected, CloseDone, CloseConn,
         SendStep, SendCheck, SendLock, SendWrite, CloseReturn, At, Goto, PcsType,
         ClosePcs, SendPcs, state
    <3>2. Only(t)
      <4>1. ~Launch(t)
        BY <3>1 DEF Launch, At, ClosePcs, SendPcs
      <4> QED
        BY <1>1, <4>1, ThreadOnly
    <3>3. (ClosePcs \cup SendPcs \cup {"idle", "rec_enter", "end"})
            \cap (ReconnectBody \cup ConnectPcs \cup ConnectBody) = {}
      BY DEF ClosePcs, SendPcs, ReconnectBody, ConnectPcs, ConnectBody
    <3> QED
      BY <3>1, <3>2, <3>3, OtherFlag
  <2>5. CASE CancelCtx(t)
    <3>1. Only(t) /\ pc' = pc /\ was' = was /\ reconnecting' = reconnecting
      BY <2>5 DEF CancelCtx, Only, state, local
    <3> QED
      BY <1>0, <3>1, OtherFlag
  <2> QED
    BY <1>1, <2>1, <2>2, <2>3, <2>4, <2>5 DEF ThreadActs
<1>2. ASSUME NEW k \in Sessions, SessionActs(k)
      PROVE  FlagFound' /\ \E t \in Threads : FlagMove(t)
  <2>1. /\ Pump(k) \in Threads \ Callers /\ Beat(k) \in Threads \ Callers
        /\ Mon(k) \in Threads \ Callers
    BY ThreadKinds DEF Threads
  <2>2. reconnecting' = reconnecting
    BY <1>2 DEF SessionActs, PumpTop, PumpMessage, PumpError, PumpClear, PumpClose,
       PumpDone, PumpExit, BeatTick, BeatPing, BeatDone, MonSelect, Break, state
  <2>3. ({"mon_wait", "close_take", "end", "rec_enter"} \cup PumpPcs \cup BeatPcs)
          \cap (ReconnectBody \cup ConnectPcs) = {}
    BY DEF ReconnectBody, ConnectPcs, ConnectBody, PumpPcs, BeatPcs
  <2> USE DEF At, Goto, PcsType
  <2>4. CASE PumpActs(k)
    <3>1. pc[Pump(k)] \in PumpPcs /\ pc'[Pump(k)] \in PumpPcs \cup {"rec_enter", "end"}
      BY <2>1, <2>4 DEF PumpActs, PumpTop, PumpMessage, PumpError, PumpClear,
         PumpClose, PumpDone, PumpExit, PumpPcs
    <3> QED
      BY <2>1, <2>2, <2>3, <2>4, <3>1, SessionOnly, OtherFlag
  <2>5. CASE BeatActs(k)
    <3>1. pc[Beat(k)] \in BeatPcs /\ pc'[Beat(k)] \in BeatPcs \cup {"close_take", "end"}
      BY <2>1, <2>5 DEF BeatActs, BeatTick, BeatPing, BeatDone, BeatPcs
    <3> QED
      BY <2>1, <2>2, <2>3, <2>5, <3>1, SessionOnly, OtherFlag
  <2>6. CASE MonSelect(k)
    <3>1. pc[Mon(k)] = "mon_wait" /\ pc'[Mon(k)] \in {"close_take", "end"}
      BY <2>1, <2>6 DEF MonSelect
    <3> QED
      BY <2>1, <2>2, <2>3, <2>6, <3>1, SessionOnly, OtherFlag
  <2>7. CASE Break(k)
    <3>1. pc' = pc /\ was' = was /\ Only(Mon(k))
      BY <2>7 DEF Break, local, Only
    <3> QED
      BY <2>1, <2>2, <3>1, OtherFlag
  <2> QED
    BY <1>2, <2>4, <2>5, <2>6, <2>7 DEF SessionActs, PumpActs, BeatActs
<1>3. ASSUME NEW c \in Callers, Call(c) PROVE FlagMove(c) /\ FlagFound'
  <2>1. /\ pc[c] = "idle" /\ pc'[c] \in {"conn_check", "close_take", "send_check"}
        /\ Only(c) /\ reconnecting' = reconnecting
    BY <1>0, <1>3 DEF Call, At, Goto, PcsType, Only, local, state
  <2>2. pc[c] \notin ConnectBody /\ pc'[c] \notin ConnectBody \cup ReconnectBody
    BY <2>1 DEF ConnectBody, ReconnectBody
  <2> QED
    BY <1>0, <2>1, <2>2, OtherFlag
<1>4. CASE UNCHANGED vars
  BY <1>4 DEF vars, local, state, FlagFound
<1> QED
  BY <1>0, <1>1, <1>2, <1>3, <1>4, StepCases

(* Hence every step preserves ReconnectOwnership.                          *)
LEMMA StepOwnership ==
  ASSUME TypeInv, Launches, FlagFound, ReconnectOwnership, [Next]_vars
  PROVE  ReconnectOwnership'
<1>1. CASE UNCHANGED <<pc, was, reconnecting>>
  BY <1>1 DEF ReconnectOwnership, OwnsFlag, InReconnect
<1>2. ASSUME NEW t \in Threads, FlagMove(t) PROVE ReconnectOwnership'
  <2>1. CASE FlagKept(t)
    <3>1. \A u \in Threads : OwnsFlag(u)' <=> OwnsFlag(u)
      BY <1>2, <2>1 DEF FlagMove, FlagKept
    <3> QED
      BY <2>1, <3>1 DEF FlagKept, ReconnectOwnership
  <2>2. CASE FlagAcquired(t)
    <3>1. \A u \in Threads \ {t} : ~OwnsFlag(u)'
      BY <1>2, <2>2 DEF FlagMove, FlagAcquired, ReconnectOwnership
    <3> QED
      BY <2>2, <3>1 DEF FlagAcquired, ReconnectOwnership
  <2>3. CASE FlagReleased(t)
    <3>1. \A u \in Threads : ~OwnsFlag(u)'
      BY <1>2, <2>3 DEF FlagMove, FlagReleased, ReconnectOwnership
    <3> QED
      BY <2>3, <3>1 DEF FlagReleased, ReconnectOwnership
  <2> QED
    BY <1>2, <2>1, <2>2, <2>3 DEF FlagMove
<1> QED
  BY <1>1, <1>2, StepFlag

-----------------------------------------------------------------------------
(* writeMu is held by the one thread that writes.                          *)

WriteKept(t)     == (Writing(t)' <=> Writing(t)) /\ writeMu' = writeMu
WriteAcquired(t) == writeMu = NoThread /\ writeMu' = t /\ Writing(t)'
WriteReleased(t) == Writing(t) /\ ~Writing(t)' /\ writeMu' = NoThread

WriteMove(t) == /\ \A u \in Threads \ {t} : Writing(u)' <=> Writing(u)
                /\ WriteKept(t) \/ WriteAcquired(t) \/ WriteReleased(t)

(* A launched goroutine does not hold writeMu.                             *)
LEMMA LaunchWrite ==
  ASSUME TypeInv, Launches, NEW t \in Threads, Launch(t)
  PROVE  WriteMove(t)
<1> USE DEF TypeInv, TypeOK
<1> DEFINE n == lconn[t]
<1>1. n \in Sessions /\ pc[t] = "conn_done" /\ Unlaunched(n)
  BY BoundsAssumption
  DEF Launch, At, HeldConn, Carries, DataType, Sessions, Launches, Launching
<1>2. Pump(n) \in Threads /\ Beat(n) \in Threads /\ Mon(n) \in Threads
  BY <1>1 DEF Threads, Pumps, Beats, Monitors
<1>3. /\ \A u \in Threads \ {t, Pump(n), Beat(n), Mon(n)} : pc'[u] = pc[u]
      /\ t \notin {Pump(n), Beat(n), Mon(n)}
      /\ pc'[t] = "conn_ok"
      /\ pc'[Pump(n)] \in {"pump_top", "beat_wait", "mon_wait"}
      /\ pc'[Beat(n)] \in {"beat_wait", "mon_wait"}
      /\ pc'[Mon(n)] = "mon_wait"
      /\ writeMu' = writeMu
  BY <1>1, <1>2 DEF Launch, PcsType, Unlaunched
<1>4. \A u \in Threads : Writing(u)' <=> Writing(u)
  BY <1>1, <1>3 DEF Unlaunched, Writing
<1> QED
  BY <1>3, <1>4 DEF WriteMove, WriteKept

(* Every step keeps, acquires or releases writeMu (connector.go:641-673,   *)
(* 856-871, 907-949).                                                      *)
LEMMA StepWrite ==
  ASSUME TypeInv, Launches, [Next]_vars
  PROVE  (\E t \in Threads : WriteMove(t)) \/ UNCHANGED <<pc, writeMu>>
<1> USE DEF TypeInv, TypeOK, At, Goto, PcsType, Writing
<1>1. ASSUME NEW t \in Threads, Only(t),
             WriteKept(t) \/ WriteAcquired(t) \/ WriteReleased(t)
      PROVE  WriteMove(t)
  BY <1>1 DEF Only, WriteMove
<1>2. ASSUME NEW t \in Threads, ThreadActs(t) PROVE WriteMove(t)
  <2>1. CASE Launch(t)
    BY <2>1, LaunchWrite
  <2>2. CASE ~Launch(t)
    <3>1. Only(t)
      BY <1>2, <2>2, ThreadOnly
    <3>2. CASE ConnectStep(t)
      <4>1. WriteKept(t)
        BY <2>2, <3>2 DEF ConnectStep, ConnectEarly, ConnectBegin, ConnectStop,
           DialOk, DialFail, Backoff, Publish, ConnectExit, ConnectReturn, WriteKept
      <4> QED
        BY <1>1, <3>1, <4>1
    <3>3. CASE CloseTake(t)
      BY <1>1, <3>1, <3>3 DEF CloseTake, Lock, WriteAcquired
    <3>4. CASE CloseNotConnected(t)
      BY <1>1, <3>1, <3>4 DEF CloseNotConnected, CloseReturn, WriteKept
    <3>5. CASE CloseDone(t)
      <4>1. WriteKept(t) \/ WriteReleased(t)
        BY <3>5 DEF CloseDone, CloseReturn, WriteKept, WriteReleased
      <4> QED
        BY <1>1, <3>1, <4>1
    <3>6. CASE CloseConn(t)
      BY <1>1, <3>1, <3>6 DEF CloseConn, CloseReturn, WriteReleased
    <3>7. CASE SendStep(t)
      <4>1. WriteKept(t) \/ WriteAcquired(t) \/ WriteReleased(t)
        BY <3>7 DEF SendStep, SendCheck, SendLock, SendWrite, Lock, WriteKept,
           WriteAcquired, WriteReleased
      <4> QED
        BY <1>1, <3>1, <4>1
    <3>8. CASE ReconnectStep(t) \/ CancelCtx(t)
      <4>1. WriteKept(t)
        BY <3>8 DEF ReconnectStep, ReconnectSkip, ReconnectBegin, RetryTurn,
           RetryFailed, ReconnectCancel, ReconnectExit, CancelCtx, WriteKept
      <4> QED
        BY <1>1, <3>1, <4>1
    <3> QED
      BY <1>2, <3>2, <3>3, <3>4, <3>5, <3>6, <3>7, <3>8 DEF ThreadActs, CloseStep
  <2> QED
    BY <2>1, <2>2
<1>3. ASSUME NEW k \in Sessions, SessionActs(k) PROVE \E t \in Threads : WriteMove(t)
  <2>1. Pump(k) \in Threads /\ Beat(k) \in Threads /\ Mon(k) \in Threads
    BY DEF Threads, Pumps, Beats, Monitors
  <2>2. CASE PumpActs(k)
    <3>1. WriteKept(Pump(k))
      BY <2>1, <2>2 DEF PumpActs, PumpTop, PumpMessage, PumpError, PumpClear,
         PumpClose, PumpDone, PumpExit, WriteKept
    <3> QED
      BY <1>1, <2>1, <2>2, <3>1, SessionOnly
  <2>3. CASE BeatActs(k)
    <3>1. WriteKept(Beat(k)) \/ WriteAcquired(Beat(k)) \/ WriteReleased(Beat(k))
      BY <2>1, <2>3 DEF BeatActs, BeatTick, BeatPing, BeatDone, Lock, WriteKept,
         WriteAcquired, WriteReleased
    <3> QED
      BY <1>1, <2>1, <2>3, <3>1, SessionOnly
  <2>4. CASE MonSelect(k) \/ Break(k)
    <3>1. WriteKept(Mon(k))
      BY <2>1, <2>4 DEF MonSelect, Break, WriteKept
    <3> QED
      BY <1>1, <2>1, <2>4, <3>1, SessionOnly
  <2> QED
    BY <1>3, <2>2, <2>3, <2>4 DEF SessionActs, PumpActs, BeatActs
<1>4. ASSUME NEW c \in Callers, Call(c) PROVE \E t \in Threads : WriteMove(t)
  <2>1. c \in Threads
    BY DEF Threads
  <2>2. Only(c) /\ WriteKept(c)
    BY <1>4, <2>1 DEF Call, Only, local, WriteKept
  <2> QED
    BY <1>1, <2>1, <2>2
<1>5. CASE UNCHANGED vars
  BY <1>5 DEF vars
<1> QED
  BY <1>2, <1>3, <1>4, <1>5, StepCases

(* Hence every step preserves OneWriter.                                   *)
LEMMA StepOneWriter ==
  ASSUME TypeInv, Launches, OneWriter, [Next]_vars
  PROVE  OneWriter'
<1>1. CASE UNCHANGED <<pc, writeMu>>
  BY <1>1 DEF OneWriter, Writing
<1>2. ASSUME NEW t \in Threads, WriteMove(t) PROVE OneWriter'
  <2>1. \A u \in Threads : writeMu = u <=> Writing(u)
    BY DEF OneWriter
  <2>2. \A u \in Threads : writeMu' = u <=> Writing(u)'
    BY <1>2, <2>1, ThreadsAssumption
    DEF WriteMove, WriteKept, WriteAcquired, WriteReleased
  <2> QED
    BY <2>2 DEF OneWriter
<1> QED
  BY <1>1, <1>2, StepWrite

-----------------------------------------------------------------------------
(* A connection has one owner.                                             *)

Alive == {"open", "broken"}

(* A step that gives no connection to anybody preserves OneOwner.          *)
LEMMA OwnerKept ==
  ASSUME OneOwner,
         conn' \in {conn, 0},
         \A k \in Sessions : link[k] \in Alive => link'[k] \in Alive,
         conn # 0 => conn \in Sessions,
         \A u \in Threads, k \in Sessions : Holds(u, k)' => Holds(u, k)
  PROVE  OneOwner'
<1>1. conn' # 0 => link'[conn'] \in Alive
  BY DEF OneOwner, Alive
<1>2. ASSUME NEW u \in Threads, NEW k \in Sessions, Holds(u, k)'
      PROVE  /\ conn' # k /\ link'[k] \in Alive
             /\ \A v \in Threads : Holds(v, k)' => v = u
  <2>1. Holds(u, k)
    BY <1>2
  <2>2. /\ conn # k /\ link[k] \in Alive
        /\ \A v \in Threads : Holds(v, k) => v = u
    BY <2>1 DEF OneOwner, Alive
  <2> QED
    BY <2>2 DEF Sessions
<1> QED
  BY <1>1, <1>2 DEF OneOwner, Alive

(* Connection n changes hands: it goes to thread t, or to c.conn, or it is *)
(* closed.  Every other connection stays where it is.                      *)
LEMMA OwnerMoved ==
  ASSUME OneOwner, conn # 0 => conn \in Sessions,
         NEW t \in Threads, NEW n \in Sessions, Only(t),
         \A k \in Sessions \ {n} : link[k] \in Alive => link'[k] \in Alive,
         \A u \in Threads \ {t} : ~Holds(u, n),
         \A k \in Sessions : Holds(t, k)' => k = n,
         \/ Holds(t, n)' /\ conn' \in {conn, 0} \ {n} /\ link'[n] \in Alive
         \/ ~Holds(t, n)' /\ conn' = n /\ link'[n] \in Alive
         \/ ~Holds(t, n)' /\ conn' = conn /\ conn # n
  PROVE  OneOwner'
<1>1. \A u \in Threads \ {t}, k \in Sessions : Holds(u, k)' <=> Holds(u, k)
  BY DEF Only, Holds
<1>2. conn' # 0 => link'[conn'] \in Alive
  BY DEF OneOwner, Alive
<1>3. ASSUME NEW u \in Threads, NEW k \in Sessions, Holds(u, k)'
      PROVE  /\ conn' # k /\ link'[k] \in Alive
             /\ \A v \in Threads : Holds(v, k)' => v = u
  <2>1. CASE u = t
    <3>1. k = n /\ conn' # n /\ link'[n] \in Alive
      BY <1>3, <2>1 DEF Sessions
    <3>2. \A v \in Threads \ {t} : ~Holds(v, n)'
      BY <1>1
    <3> QED
      BY <2>1, <3>1, <3>2
  <2>2. CASE u # t
    <3>1. Holds(u, k) /\ k # n
      BY <1>1, <1>3, <2>2
    <3>2. /\ conn # k /\ link[k] \in Alive
          /\ \A v \in Threads : Holds(v, k) => v = u
      BY <3>1 DEF OneOwner, Alive
    <3>3. conn' # k
      BY <3>1, <3>2 DEF Sessions
    <3>4. \A v \in Threads : Holds(v, k)' => v = u
      BY <1>1, <3>1, <3>2
    <3> QED
      BY <3>1, <3>2, <3>3, <3>4
  <2> QED
    BY <2>1, <2>2
<1> QED
  BY <1>2, <1>3 DEF OneOwner, Alive

(* Whatever is taken out of c.conn has been held by nobody until then.     *)
LEMMA OwnerTaken ==
  ASSUME TypeInv, OneOwner, NEW t \in Threads, Only(t), conn' = 0, link' = link,
         \A k \in Sessions : Holds(t, k)' <=> k = conn
  PROVE  OneOwner'
<1>1. conn # 0 => conn \in Sessions
  BY BoundsAssumption DEF TypeInv, TypeOK, DataType, Sessions
<1>2. CASE conn = 0
  <2>1. \A u \in Threads, k \in Sessions : Holds(u, k)' => Holds(u, k)
    BY <1>2 DEF Only, Holds, Sessions
  <2> QED
    BY <1>1, <2>1, OwnerKept
<1>3. CASE conn # 0
  <2> PICK n \in Sessions : n = conn
    BY <1>1, <1>3
  <2>1. \A u \in Threads : ~Holds(u, n)
    BY DEF OneOwner
  <2>2. link'[n] \in Alive
    BY <1>3 DEF OneOwner, Alive
  <2> QED
    BY <1>1, <1>3, <2>1, <2>2, OwnerMoved DEF Sessions
<1> QED
  BY <1>2, <1>3

(* A connection that its holder closes was held by nobody else.            *)
LEMMA OwnerClosed ==
  ASSUME TypeInv, OneOwner, NEW t \in Threads, NEW n \in Sessions, Only(t),
         Holds(t, n), \A k \in Sessions : ~Holds(t, k)',
         conn' = conn, link' = [link EXCEPT ![n] = "closed"]
  PROVE  OneOwner'
<1>1. conn # 0 => conn \in Sessions
  BY BoundsAssumption DEF TypeInv, TypeOK, DataType, Sessions
<1>2. conn # n /\ \A u \in Threads \ {t} : ~Holds(u, n)
  BY DEF OneOwner
<1>3. \A k \in Sessions \ {n} : link'[k] = link[k]
  BY DEF TypeInv, TypeOK, DataType
<1> QED
  BY <1>1, <1>2, <1>3, OwnerMoved

(* Ownership in Connect: a dial makes a connection, Publish gives it to    *)
(* c.conn.                                                                 *)
LEMMA ConnectOwner ==
  ASSUME TypeInv, Numbered, Launches, OneOwner, NEW t \in Threads, ConnectStep(t)
  PROVE  OneOwner'
<1> USE DEF TypeInv, TypeOK
<1>1. conn # 0 => conn \in Sessions
  BY BoundsAssumption DEF DataType, Sessions
<1>2. CASE DialOk(t)
  <2>0. dialled + 1 \in Sessions
    BY <1>2, BoundsAssumption DEF DialOk, DataType, Sessions
  <2> PICK n \in Sessions : n = dialled + 1
    BY <2>0
  <2>1. n > dialled
    BY DEF DataType
  <2>2. Only(t)
    BY <1>2, ThreadOnly DEF DialOk, Launch, At, ThreadActs
  <2>3. /\ link' = [link EXCEPT ![n] = "open"] /\ conn' = conn
        /\ lconn'[t] = n /\ pc'[t] = "conn_publish"
    BY <1>2 DEF DialOk, Goto, PcsType, DataType, state
  <2>4. conn # n /\ \A u \in Threads : ~Holds(u, n)
    <3>1. conn # n
      BY <2>1 DEF Numbered, DataType
    <3>2. \A u \in Threads : lconn[u] # n
      BY <2>1 DEF Numbered, DataType
    <3> QED
      BY <3>1, <3>2 DEF Holds
  <2>5. Holds(t, n)' /\ \A k \in Sessions : Holds(t, k)' => k = n
    BY <2>3 DEF Holds
  <2>6. link'[n] \in Alive /\ \A k \in Sessions \ {n} : link'[k] = link[k]
    BY <2>1, <2>3 DEF DataType, Alive
  <2> QED
    BY <1>1, <2>1, <2>2, <2>3, <2>4, <2>5, <2>6, OwnerMoved
<1>3. CASE Publish(t)
  <2>0. lconn[t] \in Sessions /\ pc[t] = "conn_publish"
    BY <1>3, BoundsAssumption DEF Publish, At, HeldConn, Carries, DataType, Sessions
  <2> PICK n \in Sessions : n = lconn[t]
    BY <2>0
  <2>2. Only(t)
    BY <1>3, ThreadOnly DEF Publish, Launch, At, ThreadActs
  <2>3. conn' = n /\ link' = link /\ pc'[t] = "conn_done"
    BY <1>3 DEF Publish, Goto, PcsType
  <2>4. /\ Holds(t, n) /\ link[n] \in Alive
        /\ \A u \in Threads \ {t} : ~Holds(u, n)
    <3>1. Holds(t, n)
      BY <2>0 DEF Holds
    <3> QED
      BY <3>1 DEF OneOwner, Alive
  <2>5. \A k \in Sessions : ~Holds(t, k)'
    BY <2>3 DEF Holds
  <2> QED
    BY <1>1, <2>2, <2>3, <2>4, <2>5, OwnerMoved
<1>4. CASE Launch(t)
  <2> DEFINE n == lconn[t]
  <2>1. n \in Sessions /\ pc[t] = "conn_done"
    BY <1>4, BoundsAssumption DEF Launch, At, HeldConn, Carries, DataType, Sessions
  <2>2. \A u \in Threads : \/ pc'[u] = pc[u] /\ lconn'[u] = lconn[u]
                           \/ pc'[u] \in {"conn_ok", "pump_top", "beat_wait", "mon_wait"}
    BY <1>4, <2>1 DEF Launch, PcsType, DataType
  <2>3. \A u \in Threads, k \in Sessions : Holds(u, k)' => Holds(u, k)
    BY <2>2 DEF Holds
  <2>4. conn' = conn /\ link' = link
    BY <1>4 DEF Launch, state
  <2> QED
    BY <1>1, <2>3, <2>4, OwnerKept
<1>5. CASE ~DialOk(t) /\ ~Publish(t) /\ ~Launch(t)
  <2>1. conn' = conn /\ link' = link /\ lconn' = lconn
    BY <1>5 DEF ConnectStep, ConnectEarly, ConnectBegin, ConnectStop, DialFail,
       Backoff, ConnectExit, state, local
  <2>2. pc'[t] \in {"idle", "rec_cancel", "rec_failed", "conn_dial", "conn_fail",
                    "conn_backoff"}
    BY <1>5 DEF ConnectStep, ConnectEarly, ConnectBegin, ConnectStop, DialFail,
       Backoff, ConnectExit, ConnectReturn, Goto, PcsType
  <2>3. Only(t)
    BY <1>5, ThreadOnly DEF ThreadActs
  <2>4. \A u \in Threads, k \in Sessions : Holds(u, k)' => Holds(u, k)
    BY <2>2, <2>3 DEF Only, Holds
  <2> QED
    BY <1>1, <2>1, <2>4, OwnerKept
<1> QED
  BY <1>2, <1>3, <1>4, <1>5

(* Ownership in Close, which takes the connection and closes it.           *)
LEMMA CloseOwner ==
  ASSUME TypeInv, OneOwner, NEW t \in Threads, CloseStep(t)
  PROVE  OneOwner'
<1> USE DEF TypeInv, TypeOK
<1>1. conn # 0 => conn \in Sessions
  BY BoundsAssumption DEF DataType, Sessions
<1>2. Only(t)
  <2>1. ~Launch(t)
    BY DEF CloseStep, CloseTake, CloseNotConnected, CloseDone, CloseConn, Launch, At
  <2> QED
    BY <2>1, ThreadOnly DEF ThreadActs
<1> USE DEF At, Goto, PcsType, DataType, state
<1>3. CASE CloseTake(t)
  <2>1. conn' = 0 /\ link' = link /\ lconn'[t] = conn /\ pc'[t] = "close_done"
    BY <1>3 DEF CloseTake, TakeConn
  <2>2. \A k \in Sessions : Holds(t, k)' <=> k = conn
    BY <2>1 DEF Holds
  <2> QED
    BY <1>2, <2>1, <2>2, OwnerTaken
<1>4. CASE CloseNotConnected(t)
  <2>1. /\ conn' = conn /\ link' = link
        /\ pc'[t] \in {"idle", "rec_enter", "end"}
    BY <1>4 DEF CloseNotConnected, CloseReturn
  <2>2. \A u \in Threads, k \in Sessions : Holds(u, k)' => Holds(u, k)
    BY <1>2, <2>1 DEF Only, Holds
  <2> QED
    BY <1>1, <2>1, <2>2, OwnerKept
<1>5. CASE CloseDone(t)
  <2>1. /\ conn' = conn /\ link' = link /\ pc[t] = "close_done"
        /\ \/ pc'[t] = "close_conn" /\ lconn' = lconn
           \/ pc'[t] \in {"idle", "rec_enter", "end"}
    BY <1>5 DEF CloseDone, CloseReturn
  <2>2. \A u \in Threads, k \in Sessions : Holds(u, k)' => Holds(u, k)
    BY <1>2, <2>1 DEF Only, Holds
  <2> QED
    BY <1>1, <2>1, <2>2, OwnerKept
<1>6. CASE CloseConn(t)
  <2>1. lconn[t] \in Sessions /\ pc[t] = "close_conn"
    BY <1>6, BoundsAssumption DEF CloseConn, HeldConn, Carries, Sessions
  <2>2. /\ conn' = conn /\ link' = [link EXCEPT ![lconn[t]] = "closed"]
        /\ pc'[t] \in {"idle", "rec_enter", "end"}
    BY <1>6 DEF CloseConn, CloseReturn
  <2>3. Holds(t, lconn[t]) /\ \A k \in Sessions : ~Holds(t, k)'
    BY <2>1, <2>2 DEF Holds
  <2> QED
    BY <1>2, <2>1, <2>2, <2>3, OwnerClosed
<1> QED
  BY <1>3, <1>4, <1>5, <1>6 DEF CloseStep

(* Ownership in the pump, which takes the connection and closes it.        *)
LEMMA PumpOwner ==
  ASSUME TypeInv, OneOwner, NEW k \in Sessions, PumpActs(k)
  PROVE  OneOwner'
<1> USE DEF TypeInv, TypeOK
<1> DEFINE p == Pump(k)
<1>1. conn # 0 => conn \in Sessions
  BY BoundsAssumption DEF DataType, Sessions
<1>2. p \in Threads /\ Only(p)
  BY SessionOnly, ThreadKinds DEF Threads
<1> USE DEF At, Goto, PcsType, DataType, state, local
<1>3. CASE PumpClear(k)
  <2>1. conn' = 0 /\ link' = link /\ lconn'[p] = conn /\ pc'[p] = "pump_close"
    BY <1>2, <1>3 DEF PumpClear, TakeConn
  <2>2. \A j \in Sessions : Holds(p, j)' <=> j = conn
    BY <2>1 DEF Holds
  <2> HIDE DEF p
  <2> QED
    BY <1>2, <2>1, <2>2, OwnerTaken
<1>4. CASE PumpClose(k)
  <2>1. /\ conn' = conn /\ pc[p] = "pump_close" /\ pc'[p] = "pump_done"
        /\ link' = IF lconn[p] = 0 THEN link ELSE [link EXCEPT ![lconn[p]] = "closed"]
        /\ lconn[p] # 0 => lconn[p] \in Sessions
    BY <1>2, <1>4, BoundsAssumption DEF PumpClose, Sessions
  <2>2. \A j \in Sessions : ~Holds(p, j)'
    BY <2>1 DEF Holds
  <2>3. CASE lconn[p] = 0
    <3>1. \A u \in Threads, j \in Sessions : Holds(u, j)' => Holds(u, j)
      BY <1>2, <2>2 DEF Only, Holds
    <3> QED
      BY <1>1, <2>1, <2>3, <3>1, OwnerKept
  <2>4. CASE lconn[p] # 0
    <3>1. Holds(p, lconn[p])
      BY <2>1 DEF Holds
    <3> HIDE DEF p
    <3> QED
      BY <1>2, <2>1, <2>2, <2>4, <3>1, OwnerClosed
  <2> QED
    BY <2>3, <2>4
<1>5. CASE \/ PumpTop(k) \/ PumpMessage(k) \/ PumpError(k)
           \/ PumpDone(k) \/ PumpExit(k)
  <2>1. /\ conn' = conn /\ link' = link
        /\ pc'[p] \in {"pump_top", "pump_read", "pump_clear", "pump_exit", "rec_enter", "end"}
    BY <1>2, <1>5 DEF PumpTop, PumpMessage, PumpError, PumpDone, PumpExit
  <2>2. \A u \in Threads, j \in Sessions : Holds(u, j)' => Holds(u, j)
    BY <1>2, <2>1 DEF Only, Holds
  <2> QED
    BY <1>1, <2>1, <2>2, OwnerKept
<1> QED
  BY <1>3, <1>4, <1>5 DEF PumpActs

(* Hence every step preserves OneOwner.                                    *)
LEMMA StepOneOwner ==
  ASSUME TypeInv, Numbered, Launches, OneOwner, [Next]_vars
  PROVE  OneOwner'
<1> USE DEF TypeInv, TypeOK
<1>0. conn # 0 => conn \in Sessions
  BY BoundsAssumption DEF DataType, Sessions
<1>1. ASSUME NEW t \in Threads, Only(t), conn' = conn, link' = link,
             \A j \in Sessions : Holds(t, j)' => Holds(t, j)
      PROVE  OneOwner'
  <2>1. \A u \in Threads, j \in Sessions : Holds(u, j)' => Holds(u, j)
    BY <1>1 DEF Only, Holds
  <2> QED
    BY <1>0, <1>1, <2>1, OwnerKept
<1>2. ASSUME NEW t \in Threads, ThreadActs(t) PROVE OneOwner'
  <2>1. CASE SendStep(t) \/ ReconnectStep(t)
    <3> USE DEF At, Goto, PcsType, DataType, state, local
    <3>1. /\ conn' = conn /\ link' = link /\ ~Launch(t)
          /\ pc'[t] \in {"idle", "send_lock", "send_write", "end", "conn_check"} \cup ReconnectBody
      BY <2>1 DEF SendStep, SendCheck, SendLock, SendWrite, ReconnectStep, Launch,
         ReconnectSkip, ReconnectBegin, RetryTurn, RetryFailed, ReconnectCancel,
         ReconnectExit, ReconnectBody
    <3> QED
      BY <1>1, <1>2, <3>1, ThreadOnly DEF Holds, ReconnectBody
  <2>2. CASE CancelCtx(t)
    BY <1>1, <2>2 DEF CancelCtx, Only, Holds, local, state
  <2> QED
    BY <1>2, <2>1, <2>2, ConnectOwner, CloseOwner DEF ThreadActs
<1>3. ASSUME NEW k \in Sessions, SessionActs(k) PROVE OneOwner'
  <2>1. Pump(k) \in Threads /\ Beat(k) \in Threads /\ Mon(k) \in Threads
    BY DEF Threads, Pumps, Beats, Monitors
  <2> USE DEF At, Goto, PcsType, DataType, state, local
  <2>2. CASE BeatActs(k)
    <3>1. /\ conn' = conn /\ link' = link
          /\ pc'[Beat(k)] \in {"end", "beat_wait", "beat_ping", "close_take"}
      BY <2>1, <2>2 DEF BeatActs, BeatTick, BeatPing, BeatDone
    <3> QED
      BY <1>1, <2>1, <2>2, <3>1, SessionOnly DEF Holds
  <2>3. CASE MonSelect(k)
    <3>1. /\ conn' = conn /\ link' = link
          /\ pc'[Mon(k)] \in {"end", "close_take"}
      BY <2>1, <2>3 DEF MonSelect
    <3> QED
      BY <1>1, <2>1, <2>3, <3>1, SessionOnly DEF Holds
  <2>4. CASE Break(k)
    <3>1. /\ conn' = conn /\ pc' = pc /\ lconn' = lconn
          /\ \A j \in Sessions : link[j] \in Alive => link'[j] \in Alive
      BY <2>4 DEF Break, Alive
    <3>2. \A u \in Threads, j \in Sessions : Holds(u, j)' => Holds(u, j)
      BY <3>1 DEF Holds
    <3> QED
      BY <1>0, <3>1, <3>2, OwnerKept
  <2> QED
    BY <1>3, <2>2, <2>3, <2>4, PumpOwner DEF SessionActs, PumpActs, BeatActs
<1>4. ASSUME NEW c \in Callers, Call(c) PROVE OneOwner'
  <2>1. c \in Threads
    BY DEF Threads
  <2>2. /\ Only(c) /\ conn' = conn /\ link' = link
        /\ pc'[c] \in {"conn_check", "close_take", "send_check"}
    BY <1>4, <2>1 DEF Call, Goto, PcsType, Only, local, state
  <2> QED
    BY <1>1, <2>1, <2>2 DEF Holds
<1>5. CASE UNCHANGED vars
  BY <1>5 DEF vars, state, local, OneOwner, Holds
<1> QED
  BY <1>2, <1>3, <1>4, <1>5, StepCases

-----------------------------------------------------------------------------
(* The done channel.                                                       *)

(* What a step may do to the done channel: launch a session, close it, or  *)
(* nothing.                                                                *)
LEMMA ChannelCases ==
  ASSUME [Next]_vars
  PROVE  \/ \E t \in Threads : Launch(t)
         \/ SignalDone /\ panicked = "no" /\ sessDone' = sessDone
         \/ UNCHANGED <<done, closed, stopped, sessDone, panicked>>
<1> USE DEF chans, sess
<1>1. ASSUME NEW t \in Threads, ThreadActs(t), ~Launch(t)
      PROVE  \/ SignalDone /\ panicked = "no" /\ sessDone' = sessDone
             \/ UNCHANGED <<done, closed, stopped, sessDone, panicked>>
  <2>1. CASE ConnectStep(t)
    BY <1>1, <2>1 DEF ConnectStep, ConnectEarly, ConnectBegin, ConnectStop, DialOk,
       DialFail, Backoff, Publish, ConnectExit
  <2>2. CASE CloseStep(t)
    BY <2>2 DEF CloseStep, CloseTake, CloseNotConnected, CloseDone, CloseConn, At
  <2>3. CASE SendStep(t) \/ ReconnectStep(t) \/ CancelCtx(t)
    BY <2>3 DEF SendStep, SendCheck, SendLock, SendWrite, ReconnectStep,
       ReconnectSkip, ReconnectBegin, RetryTurn, RetryFailed, ReconnectCancel,
       ReconnectExit, CancelCtx
  <2> QED
    BY <1>1, <2>1, <2>2, <2>3 DEF ThreadActs
<1>2. ASSUME NEW k \in Sessions, SessionActs(k)
      PROVE  \/ SignalDone /\ panicked = "no" /\ sessDone' = sessDone
             \/ UNCHANGED <<done, closed, stopped, sessDone, panicked>>
  <2>1. CASE PumpDone(k)
    BY <2>1 DEF PumpDone, At
  <2>2. CASE ~PumpDone(k)
    BY <1>2, <2>2 DEF SessionActs, PumpTop, PumpMessage, PumpError, PumpClear,
       PumpClose, PumpExit, BeatTick, BeatPing, BeatDone, MonSelect, Break
  <2> QED
    BY <2>1, <2>2
<1>3. ASSUME NEW c \in Callers, Call(c)
      PROVE  UNCHANGED <<done, closed, stopped, sessDone, panicked>>
  BY <1>3 DEF Call
<1>4. CASE UNCHANGED vars
  BY <1>4 DEF vars
<1> QED
  BY <1>1, <1>2, <1>3, <1>4, StepCases

(* Launch joins the current channel when it is open, and makes one of its  *)
(* own otherwise; SignalDone closes the current channel when it is open.   *)
LaunchJoins(n) ==
  /\ n \in Sessions /\ sessDone[n] = 0 /\ n \notin stopped
  /\ panicked = "no" /\ panicked' = panicked /\ stopped' = stopped
  /\ \/ /\ done = 0 \/ done \in stopped
        /\ done' = n /\ ~closed'
        /\ sessDone' = [sessDone EXCEPT ![n] = n]
     \/ /\ done \in Sessions \ stopped
        /\ done' = done /\ closed' = closed
        /\ sessDone' = [sessDone EXCEPT ![n] = done]

(* A launch joins the open channel or makes one of its own                 *)
(* (connector.go:423-431).                                                 *)
LEMMA LaunchChannel ==
  ASSUME TypeInv, Launches, Channels, DoneDiscipline, NEW t \in Threads, Launch(t)
  PROVE  \E n \in Sessions : LaunchJoins(n)
<1> USE DEF TypeInv, TypeOK
<1>0. lconn[t] \in Sessions /\ pc[t] = "conn_done"
  BY BoundsAssumption DEF Launch, At, HeldConn, Carries, DataType, Sessions
<1> PICK n \in Sessions : n = lconn[t]
  BY <1>0
<1>1. sessDone[n] = 0
  BY <1>0 DEF Launches, Launching, Unlaunched
<1>2. n \notin stopped
  BY <1>1 DEF Channels, Sessions
<1>3. panicked = "no" /\ panicked' = panicked /\ stopped' = stopped
  BY DEF Launch, At
<1>4. CASE NeedsChannel
  <2>1. done = 0 \/ done \in stopped
    BY <1>3, <1>4 DEF NeedsChannel, DoneDiscipline
  <2>2. done' = n /\ ~closed' /\ sessDone' = [sessDone EXCEPT ![n] = n]
    BY <1>4 DEF Launch
  <2> QED
    BY <1>1, <1>2, <1>3, <2>1, <2>2 DEF LaunchJoins
<1>5. CASE ~NeedsChannel
  <2>1. done \in Sessions \ stopped
    BY <1>3, <1>5, BoundsAssumption DEF NeedsChannel, DoneDiscipline, DataType, Sessions
  <2>2. done' = done /\ closed' = closed /\ sessDone' = [sessDone EXCEPT ![n] = done]
    BY <1>5 DEF Launch
  <2> QED
    BY <1>1, <1>2, <1>3, <2>1, <2>2 DEF LaunchJoins
<1> QED
  BY <1>4, <1>5

SignalCloses ==
  \/ /\ done \in Sessions \ stopped
     /\ stopped' = stopped \cup {done} /\ closed' /\ panicked' = panicked
  \/ done = 0 /\ panicked' = "nil_channel" /\ stopped' = stopped
  \/ UNCHANGED <<closed, stopped, panicked>>

(* if !c.closed { close(c.done) } closes the current channel, once.        *)
LEMMA SignalChannel ==
  ASSUME TypeInv, DoneDiscipline, SignalDone, panicked = "no"
  PROVE  done' = done /\ SignalCloses
<1>1. CASE closed /\ UNCHANGED <<chans, panicked>>
  BY <1>1 DEF chans, SignalCloses
<1>2. CASE ~(closed /\ UNCHANGED <<chans, panicked>>)
  <2>1. ~closed /\ closed' /\ done' = done /\ done \notin stopped
    BY <1>2 DEF SignalDone, DoneDiscipline
  <2>2. done # 0 => done \in Sessions
    BY BoundsAssumption DEF TypeInv, TypeOK, DataType, Sessions
  <2> QED
    BY <1>2, <2>1, <2>2 DEF SignalDone, SignalCloses
<1> QED
  BY <1>1, <1>2

(* Hence every step preserves Channels and DoneDiscipline.                 *)
LEMMA StepChannels ==
  ASSUME TypeInv, Launches, Channels, DoneDiscipline, [Next]_vars
  PROVE  Channels' /\ DoneDiscipline'
<1>0. /\ sessDone \in [Sessions -> 0 .. MaxSessions]
      /\ stopped \subseteq Sessions /\ 0 \notin Sessions
      /\ done # 0 => done \in Sessions
  BY BoundsAssumption DEF TypeInv, TypeOK, DataType, Sessions
<1>1. ASSUME NEW n \in Sessions, LaunchJoins(n) PROVE Channels' /\ DoneDiscipline'
  <2>1. CASE done = 0 \/ done \in stopped
    <3>1. /\ done' = n /\ ~closed' /\ stopped' = stopped
          /\ sessDone' = [sessDone EXCEPT ![n] = n]
          /\ n \notin stopped /\ panicked' = "no"
      BY <1>0, <1>1, <2>1 DEF LaunchJoins
    <3>2. Channels'
      BY <1>0, <3>1 DEF Channels
    <3>3. ASSUME NEW k \in Sessions, sessDone'[k] # 0
          PROVE  sessDone'[k] = done' \/ sessDone'[k] \in stopped'
      <4>1. CASE k = n
        BY <1>0, <3>1, <4>1
      <4>2. CASE k # n
        BY <1>0, <2>1, <3>1, <3>3, <4>2 DEF DoneDiscipline
      <4> QED
        BY <4>1, <4>2
    <3> QED
      BY <3>1, <3>2, <3>3 DEF DoneDiscipline
  <2>2. CASE ~(done = 0 \/ done \in stopped)
    <3>1. /\ done' = done /\ closed' = closed /\ stopped' = stopped
          /\ sessDone' = [sessDone EXCEPT ![n] = done]
          /\ sessDone[n] = 0 /\ panicked = "no" /\ panicked' = "no"
          /\ n \notin stopped
      BY <1>1, <2>2 DEF LaunchJoins
    <3>2. done # n
      BY <1>0, <3>1 DEF Channels
    <3>3. Channels'
      BY <1>0, <3>1, <3>2 DEF Channels
    <3>4. ASSUME NEW k \in Sessions, sessDone'[k] # 0
          PROVE  sessDone'[k] = done' \/ sessDone'[k] \in stopped'
      BY <1>0, <3>1, <3>4 DEF DoneDiscipline
    <3> QED
      BY <3>1, <3>3, <3>4 DEF DoneDiscipline
  <2> QED
    BY <2>1, <2>2
<1>2. CASE SignalDone /\ panicked = "no" /\ sessDone' = sessDone
  <2>1. done' = done /\ SignalCloses
    BY <1>2, SignalChannel
  <2>2. Channels'
    BY <1>0, <1>2, <2>1 DEF Channels, SignalCloses
  <2>3. panicked' # "closed_channel" /\ (panicked' = "no" => (closed' <=> done' \in stopped'))
    BY <1>2, <2>1 DEF DoneDiscipline, SignalCloses
  <2>4. stopped \subseteq stopped'
    BY <2>1 DEF SignalCloses
  <2> QED
    BY <1>2, <2>1, <2>2, <2>3, <2>4 DEF DoneDiscipline
<1>3. CASE UNCHANGED <<done, closed, stopped, sessDone, panicked>>
  BY <1>3 DEF Channels, DoneDiscipline
<1> QED
  BY <1>1, <1>2, <1>3, ChannelCases, LaunchChannel

-----------------------------------------------------------------------------
(* A published connection has a reader.                                    *)

Reading == {"pump_top", "pump_read", "pump_clear"}

(* A step that neither publishes nor ends a pump preserves Watched.        *)
LEMMA WatchedFrame ==
  ASSUME TypeInv, Watched, conn' = conn, NEW t \in Threads, Only(t),
         pc[t] \in Reading => pc'[t] \in Reading,
         pc[t] = "conn_done" => pc'[t] = "conn_done" /\ lconn'[t] = lconn[t]
  PROVE  Watched'
<1> SUFFICES ASSUME conn # 0
             PROVE  \/ pc'[Pump(conn)] \in Reading
                    \/ \E u \in Threads : pc'[u] = "conn_done" /\ lconn'[u] = conn
  BY DEF Watched, Reading
<1>1. Pump(conn) \in Threads
  BY BoundsAssumption DEF TypeInv, TypeOK, DataType, Sessions, Threads, Pumps
<1>2. CASE pc[Pump(conn)] \in Reading
  BY <1>1, <1>2 DEF Only
<1>3. ASSUME NEW u \in Threads, pc[u] = "conn_done", lconn[u] = conn
      PROVE  pc'[u] = "conn_done" /\ lconn'[u] = conn
  BY <1>3 DEF Only
<1> QED
  BY <1>2, <1>3 DEF Watched, Reading

(* A launch starts the pump that the published connection waits for.       *)
LEMMA LaunchWatched ==
  ASSUME TypeInv, Launches, Watched, NEW t \in Threads, Launch(t)
  PROVE  Watched'
<1> USE DEF TypeInv, TypeOK
<1>0. /\ lconn[t] \in Sessions /\ pc[t] = "conn_done"
      /\ conn # 0 => conn \in Sessions
  BY BoundsAssumption DEF Launch, At, HeldConn, Carries, DataType, Sessions
<1> PICK n \in Sessions : n = lconn[t]
  BY <1>0
<1>1. Unlaunched(n)
  BY <1>0 DEF Launches, Launching
<1>2. {Pump(n), Beat(n), Mon(n)} \subseteq Threads
  BY DEF Threads, Pumps, Beats, Monitors
<1>3. /\ \A u \in Threads \ {t, Pump(n), Beat(n), Mon(n)} :
           pc'[u] = pc[u] /\ lconn'[u] = lconn[u]
      /\ pc'[Pump(n)] = "pump_top"
      /\ conn' = conn
  <2>1. Pump(n) # Beat(n) /\ Pump(n) # Mon(n)
    BY ThreadKinds
  <2> QED
    BY <1>2, <2>1 DEF Launch, PcsType, DataType, state
<1>4. CASE conn = n
  BY <1>3, <1>4 DEF Watched
<1>5. CASE conn # n /\ conn # 0
  <2>1. CASE pc[Pump(conn)] \in Reading
    <3>1. Pump(conn) \in Threads \ {t, Pump(n), Beat(n), Mon(n)}
      <4>1. Pump(conn) \in Threads
        BY <1>0, <1>5 DEF Threads, Pumps
      <4>2. Pump(conn) \notin {t, Pump(n), Beat(n), Mon(n)}
        BY <1>0, <1>1, <2>1 DEF Unlaunched, Reading
      <4> QED
        BY <4>1, <4>2
    <3> QED
      BY <1>3, <2>1, <3>1 DEF Watched, Reading
  <2>2. ASSUME NEW u \in Threads, pc[u] = "conn_done", lconn[u] = conn
        PROVE  Watched'
    <3>1. u \notin {t, Pump(n), Beat(n), Mon(n)}
      BY <1>1, <1>5, <2>2 DEF Unlaunched
    <3> QED
      BY <1>3, <2>2, <3>1 DEF Watched
  <2> QED
    BY <1>5, <2>1, <2>2 DEF Watched, Reading
<1> QED
  BY <1>3, <1>4, <1>5 DEF Watched

(* Every step preserves Watched (connector.go:412-441, 483-576).           *)
LEMMA StepWatched ==
  ASSUME TypeInv, Launches, Watched, [Next]_vars
  PROVE  Watched'
<1> USE DEF TypeInv, TypeOK
<1>0. ASSUME conn' = 0 PROVE Watched'
  BY <1>0 DEF Watched
<1>1. ASSUME NEW t \in Threads, ThreadActs(t) PROVE Watched'
  <2> USE DEF At, Goto, PcsType, state, local
  <2>1. CASE Launch(t)
    BY <2>1, LaunchWatched
  <2>2. CASE Publish(t)
    <3>1. conn' = lconn[t] /\ lconn' = lconn /\ pc'[t] = "conn_done"
      BY <2>2 DEF Publish
    <3> QED
      BY <3>1 DEF Watched
  <2>3. CASE CloseTake(t)
    BY <1>0, <2>3 DEF CloseTake, TakeConn
  <2>4. CASE ~Launch(t) /\ ~Publish(t) /\ ~CloseTake(t)
    <3>1. Only(t)
      BY <1>1, <2>4, ThreadOnly
    <3>2. conn' = conn
      BY <1>1, <2>4 DEF ThreadActs, ConnectStep, ConnectEarly, ConnectBegin,
         ConnectStop, DialOk, DialFail, Backoff, ConnectExit, CloseStep,
         CloseNotConnected, CloseDone, CloseConn, SendStep, SendCheck, SendLock,
         SendWrite, ReconnectStep, ReconnectSkip, ReconnectBegin, RetryTurn,
         RetryFailed, ReconnectCancel, ReconnectExit, CancelCtx
    <3>3. CASE CancelCtx(t)
      BY <3>1, <3>2, <3>3, WatchedFrame DEF CancelCtx
    <3>4. CASE ~CancelCtx(t)
      <4>1. pc[t] \notin Reading \cup {"conn_done"}
        BY <1>1, <2>4, <3>4 DEF ThreadActs, ConnectStep, ConnectEarly, ConnectBegin,
           ConnectStop, DialOk, DialFail, Backoff, ConnectExit, CloseStep,
           CloseNotConnected, CloseDone, CloseConn, SendStep, SendCheck, SendLock,
           SendWrite, ReconnectStep, ReconnectSkip, ReconnectBegin, RetryTurn,
           RetryFailed, ReconnectCancel, ReconnectExit, Reading
      <4> QED
        BY <3>1, <3>2, <4>1, WatchedFrame
    <3> QED
      BY <3>3, <3>4
  <2> QED
    BY <2>1, <2>2, <2>3, <2>4
<1>2. ASSUME NEW k \in Sessions, SessionActs(k) PROVE Watched'
  <2>1. Pump(k) \in Threads /\ Beat(k) \in Threads /\ Mon(k) \in Threads
    BY DEF Threads, Pumps, Beats, Monitors
  <2> USE DEF At, Goto, PcsType, state, local
  <2>2. CASE PumpClear(k)
    BY <1>0, <2>2 DEF PumpClear, TakeConn
  <2>3. CASE PumpActs(k) /\ ~PumpClear(k)
    <3>1. /\ conn' = conn /\ pc[Pump(k)] # "conn_done"
          /\ pc[Pump(k)] \in Reading => pc'[Pump(k)] \in Reading
      BY <2>1, <2>3 DEF PumpActs, PumpTop, PumpMessage, PumpError, PumpClose,
         PumpDone, PumpExit, Reading
    <3> QED
      BY <2>1, <2>3, <3>1, SessionOnly, WatchedFrame
  <2>4. CASE BeatActs(k)
    <3>1. conn' = conn /\ pc[Beat(k)] \notin Reading \cup {"conn_done"}
      BY <2>4 DEF BeatActs, BeatTick, BeatPing, BeatDone, Reading
    <3> QED
      BY <2>1, <2>4, <3>1, SessionOnly, WatchedFrame
  <2>5. CASE MonSelect(k)
    <3>1. conn' = conn /\ pc[Mon(k)] \notin Reading \cup {"conn_done"}
      BY <2>5 DEF MonSelect, Reading
    <3> QED
      BY <2>1, <2>5, <3>1, SessionOnly, WatchedFrame
  <2>6. CASE Break(k)
    <3>1. conn' = conn /\ pc' = pc /\ lconn' = lconn
      BY <2>6 DEF Break
    <3> QED
      BY <3>1 DEF Watched
  <2> QED
    BY <1>2, <2>2, <2>3, <2>4, <2>5, <2>6 DEF SessionActs, PumpActs, BeatActs
<1>3. ASSUME NEW c \in Callers, Call(c) PROVE Watched'
  <2>1. c \in Threads
    BY DEF Threads
  <2>2. Only(c) /\ conn' = conn /\ pc[c] \notin Reading \cup {"conn_done"}
    BY <1>3, <2>1 DEF Call, At, Goto, PcsType, Only, local, state, Reading
  <2> QED
    BY <2>1, <2>2, WatchedFrame
<1>4. CASE UNCHANGED vars
  BY <1>4 DEF vars, state, local, Watched
<1> QED
  BY <1>1, <1>2, <1>3, <1>4, StepCases

-----------------------------------------------------------------------------
(* The inductive invariant and what follows from it.                       *)

(* The inductive invariant holds when NewConnector has returned.           *)
LEMMA InitInvariant == Init => IInv
<1> SUFFICES ASSUME Init PROVE IInv
  OBVIOUS
<1>1. TypeInv
  BY InitTypeInv
<1>2. \A t \in Threads : pc[t] \in {"idle", "none"} /\ lconn[t] = 0
  BY DEF Init
<1>3. FlagFound /\ ReconnectOwnership
  BY <1>2 DEF Init, FlagFound, ReconnectOwnership, OwnsFlag, InReconnect,
     ReconnectBody, ConnectPcs, ConnectBody
<1>4. Numbered /\ OneOwner /\ Watched /\ Channels /\ DoneDiscipline
  BY <1>2 DEF Init, Numbered, OneOwner, Holds, Watched, Channels, DoneDiscipline
<1>5. Launches
  <2>1. \A k \in Sessions : /\ Pump(k) \in Threads \ Callers
                            /\ Beat(k) \in Threads \ Callers
                            /\ Mon(k) \in Threads \ Callers
    BY ThreadKinds DEF Threads
  <2> QED
    BY <1>2, <2>1 DEF Init, Launches, Launching, Unlaunched
<1>6. OneWriter
  BY <1>2, ThreadsAssumption DEF Init, OneWriter, Writing
<1> QED
  BY <1>1, <1>3, <1>4, <1>5, <1>6 DEF IInv, TypeInv

(* The inductive invariant is preserved by every step of the connector.    *)
LEMMA StepInvariant == IInv /\ [Next]_vars => IInv'
<1> SUFFICES ASSUME IInv, [Next]_vars PROVE IInv'
  OBVIOUS
<1>1. TypeInv /\ TypeInv'
  BY StepTypeInv DEF IInv, TypeInv
<1>2. Numbered' /\ Launches'
  BY <1>1, StepNumbered, StepLaunches DEF IInv
<1>3. FlagFound' /\ ReconnectOwnership'
  BY <1>1, StepFlag, StepOwnership DEF IInv
<1>4. OneOwner' /\ Watched' /\ OneWriter'
  BY <1>1, StepOneOwner, StepWatched, StepOneWriter DEF IInv
<1>5. Channels' /\ DoneDiscipline'
  BY <1>1, StepChannels DEF IInv
<1> QED
  BY <1>1, <1>2, <1>3, <1>4, <1>5 DEF IInv, TypeInv

(* Every state of the connector satisfies the inductive invariant,         *)
(* whatever the order of calls, dials, losses and cancellations            *)
(* (connector.go:339-949).                                                 *)
THEOREM Invariant == Spec => []IInv
  BY InitInvariant, StepInvariant, PTL DEF Spec

(* The reconnecting flag is up exactly while one thread is bound to reset  *)
(* it, and never two (connector.go:343-366, 697-725).                      *)
THEOREM FlagHasOneOwner == Spec => []ReconnectOwnership
<1>1. IInv => ReconnectOwnership
  BY DEF IInv
<1> QED
  BY <1>1, Invariant, PTL

(* A connection is owned by the field c.conn or by one thread, and is open *)
(* until its owner closes it (connector.go:412-415, 486-496, 910-946).     *)
THEOREM ConnectionHasOneOwner == Spec => []OneOwner
<1>1. IInv => OneOwner
  BY DEF IInv
<1> QED
  BY <1>1, Invariant, PTL

(* No done channel is closed twice, and no session listens on one that     *)
(* nobody will close (connector.go:423-431, 499-504, 920-926).             *)
THEOREM DoneClosedOnce == Spec => []DoneDiscipline
<1>1. IInv => DoneDiscipline
  BY DEF IInv
<1> QED
  BY <1>1, Invariant, PTL

(* A published connection has a reader, or a Connect about to start it     *)
(* (connector.go:412-445).                                                 *)
THEOREM ConnectionIsWatched == Spec => []Watched
<1>1. IInv => Watched
  BY DEF IInv
<1> QED
  BY <1>1, Invariant, PTL

(* One thread at a time writes to a connection: the holder of writeMu      *)
(* (connector.go:641-653, 856-870, 907-946).                               *)
THEOREM WritesExclude == Spec => []OneWriter
<1>1. IInv => OneWriter
  BY DEF IInv
<1> QED
  BY <1>1, Invariant, PTL

-----------------------------------------------------------------------------
(* The connector implements the two abstract specifications.               *)

HolderIsOwner ==
  /\ \A t \in Threads : OwnsFlag(t) => FlagHolder = t
  /\ (\A t \in Threads : ~OwnsFlag(t)) => FlagHolder = NoThread

(* The holder that ReconnectGuard is shown is the owner of the flag.       *)
LEMMA Holder == ReconnectOwnership => HolderIsOwner
<1> SUFFICES ASSUME ReconnectOwnership PROVE HolderIsOwner
  OBVIOUS
<1>1. ASSUME NEW t \in Threads, OwnsFlag(t) PROVE FlagHolder = t
  <2> DEFINE h == CHOOSE u \in Threads : OwnsFlag(u)
  <2>1. FlagHolder = h
    BY <1>1 DEF FlagHolder
  <2>2. h \in Threads /\ OwnsFlag(h)
    BY <1>1
  <2>3. h = t
    BY <1>1, <2>2 DEF ReconnectOwnership
  <2> QED
    BY <2>1, <2>3
<1>2. (\A t \in Threads : ~OwnsFlag(t)) => FlagHolder = NoThread
  BY DEF FlagHolder
<1> QED
  BY <1>1, <1>2 DEF HolderIsOwner

(* A step of the connector is one of ReconnectGuard, or leaves it alone.   *)
LEMMA StepGuard ==
  ASSUME IInv, IInv', [Next]_vars
  PROVE  [Guard!Next]_FlagHolder
<1>0. ReconnectOwnership /\ ReconnectOwnership'
  BY DEF IInv
<1>1. /\ \A t \in Threads : OwnsFlag(t) => FlagHolder = t
      /\ (\A t \in Threads : ~OwnsFlag(t)) => FlagHolder = NoThread
  BY <1>0, Holder DEF HolderIsOwner
<1>2. /\ \A t \in Threads : OwnsFlag(t)' => FlagHolder' = t
      /\ (\A t \in Threads : ~OwnsFlag(t)') => FlagHolder' = NoThread
  <2>1. HolderIsOwner'
    BY <1>0, Holder, PTL
  <2> QED
    BY <2>1 DEF HolderIsOwner
<1>3. CASE UNCHANGED <<pc, was, reconnecting>>
  <2>1. \A t \in Threads : OwnsFlag(t)' <=> OwnsFlag(t)
    BY <1>3 DEF OwnsFlag, InReconnect
  <2> QED
    BY <1>1, <1>2, <2>1
<1>4. ASSUME NEW t \in Threads, FlagMove(t)
      PROVE  [Guard!Next]_FlagHolder
  <2>1. CASE FlagKept(t)
    <3>1. \A u \in Threads : OwnsFlag(u)' <=> OwnsFlag(u)
      BY <1>4, <2>1 DEF FlagMove, FlagKept
    <3> QED
      BY <1>1, <1>2, <3>1
  <2>2. CASE FlagAcquired(t)
    <3>1. \A u \in Threads : ~OwnsFlag(u)
      BY <1>0, <2>2 DEF FlagAcquired, ReconnectOwnership
    <3>2. FlagHolder = NoThread /\ FlagHolder' = t
      BY <1>1, <1>2, <2>2, <3>1 DEF FlagAcquired
    <3> QED
      BY <3>2 DEF Guard!Next, Guard!Acquire
  <2>3. CASE FlagReleased(t)
    <3>1. \A u \in Threads : ~OwnsFlag(u)'
      BY <1>0, <2>3 DEF FlagReleased, ReconnectOwnership
    <3>2. FlagHolder = t /\ FlagHolder' = NoThread
      BY <1>1, <1>2, <2>3, <3>1 DEF FlagReleased
    <3> QED
      BY <3>2 DEF Guard!Next, Guard!Release
  <2> QED
    BY <1>4, <2>1, <2>2, <2>3 DEF FlagMove
<1> QED
  BY <1>3, <1>4, StepFlag DEF IInv, TypeInv

(* The reconnecting flag is acquired by one thread at a time and released  *)
(* by that thread (connector.go:355-366, 707-725).                         *)
THEOREM RefinesGuard == Spec => ImplementsGuard
<1>1. Init => Guard!Init
  <2> SUFFICES ASSUME Init PROVE FlagHolder = NoThread
    BY DEF Guard!Init
  <2>1. \A t \in Threads : ~OwnsFlag(t)
    BY DEF Init, OwnsFlag, InReconnect, ReconnectBody, ConnectPcs, ConnectBody
  <2> QED
    BY <2>1 DEF FlagHolder
<1> QED
  BY <1>1, Invariant, StepGuard, PTL DEF Spec, ImplementsGuard, Guard!Spec

(* A step of the connector is one of StopSignal, or leaves it alone.       *)
LEMMA StepSignal ==
  ASSUME IInv, [Next]_vars
  PROVE  [Signal!Next]_(Signal!vars)
<1> USE DEF Signal!vars
<1>0. TypeInv /\ Launches /\ Channels /\ DoneDiscipline /\ 0 \notin Sessions
  BY BoundsAssumption DEF IInv, TypeInv, Sessions
<1>1. ASSUME NEW n \in Sessions, LaunchJoins(n) PROVE Signal!Next
  <2>1. CASE done = 0 \/ done \in stopped
    <3>1. Signal!JoinNew(n)
      BY <1>0, <1>1, <2>1 DEF LaunchJoins, Signal!JoinNew, Signal!Open
    <3> QED
      BY <3>1 DEF Signal!Next
  <2>2. CASE ~(done = 0 \/ done \in stopped)
    <3>1. Signal!JoinCurrent(n)
      BY <1>1, <2>2 DEF LaunchJoins, Signal!JoinCurrent, Signal!Open
    <3> QED
      BY <3>1 DEF Signal!Next
  <2> QED
    BY <2>1, <2>2
<1>2. CASE SignalDone /\ panicked = "no" /\ sessDone' = sessDone
  <2>1. done' = done /\ SignalCloses
    BY <1>0, <1>2, SignalChannel
  <2>2. CASE done \in Sessions \ stopped /\ stopped' = stopped \cup {done}
    BY <1>0, <1>2, <2>1, <2>2 DEF Signal!Next, Signal!Stop, Signal!Open
  <2>3. CASE stopped' = stopped
    BY <1>2, <2>1, <2>3
  <2> QED
    BY <2>1, <2>2, <2>3 DEF SignalCloses
<1>3. CASE UNCHANGED <<done, closed, stopped, sessDone, panicked>>
  BY <1>3
<1> QED
  BY <1>0, <1>1, <1>2, <1>3, ChannelCases, LaunchChannel

(* Close, the pumps and Connect together never drop or close twice a done  *)
(* channel somebody listens on (connector.go:423-431, 499-504, 920-926).   *)
THEOREM RefinesSignal == Spec => ImplementsSignal
<1>1. Init => Signal!Init
  BY DEF Init, Signal!Init
<1> QED
  BY <1>1, Invariant, StepSignal, PTL DEF Spec, ImplementsSignal, Signal!Spec

=============================================================================

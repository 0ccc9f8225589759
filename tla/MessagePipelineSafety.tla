------------------------ MODULE MessagePipelineSafety ------------------------
(* A message is in one place only, and the pipeline implements             *)
(* MessageDispatch, for any number of sessions, workers, messages, callers *)
(* and handlers.                                                           *)
EXTENDS MessagePipelineProofs

Holds(s)  == ppc[s] \in {"lookup", "enqueue"}
Places(q) == 1 .. Len(queues[q])
Queues    == 0 .. MaxSessions

(* A message read later is none of those that are under way or handled.    *)
Fresh ==
  /\ \A s \in Sessions : Holds(s) => task[s].msg <= nread
  /\ \A q \in Queues : \A i \in Places(q) : queues[q][i].msg <= nread
  /\ \A k \in started : k.msg <= nread
  /\ \A m \in dropped : m <= nread

(* What a pump holds is nowhere else, and is not settled.                  *)
HeldOnce ==
  \A s \in Sessions : Holds(s) =>
    /\ \A r \in Sessions : Holds(r) /\ task[r].msg = task[s].msg => r = s
    /\ \A q \in Queues : \A i \in Places(q) : queues[q][i].msg # task[s].msg
    /\ \A k \in started : k.msg # task[s].msg
    /\ task[s].msg \notin dropped

(* What is queued is in one place of one queue, and has not been taken.    *)
QueuedOnce ==
  \A q \in Queues : \A i \in Places(q) :
    /\ \A r \in Queues : \A j \in Places(r) :
         queues[r][j].msg = queues[q][i].msg => r = q /\ j = i
    /\ \A k \in started : k.msg # queues[q][i].msg

StartedOnce == \A k, j \in started : k.msg = j.msg => k = j

(* The pump of a session begins after its Connect has made the queue.      *)
PumpAfterQueue ==
  \A s \in Sessions :
    cpc[s] \in {"none", "publish", "join", "queue"} => ppc[s] = "none"

Once == Fresh /\ HeldOnce /\ QueuedOnce /\ StartedOnce /\ PumpAfterQueue

-----------------------------------------------------------------------------
(* The queue as a pump or a worker leaves it.                              *)

(* A task appended to a queue is its last, and the others stay in place.   *)
LEMMA Appending ==
  ASSUME TypeInv, NEW s \in Sessions, ppc[s] = "enqueue", NEW a \in Queues,
         queues' = [queues EXCEPT ![a] = Append(queues[a], task[s])]
  PROVE  /\ Len(queues[a]) + 1 \in Places(a)'
         /\ Len(queues[a]) + 1 \notin Places(a)
         /\ queues'[a][Len(queues[a]) + 1] = task[s]
         /\ \A q \in Queues : \A i \in Places(q) :
              i \in Places(q)' /\ queues'[q][i] = queues[q][i]
         /\ \A q \in Queues : \A i \in Places(q)' :
              i \in Places(q) \/ (q = a /\ i = Len(queues[a]) + 1)
<1>1. queues[a] \in Seq(Task) /\ task[s] \in Task
  BY DEF TypeInv, MapOK, PumpsOK, Queues
<1> DEFINE old == queues[a]
           longer == Append(old, task[s])
<1>2. /\ Len(longer) = Len(old) + 1 /\ Len(old) \in Nat
      /\ longer[Len(old) + 1] = task[s]
      /\ \A i \in 1 .. Len(old) : longer[i] = old[i]
  BY <1>1
<1>3. queues'[a] = longer /\ \A q \in Queues \ {a} : queues'[q] = queues[q]
  BY DEF TypeInv, MapOK, Queues
<1> HIDE DEF longer
<1> QED  BY <1>2, <1>3 DEF Places

(* Without its head, a queue holds the rest one place further ahead.       *)
LEMMA Taking ==
  ASSUME TypeInv, NEW q \in Queues, queues[q] # <<>>,
         queues' = [queues EXCEPT ![q] = Tail(queues[q])]
  PROVE  /\ 1 \in Places(q) /\ Head(queues[q]) = queues[q][1]
         /\ \A r \in Queues \ {q} : queues'[r] = queues[r]
         /\ \A i \in Places(q)' :
              i + 1 \in Places(q) /\ i + 1 # 1 /\ queues'[q][i] = queues[q][i + 1]
         /\ \A i \in Places(q) \ {1} :
              i - 1 \in Places(q)' /\ queues'[q][i - 1] = queues[q][i]
<1>1. queues[q] \in Seq(Task)
  BY DEF TypeInv, MapOK, Queues
<1> DEFINE old == queues[q]
           rest == Tail(old)
<1>2. /\ Len(rest) = Len(old) - 1 /\ Len(old) \in Nat \ {0}
      /\ \A i \in 1 .. Len(rest) : rest[i] = old[i + 1]
      /\ Head(old) = old[1]
  BY <1>1
<1>3. queues'[q] = rest /\ \A r \in Queues \ {q} : queues'[r] = queues[r]
  BY DEF TypeInv, MapOK, Queues
<1> HIDE DEF rest
<1> QED  BY <1>2, <1>3 DEF Places

-----------------------------------------------------------------------------
(* A message is in one place.                                              *)

(* Every message under way was read from a connection.                     *)
LEMMA MessagesTyped ==
  ASSUME TypeInv
  PROVE  /\ \A s \in Sessions : Holds(s) => task[s].msg \in Nat
         /\ \A q \in Queues : \A i \in Places(q) : queues[q][i].msg \in Nat
         /\ \A k \in started : k.msg \in Nat
         /\ dropped \subseteq Nat /\ nread \in Nat
<1>1. Messages \subseteq Nat /\ nread \in Nat
  BY DEF Messages, TypeInv, PumpsOK
<1>2. \A k \in Task \cup Read : k.msg \in Nat
  BY <1>1 DEF Task, Read
<1>3. \A s \in Sessions : Holds(s) => task[s] \in Task \cup Read
  BY DEF Holds, TypeInv, PumpsOK
<1>4. \A q \in Queues : \A i \in Places(q) : queues[q][i] \in Task
  BY DEF Queues, Places, TypeInv, MapOK
<1>5. started \subseteq Task /\ dropped \subseteq Nat
  BY <1>1 DEF TypeInv, RunsOK, PumpsOK
<1> QED  BY <1>1, <1>2, <1>3, <1>4, <1>5

(* A step that only lets go of what a pump holds.                          *)
LEMMA QuietStep ==
  ASSUME Once, UNCHANGED <<queues, started, dropped, nread>>,
         \A s \in Sessions : Holds(s)' => Holds(s) /\ task'[s].msg = task[s].msg
  PROVE  Fresh' /\ HeldOnce' /\ QueuedOnce' /\ StartedOnce'
<1>1. Fresh'
  BY DEF Once, Fresh, Queues, Places
<1>2. HeldOnce'
  BY DEF Once, HeldOnce, Queues, Places
<1>3. QueuedOnce'
  BY DEF Once, QueuedOnce, Queues, Places
<1>4. StartedOnce'
  BY DEF Once, StartedOnce
<1> QED  BY <1>1, <1>2, <1>3, <1>4

(* A pump reads: the message is new.                                       *)
LEMMA ReadStep ==
  ASSUME TypeInv, Once, NEW s \in Sessions, PumpRead(s)
  PROVE  Fresh' /\ HeldOnce' /\ QueuedOnce' /\ StartedOnce'
<1>1. /\ nread \in Nat /\ nread' = nread + 1 /\ task'[s].msg = nread + 1
      /\ \A r \in Sessions \ {s} : task'[r] = task[r] /\ ppc'[r] = ppc[r]
      /\ UNCHANGED <<queues, started, dropped>>
  <2>1. PICK t \in Topics : task' = [task EXCEPT ![s] = [msg |-> nread', topic |-> t]]
    BY DEF PumpRead
  <2>2. /\ nread' = nread + 1 /\ ppc' = [ppc EXCEPT ![s] = "lookup"]
        /\ UNCHANGED <<queues, started, dropped>>
    BY DEF PumpRead, PumpGoes, runs
  <2>3. DOMAIN task = Sessions /\ DOMAIN ppc = Sessions /\ nread \in Nat
    BY DEF TypeInv, PumpsOK
  <2> QED  BY <2>1, <2>2, <2>3
<1>2. \A r \in Sessions \ {s} : Holds(r)' => Holds(r) /\ task'[r].msg = task[r].msg
  BY <1>1 DEF Holds
<1>3. Fresh'
  BY <1>1, <1>2, MessagesTyped DEF Once, Fresh, Queues, Places
<1>4. HeldOnce'
  <2> SUFFICES ASSUME NEW r \in Sessions, Holds(r)'
               PROVE  /\ \A p \in Sessions : Holds(p)' /\ task'[p].msg = task'[r].msg => p = r
                      /\ \A q \in Queues : \A i \in Places(q) : queues[q][i].msg # task'[r].msg
                      /\ \A k \in started : k.msg # task'[r].msg
                      /\ task'[r].msg \notin dropped
    BY <1>1 DEF HeldOnce, Queues, Places
  <2>1. CASE r = s
    BY <1>1, <1>2, <2>1, MessagesTyped DEF Once, Fresh
  <2>2. CASE r # s
    BY <1>1, <1>2, <2>2, MessagesTyped DEF Once, Fresh, HeldOnce
  <2> QED  BY <2>1, <2>2
<1>5. QueuedOnce' /\ StartedOnce'
  BY <1>1 DEF Once, QueuedOnce, StartedOnce, Queues, Places
<1> QED  BY <1>3, <1>4, <1>5

(* A pump lets its task go to the queue, or drops it.                      *)
LEMMA EnqueueStep ==
  ASSUME TypeInv, Once, NEW s \in Sessions, Enqueue(s)
  PROVE  Fresh' /\ HeldOnce' /\ QueuedOnce' /\ StartedOnce'
<1>0. /\ ppc[s] = "enqueue" /\ ppc' = [ppc EXCEPT ![s] = "top"]
      /\ task' = [task EXCEPT ![s] = NoTask]
      /\ UNCHANGED <<started, nread>>
  BY DEF Enqueue, PumpGoes, runs
<1>1. /\ Holds(s) /\ ~Holds(s)' /\ queue \in Queues
      /\ \A r \in Sessions \ {s} : task'[r] = task[r] /\ ppc'[r] = ppc[r]
      /\ UNCHANGED <<started, nread>>
  <2>1. DOMAIN task = Sessions /\ DOMAIN ppc = Sessions /\ queue \in Queues
    BY DEF TypeInv, PumpsOK, MapOK, Queues
  <2> QED  BY <1>0, <2>1 DEF Holds
<1>2. \A r \in Sessions : Holds(r)' => r # s /\ Holds(r) /\ task'[r].msg = task[r].msg
  BY <1>1 DEF Holds
<1>3. CASE dropped' = dropped \cup {task[s].msg} /\ queues' = queues
  <2>1. Fresh'
    BY <1>1, <1>2, <1>3 DEF Once, Fresh, Queues, Places
  <2>2. HeldOnce'
    BY <1>1, <1>2, <1>3 DEF Once, HeldOnce, Queues, Places
  <2>3. QueuedOnce' /\ StartedOnce'
    BY <1>1, <1>3 DEF Once, QueuedOnce, StartedOnce, Queues, Places
  <2> QED  BY <2>1, <2>2, <2>3
<1>4. ASSUME NEW a \in Queues, dropped' = dropped,
             queues' = [queues EXCEPT ![a] = Append(queues[a], task[s])]
      PROVE  Fresh' /\ HeldOnce' /\ QueuedOnce' /\ StartedOnce'
  <2> DEFINE new(q, i) == q = a /\ i = Len(queues[a]) + 1
  <2>1. \A q \in Queues : \A i \in Places(q)' :
          \/ i \in Places(q) /\ queues'[q][i] = queues[q][i] /\ ~new(q, i)
          \/ new(q, i) /\ queues'[q][i] = task[s]
    <3>1. /\ Len(queues[a]) + 1 \notin Places(a)
          /\ queues'[a][Len(queues[a]) + 1] = task[s]
          /\ \A q \in Queues : \A i \in Places(q) :
               queues'[q][i] = queues[q][i]
          /\ \A q \in Queues : \A i \in Places(q)' :
               i \in Places(q) \/ (q = a /\ i = Len(queues[a]) + 1)
      BY <1>0, <1>4, Appending, ZenonT(30)
    <3> QED  BY <3>1
  <2> HIDE DEF new
  <2>2. Queues' = Queues
    BY DEF Queues
  <2>3. Fresh'
    BY <1>1, <1>2, <1>4, <2>1, <2>2 DEF Once, Fresh
  <2>4. HeldOnce'
    <3> SUFFICES ASSUME NEW r \in Sessions, Holds(r)'
                 PROVE  /\ \A p \in Sessions : Holds(p)' /\ task'[p].msg = task'[r].msg => p = r
                        /\ \A q \in Queues : \A i \in Places(q)' : queues'[q][i].msg # task'[r].msg
                        /\ \A k \in started : k.msg # task'[r].msg
                        /\ task'[r].msg \notin dropped
      BY <1>1, <1>4, <2>2 DEF HeldOnce
    <3>1. r # s /\ Holds(r) /\ task'[r].msg = task[r].msg
      BY <1>2
    <3>2. task[s].msg # task[r].msg
      BY <1>1, <3>1 DEF Once, HeldOnce
    <3>3. \A q \in Queues : \A i \in Places(q)' : queues'[q][i].msg # task'[r].msg
      BY <2>1, <3>1, <3>2 DEF Once, HeldOnce
    <3> QED  BY <1>2, <3>1, <3>3 DEF Once, HeldOnce
  <2>5. QueuedOnce'
    <3> SUFFICES ASSUME NEW q \in Queues, NEW i \in Places(q)'
                 PROVE  /\ \A r \in Queues : \A j \in Places(r)' :
                             queues'[r][j].msg = queues'[q][i].msg => r = q /\ j = i
                        /\ \A k \in started : k.msg # queues'[q][i].msg
      BY <1>1, <2>2 DEF QueuedOnce
    <3>1. \A k \in started : k.msg # queues'[q][i].msg
      BY <1>1, <2>1 DEF Once, QueuedOnce, HeldOnce
    <3>2. ASSUME NEW r \in Queues, NEW j \in Places(r)',
                 queues'[r][j].msg = queues'[q][i].msg
          PROVE  r = q /\ j = i
      <4>1. CASE new(q, i) /\ new(r, j)
        BY <4>1 DEF new
      <4>2. CASE ~new(q, i) /\ ~new(r, j)
        BY <2>1, <3>2, <4>2 DEF Once, QueuedOnce
      <4>3. CASE new(q, i) /\ ~new(r, j)
        BY <1>1, <2>1, <3>2, <4>3 DEF Once, HeldOnce
      <4>4. CASE ~new(q, i) /\ new(r, j)
        BY <1>1, <2>1, <3>2, <4>4 DEF Once, HeldOnce
      <4> QED  BY <4>1, <4>2, <4>3, <4>4
    <3> QED  BY <3>1, <3>2
  <2>6. StartedOnce'
    BY <1>1 DEF Once, StartedOnce
  <2> QED  BY <2>3, <2>4, <2>5, <2>6
<1> QED
  BY <1>1, <1>3, <1>4 DEF Enqueue

(* A worker takes the head of a queue and calls its handler.               *)
LEMMA TakeStep ==
  ASSUME TypeInv, Once, NEW w \in Workers, WorkerTake(w)
  PROVE  Fresh' /\ HeldOnce' /\ QueuedOnce' /\ StartedOnce'
<1>1. /\ wq[w] \in Queues /\ queues[wq[w]] # <<>>
      /\ queues' = [queues EXCEPT ![wq[w]] = Tail(queues[wq[w]])]
      /\ started' = started \cup {Head(queues[wq[w]])}
      /\ UNCHANGED <<task, ppc, nread, dropped>>
  BY DEF WorkerTake, Taken, Remaining, TypeInv, PoolOK, Queues, pumps
<1>2. ASSUME NEW q \in Queues, queues[q] # <<>>,
             queues' = [queues EXCEPT ![q] = Tail(queues[q])],
             started' = started \cup {Head(queues[q])}
      PROVE  Fresh' /\ HeldOnce' /\ QueuedOnce' /\ StartedOnce'
  <2> DEFINE before(r, i) == IF r = q THEN i + 1 ELSE i
             head == queues[q][1]
  <2>1. \A r \in Queues : \A i \in Places(r)' :
          /\ before(r, i) \in Places(r)
          /\ queues'[r][i] = queues[r][before(r, i)]
          /\ r = q => before(r, i) # 1
    <3>1. \A r \in Queues \ {q} : queues'[r] = queues[r] /\ Places(r)' = Places(r)
      BY <1>2, Taking DEF Places
    <3>2. \A i \in Places(q)' :
            i + 1 \in Places(q) /\ i + 1 # 1 /\ queues'[q][i] = queues[q][i + 1]
      BY <1>2, Taking
    <3> QED  BY <3>1, <3>2
  <2>2. 1 \in Places(q) /\ started' = started \cup {head}
    BY <1>2, Taking
  <2>3. \A r \in Queues, i \in Nat, j \in Nat : before(r, i) = before(r, j) => i = j
    OBVIOUS
  <2>4. \A r \in Queues : Places(r)' \subseteq Nat
    BY DEF Places
  <2>5. \A s \in Sessions : Holds(s)' = Holds(s) /\ task'[s] = task[s]
    BY <1>1 DEF Holds
  <2> HIDE DEF before
  <2>6. Queues' = Queues
    BY DEF Queues
  <2>7. Fresh'
    <3>1. \A k \in started' : k.msg <= nread
      BY <2>2 DEF Once, Fresh
    <3>2. \A r \in Queues : \A i \in Places(r)' : queues'[r][i].msg <= nread
      BY <2>1 DEF Once, Fresh
    <3> QED  BY <1>1, <2>5, <2>6, <3>1, <3>2 DEF Once, Fresh
  <2>8. HeldOnce'
    <3> SUFFICES ASSUME NEW s \in Sessions, Holds(s)
                 PROVE  /\ \A r \in Sessions : Holds(r) /\ task[r].msg = task[s].msg => r = s
                        /\ \A r \in Queues : \A i \in Places(r)' : queues'[r][i].msg # task[s].msg
                        /\ \A k \in started' : k.msg # task[s].msg
                        /\ task[s].msg \notin dropped
      BY <1>1, <2>5, <2>6, ZenonT(30) DEF HeldOnce
    <3>1. \A r \in Queues : \A i \in Places(r)' : queues'[r][i].msg # task[s].msg
      BY <2>1 DEF Once, HeldOnce
    <3>2. \A k \in started' : k.msg # task[s].msg
      BY <2>2 DEF Once, HeldOnce
    <3> QED  BY <3>1, <3>2 DEF Once, HeldOnce
  <2>9. QueuedOnce'
    BY <2>1, <2>2, <2>3, <2>4, <2>6 DEF Once, QueuedOnce
  <2>10. StartedOnce'
    BY <2>2 DEF Once, QueuedOnce, StartedOnce
  <2> QED  BY <2>7, <2>8, <2>9, <2>10
<1> QED  BY <1>1, <1>2

(* The pump of a session is started by its Connect, with the queue.        *)
LEMMA PumpBegins == TypeInv /\ Once /\ [Next]_vars => PumpAfterQueue'
<1> SUFFICES ASSUME TypeInv, Once, [Next]_vars PROVE PumpAfterQueue'
  OBVIOUS
<1>0. /\ PumpAfterQueue
      /\ DOMAIN cpc = Sessions /\ DOMAIN ppc = Sessions
  BY DEF Once, TypeInv, LifeOK, PumpsOK
<1>1. CASE UNCHANGED <<cpc, ppc>>
  BY <1>0, <1>1 DEF PumpAfterQueue
<1>2. ASSUME NEW s \in Sessions, UNCHANGED cpc,
             \E from, to : PumpGoes(s, from, to) /\ from # "none"
      PROVE  PumpAfterQueue'
  BY <1>0, <1>2 DEF PumpAfterQueue, PumpGoes
<1>3. ASSUME NEW s \in Sessions, PumpStep(s) PROVE PumpAfterQueue'
  <2>1. CASE PumpFail(s)
    BY <1>0, <2>1 DEF PumpAfterQueue, PumpFail
  <2>2. CASE PumpStop(s)
    BY <1>0, <2>2 DEF PumpAfterQueue, PumpStop
  <2>3. CASE ProcessStep(s)
    BY <1>2, <2>3 DEF ProcessStep, Ignore, Lookup, Enqueue, life
  <2>4. CASE PumpTop(s) \/ PumpRead(s)
    BY <1>2, <2>4 DEF PumpTop, PumpRead, life
  <2> QED  BY <1>3, <2>1, <2>2, <2>3, <2>4 DEF PumpStep
<1>4. ASSUME NEW s \in Sessions, ConnectStep(s) PROVE PumpAfterQueue'
  <2>1. CASE Launch(s)
    BY <1>0, <2>1 DEF PumpAfterQueue, Launch, ConnectAt
  <2>2. CASE Dial(s) \/ Publish(s) \/ Join(s) \/ Snapshot(s)
    BY <1>0, <2>2
       DEF PumpAfterQueue, Dial, Publish, Join, Snapshot, ConnectAt, pumps
  <2>3. ASSUME NEW t \in Topics, RestoreCheck(s, t) \/ RestoreWrite(s, t)
        PROVE  PumpAfterQueue'
    BY <1>0, <2>3 DEF PumpAfterQueue, RestoreCheck, RestoreWrite, ConnectAt, pumps
  <2> QED  BY <1>4, <2>1, <2>2, <2>3 DEF ConnectStep
<1> QED
  BY <1>1, <1>3, <1>4
     DEF Next, CallerStep, WorkerStep, Rest, Subscribe, SubscribeWrite,
         Unsubscribe, Close, CloseDone, WorkerTop, WorkerTake, WorkerStop,
         WorkerNext, HandlerReturns, HandlerPanics, vars, life, pumps

(* No step puts a message in a second place.                               *)
LEMMA OnceStep == TypeInv /\ Once /\ [Next]_vars => Once'
<1> SUFFICES ASSUME TypeInv, Once, [Next]_vars PROVE Once'
  OBVIOUS
<1> DEFINE Kept == Fresh' /\ HeldOnce' /\ QueuedOnce' /\ StartedOnce'
<1>0. DOMAIN task = Sessions /\ DOMAIN ppc = Sessions
  BY DEF TypeInv, PumpsOK
<1>1. ASSUME UNCHANGED <<ppc, task, queues, started, dropped, nread>> PROVE Kept
  <2>1. \A s \in Sessions : Holds(s)' => Holds(s) /\ task'[s].msg = task[s].msg
    BY <1>1 DEF Holds
  <2> QED  BY <1>1, <2>1, QuietStep
<1>2. ASSUME NEW s \in Sessions,
             Launch(s) \/ PumpTop(s) \/ PumpFail(s) \/ PumpStop(s) \/ Ignore(s)
      PROVE  Kept
  <2>1. /\ UNCHANGED <<queues, started, dropped, nread>>
        /\ \E to \in {"top", "read", "stop", "end"} : ppc' = [ppc EXCEPT ![s] = to]
        /\ task' = task \/ task' = [task EXCEPT ![s] = NoTask]
    BY <1>2
       DEF Launch, PumpTop, PumpFail, PumpStop, Ignore, PumpGoes, runs
  <2>2. \A r \in Sessions : Holds(r)' => Holds(r) /\ task'[r].msg = task[r].msg
    BY <1>0, <2>1 DEF Holds
  <2> QED  BY <2>1, <2>2, QuietStep
<1>3. ASSUME NEW s \in Sessions, Lookup(s) PROVE Kept
  <2> DEFINE k == [msg |-> task[s].msg, topic |-> task[s].topic,
                   handler |-> handlers[task[s].topic]]
  <2>1. /\ UNCHANGED <<queues, started, dropped, nread>>
        /\ ppc[s] = "lookup" /\ ppc' = [ppc EXCEPT ![s] = "enqueue"]
        /\ task' = [task EXCEPT ![s] = k] /\ k.msg = task[s].msg
    BY <1>3 DEF Lookup, PumpGoes, runs
  <2> HIDE DEF k
  <2>2. \A r \in Sessions : Holds(r)' => Holds(r) /\ task'[r].msg = task[r].msg
    BY <1>0, <2>1 DEF Holds
  <2> QED  BY <2>1, <2>2, QuietStep
<1>4. ASSUME NEW s \in Sessions, PumpRead(s) PROVE Kept
  BY <1>4, ReadStep
<1>5. ASSUME NEW s \in Sessions, Enqueue(s) PROVE Kept
  BY <1>5, EnqueueStep
<1>6. ASSUME NEW w \in Workers, WorkerTake(w) PROVE Kept
  BY <1>6, TakeStep
<1>7. Kept
  <2> HIDE DEF Kept
  <2> QED
    BY <1>1, <1>2, <1>3, <1>4, <1>5, <1>6
       DEF Next, CallerStep, ConnectStep, ProcessStep, PumpStep, WorkerStep, Rest,
           Subscribe, SubscribeWrite, Unsubscribe, Close, CloseDone, Dial,
           Publish, Join, Snapshot, RestoreCheck, RestoreWrite, WorkerTop,
           WorkerStop, WorkerNext, HandlerReturns, HandlerPanics, vars, pumps,
           runs
<1> QED  BY <1>7, PumpBegins DEF Once

(* Initially there is no message.                                          *)
LEMMA InitOnce == Init => Once
<1> SUFFICES ASSUME Init PROVE Once
  OBVIOUS
<1>1. \A s \in Sessions : ~Holds(s) /\ ppc[s] = "none"
  BY DEF Init, Holds
<1>2. \A q \in Queues : Places(q) = {}
  BY DEF Init, Queues, Places
<1>3. started = {} /\ dropped = {}
  BY DEF Init
<1> QED
  BY <1>1, <1>2, <1>3
     DEF Once, Fresh, HeldOnce, QueuedOnce, StartedOnce, PumpAfterQueue

(* A message is in one place in every behaviour.                           *)
LEMMA OnceHolds == Spec => [](TypeInv /\ Once)
<1>1. TypeInv /\ Once /\ [Next]_vars => (TypeInv /\ Once)'
  BY LifeStep, MapStep, PumpsStep, PoolStep, RunsStep, AppStep, OnceStep
     DEF TypeInv
<1> QED  BY <1>1, InitTypes, InitOnce, PTL DEF Spec

(* What is in flight is what a pump has bound and what is queued.          *)
LEMMA InFlightIs ==
  ASSUME NEW k
  PROVE  k \in InFlight <=>
           \/ \E s \in Sessions : ppc[s] = "enqueue" /\ k = task[s]
           \/ \E q \in Queues : \E i \in Places(q) : k = queues[q][i]
BY DEF InFlight, Queues, Places

(* In a state where messages are in one place, tasks are.                  *)
LEMMA OnePlaceNow == TypeInv /\ Once => OnePlace
<1> SUFFICES ASSUME TypeInv, Once PROVE OnePlace
  OBVIOUS
<1>1. ASSUME NEW k \in InFlight, NEW j \in InFlight, k.msg = j.msg PROVE k = j
  <2>1. ASSUME NEW s \in Sessions, ppc[s] = "enqueue", k = task[s] PROVE k = j
    BY <1>1, <2>1, InFlightIs DEF Once, HeldOnce, Holds
  <2>2. ASSUME NEW s \in Sessions, ppc[s] = "enqueue", j = task[s] PROVE k = j
    BY <1>1, <2>2, InFlightIs DEF Once, HeldOnce, Holds
  <2>3. ASSUME NEW q \in Queues, NEW i \in Places(q), k = queues[q][i],
               NEW r \in Queues, NEW l \in Places(r), j = queues[r][l]
        PROVE  k = j
    BY <1>1, <2>3 DEF Once, QueuedOnce
  <2> QED  BY <2>1, <2>2, <2>3, InFlightIs
<1>2. ASSUME NEW k \in InFlight, NEW j \in started PROVE k.msg # j.msg
  BY InFlightIs DEF Once, HeldOnce, QueuedOnce, Holds
<1>3. \A k, j \in InFlight \cup started : k.msg = j.msg => k = j
  BY <1>1, <1>2 DEF Once, StartedOnce
<1>4. InFlight \cap started = {}
  BY <1>2
<1>5. \A q, r \in Queues : \A i \in Places(q), j \in Places(r) :
        queues[q][i] = queues[r][j] => q = r /\ i = j
  BY DEF Once, QueuedOnce
<1> QED  BY <1>3, <1>4, <1>5 DEF OnePlace, Queues, Places

(* No pump and no queue holds a message twice, and none holds it still     *)
(* when its handler has been called (608-615, 988-1013).                   *)
THEOREM MessageInOnePlace == Spec => []OnePlace
BY OnePlaceNow, OnceHolds, PTL

-----------------------------------------------------------------------------
(* The pipeline implements MessageDispatch.                                *)

(* The handler a message is on its way to is that of its task in flight.   *)
LEMMA BoundIs ==
  TypeInv /\ Once =>
    /\ InFlight \subseteq Task
    /\ Bound = [m \in Messages |-> Bound[m]]
    /\ \A k \in InFlight : Bound[k.msg] = k.handler
    /\ \A m \in Messages : (\A k \in InFlight : k.msg # m) => Bound[m] = NoHandler
<1> SUFFICES ASSUME TypeInv, Once
             PROVE  /\ InFlight \subseteq Task
                    /\ Bound = [m \in Messages |-> Bound[m]]
                    /\ \A k \in InFlight : Bound[k.msg] = k.handler
                    /\ \A m \in Messages :
                         (\A k \in InFlight : k.msg # m) => Bound[m] = NoHandler
  OBVIOUS
<1>1. InFlight \subseteq Task
  BY InFlightIs DEF TypeInv, PumpsOK, MapOK, Queues, Places
<1>2. \A k, j \in InFlight : k.msg = j.msg => k = j
  BY OnePlaceNow DEF OnePlace
<1>3. ASSUME NEW k \in InFlight PROVE Bound[k.msg] = k.handler
  <2>1. k.msg \in Messages
    BY <1>1 DEF Task
  <2>2. (CHOOSE j \in InFlight : j.msg = k.msg) = k
    BY <1>2
  <2> QED  BY <2>1, <2>2 DEF Bound
<1>4. ASSUME NEW m \in Messages, \A k \in InFlight : k.msg # m
      PROVE  Bound[m] = NoHandler
  BY <1>4 DEF Bound
<1>5. Bound = [m \in Messages |-> Bound[m]]
  BY DEF Bound
<1> QED  BY <1>1, <1>3, <1>4, <1>5

(* The same after a step.                                                  *)
LEMMA BoundWillBe ==
  ASSUME TypeInv', Once'
  PROVE  /\ InFlight' \subseteq Task
         /\ Bound' = [m \in Messages |-> Bound'[m]]
         /\ \A k \in InFlight' : Bound'[k.msg] = k.handler
         /\ \A m \in Messages :
              (\A k \in InFlight' : k.msg # m) => Bound'[m] = NoHandler
<1>1. (TypeInv /\ Once =>
         /\ InFlight \subseteq Task
         /\ Bound = [m \in Messages |-> Bound[m]]
         /\ \A k \in InFlight : Bound[k.msg] = k.handler
         /\ \A m \in Messages :
              (\A k \in InFlight : k.msg # m) => Bound[m] = NoHandler)'
  BY BoundIs, PTL
<1>2. Messages' = Messages /\ Task' = Task
  BY DEF Messages, Task
<1> QED  BY <1>1, <1>2

(* A message that enters the flight is bound to its task's handler.        *)
LEMMA Entering ==
  ASSUME TypeInv, Once, TypeInv', Once', NEW k, InFlight' = InFlight \cup {k},
         \A j \in InFlight : j.msg # k.msg
  PROVE  /\ k.msg \in Messages /\ Bound[k.msg] = NoHandler
         /\ Bound' = [Bound EXCEPT ![k.msg] = k.handler]
<1>1. k.msg \in Messages
  BY BoundWillBe DEF Task
<1>2. Bound[k.msg] = NoHandler
  BY <1>1, BoundIs
<1>3. ASSUME NEW m \in Messages, m # k.msg PROVE Bound'[m] = Bound[m]
  <2>1. CASE \E j \in InFlight : j.msg = m
    BY <2>1, BoundIs, BoundWillBe
  <2>2. CASE \A j \in InFlight : j.msg # m
    BY <1>3, <2>2, BoundIs, BoundWillBe
  <2> QED  BY <2>1, <2>2
<1>4. Bound'[k.msg] = k.handler
  BY BoundWillBe
<1>5. Bound' = [m \in Messages |-> IF m = k.msg THEN k.handler ELSE Bound[m]]
  BY <1>3, <1>4, BoundWillBe
<1>6. DOMAIN Bound = Messages
  BY BoundIs
<1> QED  BY <1>1, <1>2, <1>5, <1>6

(* A message that leaves the flight is no longer bound.                    *)
LEMMA Leaving ==
  ASSUME TypeInv, Once, TypeInv', Once', NEW k \in InFlight,
         InFlight' = InFlight \ {k}
  PROVE  /\ k.msg \in Messages /\ Dispatch!Unbind(k.msg)
         /\ Bound[k.msg] = k.handler
<1>1. k \in Task /\ Bound[k.msg] = k.handler
  BY BoundIs
<1>2. k.msg \in Messages /\ k.handler # NoHandler
  BY <1>1, PipelineAssumption DEF Task
<1>3. \A j \in InFlight' : j.msg # k.msg
  BY OnePlaceNow DEF OnePlace
<1>4. ASSUME NEW m \in Messages, m # k.msg PROVE Bound'[m] = Bound[m]
  <2>1. CASE \E j \in InFlight : j.msg = m
    BY <1>4, <2>1, BoundIs, BoundWillBe
  <2>2. CASE \A j \in InFlight : j.msg # m
    BY <2>2, BoundIs, BoundWillBe
  <2> QED  BY <2>1, <2>2
<1>5. Bound'[k.msg] = NoHandler
  BY <1>2, <1>3, BoundWillBe
<1>6. Bound' = [m \in Messages |-> IF m = k.msg THEN NoHandler ELSE Bound[m]]
  BY <1>4, <1>5, BoundWillBe
<1>7. DOMAIN Bound = Messages
  BY BoundIs
<1> QED  BY <1>1, <1>2, <1>6, <1>7 DEF Dispatch!Unbind

(* What is handed over: the pairs of MessageDispatch.                      *)
Given == {<<k.msg, k.handler>> : k \in started}

(* A step that leaves the flight as it is only registers, if anything.     *)
LEMMA FlightKept ==
  ASSUME InFlight' = InFlight PROVE Bound' = Bound
BY DEF Bound, Messages

(* What is in flight after a step that does not touch the queues.          *)
LEMMA FlightOfPumps ==
  ASSUME UNCHANGED queues,
         \A s \in Sessions : /\ ppc'[s] = "enqueue" <=> ppc[s] = "enqueue"
                             /\ ppc[s] = "enqueue" => task'[s] = task[s]
  PROVE  InFlight' = InFlight
BY DEF InFlight

(* A pump binds its message to the handler it finds.                       *)
LEMMA LookupBinds ==
  ASSUME TypeInv, Once, TypeInv', Once', NEW s \in Sessions, Lookup(s)
  PROVE  Dispatch!Next
<1> DEFINE r == task[s]
           k == [msg |-> r.msg, topic |-> r.topic, handler |-> handlers[r.topic]]
<1>1. /\ r \in Read /\ r.topic \in Topics /\ Holds(s)
      /\ DOMAIN task = Sessions /\ DOMAIN ppc = Sessions
  BY DEF Lookup, PumpGoes, TypeInv, PumpsOK, Read, Holds
<1>2. /\ ppc[s] = "lookup" /\ ppc' = [ppc EXCEPT ![s] = "enqueue"]
      /\ task' = [task EXCEPT ![s] = k]
      /\ handlers[r.topic] # NoHandler
      /\ UNCHANGED <<handlers, queues, dropped, started>>
  BY DEF Lookup, PumpGoes, runs
<1>3. k.msg = r.msg /\ k.handler = handlers[r.topic]
  OBVIOUS
<1> HIDE DEF k
<1>4. /\ ppc'[s] = "enqueue" /\ task'[s] = k
      /\ \A p \in Sessions \ {s} : ppc'[p] = ppc[p] /\ task'[p] = task[p]
  BY <1>1, <1>2
<1>5. InFlight' = InFlight \cup {k}
  BY <1>2, <1>4 DEF InFlight
<1>6. \A j \in InFlight : j.msg # k.msg
  BY <1>1, <1>2, <1>3, InFlightIs DEF Once, HeldOnce, Holds
<1>7. /\ k.msg \in Messages /\ Bound[k.msg] = NoHandler
      /\ Bound' = [Bound EXCEPT ![k.msg] = handlers[r.topic]]
  BY <1>3, <1>5, <1>6, Entering
<1>8. ~Dispatch!Settled(k.msg)
  BY <1>1, <1>3 DEF Once, HeldOnce, Dispatch!Settled
<1>9. Dispatch!Bind(k.msg, r.topic)
  BY <1>2, <1>7, <1>8 DEF Dispatch!Bind
<1> QED  BY <1>1, <1>7, <1>9 DEF Dispatch!Next

(* A pump moves its task to the queue, or drops the message.               *)
LEMMA EnqueueMovesOrDrops ==
  ASSUME TypeInv, Once, TypeInv', Once', NEW s \in Sessions, Enqueue(s)
  PROVE  Dispatch!Next \/ UNCHANGED Dispatch!vars
<1>1. /\ ppc[s] = "enqueue" /\ ppc' = [ppc EXCEPT ![s] = "top"]
      /\ task' = [task EXCEPT ![s] = NoTask] /\ queue \in Queues
      /\ UNCHANGED <<handlers, started>>
      /\ DOMAIN task = Sessions /\ DOMAIN ppc = Sessions
  BY DEF Enqueue, PumpGoes, runs, TypeInv, PumpsOK, MapOK, Queues
<1>2. /\ ppc'[s] = "top"
      /\ \A p \in Sessions \ {s} : ppc'[p] = ppc[p] /\ task'[p] = task[p]
  BY <1>1
<1>3. ASSUME NEW a \in Queues, dropped' = dropped,
             queues' = [queues EXCEPT ![a] = Append(queues[a], task[s])]
      PROVE  UNCHANGED Dispatch!vars
  <2>1. ASSUME NEW k PROVE k \in InFlight' <=> k \in InFlight
    <3> DEFINE new == Len(queues[a]) + 1
    <3>1. /\ new \in Places(a)' /\ queues'[a][new] = task[s]
          /\ \A q \in Queues : \A i \in Places(q) :
               i \in Places(q)' /\ queues'[q][i] = queues[q][i]
          /\ \A q \in Queues : \A i \in Places(q)' :
               i \in Places(q) \/ (q = a /\ i = new)
      BY <1>1, <1>3, Appending
    <3> HIDE DEF new
    <3>2. k \in InFlight' <=>
            \/ \E p \in Sessions : ppc'[p] = "enqueue" /\ k = task'[p]
            \/ \E q \in Queues : \E i \in Places(q)' : k = queues'[q][i]
      BY DEF InFlight, Queues, Places
    <3> QED  BY <1>1, <1>2, <3>1, <3>2, InFlightIs
  <2> QED  BY <1>1, <1>3, <2>1, FlightKept DEF Dispatch!vars
<1>4. CASE dropped' = dropped \cup {task[s].msg} /\ queues' = queues
  <2>1. task[s] \in InFlight
    BY <1>1, InFlightIs
  <2>2. \A p \in Sessions : ppc'[p] = "enqueue" => task[p] # task[s]
    BY <1>1, <1>2 DEF Once, HeldOnce, Holds
  <2>3. \A q \in Queues : \A i \in Places(q) : queues[q][i] # task[s]
    BY <1>1 DEF Once, HeldOnce, Holds
  <2>4. ASSUME NEW k PROVE k \in InFlight' <=> k \in InFlight \ {task[s]}
    <3>1. k \in InFlight' <=>
            \/ \E p \in Sessions : ppc'[p] = "enqueue" /\ k = task'[p]
            \/ \E q \in Queues : \E i \in Places(q) : k = queues[q][i]
      BY <1>4 DEF InFlight, Queues, Places
    <3> QED  BY <1>1, <1>2, <2>2, <2>3, <3>1, InFlightIs
  <2>5. InFlight' = InFlight \ {task[s]}
    BY <2>4
  <2>6. task[s].msg \in Messages /\ Dispatch!Unbind(task[s].msg)
    BY <2>1, <2>5, Leaving
  <2>7. Dispatch!Drop(task[s].msg)
    BY <1>1, <1>4, <2>6 DEF Dispatch!Drop
  <2> QED  BY <2>6, <2>7 DEF Dispatch!Next
<1> QED  BY <1>1, <1>3, <1>4 DEF Enqueue

(* A worker hands the head of a queue to its handler.                      *)
LEMMA TakeGives ==
  ASSUME TypeInv, Once, TypeInv', Once', NEW w \in Workers, WorkerTake(w)
  PROVE  Dispatch!Next
<1>1. /\ wq[w] \in Queues /\ queues[wq[w]] # <<>>
      /\ queues' = [queues EXCEPT ![wq[w]] = Tail(queues[wq[w]])]
      /\ started' = started \cup {Head(queues[wq[w]])}
      /\ UNCHANGED <<task, ppc, handlers, dropped>>
  BY DEF WorkerTake, Taken, Remaining, TypeInv, PoolOK, Queues, pumps
<1>2. ASSUME NEW q \in Queues, queues[q] # <<>>,
             queues' = [queues EXCEPT ![q] = Tail(queues[q])],
             started' = started \cup {Head(queues[q])}
      PROVE  Dispatch!Next
  <2> DEFINE k == queues[q][1]
  <2>1. /\ 1 \in Places(q) /\ started' = started \cup {k}
        /\ \A r \in Queues \ {q} : queues'[r] = queues[r] /\ Places(r)' = Places(r)
        /\ \A i \in Places(q)' :
             i + 1 \in Places(q) /\ i + 1 # 1 /\ queues'[q][i] = queues[q][i + 1]
        /\ \A i \in Places(q) \ {1} :
             i - 1 \in Places(q)' /\ queues'[q][i - 1] = queues[q][i]
    BY <1>2, Taking DEF Places
  <2>2. k \in InFlight
    BY <2>1, InFlightIs
  <2>3. \A s \in Sessions : ppc[s] = "enqueue" => task[s] # k
    BY <2>1 DEF Once, HeldOnce, Holds
  <2>4. \A r \in Queues : \A i \in Places(r) : queues[r][i] = k => r = q /\ i = 1
    BY <2>1 DEF Once, QueuedOnce
  <2>5. ASSUME NEW j PROVE j \in InFlight' <=> j \in InFlight \ {k}
    <3>1. j \in InFlight' <=>
            \/ \E p \in Sessions : ppc'[p] = "enqueue" /\ j = task'[p]
            \/ \E r \in Queues : \E i \in Places(r)' : j = queues'[r][i]
      BY DEF InFlight, Queues, Places
    <3>2. (\E r \in Queues : \E i \in Places(r)' : j = queues'[r][i])
            <=> (\E r \in Queues : \E i \in Places(r) :
                   j = queues[r][i] /\ ~(r = q /\ i = 1))
      <4>1. ASSUME NEW r \in Queues, NEW i \in Places(r)', j = queues'[r][i]
            PROVE  \E t \in Queues : \E l \in Places(t) :
                     j = queues[t][l] /\ ~(t = q /\ l = 1)
        BY <2>1, <4>1
      <4>2. ASSUME NEW r \in Queues, NEW i \in Places(r), j = queues[r][i],
                   ~(r = q /\ i = 1)
            PROVE  \E t \in Queues : \E l \in Places(t)' : j = queues'[t][l]
        BY <2>1, <4>2
      <4> QED  BY <4>1, <4>2
    <3>3. j \in InFlight /\ j # k <=>
            \/ \E p \in Sessions : ppc[p] = "enqueue" /\ j = task[p]
            \/ \E r \in Queues : \E i \in Places(r) :
                 j = queues[r][i] /\ ~(r = q /\ i = 1)
      BY <2>3, <2>4, InFlightIs
    <3> QED  BY <1>1, <3>1, <3>2, <3>3
  <2> HIDE DEF k
  <2>6. InFlight' = InFlight \ {k}
    BY <2>5
  <2>7. /\ k.msg \in Messages /\ Dispatch!Unbind(k.msg)
        /\ Bound[k.msg] = k.handler
    BY <2>2, <2>6, Leaving
  <2>8. Given' = Given \cup {<<k.msg, Bound[k.msg]>>}
    BY <2>1, <2>7 DEF Given
  <2>9. ASSUME NEW m, m = k.msg PROVE Dispatch!Give(m)
    BY <1>1, <2>7, <2>8, <2>9 DEF Dispatch!Give, Given
  <2> QED  BY <2>7, <2>9 DEF Dispatch!Next
<1> QED  BY <1>1, <1>2

(* Whoever registers a handler registers it as MessageDispatch does.       *)
LEMMA Registers ==
  ASSUME InFlight' = InFlight, UNCHANGED <<started, dropped>>,
         NEW t \in Topics, NEW h \in Handlers \cup {NoHandler}, Register(t, h)
  PROVE  Dispatch!Next
<1>1. Dispatch!Register(t, h)
  BY FlightKept DEF Register, Dispatch!Register
<1> QED  BY <1>1 DEF Dispatch!Next

(* Every step of the pipeline is one of MessageDispatch, or none.          *)
LEMMA DispatchStep ==
  TypeInv /\ Once /\ TypeInv' /\ Once' /\ [Next]_vars
    => [Dispatch!Next]_(Dispatch!vars)
<1> SUFFICES ASSUME TypeInv, Once, TypeInv', Once', [Next]_vars
             PROVE  Dispatch!Next \/ UNCHANGED Dispatch!vars
  OBVIOUS
<1> DEFINE Simulated == Dispatch!Next \/ UNCHANGED Dispatch!vars
<1>0. DOMAIN task = Sessions /\ DOMAIN ppc = Sessions
  BY DEF TypeInv, PumpsOK
<1>1. ASSUME UNCHANGED <<handlers, queues, task, ppc, started, dropped>>
      PROVE  Simulated
  BY <1>1, FlightOfPumps, FlightKept DEF Dispatch!vars
<1>2. ASSUME NEW s \in Sessions, NEW to, ppc[s] # "enqueue", to # "enqueue",
             ppc' = [ppc EXCEPT ![s] = to],
             \A r \in Sessions \ {s} : task'[r] = task[r],
             UNCHANGED <<handlers, queues, started, dropped>>
      PROVE  Simulated
  <2>1. \A r \in Sessions : /\ ppc'[r] = "enqueue" <=> ppc[r] = "enqueue"
                            /\ ppc[r] = "enqueue" => task'[r] = task[r]
    BY <1>0, <1>2
  <2> QED  BY <1>2, <2>1, FlightOfPumps, FlightKept DEF Dispatch!vars
<1>3. ASSUME NEW s \in Sessions,
             Launch(s) \/ PumpTop(s) \/ PumpFail(s) \/ PumpStop(s)
      PROVE  Simulated
  <2>1. Launch(s) => ppc[s] = "none"
    BY DEF Launch, ConnectAt, Once, PumpAfterQueue
  <2>2. /\ ppc[s] # "enqueue" /\ UNCHANGED <<handlers, queues, started, dropped, task>>
        /\ \E to \in {"top", "read", "stop", "end"} : ppc' = [ppc EXCEPT ![s] = to]
    BY <1>3, <2>1
       DEF Launch, PumpTop, PumpFail, PumpStop, PumpGoes, runs
  <2> HIDE DEF Simulated
  <2> QED  BY <1>2, <2>2
<1>4. ASSUME NEW s \in Sessions, PumpRead(s) \/ Ignore(s) PROVE Simulated
  <2>1. /\ ppc[s] # "enqueue" /\ UNCHANGED <<handlers, queues, started, dropped>>
        /\ \E to \in {"lookup", "top"} : ppc' = [ppc EXCEPT ![s] = to]
        /\ \E k : task' = [task EXCEPT ![s] = k]
    BY <1>4 DEF PumpRead, Ignore, PumpGoes, runs
  <2>2. \A r \in Sessions \ {s} : task'[r] = task[r]
    BY <1>0, <2>1
  <2> HIDE DEF Simulated
  <2> QED  BY <1>2, <2>1, <2>2
<1>5. ASSUME NEW s \in Sessions, Lookup(s) PROVE Simulated
  BY <1>5, LookupBinds
<1>6. ASSUME NEW s \in Sessions, Enqueue(s) PROVE Simulated
  BY <1>6, EnqueueMovesOrDrops
<1>7. ASSUME NEW w \in Workers, WorkerTake(w) PROVE Simulated
  BY <1>7, TakeGives
<1>8. ASSUME NEW t \in Topics, NEW h \in Handlers \cup {NoHandler},
             Register(t, h), UNCHANGED <<queues, task, ppc, started, dropped>>
      PROVE  Simulated
  BY <1>8, FlightOfPumps, Registers
<1>9. ASSUME NEW c \in Callers, SubscribeWrite(c) \/ Unsubscribe(c)
      PROVE  Simulated
  <2>1. SubscribeWrite(c) => arg[c][1] \in Topics /\ arg[c][2] \in Handlers
    BY DEF SubscribeWrite, TypeInv, AppOK
  <2> HIDE DEF Simulated
  <2> QED  BY <1>8, <1>9, <2>1 DEF SubscribeWrite, Unsubscribe, pumps, runs
<1>10. ASSUME NEW s \in Sessions, NEW t \in Topics, RestoreWrite(s, t)
       PROVE  Simulated
  <2>1. snap[s][t] \in Handlers \cup {NoHandler}
    BY DEF TypeInv, LifeOK, Map
  <2> HIDE DEF Simulated
  <2> QED  BY <1>8, <1>10, <2>1 DEF RestoreWrite, pumps, runs
<1>11. Simulated
  <2> HIDE DEF Simulated
  <2> QED
    BY <1>1, <1>3, <1>4, <1>5, <1>6, <1>7, <1>9, <1>10
       DEF Next, CallerStep, ConnectStep, ProcessStep, PumpStep, WorkerStep, Rest,
           Subscribe, Close, CloseDone, Dial, Publish, Join, Snapshot,
           RestoreCheck, WorkerTop, WorkerStop, WorkerNext, HandlerReturns,
           HandlerPanics, vars, pumps, runs
<1> QED  BY <1>11

(* Whatever happens to the map, the queues and the sessions, a message is  *)
(* bound once, to the handler found then, and dropped or handed to it at   *)
(* most once (604-624, 986-1027).                                          *)
THEOREM RefinesDispatch == Spec => ImplementsDispatch
<1>1. Init => Dispatch!Init
  <2> SUFFICES ASSUME Init PROVE Dispatch!Init
    OBVIOUS
  <2>1. InFlight = {}
    BY DEF Init, InFlight
  <2>2. Bound = [m \in Messages |-> NoHandler]
    BY <2>1 DEF Bound
  <2> QED  BY <2>2 DEF Init, Empty, Dispatch!Init
<1> QED
  BY <1>1, OnceHolds, DispatchStep, PTL DEF Spec, ImplementsDispatch, Dispatch!Spec

-----------------------------------------------------------------------------
(* The handlers, as the code above the connector sees them.                *)

(* A resubscription has something to register only between its copy and    *)
(* its end; what it is about to register is still to be registered.        *)
Restoring ==
  /\ \A s \in Sessions : cpc[s] # "restore" => snap[s] = Empty
  /\ \A s \in Sessions, t \in Topics :
       t \in checked[s] => checked[s] = {t} /\ snap[s][t] # NoHandler

(* Every step keeps this.                                                  *)
LEMMA RestoringStep == TypeInv /\ Restoring /\ [Next]_vars => Restoring'
<1> SUFFICES ASSUME TypeInv, Restoring, [Next]_vars PROVE Restoring'
  OBVIOUS
<1>0. /\ cpc \in [Sessions -> {"none", "publish", "join", "queue", "snapshot",
                               "restore"}]
      /\ snap \in [Sessions -> Map] /\ checked \in [Sessions -> SUBSET Topics]
  BY DEF TypeInv, LifeOK
<1>1. CASE UNCHANGED <<cpc, snap, checked>>
  BY <1>1 DEF Restoring
<1>2. ASSUME NEW s \in Sessions, Dial(s) \/ Publish(s) \/ Join(s) \/ Launch(s)
      PROVE  Restoring'
  <2>1. /\ cpc[s] # "restore" /\ UNCHANGED <<snap, checked>>
        /\ \E to : cpc' = [cpc EXCEPT ![s] = to]
    BY <1>2 DEF Dial, Publish, Join, Launch, ConnectAt
  <2> QED  BY <1>0, <2>1 DEF Restoring
<1>3. ASSUME NEW s \in Sessions, Snapshot(s) PROVE Restoring'
  <2>1. /\ cpc[s] = "snapshot" /\ cpc' = [cpc EXCEPT ![s] = "restore"]
        /\ snap' = [snap EXCEPT ![s] = handlers] /\ checked' = checked
    BY <1>3 DEF Snapshot, ConnectAt
  <2>2. snap[s] = Empty /\ checked[s] = {}
    BY <1>0, <2>1 DEF Restoring, Empty
  <2> QED  BY <1>0, <2>1, <2>2 DEF Restoring
<1>4. ASSUME NEW s \in Sessions, NEW t \in Topics, RestoreCheck(s, t)
      PROVE  Restoring'
  <2>1. /\ cpc[s] = "restore" /\ cpc' = [cpc EXCEPT ![s] = "restore"]
        /\ checked[s] = {} /\ snap[s][t] # NoHandler
        /\ \/ checked' = [checked EXCEPT ![s] = {t}] /\ snap' = snap
           \/ /\ snap' = [snap EXCEPT ![s] = [snap[s] EXCEPT ![t] = NoHandler]]
              /\ checked' = checked
    BY <1>4 DEF RestoreCheck, ConnectAt
  <2> QED  BY <1>0, <2>1 DEF Restoring
<1>5. ASSUME NEW s \in Sessions, NEW t \in Topics, RestoreWrite(s, t)
      PROVE  Restoring'
  <2>1. /\ cpc[s] = "restore" /\ cpc' = [cpc EXCEPT ![s] = "restore"]
        /\ checked' = [checked EXCEPT ![s] = {}]
        /\ \E m : snap' = [snap EXCEPT ![s] = m]
    BY <1>5 DEF RestoreWrite, ConnectAt
  <2> QED  BY <1>0, <2>1 DEF Restoring
<1> QED
  BY <1>1, <1>2, <1>3, <1>4, <1>5
     DEF Next, CallerStep, ConnectStep, ProcessStep, PumpStep, WorkerStep, Rest,
         Subscribe, SubscribeWrite, Unsubscribe, Close, CloseDone, PumpFail,
         PumpStop, PumpTop, PumpRead, Ignore, Lookup, Enqueue, WorkerTop,
         WorkerTake, WorkerStop, WorkerNext, HandlerReturns, HandlerPanics,
         vars, life

(* The pairs of a map in which one topic gets another handler.             *)
LEMMA PairsChange ==
  ASSUME NEW m \in Map, NEW t \in Topics, NEW h \in Handlers
  PROVE  Pairs([m EXCEPT ![t] = h])
           = {pair \in Pairs(m) : pair[1] # t} \cup {<<t, h>>}
<1>1. h # NoHandler
  BY PipelineAssumption
<1>2. DOMAIN m = Topics
  BY DEF Map
<1>3. \A p : p \in Pairs([m EXCEPT ![t] = h])
               <=> (p \in Pairs(m) /\ p[1] # t) \/ p = <<t, h>>
  BY <1>1, <1>2 DEF Pairs
<1> QED  BY <1>3

(* And of one in which a topic loses its handler.                          *)
LEMMA PairsCleared ==
  ASSUME NEW m \in Map, NEW t \in Topics
  PROVE  Pairs([m EXCEPT ![t] = NoHandler]) = {pair \in Pairs(m) : pair[1] # t}
<1>1. DOMAIN m = Topics
  BY DEF Map
<1>2. \A p : p \in Pairs([m EXCEPT ![t] = NoHandler])
               <=> p \in Pairs(m) /\ p[1] # t
  BY <1>1 DEF Pairs
<1> QED  BY <1>2

(* A pair settled is a topic cleared.                                      *)
LEMMA PairsSettle ==
  ASSUME NEW m \in Map, NEW t \in Topics, m[t] # NoHandler
  PROVE  /\ <<t, m[t]>> \in Pairs(m)
         /\ Pairs([m EXCEPT ![t] = NoHandler]) = Pairs(m) \ {<<t, m[t]>>}
<1>1. DOMAIN m = Topics
  BY DEF Map
<1>2. \A p : p \in Pairs([m EXCEPT ![t] = NoHandler])
               <=> p \in Pairs(m) /\ p # <<t, m[t]>>
  BY <1>1 DEF Pairs
<1> QED  BY <1>2 DEF Pairs

(* What each writer has still to register.                                 *)
LEMMA OwedIs ==
  /\ \A c \in Callers :
       /\ <<"caller", c>> \in Writers
       /\ Owed[<<"caller", c>>] = IF apc[c] = "sub_write" THEN {arg[c]} ELSE {}
  /\ \A s \in Sessions :
       /\ <<"session", s>> \in Writers
       /\ Owed[<<"session", s>>] = Pairs(snap[s])
<1>1. ASSUME NEW c \in Callers
      PROVE  /\ <<"caller", c>> \in Writers
             /\ Owed[<<"caller", c>>] = IF apc[c] = "sub_write" THEN {arg[c]} ELSE {}
  <2>1. <<"caller", c>> \in Writers
    BY DEF Writers
  <2>2. <<"caller", c>>[1] # "session" /\ <<"caller", c>>[2] = c
    OBVIOUS
  <2> QED  BY <2>1, <2>2 DEF Owed
<1>2. ASSUME NEW s \in Sessions
      PROVE  <<"session", s>> \in Writers /\ Owed[<<"session", s>>] = Pairs(snap[s])
  <2>1. <<"session", s>> \in Writers
    BY DEF Writers
  <2>2. <<"session", s>>[1] = "session" /\ <<"session", s>>[2] = s
    OBVIOUS
  <2> QED  BY <2>1, <2>2 DEF Owed
<1> QED  BY <1>1, <1>2

(* The same after a step.                                                  *)
LEMMA OwedNext ==
  /\ \A c \in Callers :
       Owed'[<<"caller", c>>] = IF apc'[c] = "sub_write" THEN {arg'[c]} ELSE {}
  /\ \A s \in Sessions : Owed'[<<"session", s>>] = Pairs(snap'[s])
<1>1. ASSUME NEW c \in Callers
      PROVE  Owed'[<<"caller", c>>] = IF apc'[c] = "sub_write" THEN {arg'[c]} ELSE {}
  <2>1. <<"caller", c>> \in Writers
    BY DEF Writers
  <2>2. <<"caller", c>>[1] # "session" /\ <<"caller", c>>[2] = c
    OBVIOUS
  <2> QED  BY <2>1, <2>2 DEF Owed
<1>2. ASSUME NEW s \in Sessions
      PROVE  Owed'[<<"session", s>>] = Pairs(snap'[s])
  <2>1. <<"session", s>> \in Writers
    BY DEF Writers
  <2>2. <<"session", s>>[1] = "session" /\ <<"session", s>>[2] = s
    OBVIOUS
  <2> QED  BY <2>1, <2>2 DEF Owed, Pairs
<1> QED  BY <1>1, <1>2

(* There are no other writers.                                             *)
LEMMA WriterForms ==
  ASSUME NEW w \in Writers
  PROVE  \/ \E c \in Callers : w = <<"caller", c>>
         \/ \E s \in Sessions : w = <<"session", s>>
BY DEF Writers

(* A step of one writer.                                                   *)
LEMMA OneWriterOwes ==
  ASSUME NEW w \in Writers, NEW pairs, Owed'[w] = pairs,
         \A v \in Writers \ {w} : Owed'[v] = Owed[v]
  PROVE  Owed' = [Owed EXCEPT ![w] = pairs]
<1> DEFINE old == Owed
           new == Owed'
<1>1. /\ old = [v \in Writers |-> old[v]] /\ new = [v \in Writers |-> new[v]]
  BY DEF Owed
<1>2. new[w] = pairs /\ \A v \in Writers \ {w} : new[v] = old[v]
  OBVIOUS
<1> HIDE DEF old, new
<1>3. new = [old EXCEPT ![w] = pairs]
  BY <1>1, <1>2
<1> QED  BY <1>3 DEF old, new

(* A call of Subscribe alone changes what it owes.                         *)
LEMMA CallerOwes ==
  ASSUME NEW c \in Callers, snap' = snap,
         \A b \in Callers \ {c} : apc'[b] = apc[b] /\ arg'[b] = arg[b]
  PROVE  Owed' = [Owed EXCEPT ![<<"caller", c>>] =
                    IF apc'[c] = "sub_write" THEN {arg'[c]} ELSE {}]
<1>1. ASSUME NEW v \in Writers \ {<<"caller", c>>} PROVE Owed'[v] = Owed[v]
  <2>1. CASE \E b \in Callers : v = <<"caller", b>>
    <3>1. PICK b \in Callers : v = <<"caller", b>>
      BY <2>1
    <3>2. apc'[b] = apc[b] /\ arg'[b] = arg[b]
      BY <3>1
    <3> QED  BY <3>1, <3>2, OwedIs, OwedNext
  <2>2. CASE \E s \in Sessions : v = <<"session", s>>
    BY <2>2, OwedIs, OwedNext
  <2> QED  BY <2>1, <2>2, WriterForms
<1> DEFINE pairs == IF apc'[c] = "sub_write" THEN {arg'[c]} ELSE {}
<1>2. <<"caller", c>> \in Writers /\ Owed'[<<"caller", c>>] = pairs
  BY OwedIs, OwedNext
<1> HIDE DEF pairs
<1>3. Owed' = [Owed EXCEPT ![<<"caller", c>>] = pairs]
  BY <1>1, <1>2, OneWriterOwes
<1> QED  BY <1>3 DEF pairs

(* And so does a resubscription.                                           *)
LEMMA SessionOwes ==
  ASSUME NEW s \in Sessions, UNCHANGED <<apc, arg>>,
         \A r \in Sessions \ {s} : snap'[r] = snap[r]
  PROVE  Owed' = [Owed EXCEPT ![<<"session", s>>] = Pairs(snap'[s])]
<1>1. ASSUME NEW v \in Writers \ {<<"session", s>>} PROVE Owed'[v] = Owed[v]
  <2>1. CASE \E c \in Callers : v = <<"caller", c>>
    <3>1. PICK c \in Callers : v = <<"caller", c>>
      BY <2>1
    <3>2. apc'[c] = apc[c] /\ arg'[c] = arg[c]
      OBVIOUS
    <3> QED  BY <3>1, <3>2, OwedIs, OwedNext
  <2>2. CASE \E r \in Sessions : v = <<"session", r>>
    <3>1. PICK r \in Sessions : v = <<"session", r>>
      BY <2>2
    <3>2. snap'[r] = snap[r]
      BY <3>1
    <3> QED  BY <3>1, <3>2, OwedIs, OwedNext
  <2> QED  BY <2>1, <2>2, WriterForms
<1> QED  BY <1>1, OwedIs, OwedNext, OneWriterOwes

(* Nothing is owed differently.                                            *)
LEMMA SameOwed == UNCHANGED <<apc, arg, snap>> => Owed' = Owed
BY DEF Owed, Pairs

(* A step of the code is one of the handlers' map, or none.                *)
Mapped == [HMap!Next]_(HMap!vars)

(* A step that leaves the handlers and the writers alone.                  *)
LEMMA FlagMoves ==
  UNCHANGED <<handlers, apc, arg, snap>> /\ connected' \in BOOLEAN => Mapped
<1> SUFFICES ASSUME UNCHANGED <<handlers, apc, arg, snap>>, connected' \in BOOLEAN
             PROVE  Mapped
  OBVIOUS
<1>1. Owed' = Owed
  BY SameOwed
<1>2. Pairs(handlers)' = Pairs(handlers)
  BY DEF Pairs
<1> QED
  BY <1>1, <1>2 DEF Mapped, HMap!Next, HMap!Rise, HMap!Fall, HMap!vars

(* A writer registers a pair that it owes.                                 *)
LEMMA WriterRegisters ==
  ASSUME NEW w \in Writers, NEW t \in Topics, NEW h \in Handlers,
         handlers \in Map, Register(t, h), connected' = connected,
         <<t, h>> \in Owed[w],
         Owed' = [Owed EXCEPT ![w] = Owed[w] \ {<<t, h>>}]
  PROVE  Mapped
<1>1. Pairs(handlers)' = {pair \in Pairs(handlers) : pair[1] # t} \cup {<<t, h>>}
  BY PairsChange DEF Register, Pairs
<1>2. HMap!Register(w, <<t, h>>)
  BY <1>1 DEF HMap!Register, HMap!Settles, HMap!Without
<1>3. HMap!Next
  BY <1>2 DEF HMap!Next, HMap!WriterStep
<1> QED  BY <1>3 DEF Mapped

(* Subscribe: the caller owes a pair, or has found the connector down.     *)
LEMMA SubscribeMapped == TypeInv /\ (\E c \in Callers : Subscribe(c)) => Mapped
<1> SUFFICES ASSUME TypeInv, NEW c \in Callers, Subscribe(c) PROVE Mapped
  OBVIOUS
<1>1. UNCHANGED <<connected, handlers, snap>> /\ connected \in BOOLEAN
  BY DEF Subscribe, life, TypeInv, LifeOK
<1>2. CASE UNCHANGED <<apc, arg>>
  BY <1>1, <1>2, FlagMoves
<1>3. CASE ~UNCHANGED <<apc, arg>>
  <2> DEFINE w == <<"caller", c>>
  <2>1. /\ connected /\ apc[c] = "idle"
        /\ apc' = [apc EXCEPT ![c] = "sub_write"]
        /\ \E t \in Topics, h \in Handlers : arg' = [arg EXCEPT ![c] = <<t, h>>]
    BY <1>3 DEF Subscribe, Calls
  <2>2. PICK t \in Topics, h \in Handlers : arg' = [arg EXCEPT ![c] = <<t, h>>]
    BY <2>1
  <2>3. apc \in [Callers -> {"idle", "sub_write", "close_done"}]
        /\ arg \in [Callers -> {<<>>} \cup (Topics \X Handlers)]
    BY DEF TypeInv, AppOK
  <2>4. apc'[c] = "sub_write" /\ arg'[c] = <<t, h>>
    BY <2>1, <2>2, <2>3
  <2>5. \A b \in Callers \ {c} : apc'[b] = apc[b] /\ arg'[b] = arg[b]
    BY <2>1, <2>2, <2>3
  <2>6. Owed' = [Owed EXCEPT ![w] = {<<t, h>>}]
    BY <1>1, <2>4, <2>5, CallerOwes
  <2>7. w \in Writers /\ Owed[w] = {}
    BY <2>1, OwedIs
  <2> HIDE DEF w
  <2>8. Pairs(handlers)' = Pairs(handlers)
    BY <1>1 DEF Pairs
  <2>9. HMap!Subscribe(w, t, h)
    BY <1>1, <2>1, <2>6, <2>7, <2>8 DEF HMap!Subscribe, HMap!Owes
  <2> QED  BY <2>7, <2>9 DEF Mapped, HMap!Next, HMap!WriterStep
<1> QED  BY <1>2, <1>3

(* Its registration.                                                      *)
LEMMA WriteMapped == TypeInv /\ (\E c \in Callers : SubscribeWrite(c)) => Mapped
<1> SUFFICES ASSUME TypeInv, NEW c \in Callers, SubscribeWrite(c) PROVE Mapped
  OBVIOUS
<1> DEFINE w == <<"caller", c>>
<1>1. /\ apc[c] = "sub_write" /\ apc' = [apc EXCEPT ![c] = "idle"]
      /\ arg' = [arg EXCEPT ![c] = <<>>] /\ snap' = snap /\ connected' = connected
      /\ Register(arg[c][1], arg[c][2])
  BY DEF SubscribeWrite, life
<1>2. /\ apc \in [Callers -> {"idle", "sub_write", "close_done"}]
      /\ arg \in [Callers -> {<<>>} \cup (Topics \X Handlers)]
      /\ arg[c] \in Topics \X Handlers /\ handlers \in Map
  BY <1>1 DEF TypeInv, AppOK, MapOK
<1>3. PICK t \in Topics, h \in Handlers : arg[c] = <<t, h>>
  BY <1>2
<1>4. Register(t, h)
  BY <1>1, <1>3
<1>5. /\ apc'[c] # "sub_write"
      /\ \A b \in Callers \ {c} : apc'[b] = apc[b] /\ arg'[b] = arg[b]
  BY <1>1, <1>2
<1>6. w \in Writers /\ Owed[w] = {<<t, h>>}
  BY <1>1, <1>3, OwedIs
<1>7. Owed' = [Owed EXCEPT ![w] = {}]
  BY <1>1, <1>5, CallerOwes
<1>8. {} = Owed[w] \ {<<t, h>>} /\ <<t, h>> \in Owed[w]
  BY <1>6
<1> HIDE DEF w
<1>9. Owed' = [Owed EXCEPT ![w] = Owed[w] \ {<<t, h>>}]
  BY <1>7, <1>8
<1> QED  BY <1>1, <1>2, <1>4, <1>6, <1>8, <1>9, WriterRegisters

(* Unsubscribe.                                                            *)
LEMMA UnsubscribeMapped == TypeInv /\ (\E c \in Callers : Unsubscribe(c)) => Mapped
<1> SUFFICES ASSUME TypeInv, NEW c \in Callers, Unsubscribe(c) PROVE Mapped
  OBVIOUS
<1>1. UNCHANGED <<connected, apc, arg, snap>> /\ handlers \in Map
  BY DEF Unsubscribe, life, TypeInv, MapOK
<1>2. PICK t \in Topics : Register(t, NoHandler)
  BY DEF Unsubscribe
<1>3. Pairs(handlers)' = {pair \in Pairs(handlers) : pair[1] # t}
  BY <1>1, <1>2, PairsCleared DEF Register, Pairs
<1>4. Owed' = Owed
  BY <1>1, SameOwed
<1>5. HMap!Unsubscribe(t)
  BY <1>1, <1>3, <1>4 DEF HMap!Unsubscribe, HMap!Without
<1> QED  BY <1>5 DEF Mapped, HMap!Next

(* A resubscription starts with all that it finds.                         *)
LEMMA SnapshotMapped ==
  TypeInv /\ Restoring /\ (\E s \in Sessions : Snapshot(s)) => Mapped
<1> SUFFICES ASSUME TypeInv, Restoring, NEW s \in Sessions, Snapshot(s)
             PROVE  Mapped
  OBVIOUS
<1> DEFINE w == <<"session", s>>
<1>1. /\ cpc[s] = "snapshot" /\ snap' = [snap EXCEPT ![s] = handlers]
      /\ UNCHANGED <<connected, handlers, apc, arg>>
  BY DEF Snapshot, ConnectAt, app
<1>2. snap \in [Sessions -> Map] /\ snap[s] = Empty
  BY <1>1 DEF TypeInv, LifeOK, Restoring
<1>3. snap'[s] = handlers /\ \A r \in Sessions \ {s} : snap'[r] = snap[r]
  BY <1>1, <1>2
<1>4. Pairs(Empty) = {}
  BY DEF Pairs, Empty
<1>5. w \in Writers /\ Owed[w] = {}
  BY <1>2, <1>4, OwedIs
<1>6. Pairs(snap'[s]) = Pairs(handlers) /\ Pairs(handlers)' = Pairs(handlers)
  BY <1>1, <1>3 DEF Pairs
<1>7. Owed' = [Owed EXCEPT ![w] = Pairs(handlers)]
  BY <1>1, <1>3, <1>6, SessionOwes
<1> HIDE DEF w
<1>8. HMap!Resubscribe(w)
  BY <1>1, <1>5, <1>6, <1>7 DEF HMap!Resubscribe, HMap!Owes
<1> QED  BY <1>5, <1>8 DEF Mapped, HMap!Next, HMap!WriterStep

(* A resubscription settles one of its pairs.                              *)
LEMMA SnapSettles ==
  ASSUME NEW s \in Sessions, NEW t \in Topics, TypeInv, snap[s][t] # NoHandler,
         snap' = [snap EXCEPT ![s][t] = NoHandler], UNCHANGED <<apc, arg>>
  PROVE  LET w == <<"session", s>> IN
         /\ w \in Writers /\ <<t, snap[s][t]>> \in Owed[w]
         /\ Owed' = [Owed EXCEPT ![w] = Owed[w] \ {<<t, snap[s][t]>>}]
<1> DEFINE w == <<"session", s>>
           pair == <<t, snap[s][t]>>
<1>1. snap \in [Sessions -> Map]
  BY DEF TypeInv, LifeOK
<1>2. /\ snap'[s] = [snap[s] EXCEPT ![t] = NoHandler]
      /\ \A r \in Sessions \ {s} : snap'[r] = snap[r]
  BY <1>1
<1>3. pair \in Pairs(snap[s]) /\ Pairs(snap'[s]) = Pairs(snap[s]) \ {pair}
  BY <1>1, <1>2, PairsSettle DEF Pairs
<1>4. w \in Writers /\ Owed[w] = Pairs(snap[s])
  BY OwedIs
<1>5. Owed' = [Owed EXCEPT ![w] = Pairs(snap'[s])]
  BY <1>2, SessionOwes
<1> HIDE DEF pair, w
<1>6. /\ w \in Writers /\ pair \in Owed[w]
      /\ Owed' = [Owed EXCEPT ![w] = Owed[w] \ {pair}]
  BY <1>3, <1>4, <1>5
<1> QED  BY <1>6 DEF pair, w

(* It finds the connector connected, or gives the topic up.                *)
LEMMA CheckMapped ==
  TypeInv /\ (\E s \in Sessions, t \in Topics : RestoreCheck(s, t)) => Mapped
<1> SUFFICES ASSUME TypeInv, NEW s \in Sessions, NEW t \in Topics, RestoreCheck(s, t)
             PROVE  Mapped
  OBVIOUS
<1>1. /\ UNCHANGED <<connected, handlers, apc, arg>> /\ connected \in BOOLEAN
      /\ snap[s][t] # NoHandler
  BY DEF RestoreCheck, app, TypeInv, LifeOK
<1>2. CASE snap' = snap
  BY <1>1, <1>2, FlagMoves
<1>3. CASE ~connected /\ snap' = [snap EXCEPT ![s][t] = NoHandler]
  <2> DEFINE w == <<"session", s>>
             pair == <<t, snap[s][t]>>
  <2>1. /\ w \in Writers /\ pair \in Owed[w]
        /\ Owed' = [Owed EXCEPT ![w] = Owed[w] \ {pair}]
    BY <1>1, <1>3, SnapSettles
  <2> HIDE DEF w, pair
  <2>2. Pairs(handlers)' = Pairs(handlers)
    BY <1>1 DEF Pairs
  <2>3. HMap!GiveUp(w, pair)
    BY <1>1, <1>3, <2>1, <2>2 DEF HMap!GiveUp, HMap!Settles
  <2> QED  BY <2>1, <2>3 DEF Mapped, HMap!Next, HMap!WriterStep
<1> QED  BY <1>2, <1>3 DEF RestoreCheck

(* It registers the topic.                                                 *)
LEMMA RestoreMapped ==
  /\ TypeInv /\ Restoring
  /\ \E s \in Sessions, t \in Topics : RestoreWrite(s, t)
  => Mapped
<1> SUFFICES ASSUME TypeInv, Restoring, NEW s \in Sessions, NEW t \in Topics,
                    RestoreWrite(s, t)
             PROVE  Mapped
  OBVIOUS
<1>1. /\ UNCHANGED <<connected, apc, arg>> /\ t \in checked[s]
      /\ Register(t, snap[s][t]) /\ snap' = [snap EXCEPT ![s][t] = NoHandler]
  BY DEF RestoreWrite, app
<1>2. snap[s][t] # NoHandler
  BY <1>1 DEF Restoring
<1>3. snap[s][t] \in Handlers /\ handlers \in Map
  BY <1>2 DEF TypeInv, LifeOK, MapOK, Map
<1>4. /\ <<"session", s>> \in Writers /\ <<t, snap[s][t]>> \in Owed[<<"session", s>>]
      /\ Owed' = [Owed EXCEPT ![<<"session", s>>] =
                    Owed[<<"session", s>>] \ {<<t, snap[s][t]>>}]
  BY <1>1, <1>2, SnapSettles
<1> QED  BY <1>1, <1>3, <1>4, WriterRegisters

(* Every other step raises the flag, lowers it, or leaves all this alone.  *)
LEMMA OthersMapped ==
  ASSUME TypeInv, [Next]_vars,
         \A c \in Callers : ~Subscribe(c) /\ ~SubscribeWrite(c) /\ ~Unsubscribe(c),
         \A s \in Sessions : ~Snapshot(s),
         \A s \in Sessions, t \in Topics : ~RestoreCheck(s, t) /\ ~RestoreWrite(s, t)
  PROVE  Mapped
<1>0. /\ connected \in BOOLEAN
      /\ apc \in [Callers -> {"idle", "sub_write", "close_done"}]
  BY DEF TypeInv, LifeOK, AppOK
<1>1. CASE UNCHANGED <<handlers, apc, arg, snap>> /\ connected' \in BOOLEAN
  BY <1>0, <1>1, FlagMoves
<1>2. ASSUME NEW c \in Callers, Close(c) \/ CloseDone(c) PROVE Mapped
  <2>1. /\ UNCHANGED <<handlers, arg, snap>> /\ connected' \in BOOLEAN
        /\ apc[c] # "sub_write"
        /\ \E to \in {"idle", "close_done"} : apc' = [apc EXCEPT ![c] = to]
    BY <1>0, <1>2 DEF Close, CloseDone, Calls
  <2>2. /\ apc'[c] # "sub_write"
        /\ \A b \in Callers \ {c} : apc'[b] = apc[b] /\ arg'[b] = arg[b]
    BY <1>0, <2>1
  <2>3. Owed' = [Owed EXCEPT ![<<"caller", c>>] = {}]
    BY <2>1, <2>2, CallerOwes
  <2>4. Owed[<<"caller", c>>] = {}
    BY <2>1, OwedIs
  <2>5. Owed' = Owed
    BY <2>3, <2>4 DEF Owed
  <2>6. Pairs(handlers)' = Pairs(handlers)
    BY <2>1 DEF Pairs
  <2> QED
    BY <1>0, <2>1, <2>5, <2>6
       DEF Mapped, HMap!Next, HMap!Rise, HMap!Fall, HMap!vars
<1>3. ASSUME NEW s \in Sessions, Dial(s) \/ Publish(s) \/ Join(s) \/ Launch(s)
      PROVE  Mapped
  BY <1>0, <1>1, <1>3 DEF Dial, Publish, Join, Launch, app
<1>4. ASSUME NEW s \in Sessions, PumpStep(s) PROVE Mapped
  BY <1>0, <1>1, <1>4
     DEF PumpStep, ProcessStep, PumpFail, PumpStop, PumpTop, PumpRead, Ignore,
         Lookup, Enqueue, life, app
<1>5. ASSUME NEW w \in Workers, WorkerStep(w) PROVE Mapped
  BY <1>0, <1>1, <1>5
     DEF WorkerStep, WorkerTop, WorkerTake, WorkerStop, WorkerNext, life, app
<1>6. ASSUME NEW k, HandlerReturns(k) \/ HandlerPanics(k) PROVE Mapped
  BY <1>0, <1>1, <1>6 DEF HandlerReturns, HandlerPanics, life, app
<1>7. CASE Rest \/ UNCHANGED vars
  BY <1>0, <1>1, <1>7 DEF Rest, vars, life, app
<1> QED
  BY <1>2, <1>3, <1>4, <1>5, <1>6, <1>7 DEF Next, CallerStep, ConnectStep

(* Every step of the pipeline is one of the map, or none.                  *)
LEMMA HandlerMapStep == TypeInv /\ Restoring /\ [Next]_vars => Mapped
BY SubscribeMapped, WriteMapped, UnsubscribeMapped, SnapshotMapped, CheckMapped,
   RestoreMapped, OthersMapped

(* A handler outlives the connections: whatever is lost, closed or dialled *)
(* again meanwhile, the map changes by Unsubscribe and by the registrations *)
(* of a Subscribe that found the connector connected and of resubscriptions *)
(* alone, and a resubscription leaves out only what it finds the connector *)
(* down for (807-836, 960-976).                                            *)
THEOREM RefinesHandlerMap == Spec => ImplementsHandlerMap
<1>1. Init => Restoring /\ HMap!Init
  <2> SUFFICES ASSUME Init PROVE Restoring /\ HMap!Init
    OBVIOUS
  <2>1. Restoring
    BY DEF Init, Restoring
  <2>2. Pairs(Empty) = {}
    BY DEF Pairs, Empty
  <2>3. Owed = [w \in Writers |-> {}]
    <3>1. \A w \in Writers : Owed[w] = {}
      BY <2>2, OwedIs, WriterForms DEF Init
    <3> QED  BY <3>1 DEF Owed
  <2> QED  BY <2>1, <2>2, <2>3 DEF Init, HMap!Init
<1> QED
  BY <1>1, TypesHold, RestoringStep, HandlerMapStep, PTL
     DEF Spec, ImplementsHandlerMap, HMap!Spec, Mapped

=============================================================================

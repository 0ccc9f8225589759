-------------------------- MODULE HTTPClientProofs --------------------------
(* Proofs about HTTPClient: its limiter is used as RateLimiter says, so    *)
(* that what is proved there holds here; and what a call of Do returns.    *)
EXTENDS HTTPClient, RateLimiterProofs

(* Where the call of c is, its attempts and the answers they met with.     *)
Answered(c, a) == \E i \in 1 .. Len(log[c]) : log[c][i].answer = a

Counted(c) ==
  /\ at[c] \in {"limit", "start"} => Len(log[c]) = 0 /\ n[c] = 0
  /\ at[c] = "attempt" => Len(log[c]) <= n[c] /\ n[c] <= attempts
  /\ at[c] \in {"flight", "failed"} =>
       Len(log[c]) <= n[c] + 1 /\ n[c] < attempts
  /\ at[c] = "delay" => Len(log[c]) <= n[c] + 1 /\ n[c] + 1 < attempts
  /\ at[c] = "idle" => Len(log[c]) <= attempts

Waiting(c) ==
  /\ at[c] = "flight" => Len(log[c]) > 0
  /\ \A i \in 1 .. Len(log[c]) :
       /\ log[c][i].answer = "pending" => at[c] = "flight" /\ i = Len(log[c])
       /\ log[c][i].answer = "final" => at[c] = "idle" /\ i = Len(log[c])
  /\ outcome[c] = "response" <=> Answered(c, "final")

Intact(c) ==
  /\ body[c].kind = "memory" => body[c].holds = "whole"
  /\ Len(log[c]) > 0 => body[c].copied
  /\ \A i \in 1 .. Len(log[c]) :
       /\ log[c][i].body.holds = body[c].holds
       /\ log[c][i].body.kind = "memory" => log[c][i].body.holds = "whole"

HTTPTypes ==
  /\ attempts \in Nat
  /\ at \in [Callers -> {"idle", "limit", "start", "attempt", "flight",
                         "failed", "delay"}]
  /\ body \in [Callers -> Body]
  /\ n \in [Callers -> Nat]
  /\ log \in [Callers -> Seq(Request)]
  /\ outcome \in [Callers -> {"none", "response", "error"}]

DoInv == /\ HTTPTypes
         /\ \A c \in Callers : Counted(c) /\ Waiting(c) /\ Intact(c)

-----------------------------------------------------------------------------
(* A step of the client is a step of the limiter, or leaves it alone.      *)
LEMMA StepOfLimiter == [HTTPNext]_all => [Next]_vars
<1> SUFFICES ASSUME [HTTPNext]_all PROVE [Next]_vars
  OBVIOUS
<1>1. CASE UNCHANGED vars
  BY <1>1
<1>2. ASSUME NEW c \in Callers,
             DoRejected(c) \/ DoBegin(c) \/ DoWaits(c) \/ SetRateLimit(c)
      PROVE  Next
  BY <1>2 DEF DoRejected, DoBegin, DoWaits, SetRateLimit, Next, CallerStep
<1>3. CASE Tick \/ \E c \in Callers : Cancel(c)
  BY <1>3 DEF Next
<1> QED
  BY <1>1, <1>2, <1>3
     DEF HTTPNext, DoStep, HTTPRest, NoRequest, StartCancelled, Start,
         Exhausted, ReadFails, SendCancelled, Send, Answer, FlightFails,
         FlightCancelled, LogPanics, GiveUp, Delay, DelayEnds, DelayCancelled,
         all

(* The client implements RateLimiter: calls of Do, however they interleave *)
(* with SetRateLimit, use the limiter as its own callers may (http.go 237, *)
(* 357).                                                                   *)
THEOREM ClientImplementsLimiter == HTTPSpec => Spec
<1>1. HTTPInit => Init
  BY DEF HTTPInit
<1> QED  BY <1>1, StepOfLimiter, PTL DEF HTTPSpec, Spec

(* Hence a client's calls get through the limiter at the configured rate.  *)
THEOREM ClientKeepsRate == HTTPSpec => []RateKept
<1> QED  BY ClientImplementsLimiter, LimiterKeepsRate, PTL

(* Of the calls that begin and get their permit within a window of time,   *)
(* the client lets through no more than the rate allows.                   *)
THEOREM ClientKeepsWindow == HTTPSpec => []WindowKept
<1> QED  BY ClientImplementsLimiter, LimiterKeepsWindow, PTL

-----------------------------------------------------------------------------
(* What the invariant says of one caller.                                  *)
LEMMA OfCaller ==
  ASSUME DoInv, NEW c \in Callers
  PROVE  /\ HTTPTypes /\ Counted(c) /\ Waiting(c) /\ Intact(c)
         /\ log[c] \in Seq(Request) /\ Len(log[c]) \in Nat
         /\ n[c] \in Nat /\ attempts \in Nat /\ body[c] \in Body
<1>1. HTTPTypes /\ Counted(c) /\ Waiting(c) /\ Intact(c)
  BY DEF DoInv
<1>2. log[c] \in Seq(Request) /\ n[c] \in Nat /\ attempts \in Nat
      /\ body[c] \in Body
  BY <1>1 DEF HTTPTypes
<1>3. Len(log[c]) \in Nat
  BY <1>2
<1> QED  BY <1>1, <1>2, <1>3

(* The invariant at a caller depends on its own call only.                 *)
Same(d) == /\ at'[d] = at[d] /\ n'[d] = n[d] /\ log'[d] = log[d]
           /\ outcome'[d] = outcome[d] /\ body'[d] = body[d]

(* A step of one caller keeps the invariant if it keeps it there.          *)
LEMMA OneCaller ==
  ASSUME DoInv, HTTPTypes', attempts' = attempts, NEW c \in Callers,
         \A d \in Callers \ {c} : Same(d),
         Counted(c)', Waiting(c)', Intact(c)'
  PROVE  DoInv'
<1> SUFFICES ASSUME NEW d \in Callers, d # c
             PROVE  Counted(d)' /\ Waiting(d)' /\ Intact(d)'
  BY DEF DoInv
<1>1. Same(d) /\ Counted(d) /\ Waiting(d) /\ Intact(d)
  BY DEF DoInv
<1>2. Counted(d)'
  BY <1>1 DEF Same, Counted
<1>3. Waiting(d)'
  BY <1>1 DEF Same, Waiting, Answered
<1>4. Intact(d)'
  BY <1>1 DEF Same, Intact
<1> QED  BY <1>2, <1>3, <1>4

(* A call moves on without a request or an answer.                         *)
Moves(c) == \/ DoWaits(c) \/ Start(c) \/ ReadFails(c) \/ SendCancelled(c)
            \/ Delay(c) \/ DelayEnds(c)

(* Such a step keeps the invariant.                                        *)
LEMMA MovesKeep == ASSUME DoInv, NEW c \in Callers, Moves(c) PROVE DoInv'
<1>1. /\ HTTPTypes /\ Counted(c) /\ Waiting(c) /\ Intact(c)
      /\ Len(log[c]) \in Nat /\ n[c] \in Nat /\ attempts \in Nat
  BY OfCaller
<1> DEFINE Move(from, to) == at[c] = from /\ at' = [at EXCEPT ![c] = to]
           Reads == /\ body[c].kind = "stream" /\ ~body[c].copied
                    /\ body' = [body EXCEPT ![c].holds = "rest"]
           Copies == body' = [body EXCEPT ![c].copied = TRUE]
<1>8. body' = [body EXCEPT ![c] = PutBack(@)] => Copies
  BY DEF PutBack
<1>9. /\ log' = log /\ outcome' = outcome /\ attempts' = attempts
      /\ \/ /\ Move("limit", "limit") \/ Move("limit", "start")
               \/ Move("start", "attempt")
            /\ n' = n /\ body' = body
         \/ /\ Move("attempt", "failed") /\ n[c] < attempts
            /\ n' = n /\ (Copies \/ Reads)
         \/ /\ Move("failed", "delay") /\ n[c] # attempts - 1
            /\ n' = n /\ body' = body
         \/ /\ Move("delay", "attempt")
            /\ n' = [n EXCEPT ![c] = @ + 1] /\ body' = body
  <2>1. CASE DoWaits(c)
    BY <2>1 DEF DoWaits, config, local
  <2>2. CASE Start(c)
    BY <2>2 DEF Start, Goes, config, local
  <2>3. CASE ReadFails(c)
    BY <2>3 DEF ReadFails, Goes, config, local
  <2>4. CASE SendCancelled(c)
    BY <2>4, <1>8 DEF SendCancelled, Goes, config, local
  <2>5. CASE Delay(c)
    BY <2>5 DEF Delay, Last, Goes, config, local
  <2>6. CASE DelayEnds(c)
    BY <2>6 DEF DelayEnds, Goes, config, local
  <2> QED  BY <2>1, <2>2, <2>3, <2>4, <2>5, <2>6 DEF Moves
<1>2. /\ log' = log /\ outcome' = outcome /\ attempts' = attempts
      /\ at[c] \notin {"idle", "flight"} /\ at'[c] \notin {"idle", "flight"}
      /\ \E p \in {"limit", "start", "attempt", "failed", "delay"} :
           at' = [at EXCEPT ![c] = p]
      /\ n' = n \/ n' = [n EXCEPT ![c] = @ + 1]
      /\ body' = body \/ Copies \/ Reads
  BY <1>1, <1>9 DEF HTTPTypes
<1>3. HTTPTypes'
  <2>1. /\ [body[c] EXCEPT !.holds = "rest"] \in Body
        /\ [body[c] EXCEPT !.copied = TRUE] \in Body
    BY <1>1 DEF HTTPTypes, Body
  <2>2. \/ body' = body
        \/ body' = [body EXCEPT ![c] = [body[c] EXCEPT !.holds = "rest"]]
        \/ body' = [body EXCEPT ![c] = [body[c] EXCEPT !.copied = TRUE]]
    BY <1>2
  <2>3. body' \in [Callers -> Body]
    BY <1>1, <2>1, <2>2 DEF HTTPTypes
  <2>4. n' \in [Callers -> Nat]
    BY <1>1, <1>2 DEF HTTPTypes
  <2>5. at' \in [Callers -> {"idle", "limit", "start", "attempt", "flight",
                             "failed", "delay"}]
    BY <1>1, <1>2 DEF HTTPTypes
  <2> QED  BY <1>1, <1>2, <2>3, <2>4, <2>5 DEF HTTPTypes
<1>4. \A d \in Callers \ {c} : Same(d)
  BY <1>1, <1>2 DEF HTTPTypes, Same
<1>5. Counted(c)'
  <2>1. log'[c] = log[c] /\ attempts' = attempts
    BY <1>9
  <2>2. \/ at'[c] \in {"limit", "start", "attempt"} /\ n'[c] = n[c]
           /\ at[c] \in {"limit", "start"}
        \/ /\ at[c] = "attempt" /\ at'[c] = "failed"
           /\ n[c] < attempts /\ n'[c] = n[c]
        \/ /\ at[c] = "failed" /\ at'[c] = "delay"
           /\ n[c] # attempts - 1 /\ n'[c] = n[c]
        \/ at[c] = "delay" /\ at'[c] = "attempt" /\ n'[c] = n[c] + 1
    BY <1>1, <1>9 DEF HTTPTypes
  <2> QED  BY <1>1, <2>1, <2>2 DEF Counted
<1>6. Waiting(c)'
  BY <1>1, <1>2 DEF Waiting, Answered
<1>7. Intact(c)'
  BY <1>1, <1>2 DEF Intact, HTTPTypes, Body
<1> QED  BY <1>2, <1>3, <1>4, <1>5, <1>6, <1>7, OneCaller

(* A call returns an error.                                                *)
Fails(c) == \/ NoRequest(c) \/ DoRejected(c) \/ StartCancelled(c)
            \/ Exhausted(c) \/ GiveUp(c) \/ DelayCancelled(c)

(* Such a step keeps the invariant.                                        *)
LEMMA FailsKeep == ASSUME DoInv, NEW c \in Callers, Fails(c) PROVE DoInv'
<1>1. /\ HTTPTypes /\ Counted(c) /\ Waiting(c) /\ Intact(c)
      /\ Len(log[c]) \in Nat /\ n[c] \in Nat /\ attempts \in Nat
  BY OfCaller
<1>2. /\ at' = [at EXCEPT ![c] = "idle"]
      /\ outcome' = [outcome EXCEPT ![c] = "error"]
      /\ body' = body /\ n' = n /\ attempts' = attempts
      /\ \/ log' = log /\ at[c] \in {"start", "attempt", "failed", "delay"}
         \/ log' = [log EXCEPT ![c] = <<>>]
  BY DEF Fails, NoRequest, DoRejected, StartCancelled, Exhausted, GiveUp,
         DelayCancelled, Goes, Returns, config, local
<1>3. HTTPTypes'
  <2>1. log' \in [Callers -> Seq(Request)]
    <3>1. <<>> \in Seq(Request)
      OBVIOUS
    <3> QED  BY <1>1, <1>2, <3>1 DEF HTTPTypes
  <2>2. at' \in [Callers -> {"idle", "limit", "start", "attempt", "flight",
                             "failed", "delay"}]
    BY <1>1, <1>2 DEF HTTPTypes
  <2>3. outcome' \in [Callers -> {"none", "response", "error"}]
    BY <1>1, <1>2 DEF HTTPTypes
  <2> QED  BY <1>1, <1>2, <2>1, <2>2, <2>3 DEF HTTPTypes
<1>4. \A d \in Callers \ {c} : Same(d)
  BY <1>1, <1>2 DEF HTTPTypes, Same
<1>5. /\ at'[c] = "idle" /\ outcome'[c] = "error"
      /\ \/ log'[c] = log[c] /\ at[c] \in {"start", "attempt", "failed", "delay"}
         \/ log'[c] = <<>>
  BY <1>1, <1>2 DEF HTTPTypes
<1>6. Counted(c)'
  BY <1>1, <1>2, <1>5 DEF Counted
<1>7. Waiting(c)'
  BY <1>1, <1>5 DEF Waiting, Answered
<1>8. Intact(c)'
  BY <1>1, <1>2, <1>5 DEF Intact
<1> QED  BY <1>2, <1>3, <1>4, <1>6, <1>7, <1>8, OneCaller

(* A call begins.                                                          *)
LEMMA BeginKeeps == ASSUME DoInv, NEW c \in Callers, DoBegin(c) PROVE DoInv'
<1>1. HTTPTypes /\ attempts' = attempts
  BY DEF DoInv, DoBegin, config
<1>2. /\ at' = [at EXCEPT ![c] = "limit"] /\ n' = [n EXCEPT ![c] = 0]
      /\ log' = [log EXCEPT ![c] = <<>>]
      /\ outcome' = [outcome EXCEPT ![c] = "none"]
      /\ \E b \in {Memory, Stream} : body' = [body EXCEPT ![c] = b]
  BY DEF DoBegin, Goes
<1>3. {Memory, Stream} \subseteq Body /\ Memory.holds = "whole" /\ Stream.holds = "whole"
  BY DEF Memory, Stream, Body
<1>4. HTTPTypes'
  BY <1>1, <1>2, <1>3 DEF HTTPTypes
<1>5. \A d \in Callers \ {c} : Same(d)
  BY <1>1, <1>2 DEF HTTPTypes, Same
<1>6. /\ at'[c] = "limit" /\ n'[c] = 0 /\ log'[c] = <<>>
      /\ outcome'[c] = "none" /\ body'[c].holds = "whole"
  BY <1>1, <1>2, <1>3 DEF HTTPTypes
<1>7. Counted(c)' /\ Waiting(c)' /\ Intact(c)'
  BY <1>6 DEF Counted, Waiting, Answered, Intact
<1> QED  BY <1>1, <1>4, <1>5, <1>7, OneCaller

(* A request is sent, with what the reader holds.                          *)
LEMMA SendKeeps == ASSUME DoInv, NEW c \in Callers, Send(c) PROVE DoInv'
<1> DEFINE entry == [body |-> body[c], answer |-> "pending"]
<1>1. /\ HTTPTypes /\ Counted(c) /\ Waiting(c) /\ Intact(c)
      /\ log[c] \in Seq(Request)
      /\ Len(log[c]) \in Nat /\ n[c] \in Nat /\ attempts \in Nat
      /\ body[c] \in Body
  BY OfCaller
<1>2. /\ at' = [at EXCEPT ![c] = "flight"] /\ at[c] = "attempt"
      /\ n' = n /\ n[c] < attempts /\ attempts' = attempts
      /\ log' = [log EXCEPT ![c] = Append(log[c], entry)]
      /\ outcome' = outcome
      /\ body' = [body EXCEPT ![c] = [body[c] EXCEPT !.copied = TRUE]]
  BY <1>1 DEF Send, Goes, config, PutBack, HTTPTypes
<1>3. entry \in Request
  BY <1>1 DEF Request, Answers
<1>4. /\ Append(log[c], entry) \in Seq(Request)
      /\ Len(Append(log[c], entry)) = Len(log[c]) + 1
      /\ \A i \in 1 .. Len(log[c]) : Append(log[c], entry)[i] = log[c][i]
      /\ Append(log[c], entry)[Len(log[c]) + 1] = entry
  BY <1>1, <1>3
<1>5. HTTPTypes'
  <2>1. [body[c] EXCEPT !.copied = TRUE] \in Body
    BY <1>1 DEF Body
  <2> QED  BY <1>1, <1>2, <1>4, <2>1 DEF HTTPTypes
<1>6. \A d \in Callers \ {c} : Same(d)
  BY <1>1, <1>2 DEF HTTPTypes, Same
<1>7. /\ at'[c] = "flight" /\ Len(log'[c]) = Len(log[c]) + 1
      /\ \A i \in 1 .. Len(log[c]) : log'[c][i] = log[c][i]
      /\ log'[c][Len(log[c]) + 1].answer = "pending"
      /\ log'[c][Len(log[c]) + 1].body = body[c]
      /\ body'[c] = [body[c] EXCEPT !.copied = TRUE]
  BY <1>1, <1>2, <1>4 DEF HTTPTypes
<1>8. \A i \in 1 .. Len(log'[c]) : i \in 1 .. Len(log[c]) \/ i = Len(log[c]) + 1
  BY <1>1, <1>7
<1>9. Counted(c)'
  BY <1>1, <1>2, <1>7 DEF Counted
<1>10. \A i \in 1 .. Len(log[c]) : log[c][i].answer \notin {"pending", "final"}
  BY <1>1, <1>2 DEF Waiting
<1>11. ~Answered(c, "final")' /\ outcome[c] # "response"
  BY <1>1, <1>7, <1>8, <1>10 DEF Waiting, Answered
<1>12. Waiting(c)'
  BY <1>1, <1>2, <1>7, <1>8, <1>10, <1>11 DEF Waiting
<1>13. Intact(c)'
  BY <1>1, <1>2, <1>7, <1>8 DEF Intact, Body
<1> QED  BY <1>2, <1>5, <1>6, <1>9, <1>12, <1>13, OneCaller

(* A request meets an answer: the final one is returned at once.           *)
LEMMA AnswerKeeps ==
  ASSUME DoInv, NEW c \in Callers,
         \/ \E answer \in {"final", "retryable"} : Answer(c, answer)
         \/ FlightFails(c) \/ FlightCancelled(c)
  PROVE  DoInv'
<1>1. /\ HTTPTypes /\ Counted(c) /\ Waiting(c) /\ Intact(c)
      /\ log[c] \in Seq(Request)
      /\ Len(log[c]) \in Nat /\ n[c] \in Nat /\ attempts \in Nat
  BY OfCaller
<1>2. PICK a \in {"final", "retryable", "error"} :
        /\ log' = [log EXCEPT ![c][Len(log[c])].answer = a]
        /\ at[c] = "flight"
        /\ \/ /\ a = "final" /\ at' = [at EXCEPT ![c] = "idle"]
              /\ outcome' = [outcome EXCEPT ![c] = "response"]
           \/ /\ a # "final" /\ at' = [at EXCEPT ![c] = "failed"]
              /\ outcome' = outcome
        /\ n' = n /\ body' = body /\ attempts' = attempts
  BY DEF Answer, FlightFails, FlightCancelled, Meets, Accepted, Goes, Returns,
         config, local
<1> DEFINE k == Len(log[c])
           new == [log[c] EXCEPT ![k].answer = a]
<1>3. k \in 1 .. k
  BY <1>1, <1>2 DEF Waiting
<1>4. /\ new \in Seq(Request)
      /\ Len(new) = k /\ new[k].answer = a /\ new[k].body = log[c][k].body
      /\ \A i \in 1 .. k : i # k => new[i] = log[c][i]
  <2>1. log[c][k] \in Request
    BY <1>1, <1>3
  <2> DEFINE entry == [log[c][k] EXCEPT !.answer = a]
  <2>2. /\ entry \in Request
        /\ entry.answer = a /\ entry.body = log[c][k].body
    BY <2>1 DEF Request, Answers
  <2>3. new = [log[c] EXCEPT ![k] = entry]
    OBVIOUS
  <2> HIDE DEF entry
  <2> QED  BY <1>1, <1>3, <2>2, <2>3
<1>5. log' = [log EXCEPT ![c] = new]
  BY <1>2
<1> HIDE DEF new
<1>6. HTTPTypes'
  <2>1. log' \in [Callers -> Seq(Request)]
    BY <1>1, <1>4, <1>5 DEF HTTPTypes
  <2>2. at' \in [Callers -> {"idle", "limit", "start", "attempt", "flight",
                             "failed", "delay"}]
    BY <1>1, <1>2 DEF HTTPTypes
  <2>3. outcome' \in [Callers -> {"none", "response", "error"}]
    BY <1>1, <1>2 DEF HTTPTypes
  <2> QED  BY <1>1, <1>2, <2>1, <2>2, <2>3 DEF HTTPTypes
<1>7. \A d \in Callers \ {c} : Same(d)
  BY <1>1, <1>2, <1>5 DEF HTTPTypes, Same
<1>8. log'[c] = new /\ at'[c] = IF a = "final" THEN "idle" ELSE "failed"
  BY <1>1, <1>2, <1>5 DEF HTTPTypes
<1>9. outcome'[c] = IF a = "final" THEN "response" ELSE outcome[c]
  BY <1>1, <1>2 DEF HTTPTypes
<1>10. Counted(c)'
  BY <1>1, <1>2, <1>4, <1>8 DEF Counted
<1>11. \A i \in 1 .. k : i # k => new[i].answer \notin {"pending", "final"}
  BY <1>1, <1>2, <1>4 DEF Waiting
<1>12. outcome[c] # "response"
  BY <1>1, <1>2 DEF Waiting, Answered
<1>13. Waiting(c)'
  BY <1>3, <1>4, <1>8, <1>9, <1>11, <1>12, <1>2 DEF Waiting, Answered
<1>14. Intact(c)'
  <2>1. \A i \in 1 .. k : new[i].body = log[c][i].body
    BY <1>4
  <2> QED  BY <1>1, <1>2, <1>4, <1>8, <2>1 DEF Intact
<1> QED  BY <1>2, <1>6, <1>7, <1>10, <1>13, <1>14, OneCaller

-----------------------------------------------------------------------------
(* The invariant holds initially.                                          *)
LEMMA DoInvInit == HTTPInit => DoInv
<1> SUFFICES ASSUME HTTPInit PROVE DoInv
  OBVIOUS
<1>1. Memory \in Body /\ Memory.holds = "whole"
  BY DEF Memory, Body
<1>2. HTTPTypes
  BY <1>1, AttemptsAssumption DEF HTTPInit, HTTPTypes
<1>3. ASSUME NEW c \in Callers
      PROVE  /\ at[c] = "idle" /\ log[c] = <<>> /\ outcome[c] = "none"
             /\ body[c] = Memory
  BY DEF HTTPInit
<1>4. ASSUME NEW c \in Callers PROVE Counted(c) /\ Waiting(c) /\ Intact(c)
  BY <1>1, <1>2, <1>3 DEF Counted, Waiting, Answered, Intact, HTTPTypes
<1> QED  BY <1>2, <1>4 DEF DoInv

(* Every step keeps it.                                                    *)
LEMMA DoInvStep == DoInv /\ [HTTPNext]_all => DoInv'
<1> SUFFICES ASSUME DoInv, [HTTPNext]_all PROVE DoInv'
  OBVIOUS
<1>1. CASE UNCHANGED <<attempts, at, body, n, log, outcome>>
  BY <1>1 DEF DoInv, HTTPTypes, Counted, Waiting, Answered, Intact
<1>2. ASSUME NEW c \in Callers, Moves(c) PROVE DoInv'
  BY <1>2, MovesKeep
<1>3. ASSUME NEW c \in Callers, Fails(c) PROVE DoInv'
  BY <1>3, FailsKeep
<1>4. ASSUME NEW c \in Callers, DoBegin(c) PROVE DoInv'
  BY <1>4, BeginKeeps
<1>5. ASSUME NEW c \in Callers, Send(c) PROVE DoInv'
  BY <1>5, SendKeeps
<1>6. ASSUME NEW c \in Callers,
             \/ \E answer \in {"final", "retryable"} : Answer(c, answer)
             \/ FlightFails(c) \/ FlightCancelled(c)
      PROVE  DoInv'
  BY <1>6, AnswerKeeps
<1>7. \/ UNCHANGED <<attempts, at, body, n, log, outcome>>
      \/ \E c \in Callers :
           \/ Moves(c) \/ Fails(c) \/ DoBegin(c) \/ Send(c)
           \/ \E answer \in {"final", "retryable"} : Answer(c, answer)
           \/ FlightFails(c) \/ FlightCancelled(c)
  BY DEF HTTPNext, DoStep, Moves, Fails, LogPanics, SetRateLimit, HTTPRest,
         all, http, config, local
<1> QED  BY <1>1, <1>2, <1>3, <1>4, <1>5, <1>6, <1>7

(* What Do returns, and with how many requests, for any number of callers  *)
(* and retries.                                                            *)
THEOREM DoReturnsItsAnswer == HTTPSpec => []DoOutcome
<1>1. DoInv => DoOutcome
  <2> SUFFICES ASSUME DoInv, NEW c \in Callers
               PROVE  LET Final(i) == log[c][i].answer = "final"
                      IN  /\ Len(log[c]) <= attempts
                          /\ \A i \in 1 .. Len(log[c]) : Final(i) => i = Len(log[c])
                          /\ outcome[c] = "response" <=>
                               \E i \in 1 .. Len(log[c]) : Final(i)
                          /\ at[c] = "idle" => \A i \in 1 .. Len(log[c]) :
                                                 log[c][i].answer # "pending"
    BY DEF DoOutcome
  <2>1. /\ Counted(c) /\ Waiting(c)
        /\ Len(log[c]) \in Nat /\ n[c] \in Nat /\ attempts \in Nat
        /\ at[c] \in {"idle", "limit", "start", "attempt", "flight", "failed",
                      "delay"}
    BY DEF DoInv, HTTPTypes
  <2>2. Len(log[c]) <= attempts
    BY <2>1 DEF Counted
  <2> QED  BY <2>1, <2>2 DEF Waiting, Answered
<1> QED  BY <1>1, DoInvInit, DoInvStep, PTL DEF HTTPSpec

(* All attempts of a call send the same body, the whole one for Post.      *)
THEOREM RetriesSendSameBody == HTTPSpec => []SameBody
<1>1. DoInv => SameBody
  BY DEF DoInv, Intact, SameBody
<1> QED  BY <1>1, DoInvInit, DoInvStep, PTL DEF HTTPSpec

-----------------------------------------------------------------------------
(* The rest of the types: who is in the limiter's Wait is in a call of Do. *)
RestTypes ==
  /\ attempts \in Attempts /\ logger \in BOOLEAN
  /\ requests \in Nat /\ crashed \in BOOLEAN
  /\ \A c \in Callers : pc[c] # "idle" => at[c] = "limit"

(* A step that leaves the limiter alone moves no call out of it.           *)
LEMMA OutsideLimiter ==
  ASSUME HTTPTypes, RestTypes, NEW c \in Callers, NEW from, NEW to,
         Goes(c, from, to), from # "limit", pc' = pc
  PROVE  \A d \in Callers : pc'[d] # "idle" => at'[d] = "limit"
BY DEF HTTPTypes, RestTypes, Goes

(* Only Do enters the limiter, and leaves it with its permit.              *)
LEMMA InLimiter ==
  ASSUME TypeOK, HTTPTypes, RestTypes, [HTTPNext]_all
  PROVE  \A d \in Callers : pc'[d] # "idle" => at'[d] = "limit"
<1> DEFINE Good == \A d \in Callers : pc'[d] # "idle" => at'[d] = "limit"
<1>1. CASE pc' = pc /\ at' = at
  BY <1>1 DEF RestTypes
<1>2. ASSUME NEW c \in Callers, DoBegin(c) PROVE Good
  BY <1>2 DEF DoBegin, WaitBegin, Goes, TypeOK, HTTPTypes, RestTypes
<1>3. ASSUME NEW c \in Callers, DoWaits(c) PROVE Good
  <2>1. \A d \in Callers \ {c} : pc'[d] = pc[d]
    BY <1>3 DEF DoWaits, TakeStep, ReadClock, LoadState, SwapFails, Swap, Wake,
                TypeOK
  <2> QED  BY <1>3, <2>1 DEF DoWaits, HTTPTypes, RestTypes
<1>4. ASSUME NEW c \in Callers,
             \/ NoRequest(c) \/ DoRejected(c) \/ StartCancelled(c) \/ Start(c)
             \/ Exhausted(c) \/ ReadFails(c) \/ SendCancelled(c) \/ Send(c)
             \/ \E answer \in {"final", "retryable"} : Answer(c, answer)
             \/ FlightFails(c) \/ FlightCancelled(c) \/ GiveUp(c) \/ Delay(c)
             \/ DelayEnds(c) \/ DelayCancelled(c)
      PROVE  Good
  <2>1. /\ pc' = pc
        /\ \E from \in {"idle", "start", "attempt", "flight", "failed", "delay"},
              to \in {"idle", "attempt", "flight", "failed", "delay"} :
             Goes(c, from, to)
    BY <1>4 DEF NoRequest, DoRejected, WaitCancelled, StartCancelled, Start,
                Exhausted, ReadFails, SendCancelled, Send, Answer, FlightFails,
                FlightCancelled, GiveUp, Delay, DelayEnds, DelayCancelled,
                Returns, vars
  <2> QED  BY <2>1, OutsideLimiter
<1>5. ASSUME NEW c \in Callers, SetRateLimit(c) PROVE pc' = pc /\ at' = at
  BY <1>5 DEF SetRateLimit, SetLimitInvalid, SetLimitPanics, SetLimit, http
<1> QED
  BY <1>1, <1>2, <1>3, <1>4, <1>5
     DEF HTTPNext, DoStep, LogPanics, HTTPRest, Tick, Cancel, all, http, vars

(* The rest of the types holds initially.                                  *)
LEMMA RestInit == HTTPInit => RestTypes
<1> SUFFICES ASSUME HTTPInit PROVE RestTypes
  OBVIOUS
<1>1. \A c \in Callers : pc[c] = "idle"
  BY DEF HTTPInit, Init
<1>2. crashed \in BOOLEAN
  BY DEF HTTPInit
<1>3. attempts \in Attempts /\ logger \in BOOLEAN /\ requests \in Nat
  BY DEF HTTPInit
<1> QED  BY <1>1, <1>2, <1>3 DEF RestTypes

(* Every step keeps it.                                                    *)
LEMMA RestStep == TypeOK /\ HTTPTypes /\ RestTypes /\ [HTTPNext]_all => RestTypes'
<1> SUFFICES ASSUME TypeOK, HTTPTypes, RestTypes, [HTTPNext]_all
             PROVE  RestTypes'
  OBVIOUS
<1>1. attempts' = attempts /\ logger' = logger
  BY DEF HTTPNext, DoStep, NoRequest, DoRejected, DoBegin, DoWaits,
         StartCancelled, Start, Exhausted, ReadFails, SendCancelled, Send,
         Answer, FlightFails, FlightCancelled, LogPanics, GiveUp, Delay,
         DelayEnds, DelayCancelled, SetRateLimit, HTTPRest, all, http, config
<1>2. requests' \in {requests, requests + 1} /\ crashed' \in {crashed, TRUE}
  BY DEF HTTPNext, DoStep, NoRequest, DoRejected, DoBegin, DoWaits,
         StartCancelled, Start, Exhausted, ReadFails, SendCancelled, Send,
         Answer, FlightFails, FlightCancelled, LogPanics, GiveUp, Delay,
         DelayEnds, DelayCancelled, SetRateLimit, HTTPRest, all, http
<1>3. attempts' \in Attempts /\ logger' \in BOOLEAN
  BY <1>1 DEF RestTypes
<1>4. requests' \in Nat
  BY <1>2 DEF RestTypes
<1>5. crashed' \in BOOLEAN
  BY <1>2, Zenon DEF RestTypes
<1> QED  BY <1>3, <1>4, <1>5, InLimiter DEF RestTypes

(* Every state of the client is well typed, its limiter included.          *)
THEOREM ClientTypeCorrect == HTTPSpec => []HTTPTypeOK
<1> DEFINE Inv == DoInv /\ RestTypes
<1>1. HTTPInit => Inv
  BY DoInvInit, RestInit
<1>2. HTTPSpec => []TypeOK
  BY ClientImplementsLimiter, LimiterTypeCorrect, PTL
<1>3. TypeOK /\ Inv /\ [HTTPNext]_all => Inv'
  BY DoInvStep, RestStep DEF DoInv
<1>4. TypeOK /\ Inv => HTTPTypeOK
  BY DEF DoInv, HTTPTypes, RestTypes, HTTPTypeOK
<1> HIDE DEF Inv
<1> QED  BY <1>1, <1>2, <1>3, <1>4, PTL DEF HTTPSpec

-----------------------------------------------------------------------------
(* The calls that have their permit.                                       *)
UnderWay == {c \in Callers : at[c] \notin {"idle", "limit"}}

(* An account of the requests: each is charged to a permit, as the first,  *)
(* second, ... of its call, and a call under way holds a permit of its own *)
(* that is charged with no more than the call has sent.                    *)
Account(holds, sent) ==
  /\ \A c, d \in UnderWay : holds[c] = holds[d] => c = d
  /\ IsFiniteSet(sent) /\ Cardinality(sent) = requests
  /\ \A c \in UnderWay : \A k \in 1 .. attempts :
       <<holds[c], k>> \in sent => k <= Len(log[c])

Charged ==
  /\ IsFiniteSet(permits)
  /\ \E holds \in [UnderWay -> permits] :
       \E sent \in SUBSET (permits \X (1 .. attempts)) : Account(holds, sent)

(* The account holds initially: no call, no request.                       *)
LEMMA ChargedInit == HTTPInit => Charged
<1> SUFFICES ASSUME HTTPInit PROVE Charged
  OBVIOUS
<1>1. permits = {} /\ UnderWay = {} /\ requests = 0
  BY DEF HTTPInit, Init, UnderWay
<1> DEFINE none == [c \in {} |-> 0]
<1>2. IsFiniteSet({}) /\ Cardinality({}) = 0
  BY FS_EmptySet
<1>3. none \in [UnderWay -> permits] /\ {} \in SUBSET (permits \X (1 .. attempts))
  BY <1>1
<1>4. Account(none, {})
  BY <1>1, <1>2 DEF Account
<1> QED  BY <1>1, <1>2, <1>3, <1>4 DEF Charged

(* An account of the next state.                                           *)
LEMMA ChargedNext ==
  ASSUME IsFiniteSet(permits'),
         NEW holds \in [UnderWay' -> permits'],
         NEW sent \in SUBSET (permits' \X (1 .. attempts')),
         \A c, d \in UnderWay' : holds[c] = holds[d] => c = d,
         IsFiniteSet(sent), Cardinality(sent) = requests',
         \A c \in UnderWay' : \A k \in 1 .. attempts' :
           <<holds[c], k>> \in sent => k <= Len(log'[c])
  PROVE  Charged'
<1>1. Account(holds, sent)'
  BY DEF Account
<1> QED  BY <1>1 DEF Charged

(* A step that sends nothing, gives no permit and puts no call under way   *)
(* keeps the account; a call that has returned is struck off.              *)
LEMMA ChargedIdle ==
  ASSUME Charged, permits' = permits, requests' = requests,
         attempts' = attempts, UnderWay' \subseteq UnderWay,
         \A c \in UnderWay' : Len(log'[c]) = Len(log[c])
  PROVE  Charged'
<1>1. PICK holds \in [UnderWay -> permits],
           sent \in SUBSET (permits \X (1 .. attempts)) : Account(holds, sent)
  BY DEF Charged
<1> DEFINE rest == [c \in UnderWay' |-> holds[c]]
<1>2. /\ rest \in [UnderWay' -> permits']
      /\ \A c \in UnderWay' : c \in UnderWay /\ rest[c] = holds[c]
  OBVIOUS
<1> HIDE DEF rest
<1>3. \A c, d \in UnderWay' : rest[c] = rest[d] => c = d
  BY <1>1, <1>2 DEF Account
<1>4. \A c \in UnderWay' : \A k \in 1 .. attempts' :
        <<rest[c], k>> \in sent => k <= Len(log'[c])
  BY <1>1, <1>2 DEF Account
<1>5. /\ sent \in SUBSET (permits' \X (1 .. attempts'))
      /\ IsFiniteSet(permits') /\ IsFiniteSet(sent)
      /\ Cardinality(sent) = requests'
  BY <1>1 DEF Account, Charged
<1> QED  BY <1>2, <1>3, <1>4, <1>5, ChargedNext

(* Do gets its permit: it is nobody else's, and nothing is charged to it.  *)
LEMMA ChargedWaits ==
  ASSUME IInv, HTTPTypes, Charged, NEW c \in Callers, DoWaits(c)
  PROVE  Charged'
<1>1. /\ at \in [Callers -> {"idle", "limit", "start", "attempt", "flight",
                             "failed", "delay"}]
      /\ at[c] = "limit" /\ attempts' = attempts
      /\ requests' = requests /\ log' = log
      /\ at' = [at EXCEPT ![c] = IF pc'[c] = "idle" THEN "start" ELSE "limit"]
  BY DEF HTTPTypes, DoWaits, config
<1>2. CASE permits' = permits /\ pc'[c] # "idle"
  <2>1. UnderWay' = UnderWay
    BY <1>1, <1>2 DEF UnderWay
  <2> QED  BY <1>1, <1>2, <2>1, ChargedIdle
<1>3. ASSUME pc'[c] = "idle", NEW p, p \notin permits,
             permits' = permits \cup {p}
      PROVE  Charged'
  <2>1. PICK holds \in [UnderWay -> permits],
             sent \in SUBSET (permits \X (1 .. attempts)) : Account(holds, sent)
    BY DEF Charged
  <2>2. c \notin UnderWay /\ UnderWay' = UnderWay \cup {c}
    BY <1>1, <1>3 DEF UnderWay
  <2> DEFINE more == [d \in UnderWay' |-> IF d = c THEN p ELSE holds[d]]
  <2>3. more \in [UnderWay' -> permits'] /\ more[c] = p
        /\ \A d \in UnderWay : more[d] = holds[d] /\ holds[d] \in permits
    BY <1>3, <2>2
  <2>4. sent \in SUBSET (permits' \X (1 .. attempts'))
    BY <1>1, <1>3
  <2>5. \A d, e \in UnderWay' : more[d] = more[e] => d = e
    BY <1>3, <2>1, <2>2, <2>3 DEF Account
  <2>6. \A d \in UnderWay' : \A k \in 1 .. attempts :
          <<more[d], k>> \in sent => k <= Len(log[d])
    <3>1. \A k \in 1 .. attempts : <<p, k>> \notin sent
      BY <1>3
    <3> HIDE DEF more
    <3>2. ASSUME NEW d \in UnderWay, NEW k \in 1 .. attempts,
                 <<more[d], k>> \in sent
          PROVE  k <= Len(log[d])
      BY <2>1, <2>3, <3>2 DEF Account
    <3> QED  BY <2>2, <2>3, <3>1, <3>2
  <2>7. IsFiniteSet(permits')
    BY <1>3, FS_AddElement DEF Charged
  <2> HIDE DEF more
  <2>8. IsFiniteSet(sent) /\ Cardinality(sent) = requests'
    BY <1>1, <2>1 DEF Account
  <2>9. \A d \in UnderWay' : \A k \in 1 .. attempts' :
          <<more[d], k>> \in sent => k <= Len(log'[d])
    BY <1>1, <2>6
  <2> QED  BY <2>3, <2>4, <2>5, <2>7, <2>8, <2>9, ChargedNext
<1> QED  BY <1>2, <1>3, TakeGrants DEF DoWaits

(* A request is charged to the permit of its call, as one more.            *)
LEMMA ChargedSend ==
  ASSUME DoInv, requests \in Nat, Charged, NEW c \in Callers, Send(c)
  PROVE  Charged'
<1>1. /\ HTTPTypes /\ Counted(c) /\ log[c] \in Seq(Request)
      /\ Len(log[c]) \in Nat /\ n[c] \in Nat /\ attempts \in Nat
  BY OfCaller
<1>2. /\ at' = [at EXCEPT ![c] = "flight"] /\ at[c] = "attempt"
      /\ n[c] < attempts /\ attempts' = attempts /\ permits' = permits
      /\ log' = [log EXCEPT ![c] = Append(@, [body |-> body[c],
                                              answer |-> "pending"])]
      /\ requests' = requests + 1
  BY DEF Send, Goes, config, vars
<1>3. UnderWay' = UnderWay /\ c \in UnderWay
  BY <1>1, <1>2 DEF UnderWay, HTTPTypes
<1> DEFINE k == Len(log[c]) + 1
<1>4. /\ Len(log'[c]) = k
      /\ \A d \in Callers \ {c} : log'[d] = log[d]
  BY <1>1, <1>2 DEF HTTPTypes
<1>5. k \in 1 .. attempts
  BY <1>1, <1>2 DEF Counted
<1>6. PICK holds \in [UnderWay -> permits],
           sent \in SUBSET (permits \X (1 .. attempts)) : Account(holds, sent)
  BY DEF Charged
<1> DEFINE more == sent \cup {<<holds[c], k>>}
<1>7. <<holds[c], k>> \notin sent
  <2>1. ~ (k <= Len(log[c]))
    BY <1>1
  <2> HIDE DEF k
  <2> QED  BY <1>3, <1>5, <1>6, <2>1 DEF Account
<1>8. IsFiniteSet(more) /\ Cardinality(more) = requests'
  <2> HIDE DEF k
  <2> QED  BY <1>2, <1>6, <1>7, FS_AddElement DEF Account
<1>9. more \in SUBSET (permits \X (1 .. attempts))
  BY <1>3, <1>5
<1>10. \A d \in UnderWay : \A j \in 1 .. attempts :
         <<holds[d], j>> \in more => j <= Len(log'[d])
  <2> SUFFICES ASSUME NEW d \in UnderWay, NEW j \in 1 .. attempts,
                      <<holds[d], j>> \in more
               PROVE  j <= Len(log'[d])
    OBVIOUS
  <2>1. CASE <<holds[d], j>> \in sent
    <3>1. j <= Len(log[d])
      BY <1>6, <2>1 DEF Account
    <3>2. CASE d = c
      BY <1>1, <1>4, <3>1, <3>2
    <3>3. CASE d # c
      BY <1>4, <3>1, <3>3 DEF UnderWay
    <3> QED  BY <3>2, <3>3
  <2>2. CASE <<holds[d], j>> = <<holds[c], k>>
    <3>1. d = c /\ j = k
      BY <1>3, <1>6, <2>2 DEF Account
    <3> QED  BY <1>1, <1>4, <3>1
  <2> QED  BY <2>1, <2>2
<1> HIDE DEF more, k
<1>11. /\ holds \in [UnderWay' -> permits'] /\ IsFiniteSet(permits')
       /\ more \in SUBSET (permits' \X (1 .. attempts'))
       /\ \A d, e \in UnderWay' : holds[d] = holds[e] => d = e
  BY <1>2, <1>3, <1>6, <1>9 DEF Account, Charged
<1>12. \A d \in UnderWay' : \A j \in 1 .. attempts' :
         <<holds[d], j>> \in more => j <= Len(log'[d])
  BY <1>2, <1>3, <1>10
<1> QED  BY <1>8, <1>11, <1>12, ChargedNext

(* Every other step moves a call on without a request, or ends it.         *)
Keeps(c) ==
  /\ permits' = permits /\ requests' = requests /\ attempts' = attempts
  /\ \A d \in Callers \ {c} : at'[d] = at[d] /\ log'[d] = log[d]
  /\ \/ at'[c] \in {"idle", "limit"}
     \/ at[c] \notin {"idle", "limit"} /\ Len(log'[c]) = Len(log[c])

(* Such a step keeps the account.                                          *)
LEMMA KeepsCharged == ASSUME Charged, NEW c \in Callers, Keeps(c) PROVE Charged'
<1>1. UnderWay' \subseteq UnderWay
  BY DEF Keeps, UnderWay
<1>2. \A d \in UnderWay' : Len(log'[d]) = Len(log[d])
  BY DEF Keeps, UnderWay
<1> QED  BY <1>1, <1>2, ChargedIdle DEF Keeps

(* What the other steps of a call do to it.                                *)
LEMMA OthersKeep ==
  ASSUME DoInv, NEW c \in Callers,
         \/ NoRequest(c) \/ DoRejected(c) \/ DoBegin(c) \/ StartCancelled(c)
         \/ Start(c) \/ Exhausted(c) \/ ReadFails(c) \/ SendCancelled(c)
         \/ \E answer \in {"final", "retryable"} : Answer(c, answer)
         \/ FlightFails(c) \/ FlightCancelled(c) \/ GiveUp(c) \/ Delay(c)
         \/ DelayEnds(c) \/ DelayCancelled(c)
  PROVE  Keeps(c)
<1>0. /\ at \in [Callers -> {"idle", "limit", "start", "attempt", "flight",
                             "failed", "delay"}]
      /\ log \in [Callers -> Seq(Request)] /\ Waiting(c)
      /\ log[c] \in Seq(Request) /\ Len(log[c]) \in Nat
  BY OfCaller DEF HTTPTypes
<1>1. CASE NoRequest(c) \/ DoRejected(c)
  BY <1>0, <1>1 DEF NoRequest, DoRejected, WaitCancelled, Returns, Goes, config,
                    vars, Keeps
<1>2. CASE DoBegin(c)
  BY <1>0, <1>2 DEF DoBegin, WaitBegin, Goes, config, Keeps
<1>3. CASE \/ StartCancelled(c) \/ Start(c) \/ Exhausted(c) \/ GiveUp(c)
           \/ Delay(c) \/ DelayEnds(c) \/ DelayCancelled(c)
  BY <1>0, <1>3 DEF StartCancelled, Start, Exhausted, GiveUp, Delay, DelayEnds,
                    DelayCancelled, Returns, Goes, config, vars, Keeps
<1>4. CASE ReadFails(c) \/ SendCancelled(c)
  BY <1>0, <1>4 DEF ReadFails, SendCancelled, Goes, config, vars, Keeps
<1>5. CASE \/ \E answer \in {"final", "retryable"} : Answer(c, answer)
           \/ FlightFails(c) \/ FlightCancelled(c)
  <2>1. PICK a \in {"final", "retryable", "error"} :
          log' = [log EXCEPT ![c][Len(log[c])].answer = a]
    BY <1>5 DEF Answer, FlightFails, FlightCancelled, Meets
  <2>2. /\ at[c] = "flight"
        /\ at' = [at EXCEPT ![c] = "idle"] \/ at' = [at EXCEPT ![c] = "failed"]
        /\ permits' = permits /\ requests' = requests /\ attempts' = attempts
    BY <1>5 DEF Answer, FlightFails, FlightCancelled, Returns, Goes, config, vars
  <2> DEFINE k == Len(log[c])
             entry == [log[c][k] EXCEPT !.answer = a]
             new == [log[c] EXCEPT ![k] = entry]
  <2>3. log' = [log EXCEPT ![c] = new]
    BY <2>1
  <2>4. Len(new) = Len(log[c])
    <3>1. log[c][k] \in Request
      BY <1>0, <2>2 DEF Waiting
    <3>2. entry \in Request
      BY <3>1 DEF Request, Answers
    <3> HIDE DEF entry
    <3> QED  BY <1>0, <2>2, <3>2 DEF Waiting
  <2> HIDE DEF new
  <2> QED  BY <1>0, <2>2, <2>3, <2>4 DEF Keeps
<1> QED  BY <1>1, <1>2, <1>3, <1>4, <1>5

(* Every step of the client keeps the account.                             *)
LEMMA ChargedStep ==
  IInv /\ DoInv /\ RestTypes /\ Charged /\ [HTTPNext]_all => Charged'
<1> SUFFICES ASSUME IInv, DoInv, RestTypes, Charged, [HTTPNext]_all
             PROVE  Charged'
  OBVIOUS
<1>1. CASE UNCHANGED <<permits, at, log, requests, attempts>>
  <2>1. UnderWay' = UnderWay
    BY <1>1 DEF UnderWay
  <2> QED  BY <1>1, <2>1, ChargedIdle
<1>2. ASSUME NEW c \in Callers, DoWaits(c) PROVE Charged'
  BY <1>2, ChargedWaits DEF DoInv
<1>3. ASSUME NEW c \in Callers, Send(c) PROVE Charged'
  BY <1>3, ChargedSend DEF RestTypes
<1>4. ASSUME NEW c \in Callers,
             \/ NoRequest(c) \/ DoRejected(c) \/ DoBegin(c) \/ StartCancelled(c)
             \/ Start(c) \/ Exhausted(c) \/ ReadFails(c) \/ SendCancelled(c)
             \/ \E answer \in {"final", "retryable"} : Answer(c, answer)
             \/ FlightFails(c) \/ FlightCancelled(c) \/ GiveUp(c) \/ Delay(c)
             \/ DelayEnds(c) \/ DelayCancelled(c)
      PROVE  Charged'
  BY <1>4, OthersKeep, KeepsCharged
<1> QED
  BY <1>1, <1>2, <1>3, <1>4
     DEF HTTPNext, DoStep, LogPanics, SetRateLimit, SetLimitInvalid,
         SetLimitPanics, SetLimit, HTTPRest, Tick, Cancel, all, http, config,
         vars

(* Requests charged to permits, none twice to one as the same attempt:     *)
(* there are no more than permits and attempts allow.                      *)
LEMMA ChargedPermits ==
  TypeOK /\ DoInv /\ RestTypes /\ Charged => RequestsPermitted
<1> SUFFICES ASSUME TypeOK, DoInv, RestTypes, Charged PROVE RequestsPermitted
  OBVIOUS
<1>1. attempts \in Nat /\ IsFiniteSet(permits) /\ Cardinality(permits) \in Nat
  BY FS_CardinalityType DEF DoInv, HTTPTypes, Charged
<1>2. IsFiniteSet(1 .. attempts) /\ Cardinality(1 .. attempts) = attempts
  BY <1>1, FS_Interval
<1>3. /\ IsFiniteSet(permits \X (1 .. attempts))
      /\ Cardinality(permits \X (1 .. attempts)) = Cardinality(permits) * attempts
  BY <1>1, <1>2, FS_Product
<1>4. requests <= Cardinality(permits) * attempts
  BY <1>3, FS_Subset DEF Charged, Account
<1>5. requests <= attempts * Cardinality(permits)
  BY <1>1, <1>4
<1>6. ASSUME NEW c \in Callers, log[c] # <<>> PROVE pc[c] = "idle"
  <2>1. log[c] \in Seq(Request) /\ Counted(c)
    BY OfCaller
  <2>2. Len(log[c]) # 0
    BY <1>6, <2>1
  <2> QED  BY <2>1, <2>2 DEF RestTypes, Counted
<1> QED  BY <1>5, <1>6 DEF RequestsPermitted

(* The server never gets more than MaxRetries requests for a permit, and   *)
(* none before its call has one, for any number of callers and attempts.   *)
THEOREM RequestsArePermitted == HTTPSpec => []RequestsPermitted
<1> DEFINE Inv == DoInv /\ RestTypes /\ Charged
<1>1. HTTPInit => Inv
  BY DoInvInit, RestInit, ChargedInit
<1>2. HTTPSpec => []IInv
  BY ClientImplementsLimiter, LimiterInvariant, PTL
<1>3. IInv /\ Inv /\ [HTTPNext]_all => Inv'
  BY DoInvStep, RestStep, ChargedStep DEF DoInv, IInv
<1>4. IInv /\ Inv => RequestsPermitted
  BY ChargedPermits DEF IInv
<1> HIDE DEF Inv
<1> QED  BY <1>1, <1>2, <1>3, <1>4, PTL DEF HTTPSpec

=============================================================================

----------------------------- MODULE HTTPClient -----------------------------
(* The HTTP client, pkg/common/http.go: Do waits for the rate limiter and  *)
(* then makes its attempts in the retry loop of the vendored retry-go      *)
(* (retry.go, Do).  Get and Post build a request and call Do.  The server  *)
(* and net/http are external: a request is answered, fails, or is given    *)
(* up when its context is cancelled.  The limiter is RateLimiter.          *)
EXTENDS RateLimiter

CONSTANTS
  Attempts      \* the values of config.MaxRetries

ASSUME AttemptsAssumption == Attempts \subseteq Nat

VARIABLES
  attempts,     \* config.MaxRetries
  logger,       \* config.Logger is not nil
  at,           \* at[c]: where caller c is in Do
  body,         \* body[c]: the reader req.Body of its request
  n,            \* n[c]: attempts it has failed
  log,          \* log[c]: what the requests of its last call met with
  outcome,      \* outcome[c]: what its last call returned
  requests,     \* requests sent so far, by all callers
  crashed       \* a nil logger was called: the program is gone

config == <<attempts, logger>>
local  == <<body, n>>
http   == <<config, at, local, log, outcome, requests, crashed>>
all    == <<vars, http>>

(* What a reader still holds: everything, what an error has left of it, or *)
(* nothing.  A memory reader (Post, or a copy) does not fail, a stream may.*)
Body == [kind : {"memory", "stream"}, copied : BOOLEAN,
         holds : {"whole", "rest", "none"}]
Memory == [kind |-> "memory", copied |-> FALSE, holds |-> "whole"]
Stream == [kind |-> "stream", copied |-> FALSE, holds |-> "whole"]

Answers == {"pending", "final", "retryable", "error"}
Request == [body : Body, answer : Answers]

HTTPTypeOK ==
  /\ TypeOK
  /\ attempts \in Attempts /\ logger \in BOOLEAN
  /\ at \in [Callers -> {"idle", "limit", "start", "attempt", "flight",
                         "failed", "delay"}]
  /\ \A c \in Callers : pc[c] # "idle" => at[c] = "limit"
  /\ body \in [Callers -> Body]
  /\ n \in [Callers -> Nat]
  /\ log \in [Callers -> Seq(Request)]
  /\ outcome \in [Callers -> {"none", "response", "error"}]
  /\ requests \in Nat /\ crashed \in BOOLEAN

HTTPInit ==
  /\ Init
  /\ attempts \in Attempts /\ logger \in BOOLEAN
  /\ at = [c \in Callers |-> "idle"]
  /\ body = [c \in Callers |-> Memory]
  /\ n = [c \in Callers |-> 0]
  /\ log = [c \in Callers |-> <<>>]
  /\ outcome = [c \in Callers |-> "none"]
  /\ requests = 0 /\ crashed = FALSE

-----------------------------------------------------------------------------
Goes(c, from, to) == /\ ~panicked /\ at[c] = from
                     /\ at' = [at EXCEPT ![c] = to]

Returns(c, from, result) == /\ Goes(c, from, "idle")
                            /\ outcome' = [outcome EXCEPT ![c] = result]

(* A Post whose body does not marshal, a Get of a malformed URL.           *)
NoRequest(c) ==
  /\ Returns(c, "idle", "error")
  /\ log' = [log EXCEPT ![c] = <<>>]
  /\ UNCHANGED <<vars, config, local, requests, crashed>>

(* The limiter's Wait, once for the call.                                  *)
DoRejected(c) ==
  /\ WaitCancelled(c) /\ Returns(c, "idle", "error")
  /\ log' = [log EXCEPT ![c] = <<>>]
  /\ UNCHANGED <<config, local, requests, crashed>>

DoBegin(c) ==
  /\ WaitBegin(c) /\ Goes(c, "idle", "limit")
  /\ \E b \in {Memory, Stream} : body' = [body EXCEPT ![c] = b]
  /\ n' = [n EXCEPT ![c] = 0]
  /\ log' = [log EXCEPT ![c] = <<>>]
  /\ outcome' = [outcome EXCEPT ![c] = "none"]
  /\ UNCHANGED <<config, requests, crashed>>

DoWaitsForSlot(c) ==                                                  \* a mutant
  /\ at[c] = "limit" /\ TakeStep(c)
  /\ at' = [at EXCEPT ![c] =
              IF pc'[c] \in {"idle", "sleep"} THEN "start" ELSE "limit"]
  /\ UNCHANGED <<config, local, log, outcome, requests, crashed>>

DoWaits(c) ==
  /\ at[c] = "limit" /\ TakeStep(c)
  /\ at' = [at EXCEPT ![c] = IF pc'[c] = "idle" THEN "start" ELSE "limit"]
  /\ UNCHANGED <<config, local, log, outcome, requests, crashed>>

(* retry.Do looks at the context once before its loop.                     *)
StartCancelled(c) ==
  /\ c \in cancelled /\ Returns(c, "start", "error")
  /\ UNCHANGED <<vars, config, local, log, requests, crashed>>

Start(c) ==
  /\ c \notin cancelled /\ Goes(c, "start", "attempt")
  /\ UNCHANGED <<vars, config, local, log, outcome, requests, crashed>>

(* With no attempts the list of errors is empty, and yet an error.         *)
Exhausted(c) ==
  /\ n[c] >= attempts /\ Returns(c, "attempt", "error")
  /\ UNCHANGED <<vars, config, local, log, requests, crashed>>

-----------------------------------------------------------------------------
(* The body is read, and a copy of it put back for the next attempt.       *)
PutBackNot(b) == [b EXCEPT !.holds = "none"]                          \* a mutant
PutBack(b) == [b EXCEPT !.copied = TRUE]

ReadFails(c) ==
  /\ n[c] < attempts /\ body[c].kind = "stream" /\ ~body[c].copied
  /\ Goes(c, "attempt", "failed")
  /\ body' = [body EXCEPT ![c].holds = "rest"]
  /\ UNCHANGED <<vars, config, n, log, outcome, requests, crashed>>

(* net/http sends nothing when the context is cancelled.                   *)
SendCancelled(c) ==
  /\ n[c] < attempts /\ c \in cancelled
  /\ Goes(c, "attempt", "failed")
  /\ body' = [body EXCEPT ![c] = PutBack(@)]
  /\ UNCHANGED <<vars, config, n, log, outcome, requests, crashed>>

Send(c) ==
  /\ n[c] < attempts /\ c \notin cancelled
  /\ Goes(c, "attempt", "flight")
  /\ log' = [log EXCEPT ![c] = Append(@, [body |-> body[c],
                                          answer |-> "pending"])]
  /\ requests' = requests + 1
  /\ body' = [body EXCEPT ![c] = PutBack(@)]
  /\ UNCHANGED <<vars, config, n, outcome, crashed>>

Meets(c, answer) == log' = [log EXCEPT ![c][Len(log[c])].answer = answer]

(* The server's answer, which the client takes for final unless the status *)
(* is 429 or 5xx; or an error, or the end of the context.                  *)
AcceptedAll(answer) == TRUE                                           \* a mutant
Accepted(answer) == answer = "final"

Answer(c, answer) ==
  /\ Meets(c, answer)
  /\ IF Accepted(answer)
     THEN Returns(c, "flight", "response")
     ELSE Goes(c, "flight", "failed") /\ UNCHANGED outcome
  /\ UNCHANGED <<vars, config, local, requests, crashed>>

FlightFails(c) ==
  /\ Goes(c, "flight", "failed") /\ Meets(c, "error")
  /\ UNCHANGED <<vars, config, local, outcome, requests, crashed>>

FlightCancelledNot(c) == c \in cancelled /\ FALSE                      \* a mutant
FlightCancelled(c) ==
  /\ c \in cancelled
  /\ Goes(c, "flight", "failed") /\ Meets(c, "error")
  /\ UNCHANGED <<vars, config, local, outcome, requests, crashed>>

(* OnRetry logs, also after the last attempt, and needs a logger for it.   *)
LogPanics(c) ==
  /\ ~logger /\ at[c] = "failed"
  /\ crashed' = TRUE
  /\ UNCHANGED <<vars, config, at, local, log, outcome, requests>>

Last(c) == n[c] = attempts - 1

GiveUp(c) ==
  /\ logger /\ Last(c) /\ Returns(c, "failed", "error")
  /\ UNCHANGED <<vars, config, local, log, requests, crashed>>

Delay(c) ==
  /\ logger /\ ~Last(c) /\ Goes(c, "failed", "delay")
  /\ UNCHANGED <<vars, config, local, log, outcome, requests, crashed>>

DelayEnds(c) ==
  /\ Goes(c, "delay", "attempt")
  /\ n' = [n EXCEPT ![c] = @ + 1]
  /\ UNCHANGED <<vars, config, body, log, outcome, requests, crashed>>

DelayCancelled(c) ==
  /\ c \in cancelled /\ Returns(c, "delay", "error")
  /\ UNCHANGED <<vars, config, local, log, requests, crashed>>

-----------------------------------------------------------------------------
SetRateLimit(c) ==
  /\ at[c] = "idle"
  /\ \E rate \in Rates :
       SetLimitInvalid(c, rate) \/ SetLimitPanics(c, rate) \/ SetLimit(c, rate)
  /\ UNCHANGED http

(* What the client does by itself, once a call has begun.                  *)
DoStep(c) ==
  \/ DoWaits(c) \/ StartCancelled(c) \/ Start(c) \/ Exhausted(c)
  \/ ReadFails(c) \/ SendCancelled(c) \/ Send(c) \/ FlightCancelled(c)
  \/ LogPanics(c) \/ GiveUp(c) \/ Delay(c) \/ DelayEnds(c) \/ DelayCancelled(c)

HTTPRest ==
  /\ panicked \/ crashed \/ \A c \in Callers : at[c] = "idle" /\ calls[c] = MaxCalls
  /\ UNCHANGED all

HTTPNext ==
  \/ /\ ~crashed
     /\ \/ \E c \in Callers :
             \/ NoRequest(c) \/ DoRejected(c) \/ DoBegin(c) \/ DoStep(c)
             \/ \E answer \in {"final", "retryable"} : Answer(c, answer)
             \/ FlightFails(c) \/ SetRateLimit(c)
             \/ Cancel(c) /\ UNCHANGED http
        \/ Tick /\ UNCHANGED http
  \/ HTTPRest

HTTPSpec == HTTPInit /\ [][HTTPNext]_all

(* The client's goroutines run, its timers fire, time passes, and net/http *)
(* gives a cancelled request up.  Nothing is assumed of the server.        *)
HTTPFairSpec ==
  /\ HTTPSpec /\ WF_all(~crashed /\ Tick /\ UNCHANGED http)
  /\ \A c \in Callers : WF_all(~crashed /\ DoStep(c))

-----------------------------------------------------------------------------
(* Every attempt of a call sends the same body, however often it is        *)
(* retried: all of it for a request made by Post, what could be read of a  *)
(* stream (http.go 245-262).                                               *)
SameBody ==
  \A c \in Callers : \A i \in 1 .. Len(log[c]) :
    LET sent == log[c][i].body
    IN  /\ sent.holds = log[c][1].body.holds
        /\ sent.kind = "memory" => sent.holds = "whole"

(* A call returns a response exactly when the last of its requests was     *)
(* answered with a final status, and no request follows such an answer:    *)
(* nothing is answered twice, an answer is never lost to a cancelled       *)
(* context or a late failure, and there are at most MaxRetries requests    *)
(* (http.go 242-286, retry.go 118-168).                                    *)
DoOutcome ==
  \A c \in Callers :
    LET Final(i) == log[c][i].answer = "final"
    IN  /\ Len(log[c]) <= attempts
        /\ \A i \in 1 .. Len(log[c]) : Final(i) => i = Len(log[c])
        /\ outcome[c] = "response" <=> \E i \in 1 .. Len(log[c]) : Final(i)
        /\ at[c] = "idle" => \A i \in 1 .. Len(log[c]) :
                               log[c][i].answer # "pending"

(* The retries of a call go out on its one permit, so the server gets more *)
(* than the configured rate, but never more than MaxRetries requests for a *)
(* permit, and none before its call has got one (http.go 237-246).         *)
RequestsPermitted ==
  /\ requests <= attempts * Cardinality(permits)
  /\ \A c \in Callers : log[c] # <<>> => pc[c] = "idle"

(* A Do whose context is cancelled returns, wherever it is: asleep in the  *)
(* limiter, between attempts, or waiting for a server that never answers   *)
(* (http.go 237, 245, 263; retry.go 118, 147-151).                         *)
CancelledReturns ==
  \A c \in Callers :
    (at[c] # "idle" /\ c \in cancelled) ~> (at[c] = "idle" \/ panicked \/ crashed)

=============================================================================

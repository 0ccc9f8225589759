----------------------------- MODULE RateLimiter -----------------------------
(* The rate limiter, pkg/ratelimit/limiter.go, around the lock-free        *)
(* limiter of the vendored go.uber.org/ratelimit                           *)
(* (limiter_atomic_int64.go): concurrent callers of Wait, each of which    *)
(* reserves a time slot by a compare-and-swap and sleeps until it, and     *)
(* SetLimit, which puts a new limiter in the place of the old one.  Time   *)
(* is discrete; limiters are numbered in the order in which they are made. *)
EXTENDS Integers, Sequences, FiniteSets

CONSTANTS
  Callers,      \* goroutines of the application
  Rates,        \* the rates they set: limit operations per interval
  InitialRate,  \* the rate of NewTokenBucketLimiter
  Second,       \* ticks of the clock in a second
  Slack,        \* the library's slack, 10 (ratelimit.go, buildConfig)
  MaxClock,     \* BOUND: the clock runs on only for those asleep
  MaxLimiters,  \* BOUND: limiters made
  MaxCalls,     \* BOUND: calls made by each caller
  Cancelling    \* BOUND: the callers whose context may be cancelled

Rate   == [limit : Int, interval : Int]
Valid(rate) == rate.limit > 0 /\ rate.interval > 0

(* int(rps): operations per second, rounded down.                          *)
Rps(rate) == (rate.limit * Second) \div rate.interval

ASSUME LimiterAssumption ==
  /\ Rates \subseteq Rate
  /\ InitialRate \in Rate /\ Valid(InitialRate)
  /\ Second \in Nat \ {0} /\ Slack \in Nat
  /\ Rps(InitialRate) > 0
  /\ Cancelling \subseteq Callers
  /\ MaxClock \in Nat /\ MaxLimiters \in Nat \ {0} /\ MaxCalls \in Nat

VARIABLES
  clock,      \* time.Now, later than 0
  limiters,   \* the limiters made so far; the last one is l.limiter
  pc,         \* pc[c]: where caller c is in Wait
  take,       \* take[c]: the local variables of its Take
  cancelled,  \* the callers whose context is cancelled
  permits,    \* the calls of Wait that returned nil
  calls,      \* calls[c]: calls made by caller c
  panicked    \* division by zero: the program is gone

vars == <<clock, limiters, pc, take, cancelled, permits, calls, panicked>>

(* An atomicInt64Limiter: per is its perRequest, slots the times it issued *)
(* so far.  Its state is the last of them, 0 before the first.             *)
Limiter == [per : Nat, slots : Seq(Nat \ {0})]
New(rate) == [per |-> Second \div Rps(rate), slots |-> <<>>]

Ids == 1 .. Len(limiters)

State(l) == LET s == limiters[l].slots
            IN  IF s = <<>> THEN 0 ELSE s[Len(s)]

MaxSlack(l) == Slack * limiters[l].per

Locals == [lim : Nat, now : Nat, loaded : Nat, n : Nat, wake : Int]
NoTake == [lim |-> 0, now |-> 0, loaded |-> 0, n |-> 0, wake |-> 0]

TypeOK ==
  /\ clock \in Nat \ {0}
  /\ limiters \in Seq(Limiter) /\ limiters # <<>>
  /\ pc \in [Callers -> {"idle", "now", "load", "swap", "sleep"}]
  /\ take \in [Callers -> Locals]
  /\ \A c \in Callers : pc[c] # "idle" => take[c].lim \in Ids
  /\ cancelled \subseteq Callers
  /\ permits \subseteq [lim : Ids, n : Nat, began : Nat, ended : Nat]
  /\ calls \in [Callers -> Nat]
  /\ panicked \in BOOLEAN

Init ==
  /\ clock = 1
  /\ limiters = <<New(InitialRate)>>
  /\ pc = [c \in Callers |-> "idle"]
  /\ take = [c \in Callers |-> NoTake]
  /\ cancelled = {} /\ permits = {}
  /\ calls = [c \in Callers |-> 0]
  /\ panicked = FALSE

-----------------------------------------------------------------------------
(* Wait: the context is looked at once, then l.limiter is read.            *)
Calls(c) == /\ ~panicked /\ pc[c] = "idle" /\ calls[c] < MaxCalls
            /\ calls' = [calls EXCEPT ![c] = @ + 1]

WaitCancelled(c) ==
  /\ Calls(c) /\ c \in cancelled
  /\ UNCHANGED <<clock, limiters, pc, take, cancelled, permits, panicked>>

WaitBeginCached(c) ==                                                \* a mutant
  /\ Calls(c) /\ c \notin cancelled
  /\ take' = [take EXCEPT ![c].lim = 1]
  /\ pc' = [pc EXCEPT ![c] = "now"]
  /\ UNCHANGED <<clock, limiters, cancelled, permits, panicked>>

WaitBegin(c) ==
  /\ Calls(c) /\ c \notin cancelled
  /\ take' = [take EXCEPT ![c].lim = Len(limiters)]
  /\ pc' = [pc EXCEPT ![c] = "now"]
  /\ UNCHANGED <<clock, limiters, cancelled, permits, panicked>>

(* Take: the loop of clock reading, load and compare-and-swap.  Locals     *)
(* that are not read again are cleared.                                    *)
ReadClock(c) ==
  /\ ~panicked /\ pc[c] = "now"
  /\ take' = [take EXCEPT ![c].now = clock]
  /\ pc' = [pc EXCEPT ![c] = "load"]
  /\ UNCHANGED <<clock, limiters, cancelled, permits, calls, panicked>>

LoadState(c) ==
  /\ ~panicked /\ pc[c] = "load"
  /\ take' = [take EXCEPT ![c].loaded = State(take[c].lim)]
  /\ pc' = [pc EXCEPT ![c] = "swap"]
  /\ UNCHANGED <<clock, limiters, cancelled, permits, calls, panicked>>

NextSlotEager(l, now, t) ==                                         \* a mutant
  IF t = 0 THEN now ELSE now - MaxSlack(l)

NextSlotUncapped(l, now, t) ==                                      \* a mutant
  IF t = 0 THEN now ELSE t + limiters[l].per

(* The slot of a Take that read the clock at now and the state t.          *)
NextSlot(l, now, t) ==
  LET per == limiters[l].per
  IN  IF t = 0 \/ (MaxSlack(l) = 0 /\ now - t > per) THEN now
      ELSE IF MaxSlack(l) > 0 /\ now - t > MaxSlack(l) + per
      THEN now - MaxSlack(l)
      ELSE t + per

Slot(c) == NextSlot(take[c].lim, take[c].now, take[c].loaded)

Permit(c, n) == [lim |-> take[c].lim, n |-> n, began |-> take[c].now,
                 ended |-> clock]

UnchangedAssumed(c) == TRUE                                          \* a mutant

(* The state is still the one that was loaded.                             *)
Unchanged(c) == State(take[c].lim) = take[c].loaded

SwapFailsKeeping(c) ==                                               \* a mutant
  ~panicked /\ pc[c] = "swap" /\ ~Unchanged(c) /\ UNCHANGED vars

SwapFails(c) ==
  /\ ~panicked /\ pc[c] = "swap" /\ ~Unchanged(c)
  /\ pc' = [pc EXCEPT ![c] = "now"]
  /\ take' = [take EXCEPT ![c] = [NoTake EXCEPT !.lim = take[c].lim]]
  /\ UNCHANGED <<clock, limiters, cancelled, permits, calls, panicked>>

Swap(c) ==
  LET l == take[c].lim
      n == Len(limiters[l].slots) + 1
      pause == Slot(c) - take[c].now
  IN  /\ ~panicked /\ pc[c] = "swap" /\ Unchanged(c)
      /\ limiters' = [limiters EXCEPT ![l].slots = Append(@, Slot(c))]
      /\ IF pause > 0
         THEN /\ take' = [take EXCEPT ![c] =
                            [@ EXCEPT !.loaded = 0, !.n = n,
                                      !.wake = clock + pause]]
              /\ pc' = [pc EXCEPT ![c] = "sleep"]
              /\ UNCHANGED permits
         ELSE /\ permits' = permits \cup {Permit(c, n)}
              /\ pc' = [pc EXCEPT ![c] = "idle"]
              /\ take' = [take EXCEPT ![c] = NoTake]
      /\ UNCHANGED <<clock, cancelled, calls, panicked>>

Wake(c) ==
  /\ ~panicked /\ pc[c] = "sleep" /\ clock >= take[c].wake
  /\ permits' = permits \cup {Permit(c, take[c].n)}
  /\ pc' = [pc EXCEPT ![c] = "idle"] /\ take' = [take EXCEPT ![c] = NoTake]
  /\ UNCHANGED <<clock, limiters, cancelled, calls, panicked>>

-----------------------------------------------------------------------------
(* SetLimit: an invalid rate is refused; a rate below one operation per    *)
(* second is valid and makes newAtomicInt64Based divide by zero.           *)
SetLimitInvalid(c, rate) ==
  /\ Calls(c) /\ ~Valid(rate)
  /\ UNCHANGED <<clock, limiters, pc, take, cancelled, permits, panicked>>

SetLimitPanics(c, rate) ==
  /\ Calls(c) /\ Valid(rate) /\ Rps(rate) = 0
  /\ panicked' = TRUE
  /\ UNCHANGED <<clock, limiters, pc, take, cancelled, permits>>

SetLimit(c, rate) ==
  /\ Calls(c) /\ Valid(rate) /\ Rps(rate) > 0
  /\ Len(limiters) < MaxLimiters
  /\ limiters' = Append(limiters, New(rate))
  /\ UNCHANGED <<clock, pc, take, cancelled, permits, panicked>>

(* The environment: time passes, contexts are cancelled.                   *)
Tick ==
  /\ ~panicked
  /\ \/ clock < MaxClock
     \/ \E c \in Callers : pc[c] = "sleep" /\ clock < take[c].wake
  /\ clock' = clock + 1
  /\ UNCHANGED <<limiters, pc, take, cancelled, permits, calls, panicked>>

Cancel(c) ==
  /\ ~panicked /\ c \in Cancelling \ cancelled
  /\ cancelled' = cancelled \cup {c}
  /\ UNCHANGED <<clock, limiters, pc, take, permits, calls, panicked>>

-----------------------------------------------------------------------------
TakeStep(c) ==
  ReadClock(c) \/ LoadState(c) \/ SwapFails(c) \/ Swap(c) \/ Wake(c)

CallerStep(c) ==
  \/ WaitCancelled(c) \/ WaitBegin(c) \/ TakeStep(c)
  \/ \E rate \in Rates :
       SetLimitInvalid(c, rate) \/ SetLimitPanics(c, rate) \/ SetLimit(c, rate)

Rest ==
  /\ panicked \/ \A c \in Callers : pc[c] = "idle" /\ calls[c] = MaxCalls
  /\ UNCHANGED vars

Next ==
  \/ \E c \in Callers : CallerStep(c) \/ Cancel(c)
  \/ Tick
  \/ Rest

Spec == Init /\ [][Next]_vars

(* Time passes, and a goroutine inside Take runs.                          *)
FairSpec ==
  Spec /\ WF_vars(Tick) /\ \A c \in Callers : WF_vars(TakeStep(c))

-----------------------------------------------------------------------------
(* Two slots of one limiter are as many perRequests apart as slots were    *)
(* issued in between, whatever callers compete for them (Take, 68-87).     *)
SlotsSpaced ==
  \A l \in Ids : \A i, j \in 1 .. Len(limiters[l].slots) :
    LET s == limiters[l].slots
    IN  i < j => s[j] - s[i] >= (j - i) * limiters[l].per

(* The rate is kept over every window of time: of the calls of Wait that   *)
(* begin and return in a window, one limiter admits no more than the       *)
(* window has perRequests, and the slack on top (Take, Wait).              *)
RateKept ==
  \A p, q \in permits :
    p.lim = q.lim /\ p.n < q.n =>
      (q.n - p.n) * limiters[p.lim].per
        <= q.ended - p.began + MaxSlack(p.lim)

(* The calls of Wait that began at from or later, and returned by to, with *)
(* a permit of limiter l.                                                  *)
Admitted(l, from, to) ==
  {p \in permits : p.lim = l /\ p.began >= from /\ p.ended <= to}

(* What the limiter is there for: the calls that begin and return within a *)
(* window of time are one more, at most, than the window and the slack     *)
(* have perRequests in them.  A slot given to two callers, or a slack that *)
(* grows while nobody calls, breaks it (Take, 68-92; Wait, 168-184).       *)
WindowKept ==
  \A l \in Ids : \A from, to \in 1 .. clock :
    from <= to =>
      (Cardinality(Admitted(l, from, to)) - 1) * limiters[l].per
        <= to - from + MaxSlack(l)

(* The callers that have yet to get their slot from limiter l.             *)
Racing(l) == {c \in Callers : pc[c] \in {"now", "load", "swap"}
                              /\ take[c].lim = l}

(* A limiter that SetLimit has replaced drains, although nothing keeps its *)
(* callers from it: no caller joins them, also none that has to go round,  *)
(* and every slot it still issues takes one of them away.  So it admits no *)
(* more than the calls that were under way (SetLimit, 206; Wait, 168).     *)
OldLimiterDrains ==
  [][\A l \in Ids : l < Len(limiters) =>
       /\ Racing(l)' \subseteq Racing(l)
       /\ limiters'[l] # limiters[l] =>
            /\ Len(limiters'[l].slots) = Len(limiters[l].slots) + 1
            /\ Racing(l)' # Racing(l)]_vars

(* Every Wait returns: callers that lose the compare-and-swap go round,    *)
(* and nobody sleeps forever (68-92).                                      *)
WaitReturns ==
  \A c \in Callers : pc[c] # "idle" ~> (pc[c] = "idle" \/ panicked)

=============================================================================

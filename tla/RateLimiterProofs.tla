-------------------------- MODULE RateLimiterProofs --------------------------
(* Proofs about RateLimiter: types, the spacing of the slots, and the rate *)
(* over every window, for any number of callers, rates and calls.          *)
EXTENDS RateLimiter, FiniteSetTheorems, TLAPS

(* The locals of a Take under way: the clock was read before now; the slot *)
(* of a caller that sleeps was issued, no longer before that reading than  *)
(* the slack, and is over when the caller wakes.                           *)
Asleep(c) ==
  LET s == limiters[take[c].lim].slots
  IN  /\ take[c].n \in 1 .. Len(s)
      /\ take[c].now - MaxSlack(take[c].lim) <= s[take[c].n]
      /\ s[take[c].n] <= take[c].wake

TakesOK ==
  \A c \in Callers :
    /\ pc[c] \in {"load", "swap", "sleep"} => take[c].now \in 1 .. clock
    /\ pc[c] = "sleep" => Asleep(c)

(* A permit's slot lies between its beginning, less the slack, and its end.*)
Timely(p) ==
  LET s == limiters[p.lim].slots
  IN  /\ p.n \in 1 .. Len(s)
      /\ p.began - MaxSlack(p.lim) <= s[p.n]
      /\ s[p.n] <= p.ended

PermitsOK == \A p \in permits : Timely(p)

(* No slot is given twice: neither to two calls that have returned, nor to *)
(* one that has and one that still sleeps, nor to two that sleep.          *)
OwnSlots ==
  /\ \A p, q \in permits : p.lim = q.lim /\ p.n = q.n => p = q
  /\ \A c \in Callers : pc[c] = "sleep" =>
       /\ \A p \in permits : ~ (p.lim = take[c].lim /\ p.n = take[c].n)
       /\ \A d \in Callers \ {c} :
            pc[d] = "sleep" =>
              ~ (take[d].lim = take[c].lim /\ take[d].n = take[c].n)

IInv == TypeOK /\ SlotsSpaced /\ TakesOK /\ PermitsOK /\ OwnSlots

(* A step keeps the limiters and the slots they have issued.               *)
Extended ==
  \A l \in Ids :
    /\ l \in 1 .. Len(limiters')
    /\ limiters'[l].per = limiters[l].per
    /\ Len(limiters[l].slots) <= Len(limiters'[l].slots)
    /\ \A i \in 1 .. Len(limiters[l].slots) :
         limiters'[l].slots[i] = limiters[l].slots[i]

(* newAtomicInt64Based, for a valid rate of one per second or more: its    *)
(* perRequest is a duration, and no slot has been issued.                  *)
LEMMA NewLimiter ==
  ASSUME NEW rate \in Rate, Valid(rate), Rps(rate) > 0
  PROVE  New(rate) \in Limiter /\ New(rate).slots = <<>>
<1>1. Rps(rate) \in Int
  BY LimiterAssumption DEF Rps, Rate, Valid
<1>2. Second \div Rps(rate) \in Nat
  BY <1>1, LimiterAssumption
<1> QED  BY <1>2 DEF New, Limiter

(* What a well-typed limiter is: the state is 0 exactly before the first   *)
(* slot, and the slack is a duration.                                      *)
LEMMA LimiterTypes ==
  ASSUME TypeOK, NEW l \in Ids
  PROVE  /\ limiters[l] \in Limiter
         /\ limiters[l].per \in Nat
         /\ limiters[l].slots \in Seq(Nat \ {0})
         /\ Len(limiters[l].slots) \in Nat
         /\ State(l) \in Nat
         /\ State(l) = 0 <=> Len(limiters[l].slots) = 0
         /\ Len(limiters[l].slots) > 0 =>
              State(l) = limiters[l].slots[Len(limiters[l].slots)]
         /\ MaxSlack(l) \in Nat
<1>1. limiters[l] \in Limiter
  BY DEF TypeOK, Ids
<1>2. /\ limiters[l].per \in Nat /\ limiters[l].slots \in Seq(Nat \ {0})
      /\ Len(limiters[l].slots) \in Nat
  BY <1>1 DEF Limiter
<1>3. MaxSlack(l) \in Nat
  BY <1>2, LimiterAssumption DEF MaxSlack
<1>4. CASE limiters[l].slots = <<>>
  BY <1>1, <1>2, <1>3, <1>4 DEF State
<1>5. CASE limiters[l].slots # <<>>
  <2>1. Len(limiters[l].slots) \in Nat \ {0}
    BY <1>2, <1>5
  <2>2. limiters[l].slots[Len(limiters[l].slots)] \in Nat \ {0}
    BY <1>2, <2>1
  <2> QED  BY <1>1, <1>2, <1>3, <1>5, <2>1, <2>2 DEF State
<1> QED  BY <1>4, <1>5

(* The slot that a compare-and-swap issues, when the state is the one it   *)
(* loaded: a perRequest after the last one at least, and before the clock  *)
(* reading by the slack at most (Take, 72-83).                             *)
LEMMA NextSlotBounds ==
  ASSUME TypeOK, NEW l \in Ids, NEW now \in Nat \ {0}
  PROVE  LET s == NextSlot(l, now, State(l))
         IN  /\ s \in Nat \ {0}
             /\ now - MaxSlack(l) <= s
             /\ State(l) # 0 => State(l) + limiters[l].per <= s
<1> DEFINE t == State(l)
           per == limiters[l].per
           m == MaxSlack(l)
<1>1. t \in Nat /\ per \in Nat /\ m \in Nat
  BY LimiterTypes
<1>2. NextSlot(l, now, t) =
        IF t = 0 \/ (m = 0 /\ now - t > per) THEN now
        ELSE IF m > 0 /\ now - t > m + per THEN now - m ELSE t + per
  BY DEF NextSlot
<1> HIDE DEF t, per, m
<1> QED  BY <1>1, <1>2 DEF t, per, m

-----------------------------------------------------------------------------
(* Initially: one limiter, and nobody in Wait.                             *)
LEMMA InitIInv == Init => IInv
<1> SUFFICES ASSUME Init PROVE IInv
  OBVIOUS
<1>1. New(InitialRate) \in Limiter /\ New(InitialRate).slots = <<>>
  BY NewLimiter, LimiterAssumption
<1>2. /\ limiters \in Seq(Limiter) /\ limiters # <<>>
      /\ \A l \in Ids : limiters[l].slots = <<>>
  BY <1>1 DEF Init, Ids
<1>3. NoTake \in Locals
  BY DEF NoTake, Locals
<1>4. TypeOK
  <2>1. /\ take \in [Callers -> Locals]
        /\ pc \in [Callers -> {"idle", "now", "load", "swap", "sleep"}]
        /\ \A c \in Callers : pc[c] = "idle"
        /\ calls \in [Callers -> Nat]
    BY <1>3 DEF Init
  <2>2. /\ clock \in Nat \ {0} /\ cancelled \subseteq Callers
        /\ permits = {}
    BY DEF Init
  <2>3. panicked \in BOOLEAN
    BY DEF Init
  <2> QED  BY <1>2, <2>1, <2>2, <2>3 DEF TypeOK
<1>5. SlotsSpaced
  BY <1>2 DEF SlotsSpaced
<1>6. TakesOK /\ PermitsOK /\ OwnSlots
  BY DEF TakesOK, PermitsOK, OwnSlots, Init
<1> QED  BY <1>4, <1>5, <1>6 DEF IInv

-----------------------------------------------------------------------------
(* What a compare-and-swap that succeeds does to the limiter: one slot is  *)
(* added to its slots, after the last one and positive (Take, 72-88).      *)
LEMMA SwapIssues ==
  ASSUME TypeOK, TakesOK, NEW c \in Callers, Swap(c)
  PROVE  LET l == take[c].lim
             s == limiters[l].slots
         IN  /\ l \in Ids /\ take[c].now \in 1 .. clock
             /\ Slot(c) \in Nat \ {0}
             /\ take[c].now - MaxSlack(l) <= Slot(c)
             /\ Len(s) > 0 => s[Len(s)] + limiters[l].per <= Slot(c)
             /\ limiters' = [limiters EXCEPT ![l].slots = Append(s, Slot(c))]
             /\ Append(s, Slot(c)) \in Seq(Nat \ {0})
             /\ Len(Append(s, Slot(c))) = Len(s) + 1
             /\ \A i \in 1 .. Len(s) : Append(s, Slot(c))[i] = s[i]
             /\ Append(s, Slot(c))[Len(s) + 1] = Slot(c)
<1> DEFINE l == take[c].lim
           s == limiters[l].slots
<1>1. l \in Ids /\ take[c].now \in 1 .. clock
  BY DEF Swap, TakesOK, TypeOK
<1>2. take[c].now \in Nat \ {0}
  BY <1>1 DEF TypeOK
<1>3. Slot(c) = NextSlot(l, take[c].now, State(l))
  BY DEF Swap, Slot, Unchanged
<1>4. /\ Slot(c) \in Nat \ {0}
      /\ take[c].now - MaxSlack(l) <= Slot(c)
      /\ State(l) # 0 => State(l) + limiters[l].per <= Slot(c)
  BY <1>1, <1>2, <1>3, NextSlotBounds
<1>5. s \in Seq(Nat \ {0}) /\ Len(s) \in Nat
      /\ (Len(s) > 0 => State(l) = s[Len(s)])
      /\ (State(l) = 0 <=> Len(s) = 0)
  BY <1>1, LimiterTypes
<1>6. /\ Append(s, Slot(c)) \in Seq(Nat \ {0})
      /\ Len(Append(s, Slot(c))) = Len(s) + 1
      /\ \A i \in 1 .. Len(s) : Append(s, Slot(c))[i] = s[i]
      /\ Append(s, Slot(c))[Len(s) + 1] = Slot(c)
  BY <1>4, <1>5, SMTT(30)
<1>7. limiters' = [limiters EXCEPT ![l].slots = Append(s, Slot(c))]
  BY DEF Swap
<1>8. Len(s) > 0 => s[Len(s)] + limiters[l].per <= Slot(c)
  BY <1>4, <1>5
<1> QED  BY <1>1, <1>4, <1>6, <1>7, <1>8

(* The limiters after such a step, one by one.                             *)
LEMMA SwapLimiters ==
  ASSUME TypeOK, TakesOK, NEW c \in Callers, Swap(c)
  PROVE  /\ limiters' \in Seq(Limiter)
         /\ Len(limiters') = Len(limiters)
         /\ \A j \in Ids :
              /\ limiters'[j].per = limiters[j].per
              /\ limiters'[j].slots = IF j = take[c].lim
                                      THEN Append(limiters[j].slots, Slot(c))
                                      ELSE limiters[j].slots
<1> DEFINE l == take[c].lim
           new == [limiters[l] EXCEPT !.slots = Append(limiters[l].slots, Slot(c))]
<1>1. /\ l \in Ids /\ limiters[l] \in Limiter
      /\ Append(limiters[l].slots, Slot(c)) \in Seq(Nat \ {0})
  BY SwapIssues, LimiterTypes
<1>2. /\ new \in Limiter /\ new.per = limiters[l].per
      /\ new.slots = Append(limiters[l].slots, Slot(c))
  BY <1>1 DEF Limiter
<1>3. limiters' = [limiters EXCEPT ![l] = new]
  BY DEF Swap
<1> HIDE DEF new, l
<1>4. limiters \in Seq(Limiter) /\ l \in 1 .. Len(limiters)
  BY <1>1 DEF TypeOK, Ids
<1>5. /\ limiters' \in Seq(Limiter)
      /\ Len(limiters') = Len(limiters)
      /\ \A j \in 1 .. Len(limiters) :
           limiters'[j] = IF j = l THEN new ELSE limiters[j]
  BY <1>2, <1>3, <1>4
<1> QED  BY <1>2, <1>5 DEF Ids, l

(* Limiters are only added, and only get slots (Take, SetLimit).           *)
LEMMA StepLimiters ==
  TypeOK /\ TakesOK /\ [Next]_vars =>
    limiters' \in Seq(Limiter) /\ limiters' # <<>> /\ Extended
<1> SUFFICES ASSUME TypeOK, TakesOK, [Next]_vars
             PROVE  limiters' \in Seq(Limiter) /\ limiters' # <<>> /\ Extended
  OBVIOUS
<1>1. /\ limiters \in Seq(Limiter) /\ limiters # <<>>
      /\ Len(limiters) \in Nat \ {0}
      /\ \A l \in Ids : Len(limiters[l].slots) \in Nat
  BY LimiterTypes DEF TypeOK
<1>2. CASE limiters' = limiters
  BY <1>1, <1>2 DEF Extended, Ids
<1>3. ASSUME NEW c \in Callers, Swap(c)
      PROVE  limiters' \in Seq(Limiter) /\ limiters' # <<>> /\ Extended
  <2>1. /\ limiters' \in Seq(Limiter) /\ Len(limiters') = Len(limiters)
        /\ \A j \in Ids :
             /\ limiters'[j].per = limiters[j].per
             /\ limiters'[j].slots = IF j = take[c].lim
                                     THEN Append(limiters[j].slots, Slot(c))
                                     ELSE limiters[j].slots
    BY <1>3, SwapLimiters
  <2>2. LET s == limiters[take[c].lim].slots
        IN  /\ Len(Append(s, Slot(c))) = Len(s) + 1
            /\ \A i \in 1 .. Len(s) : Append(s, Slot(c))[i] = s[i]
    BY <1>3, SwapIssues
  <2>3. limiters' # <<>>
    BY <1>1, <2>1
  <2>4. Extended
    <3> SUFFICES ASSUME NEW j \in Ids
                 PROVE  /\ j \in 1 .. Len(limiters')
                        /\ limiters'[j].per = limiters[j].per
                        /\ Len(limiters[j].slots) <= Len(limiters'[j].slots)
                        /\ \A i \in 1 .. Len(limiters[j].slots) :
                             limiters'[j].slots[i] = limiters[j].slots[i]
      BY DEF Extended
    <3>1. CASE j = take[c].lim
      <4>1. /\ limiters'[j].slots = Append(limiters[j].slots, Slot(c))
            /\ Len(limiters'[j].slots) = Len(limiters[j].slots) + 1
            /\ \A i \in 1 .. Len(limiters[j].slots) :
                 limiters'[j].slots[i] = limiters[j].slots[i]
        BY <2>1, <2>2, <3>1
      <4>2. j \in 1 .. Len(limiters') /\ Len(limiters[j].slots) \in Nat
        BY <1>1, <2>1 DEF Ids
      <4> QED  BY <2>1, <4>1, <4>2
    <3>2. CASE j # take[c].lim
      BY <1>1, <2>1, <3>2 DEF Ids
    <3> QED  BY <3>1, <3>2
  <2> QED  BY <2>1, <2>3, <2>4
<1>4. ASSUME NEW c \in Callers, NEW rate \in Rates, SetLimit(c, rate)
      PROVE  limiters' \in Seq(Limiter) /\ limiters' # <<>> /\ Extended
  <2>1. New(rate) \in Limiter /\ limiters' = Append(limiters, New(rate))
    BY <1>4, NewLimiter, LimiterAssumption DEF SetLimit
  <2>2. /\ limiters' \in Seq(Limiter) /\ limiters' # <<>>
        /\ Len(limiters') = Len(limiters) + 1
        /\ \A l \in 1 .. Len(limiters) : limiters'[l] = limiters[l]
    BY <1>1, <2>1
  <2> QED  BY <1>1, <2>2 DEF Extended, Ids
<1>5. limiters' = limiters \/ \E c \in Callers :
        Swap(c) \/ \E rate \in Rates : SetLimit(c, rate)
  BY DEF Next, CallerStep, TakeStep, vars, WaitCancelled, WaitBegin, ReadClock,
         LoadState, SwapFails, Wake, SetLimitInvalid, SetLimitPanics, Tick,
         Cancel, Rest
<1> QED  BY <1>2, <1>3, <1>4, <1>5

(* The locals of the callers, and the limiter each of them has read.       *)
LEMMA StepLocals ==
  TypeOK /\ TakesOK /\ [Next]_vars =>
    /\ pc' \in [Callers -> {"idle", "now", "load", "swap", "sleep"}]
    /\ take' \in [Callers -> Locals]
    /\ \A c \in Callers : pc'[c] # "idle" => take'[c].lim \in Ids
<1> DEFINE P == /\ pc' \in [Callers -> {"idle", "now", "load", "swap", "sleep"}]
                /\ take' \in [Callers -> Locals]
                /\ \A c \in Callers : pc'[c] # "idle" => take'[c].lim \in Ids
<1> SUFFICES ASSUME TypeOK, TakesOK, [Next]_vars PROVE P
  OBVIOUS
<1>1. /\ pc \in [Callers -> {"idle", "now", "load", "swap", "sleep"}]
      /\ take \in [Callers -> Locals]
      /\ \A c \in Callers : pc[c] # "idle" => take[c].lim \in Ids
      /\ clock \in Nat /\ Len(limiters) \in Ids /\ Ids \subseteq Nat
  BY DEF TypeOK, Ids
<1>2. NoTake \in Locals
  BY DEF NoTake, Locals
<1>3. CASE UNCHANGED <<pc, take>>
  BY <1>1, <1>3
<1>4. ASSUME NEW c \in Callers, WaitBegin(c) PROVE P
  BY <1>1, <1>4 DEF WaitBegin, Locals
<1>5. ASSUME NEW c \in Callers, ReadClock(c) PROVE P
  BY <1>1, <1>5 DEF ReadClock, Locals
<1>6. ASSUME NEW c \in Callers, LoadState(c) PROVE P
  <2>1. State(take[c].lim) \in Nat
    BY <1>1, <1>6, LimiterTypes DEF LoadState
  <2> QED  BY <1>1, <1>6, <2>1 DEF LoadState, Locals
<1>7. ASSUME NEW c \in Callers, SwapFails(c) PROVE P
  <2>1. [NoTake EXCEPT !.lim = take[c].lim] \in Locals
        /\ [NoTake EXCEPT !.lim = take[c].lim].lim = take[c].lim
    BY <1>1 DEF NoTake, Locals
  <2> QED  BY <1>1, <1>7, <2>1 DEF SwapFails
<1>8. ASSUME NEW c \in Callers, Swap(c) PROVE P
  <2>1. CASE take' = [take EXCEPT ![c] = NoTake] /\ pc' = [pc EXCEPT ![c] = "idle"]
    BY <1>1, <1>2, <2>1
  <2>2. CASE /\ take' = [take EXCEPT ![c] =
                           [@ EXCEPT !.loaded = 0,
                              !.n = Len(limiters[take[c].lim].slots) + 1,
                              !.wake = clock + (Slot(c) - take[c].now)]]
             /\ pc' = [pc EXCEPT ![c] = "sleep"]
    <3>1. /\ take[c].lim \in Ids /\ pc[c] = "swap"
          /\ Slot(c) \in Nat /\ take[c].now \in Nat
          /\ Len(limiters[take[c].lim].slots) \in Nat
      BY <1>1, <1>8, SwapIssues, LimiterTypes DEF Swap, Locals
    <3> HIDE DEF P
    <3>2. clock + (Slot(c) - take[c].now) \in Int
      BY <1>1, <3>1
    <3> DEFINE new == [take[c] EXCEPT !.loaded = 0,
                         !.n = Len(limiters[take[c].lim].slots) + 1,
                         !.wake = clock + (Slot(c) - take[c].now)]
    <3>3. new \in Locals /\ new.lim = take[c].lim
      <4>1. take[c] \in Locals /\ Len(limiters[take[c].lim].slots) + 1 \in Nat
        BY <1>1, <3>1
      <4> QED  BY <3>2, <4>1 DEF Locals
    <3>4. take' = [take EXCEPT ![c] = new]
      BY <2>2
    <3> HIDE DEF new
    <3> QED  BY <1>1, <2>2, <3>1, <3>3, <3>4 DEF P
  <2> QED  BY <1>8, <2>1, <2>2 DEF Swap
<1>9. ASSUME NEW c \in Callers, Wake(c) PROVE P
  BY <1>1, <1>2, <1>9 DEF Wake
<1>10. \/ UNCHANGED <<pc, take>>
       \/ \E c \in Callers : WaitBegin(c) \/ ReadClock(c) \/ LoadState(c)
                             \/ SwapFails(c) \/ Swap(c) \/ Wake(c)
  BY DEF Next, CallerStep, TakeStep, vars, WaitCancelled, SetLimitInvalid,
         SetLimitPanics, SetLimit, Tick, Cancel, Rest
<1> QED  BY <1>3, <1>4, <1>5, <1>6, <1>7, <1>8, <1>9, <1>10

(* The permit a caller is given is for a slot of a limiter that exists.    *)
LEMMA PermitType ==
  ASSUME TypeOK, TakesOK, NEW c \in Callers, NEW k \in Nat,
         pc[c] \in {"swap", "sleep"}
  PROVE  Permit(c, k) \in [lim : Ids, n : Nat, began : Nat, ended : Nat]
<1>1. take[c].lim \in Ids /\ take[c].now \in Nat /\ clock \in Nat
  BY DEF TypeOK, TakesOK, Locals
<1> QED  BY <1>1 DEF Permit

(* Every step keeps the types.                                             *)
LEMMA StepTypes == TypeOK /\ TakesOK /\ [Next]_vars => TypeOK'
<1> SUFFICES ASSUME TypeOK, TakesOK, [Next]_vars PROVE TypeOK'
  OBVIOUS
<1>1. limiters' \in Seq(Limiter) /\ limiters' # <<>> /\ Extended
  BY StepLimiters
<1>2. Ids \subseteq Ids'
  BY <1>1 DEF Extended, Ids
<1>3. /\ pc' \in [Callers -> {"idle", "now", "load", "swap", "sleep"}]
      /\ take' \in [Callers -> Locals]
      /\ \A c \in Callers : pc'[c] # "idle" => take'[c].lim \in Ids
  BY StepLocals
<1>4. clock' \in Nat \ {0}
  <2>1. clock' = clock \/ clock' = clock + 1
    BY DEF Next, CallerStep, TakeStep, vars, WaitCancelled, WaitBegin,
           ReadClock, LoadState, SwapFails, Swap, Wake, SetLimitInvalid,
           SetLimitPanics, SetLimit, Tick, Cancel, Rest
  <2> QED  BY <2>1 DEF TypeOK
<1>5. cancelled' \subseteq Callers
  <2>1. cancelled' = cancelled \/ \E c \in Callers : cancelled' = cancelled \cup {c}
    BY DEF Next, CallerStep, TakeStep, vars, WaitCancelled, WaitBegin,
           ReadClock, LoadState, SwapFails, Swap, Wake, SetLimitInvalid,
           SetLimitPanics, SetLimit, Tick, Cancel, Rest
  <2> QED  BY <2>1 DEF TypeOK
<1>6. calls' \in [Callers -> Nat]
  <2>1. calls' = calls \/ \E c \in Callers : calls' = [calls EXCEPT ![c] = @ + 1]
    BY DEF Next, CallerStep, TakeStep, vars, WaitCancelled, WaitBegin, Calls,
           ReadClock, LoadState, SwapFails, Swap, Wake, SetLimitInvalid,
           SetLimitPanics, SetLimit, Tick, Cancel, Rest
  <2> QED  BY <2>1 DEF TypeOK
<1>7. panicked' \in BOOLEAN
  <2>1. panicked' = panicked \/ panicked' = TRUE
    BY DEF Next, CallerStep, TakeStep, vars, WaitCancelled, WaitBegin, Calls,
           ReadClock, LoadState, SwapFails, Swap, Wake, SetLimitInvalid,
           SetLimitPanics, SetLimit, Tick, Cancel, Rest
  <2> QED  BY <2>1 DEF TypeOK
<1>8. permits' \subseteq [lim : Ids, n : Nat, began : Nat, ended : Nat]
  <2>1. permits \subseteq [lim : Ids, n : Nat, began : Nat, ended : Nat]
    BY DEF TypeOK
  <2>2. ASSUME NEW c \in Callers, Swap(c) PROVE <1>8!:
    <3>1. /\ pc[c] = "swap"
          /\ \/ permits' = permits
             \/ permits' = permits
                  \cup {Permit(c, Len(limiters[take[c].lim].slots) + 1)}
      BY <2>2 DEF Swap
    <3>2. take[c].lim \in Ids
      BY <2>2, SwapIssues
    <3>3. Len(limiters[take[c].lim].slots) + 1 \in Nat
      BY <3>2, LimiterTypes
    <3>4. Permit(c, Len(limiters[take[c].lim].slots) + 1)
            \in [lim : Ids, n : Nat, began : Nat, ended : Nat]
      BY <3>1, <3>3, PermitType
    <3> QED  BY <2>1, <3>1, <3>4
  <2>3. ASSUME NEW c \in Callers, Wake(c) PROVE <1>8!:
    <3>1. take[c].n \in Nat
      BY <2>3 DEF TypeOK, Locals
    <3> QED  BY <2>1, <2>3, <3>1, PermitType DEF Wake
  <2>4. permits' = permits \/ \E c \in Callers : Swap(c) \/ Wake(c)
    BY DEF Next, CallerStep, TakeStep, vars, WaitCancelled, WaitBegin,
           ReadClock, LoadState, SwapFails, SetLimitInvalid,
           SetLimitPanics, SetLimit, Tick, Cancel, Rest
  <2> QED  BY <2>1, <2>2, <2>3, <2>4
<1>9. permits' \subseteq [lim : Ids', n : Nat, began : Nat, ended : Nat]
  BY <1>2, <1>8
<1>10. \A c \in Callers : pc'[c] # "idle" => take'[c].lim \in Ids'
  BY <1>2, <1>3
<1> QED
  BY <1>1, <1>3, <1>4, <1>5, <1>6, <1>7, <1>9, <1>10 DEF TypeOK

-----------------------------------------------------------------------------
(* A new slot keeps the distance to all the earlier ones, because it does  *)
(* to the last.                                                            *)
LEMMA StepSpaced ==
  TypeOK /\ TakesOK /\ SlotsSpaced /\ [Next]_vars => SlotsSpaced'
<1> SUFFICES ASSUME TypeOK, TakesOK, SlotsSpaced, [Next]_vars
             PROVE  SlotsSpaced'
  OBVIOUS
<1>1. CASE limiters' = limiters
  BY <1>1 DEF SlotsSpaced, Ids
<1>2. ASSUME NEW c \in Callers, Swap(c) PROVE SlotsSpaced'
  <2>1. /\ Len(limiters') = Len(limiters)
        /\ \A j \in Ids :
             /\ limiters'[j].per = limiters[j].per
             /\ limiters'[j].slots = IF j = take[c].lim
                                     THEN Append(limiters[j].slots, Slot(c))
                                     ELSE limiters[j].slots
    BY <1>2, SwapLimiters
  <2> SUFFICES ASSUME NEW l \in Ids, NEW i \in 1 .. Len(limiters'[l].slots),
                      NEW j \in 1 .. Len(limiters'[l].slots), i < j
               PROVE  limiters'[l].slots[j] - limiters'[l].slots[i]
                        >= (j - i) * limiters'[l].per
    BY <2>1 DEF SlotsSpaced, Ids
  <2> DEFINE s == limiters[l].slots
             per == limiters[l].per
  <2>2. /\ per \in Nat /\ s \in Seq(Nat \ {0}) /\ Len(s) \in Nat
        /\ \A x, y \in 1 .. Len(s) : x < y => s[y] - s[x] >= (y - x) * per
    BY LimiterTypes DEF SlotsSpaced
  <2>3. CASE l # take[c].lim
    BY <2>1, <2>2, <2>3
  <2>4. CASE l = take[c].lim
    <3>1. /\ Slot(c) \in Nat
          /\ Len(s) > 0 => s[Len(s)] + per <= Slot(c)
          /\ limiters'[l].slots = Append(s, Slot(c))
          /\ Len(Append(s, Slot(c))) = Len(s) + 1
          /\ \A x \in 1 .. Len(s) : Append(s, Slot(c))[x] = s[x]
          /\ Append(s, Slot(c))[Len(s) + 1] = Slot(c)
      BY <1>2, <2>1, <2>4, SwapIssues
    <3>2. i \in Nat /\ j \in Nat /\ j <= Len(s) + 1 /\ i <= Len(s) /\ i >= 1
      BY <2>2, <3>1
    <3>3. i \in 1 .. Len(s) /\ limiters'[l].slots[i] = s[i] /\ s[i] \in Nat
      BY <2>2, <3>1, <3>2
    <3>4. limiters'[l].per = per
      BY <2>1
    <3> HIDE DEF s, per
    <3>5. CASE j <= Len(s)
      <4>1. j \in 1 .. Len(s) /\ limiters'[l].slots[j] = s[j]
        BY <2>2, <3>1, <3>2, <3>5
      <4> QED  BY <2>2, <3>3, <3>4, <4>1
    <3>6. CASE j = Len(s) + 1
      <4>1. s[Len(s)] \in Nat /\ Len(s) \in 1 .. Len(s)
        BY <2>2, <3>2
      <4>2. s[Len(s)] - s[i] >= (Len(s) - i) * per
        <5>1. CASE i = Len(s)
          BY <2>2, <3>3, <4>1, <5>1
        <5>2. CASE i < Len(s)
          BY <2>2, <3>3, <4>1, <5>2
        <5> QED  BY <2>2, <3>2, <5>1, <5>2
      <4>3. (j - i) * per = (Len(s) - i) * per + per
        <5>1. \A a, b \in Int : (a + 1) * b = a * b + b
          OBVIOUS
        <5>2. j - i = (Len(s) - i) + 1 /\ Len(s) - i \in Int /\ per \in Int
          BY <2>2, <3>2, <3>6
        <5> QED  BY <5>1, <5>2
      <4>4. (Len(s) - i) * per \in Int
        BY <2>2, <3>2
      <4>5. Slot(c) - s[i] >= (j - i) * per
        BY <2>2, <3>1, <3>2, <3>3, <4>1, <4>2, <4>3, <4>4, SMTT(30)
      <4> QED  BY <3>1, <3>3, <3>4, <3>6, <4>5
    <3>7. j <= Len(s) \/ j = Len(s) + 1
      <4>1. Len(s) \in Nat
        BY <2>2
      <4> QED  BY <3>2, <4>1
    <3> QED  BY <3>5, <3>6, <3>7
  <2> QED  BY <2>3, <2>4
<1>3. ASSUME NEW c \in Callers, NEW rate \in Rates, SetLimit(c, rate)
      PROVE  SlotsSpaced'
  <2>1. /\ New(rate) \in Limiter /\ New(rate).slots = <<>>
        /\ limiters' = Append(limiters, New(rate))
    BY <1>3, NewLimiter, LimiterAssumption DEF SetLimit
  <2>2. /\ Len(limiters) \in Nat
        /\ Len(limiters') = Len(limiters) + 1
        /\ \A l \in 1 .. Len(limiters) : limiters'[l] = limiters[l]
        /\ limiters'[Len(limiters) + 1] = New(rate)
    BY <2>1 DEF TypeOK
  <2>3. ASSUME NEW l \in 1 .. Len(limiters'), l \notin 1 .. Len(limiters)
        PROVE  limiters'[l].slots = <<>>
    BY <2>1, <2>2, <2>3
  <2> QED  BY <2>2, <2>3 DEF SlotsSpaced, Ids
<1>4. limiters' = limiters \/ \E c \in Callers :
        Swap(c) \/ \E rate \in Rates : SetLimit(c, rate)
  BY DEF Next, CallerStep, TakeStep, vars, WaitCancelled, WaitBegin, ReadClock,
         LoadState, SwapFails, Wake, SetLimitInvalid, SetLimitPanics, Tick,
         Cancel, Rest
<1> QED  BY <1>1, <1>2, <1>3, <1>4

-----------------------------------------------------------------------------
(* A caller whose locals a step leaves alone stays as it was: slots stay,  *)
(* and the clock does not go back.                                         *)
LEMMA TakeStable ==
  ASSUME TypeOK, TakesOK, [Next]_vars, NEW d \in Callers,
         pc'[d] = pc[d], take'[d] = take[d]
  PROVE  /\ pc'[d] \in {"load", "swap", "sleep"} => take'[d].now \in 1 .. clock'
         /\ pc'[d] = "sleep" => Asleep(d)'
<1>1. Extended /\ TypeOK'
  BY StepLimiters, StepTypes
<1>2. clock \in Nat /\ (clock' = clock \/ clock' = clock + 1)
  BY DEF Next, CallerStep, TakeStep, vars, WaitCancelled, WaitBegin,
         ReadClock, LoadState, SwapFails, Swap, Wake, SetLimitInvalid,
         SetLimitPanics, SetLimit, Tick, Cancel, Rest, TypeOK
<1>3. pc'[d] \in {"load", "swap", "sleep"} => take'[d].now \in 1 .. clock'
  BY <1>2 DEF TakesOK
<1>4. ASSUME pc'[d] = "sleep" PROVE Asleep(d)'
  <2>1. Asleep(d) /\ take[d].lim \in Ids
    BY <1>4 DEF TakesOK, TypeOK
  <2> DEFINE l == take[d].lim
  <2>2. /\ limiters'[l].per = limiters[l].per
        /\ Len(limiters[l].slots) <= Len(limiters'[l].slots)
        /\ \A i \in 1 .. Len(limiters[l].slots) :
             limiters'[l].slots[i] = limiters[l].slots[i]
        /\ l \in 1 .. Len(limiters')
    BY <1>1, <2>1 DEF Extended
  <2>3. limiters'[l] \in Limiter
    BY <1>1, <2>2 DEF TypeOK
  <2>4. Len(limiters[l].slots) \in Nat /\ Len(limiters'[l].slots) \in Nat
    BY <2>1, <2>3, LimiterTypes DEF Limiter
  <2>5. MaxSlack(l)' = MaxSlack(l)
    BY <2>2 DEF MaxSlack
  <2>6. /\ take[d].n \in 1 .. Len(limiters[l].slots)
        /\ take[d].now - MaxSlack(l) <= limiters[l].slots[take[d].n]
        /\ limiters[l].slots[take[d].n] <= take[d].wake
    BY <2>1 DEF Asleep
  <2>7. take[d].n \in 1 .. Len(limiters'[l].slots)
    BY <2>2, <2>4, <2>6
  <2> QED  BY <2>2, <2>5, <2>6, <2>7 DEF Asleep, MaxSlack
<1> QED  BY <1>3, <1>4

(* Every step keeps the locals of the callers inside Take right.           *)
LEMMA StepTakes == TypeOK /\ TakesOK /\ [Next]_vars => TakesOK'
<1> SUFFICES ASSUME TypeOK, TakesOK, [Next]_vars, NEW d \in Callers
             PROVE  /\ pc'[d] \in {"load", "swap", "sleep"} =>
                         take'[d].now \in 1 .. clock'
                    /\ pc'[d] = "sleep" => Asleep(d)'
  BY DEF TakesOK
<1>1. CASE pc'[d] = pc[d] /\ take'[d] = take[d]
  BY <1>1, TakeStable
<1>2. CASE pc'[d] \in {"idle", "now"}
  BY <1>2
<1>3. CASE ReadClock(d)
  BY <1>3 DEF ReadClock, TypeOK, Locals
<1>4. CASE LoadState(d)
  BY <1>4 DEF LoadState, TypeOK, TakesOK, Locals
<1>5. ASSUME Swap(d), pc'[d] = "sleep"
      PROVE  take'[d].now \in 1 .. clock' /\ Asleep(d)'
  <2> DEFINE l == take[d].lim
             s == limiters[l].slots
  <2>1. /\ take' = [take EXCEPT ![d] =
                      [@ EXCEPT !.loaded = 0, !.n = Len(s) + 1,
                                !.wake = clock + (Slot(d) - take[d].now)]]
        /\ clock' = clock
    BY <1>5 DEF Swap, TypeOK
  <2>2. /\ take'[d].lim = l /\ take'[d].now = take[d].now
        /\ take'[d].n = Len(s) + 1
        /\ take'[d].wake = clock + (Slot(d) - take[d].now)
    BY <2>1 DEF TypeOK, Locals
  <2>3. /\ l \in Ids /\ take[d].now \in 1 .. clock
        /\ Slot(d) \in Nat \ {0}
        /\ take[d].now - MaxSlack(l) <= Slot(d)
        /\ Len(Append(s, Slot(d))) = Len(s) + 1
        /\ Append(s, Slot(d))[Len(s) + 1] = Slot(d)
    BY <1>5, SwapIssues
  <2>4. limiters'[l].slots = Append(s, Slot(d)) /\ limiters'[l].per = limiters[l].per
    BY <1>5, <2>3, SwapLimiters
  <2>5. Len(s) \in Nat /\ clock \in Nat
    BY <2>3, LimiterTypes DEF TypeOK
  <2>6. MaxSlack(l)' = MaxSlack(l)
    BY <2>1, <2>4 DEF MaxSlack
  <2>7. Slot(d) <= take'[d].wake
    BY <2>2, <2>3, <2>5
  <2> HIDE DEF s
  <2>8. Asleep(d)'
    BY <2>2, <2>3, <2>4, <2>5, <2>7, LimiterTypes DEF Asleep, MaxSlack
  <2> QED  BY <2>1, <2>2, <2>3, <2>8
<1>6. \/ pc'[d] = pc[d] /\ take'[d] = take[d]
      \/ pc'[d] \in {"idle", "now"}
      \/ ReadClock(d) \/ LoadState(d) \/ Swap(d)
  <2>1. /\ pc \in [Callers -> {"idle", "now", "load", "swap", "sleep"}]
        /\ take \in [Callers -> Locals]
    BY DEF TypeOK
  <2>2. ASSUME NEW c \in Callers, TakeStep(c) \/ WaitBegin(c), c # d
        PROVE  pc'[d] = pc[d] /\ take'[d] = take[d]
    BY <2>1, <2>2 DEF TakeStep, ReadClock, LoadState, Swap, SwapFails, Wake,
                      WaitBegin
  <2>3. SwapFails(d) \/ Wake(d) \/ WaitBegin(d) => pc'[d] \in {"idle", "now"}
    BY <2>1 DEF SwapFails, Wake, WaitBegin
  <2>4. \/ UNCHANGED <<pc, take>>
        \/ \E c \in Callers : TakeStep(c) \/ WaitBegin(c)
    BY DEF Next, CallerStep, vars, WaitCancelled, SetLimitInvalid,
           SetLimitPanics, SetLimit, Tick, Cancel, Rest
  <2> QED  BY <2>2, <2>3, <2>4 DEF TakeStep
<1>7. Swap(d) => pc'[d] \in {"idle", "sleep"}
  BY DEF Swap, TypeOK
<1> QED  BY <1>1, <1>2, <1>3, <1>4, <1>5, <1>6, <1>7

-----------------------------------------------------------------------------
(* The permits given earlier stay timely, and a new one is: its caller did *)
(* not sleep, and the slot was over at its clock reading, or it has slept  *)
(* until the slot.                                                         *)
LEMMA StepPermits ==
  TypeOK /\ TakesOK /\ PermitsOK /\ [Next]_vars => PermitsOK'
<1> SUFFICES ASSUME TypeOK, TakesOK, PermitsOK, [Next]_vars, NEW p \in permits'
             PROVE  Timely(p)'
  BY DEF PermitsOK
<1>1. Extended /\ TypeOK'
  BY StepLimiters, StepTypes
<1>2. ASSUME p.lim \in Ids, Timely(p) PROVE Timely(p)'
  <2> DEFINE l == p.lim
  <2>1. /\ limiters'[l].per = limiters[l].per
        /\ Len(limiters[l].slots) <= Len(limiters'[l].slots)
        /\ \A i \in 1 .. Len(limiters[l].slots) :
             limiters'[l].slots[i] = limiters[l].slots[i]
        /\ l \in 1 .. Len(limiters')
    BY <1>1, <1>2 DEF Extended
  <2>2. limiters'[l] \in Limiter
    BY <1>1, <2>1 DEF TypeOK
  <2>3. Len(limiters[l].slots) \in Nat /\ Len(limiters'[l].slots) \in Nat
    BY <1>2, <2>2, LimiterTypes DEF Limiter
  <2>4. MaxSlack(l)' = MaxSlack(l)
    BY <2>1 DEF MaxSlack
  <2>5. p.n \in 1 .. Len(limiters'[l].slots)
    BY <1>2, <2>1, <2>3 DEF Timely
  <2> QED  BY <1>2, <2>1, <2>4, <2>5 DEF Timely, MaxSlack
<1>3. CASE p \in permits
  BY <1>2, <1>3 DEF PermitsOK, TypeOK
<1>4. ASSUME NEW c \in Callers, Wake(c), p = Permit(c, take[c].n)
      PROVE  Timely(p)'
  <2>1. /\ take[c].lim \in Ids /\ Asleep(c) /\ clock >= take[c].wake
        /\ take[c].wake \in Int /\ clock \in Nat
    BY <1>4 DEF Wake, TakesOK, TypeOK, Locals
  <2>2. limiters[take[c].lim].slots[take[c].n] \in Nat
    BY <2>1, LimiterTypes, SMTT(30) DEF Asleep
  <2>3. /\ p.lim = take[c].lim /\ p.n = take[c].n
        /\ p.began = take[c].now /\ p.ended = clock
    BY <1>4 DEF Permit
  <2> QED  BY <1>2, <2>1, <2>2, <2>3 DEF Asleep, Timely
<1>5. ASSUME NEW c \in Callers, Swap(c), ~(Slot(c) - take[c].now > 0),
             p = Permit(c, Len(limiters[take[c].lim].slots) + 1)
      PROVE  Timely(p)'
  <2> DEFINE l == take[c].lim
             s == limiters[l].slots
  <2>1. /\ l \in Ids /\ take[c].now \in 1 .. clock /\ Slot(c) \in Nat \ {0}
        /\ take[c].now - MaxSlack(l) <= Slot(c)
        /\ Len(Append(s, Slot(c))) = Len(s) + 1
        /\ Append(s, Slot(c))[Len(s) + 1] = Slot(c)
    BY <1>5, SwapIssues
  <2>2. limiters'[l].slots = Append(s, Slot(c)) /\ limiters'[l].per = limiters[l].per
    BY <1>5, <2>1, SwapLimiters
  <2>3. Len(s) \in Nat /\ clock \in Nat
    BY <2>1, LimiterTypes DEF TypeOK
  <2>4. Slot(c) <= clock
    BY <1>5, <2>1, <2>3
  <2>5. /\ p.lim = l /\ p.n = Len(s) + 1
        /\ p.began = take[c].now /\ p.ended = clock
    BY <1>5 DEF Permit
  <2>6. MaxSlack(p.lim)' = MaxSlack(l)
    BY <2>2, <2>5 DEF MaxSlack
  <2> HIDE DEF s
  <2> QED  BY <2>1, <2>2, <2>3, <2>4, <2>5, <2>6 DEF Timely, MaxSlack
<1>6. \/ p \in permits
      \/ \E c \in Callers : Wake(c) /\ p = Permit(c, take[c].n)
      \/ \E c \in Callers :
           /\ Swap(c) /\ ~(Slot(c) - take[c].now > 0)
           /\ p = Permit(c, Len(limiters[take[c].lim].slots) + 1)
  <2>1. \/ permits' = permits
        \/ \E c \in Callers : Wake(c)
        \/ \E c \in Callers : Swap(c)
    BY DEF Next, CallerStep, TakeStep, vars, WaitCancelled, WaitBegin,
           ReadClock, LoadState, SwapFails, SetLimitInvalid,
           SetLimitPanics, SetLimit, Tick, Cancel, Rest
  <2>2. ASSUME NEW c \in Callers, Wake(c)
        PROVE  p \in permits \/ p = Permit(c, take[c].n)
    BY <2>2 DEF Wake
  <2>3. ASSUME NEW c \in Callers, Swap(c)
        PROVE  \/ p \in permits
               \/ /\ ~(Slot(c) - take[c].now > 0)
                  /\ p = Permit(c, Len(limiters[take[c].lim].slots) + 1)
    BY <2>3 DEF Swap
  <2> QED  BY <2>1, <2>2, <2>3
<1> QED  BY <1>3, <1>4, <1>5, <1>6

-----------------------------------------------------------------------------
(* A slot is as new as its limiter's last one when it is issued: whoever   *)
(* holds a slot of that limiter already holds an earlier one.              *)
LEMMA NewSlotIsFree ==
  ASSUME TypeOK, TakesOK, PermitsOK, NEW c \in Callers, Swap(c)
  PROVE  LET k == Len(limiters[take[c].lim].slots) + 1
         IN  /\ \A p \in permits : ~ (p.lim = take[c].lim /\ p.n = k)
             /\ \A d \in Callers : pc[d] = "sleep" =>
                  ~ (take[d].lim = take[c].lim /\ take[d].n = k)
<1> DEFINE l == take[c].lim
<1>1. l \in Ids /\ Len(limiters[l].slots) \in Nat
  BY SwapIssues, LimiterTypes
<1>2. ASSUME NEW p \in permits, p.lim = l PROVE p.n \in 1 .. Len(limiters[l].slots)
  BY <1>2 DEF PermitsOK, Timely
<1>3. ASSUME NEW d \in Callers, pc[d] = "sleep", take[d].lim = l
      PROVE  take[d].n \in 1 .. Len(limiters[l].slots)
  BY <1>3 DEF TakesOK, Asleep
<1> HIDE DEF l
<1>4. ASSUME NEW k \in 1 .. Len(limiters[l].slots)
      PROVE  k # Len(limiters[l].slots) + 1
  BY <1>1
<1> QED  BY <1>2, <1>3, <1>4 DEF l

(* Nobody gets a slot that another caller has.                             *)
LEMMA StepOwnSlots ==
  TypeOK /\ TakesOK /\ PermitsOK /\ OwnSlots /\ [Next]_vars => OwnSlots'
<1> SUFFICES ASSUME TypeOK, TakesOK, PermitsOK, OwnSlots, [Next]_vars
             PROVE  OwnSlots'
  OBVIOUS
<1>0. /\ pc \in [Callers -> {"idle", "now", "load", "swap", "sleep"}]
      /\ take \in [Callers -> Locals]
  BY DEF TypeOK
<1>1. ASSUME permits' = permits,
             \A d \in Callers : pc'[d] = "sleep" =>
                                 pc[d] = "sleep" /\ take'[d] = take[d]
      PROVE  OwnSlots'
  BY <1>1 DEF OwnSlots
<1>2. ASSUME NEW c \in Callers, NEW k \in Nat,
             \A p \in permits : ~ (p.lim = take[c].lim /\ p.n = k),
             \A d \in Callers \ {c} : pc[d] = "sleep" =>
               ~ (take[d].lim = take[c].lim /\ take[d].n = k),
             \A d \in Callers \ {c} : pc'[d] = pc[d] /\ take'[d] = take[d],
             \/ permits' = permits \cup {Permit(c, k)} /\ pc'[c] = "idle"
             \/ permits' = permits /\ take'[c].lim = take[c].lim /\ take'[c].n = k
      PROVE  OwnSlots'
  <2>1. Permit(c, k).lim = take[c].lim /\ Permit(c, k).n = k
    BY DEF Permit
  <2>2. CASE permits' = permits \cup {Permit(c, k)} /\ pc'[c] = "idle"
    <3>1. \A p, q \in permits' : p.lim = q.lim /\ p.n = q.n => p = q
      BY <1>2, <2>1, <2>2 DEF OwnSlots
    <3>2. \A d \in Callers : pc'[d] = "sleep" =>
            d # c /\ pc[d] = "sleep" /\ take'[d] = take[d]
      BY <1>2, <2>2
    <3> QED  BY <1>2, <2>1, <2>2, <3>1, <3>2 DEF OwnSlots
  <2>3. CASE permits' = permits /\ take'[c].lim = take[c].lim /\ take'[c].n = k
    BY <1>2, <2>3 DEF OwnSlots
  <2> QED  BY <1>2, <2>2, <2>3
<1>3. ASSUME NEW c \in Callers, Swap(c) PROVE OwnSlots'
  <2> DEFINE k == Len(limiters[take[c].lim].slots) + 1
  <2>1. k \in Nat
    BY <1>3, SwapIssues, LimiterTypes
  <2>2. /\ \A p \in permits : ~ (p.lim = take[c].lim /\ p.n = k)
        /\ \A d \in Callers : pc[d] = "sleep" =>
             ~ (take[d].lim = take[c].lim /\ take[d].n = k)
    BY <1>3, NewSlotIsFree
  <2>3. \A d \in Callers \ {c} : pc'[d] = pc[d] /\ take'[d] = take[d]
    BY <1>0, <1>3 DEF Swap
  <2>4. \/ permits' = permits \cup {Permit(c, k)} /\ pc'[c] = "idle"
        \/ permits' = permits /\ take'[c].lim = take[c].lim /\ take'[c].n = k
    <3> DEFINE wake == clock + (Slot(c) - take[c].now)
    <3>1. \/ permits' = permits \cup {Permit(c, k)} /\ pc' = [pc EXCEPT ![c] = "idle"]
          \/ /\ permits' = permits
             /\ take' = [take EXCEPT ![c] =
                           [@ EXCEPT !.loaded = 0, !.n = k, !.wake = wake]]
      BY <1>3 DEF Swap
    <3>2. take[c] \in Locals
      BY <1>0
    <3> DEFINE new == [take[c] EXCEPT !.loaded = 0, !.n = k, !.wake = wake]
    <3> HIDE DEF wake, k
    <3>3. new.lim = take[c].lim /\ new.n = k
      BY <3>2 DEF Locals
    <3>4. \/ permits' = permits \cup {Permit(c, k)} /\ pc' = [pc EXCEPT ![c] = "idle"]
          \/ permits' = permits /\ take' = [take EXCEPT ![c] = new]
      BY <3>1
    <3> HIDE DEF new
    <3> QED  BY <1>0, <3>3, <3>4
  <2> HIDE DEF k
  <2> QED  BY <1>2, <2>1, <2>2, <2>3, <2>4
<1>4. ASSUME NEW c \in Callers, Wake(c) PROVE OwnSlots'
  <2>1. pc[c] = "sleep" /\ take[c].n \in Nat
    BY <1>0, <1>4 DEF Wake, Locals
  <2>2. /\ \A p \in permits : ~ (p.lim = take[c].lim /\ p.n = take[c].n)
        /\ \A d \in Callers \ {c} : pc[d] = "sleep" =>
             ~ (take[d].lim = take[c].lim /\ take[d].n = take[c].n)
    BY <2>1 DEF OwnSlots
  <2>3. /\ \A d \in Callers \ {c} : pc'[d] = pc[d] /\ take'[d] = take[d]
        /\ permits' = permits \cup {Permit(c, take[c].n)} /\ pc'[c] = "idle"
    BY <1>0, <1>4 DEF Wake
  <2> QED  BY <1>2, <2>1, <2>2, <2>3
<1>5. \/ \E c \in Callers : Swap(c) \/ Wake(c)
      \/ /\ permits' = permits
         /\ \A d \in Callers : pc'[d] = "sleep" =>
                                pc[d] = "sleep" /\ take'[d] = take[d]
  <2> DEFINE Q == /\ permits' = permits
                  /\ \A d \in Callers : pc'[d] = "sleep" =>
                                         pc[d] = "sleep" /\ take'[d] = take[d]
  <2>1. CASE UNCHANGED <<permits, pc, take>>
    BY <2>1
  <2>2. ASSUME NEW c \in Callers,
               WaitBegin(c) \/ ReadClock(c) \/ LoadState(c) \/ SwapFails(c)
        PROVE  Q
    <3>1. /\ permits' = permits
          /\ \E a \in {"now", "load", "swap"} : pc' = [pc EXCEPT ![c] = a]
          /\ \A d \in Callers \ {c} : take'[d] = take[d]
      BY <1>0, <2>2 DEF WaitBegin, ReadClock, LoadState, SwapFails
    <3> QED  BY <1>0, <3>1
  <2> QED
    BY <2>1, <2>2
       DEF Next, CallerStep, TakeStep, vars, WaitCancelled, SetLimitInvalid,
           SetLimitPanics, SetLimit, Tick, Cancel, Rest
<1> QED  BY <1>1, <1>3, <1>4, <1>5

-----------------------------------------------------------------------------
(* The inductive invariant: types, spacing, timely slots, one holder each. *)
THEOREM LimiterInvariant == Spec => []IInv
<1>1. Init => IInv
  BY InitIInv
<1>2. IInv /\ [Next]_vars => IInv'
  BY StepTypes, StepSpaced, StepTakes, StepPermits, StepOwnSlots DEF IInv
<1> QED  BY <1>1, <1>2, PTL DEF Spec

(* Every state of the limiter is well typed, for any rates and callers.    *)
THEOREM LimiterTypeCorrect == Spec => []TypeOK
<1>1. IInv => TypeOK
  BY DEF IInv
<1> QED  BY <1>1, LimiterInvariant, PTL

(* Slots are spaced, however many callers compete for them.                *)
THEOREM SlotsAreSpaced == Spec => []SlotsSpaced
<1>1. IInv => SlotsSpaced
  BY DEF IInv
<1> QED  BY <1>1, LimiterInvariant, PTL

(* Timely permits of spaced slots keep the rate.                           *)
LEMMA TimelyKeepsRate == IInv => RateKept
<1> SUFFICES ASSUME IInv, NEW p \in permits, NEW q \in permits,
                    p.lim = q.lim, p.n < q.n
             PROVE  (q.n - p.n) * limiters[p.lim].per
                      <= q.ended - p.began + MaxSlack(p.lim)
  BY DEF RateKept
<1> DEFINE s == limiters[p.lim].slots
           per == limiters[p.lim].per
<1>1. /\ p.lim \in Ids /\ p.began \in Nat /\ q.ended \in Nat
      /\ p.n \in Nat /\ q.n \in Nat
  BY DEF IInv, TypeOK
<1>2. /\ per \in Nat /\ MaxSlack(p.lim) \in Nat
      /\ s \in Seq(Nat \ {0}) /\ Len(s) \in Nat
  BY <1>1, LimiterTypes DEF IInv
<1>3. /\ p.n \in 1 .. Len(s) /\ q.n \in 1 .. Len(s)
      /\ p.began - MaxSlack(p.lim) <= s[p.n] /\ s[q.n] <= q.ended
  BY DEF IInv, PermitsOK, Timely
<1>4. s[q.n] - s[p.n] >= (q.n - p.n) * per
  BY <1>1, <1>3 DEF IInv, SlotsSpaced
<1>5. s[p.n] \in Nat /\ s[q.n] \in Nat
  BY <1>2, <1>3, SMTT(30)
<1> HIDE DEF s, per
<1> DEFINE x == (q.n - p.n) * per
<1>6. x \in Int
  BY <1>1, <1>2
<1>7. s[q.n] - s[p.n] >= x
  BY <1>4
<1>8. MaxSlack(p.lim) \in Nat
  BY <1>2
<1>9. p.began - MaxSlack(p.lim) <= s[p.n] /\ s[q.n] <= q.ended
  BY <1>3
<1> HIDE DEF x
<1>10. x <= q.ended - p.began + MaxSlack(p.lim)
  BY <1>1, <1>5, <1>6, <1>7, <1>8, <1>9
<1> QED  BY <1>10 DEF x, per

(* The limiter keeps its rate over every window of time, up to the slack,  *)
(* whatever callers do.                                                    *)
THEOREM LimiterKeepsRate == Spec => []RateKept
<1> QED  BY TimelyKeepsRate, LimiterInvariant, PTL

(* A Take that ends gives its caller a permit that nobody had; until then  *)
(* it gives nothing.                                                       *)
LEMMA TakeGrants ==
  ASSUME IInv, NEW c \in Callers, TakeStep(c)
  PROVE  \/ permits' = permits /\ pc'[c] # "idle"
         \/ /\ pc'[c] = "idle"
            /\ \E p : p \notin permits /\ permits' = permits \cup {p}
<1>1. /\ TypeOK /\ TakesOK /\ PermitsOK /\ OwnSlots
      /\ pc \in [Callers -> {"idle", "now", "load", "swap", "sleep"}]
  BY DEF IInv, TypeOK
<1>2. CASE ReadClock(c) \/ LoadState(c) \/ SwapFails(c)
  BY <1>1, <1>2 DEF ReadClock, LoadState, SwapFails
<1>3. CASE Swap(c)
  <2> DEFINE k == Len(limiters[take[c].lim].slots) + 1
  <2>1. Permit(c, k) \notin permits
    <3>1. Permit(c, k).lim = take[c].lim /\ Permit(c, k).n = k
      BY DEF Permit
    <3> QED  BY <1>1, <1>3, <3>1, NewSlotIsFree
  <2>2. \/ permits' = permits /\ pc' = [pc EXCEPT ![c] = "sleep"]
        \/ permits' = permits \cup {Permit(c, k)} /\ pc' = [pc EXCEPT ![c] = "idle"]
    BY <1>3 DEF Swap
  <2> QED  BY <1>1, <2>1, <2>2
<1>4. CASE Wake(c)
  <2>1. Permit(c, take[c].n) \notin permits
    <3>1. /\ Permit(c, take[c].n).lim = take[c].lim
          /\ Permit(c, take[c].n).n = take[c].n
      BY DEF Permit
    <3> QED  BY <1>1, <1>4, <3>1 DEF OwnSlots, Wake
  <2> QED  BY <1>1, <1>4, <2>1 DEF Wake
<1> QED  BY <1>2, <1>3, <1>4 DEF TakeStep

-----------------------------------------------------------------------------
(* From the distance of two slots to the number of calls in a window.      *)
LEMMA LeastElement ==
  ASSUME NEW S \in SUBSET Nat, S # {}
  PROVE  \E m \in S : \A k \in S : m <= k
<1> DEFINE R == OpToRel(<, Nat)
<1>1. IsWellFoundedOn(R, Nat)
  BY NatLessThanWellFounded
<1>2. ASSUME NEW k \in Nat, NEW m \in Nat, k < m PROVE <<k, m>> \in R
  BY <1>2 DEF OpToRel
<1> HIDE DEF R
<1>3. PICK m \in S : \A k \in S : ~ (<<k, m>> \in R)
  BY <1>1, WFMin
<1>4. ASSUME NEW k \in S PROVE m <= k
  <2>1. ~ (k < m)
    BY <1>2, <1>3
  <2> QED  BY <2>1
<1> QED  BY <1>4

(* A set with one number of 1..N for each element is finite, and the       *)
(* numbers of two of its elements are as far apart as it has elements.     *)
LEMMA Spread ==
  ASSUME NEW W, NEW f, NEW N \in Nat, W # {},
         f \in [W -> 1 .. N], \A v, w \in W : f[v] = f[w] => v = w
  PROVE  /\ IsFiniteSet(W) /\ Cardinality(W) \in Nat
         /\ \E v, w \in W : f[v] <= f[w] /\ Cardinality(W) - 1 <= f[w] - f[v]
<1>1. PICK v \in W : \A w \in W : f[v] <= f[w]
  <2> DEFINE S == {f[w] : w \in W}
  <2>1. S \in SUBSET Nat /\ S # {}
    OBVIOUS
  <2>2. \E m \in S : \A k \in S : m <= k
    BY <2>1, LeastElement
  <2> QED  BY <2>2
<1>2. PICK w \in W : \A u \in W : f[u] <= f[w]
  <2> DEFINE S == {N - f[u] : u \in W}
  <2>1. S \in SUBSET Nat /\ S # {}
    OBVIOUS
  <2>2. \E m \in S : \A k \in S : m <= k
    BY <2>1, LeastElement
  <2>3. PICK w \in W : \A u \in W : N - f[w] <= N - f[u]
    BY <2>2
  <2>4. \A u \in W : f[u] \in Int
    OBVIOUS
  <2> QED  BY <2>3, <2>4
<1>3. f[v] \in Int /\ f[w] \in Int /\ f[v] <= f[w]
  BY <1>1
<1>4. f \in Injection(W, f[v] .. f[w])
  <2>1. \A u \in W : f[u] \in f[v] .. f[w]
    BY <1>1, <1>2
  <2> QED  BY <2>1 DEF Injection, IsInjective
<1>5. /\ IsFiniteSet(f[v] .. f[w])
      /\ Cardinality(f[v] .. f[w]) = f[w] - f[v] + 1
  BY <1>3, FS_Interval
<1>6. IsFiniteSet(W) /\ Cardinality(W) <= f[w] - f[v] + 1
  BY <1>4, <1>5, FS_Injection
<1>7. Cardinality(W) \in Nat
  BY <1>6, FS_CardinalityType
<1> QED  BY <1>3, <1>6, <1>7

(* Slots that are given once and keep the rate pairwise bound the calls of *)
(* a window.                                                               *)
LEMMA OwnSlotsKeepWindow == IInv => WindowKept
<1> SUFFICES ASSUME IInv, NEW l \in Ids, NEW from \in 1 .. clock,
                    NEW to \in 1 .. clock, from <= to
             PROVE  (Cardinality(Admitted(l, from, to)) - 1) * limiters[l].per
                      <= to - from + MaxSlack(l)
  BY DEF WindowKept
<1> DEFINE W == Admitted(l, from, to)
           per == limiters[l].per
           N == Len(limiters[l].slots)
<1>1. /\ per \in Nat /\ MaxSlack(l) \in Nat /\ N \in Nat
      /\ from \in Nat /\ to \in Nat
  BY LimiterTypes DEF IInv, TypeOK
<1>2. /\ \A p \in W : p \in permits /\ p.lim = l /\ p.n \in 1 .. N
      /\ \A p \in W : p.began \in Nat /\ p.ended \in Nat
      /\ \A p \in W : p.began >= from /\ p.ended <= to
  BY DEF Admitted, IInv, TypeOK, PermitsOK, Timely
<1>3. \A p, q \in W : p.n = q.n => p = q
  BY <1>2 DEF IInv, OwnSlots
<1>4. CASE W = {}
  <2>1. Cardinality(W) = 0
    BY <1>4, FS_EmptySet
  <2>2. (0 - 1) * per <= to - from + MaxSlack(l)
    BY <1>1
  <2> QED  BY <2>1, <2>2
<1>5. CASE W # {}
  <2> DEFINE f == [p \in W |-> p.n]
  <2>1. f \in [W -> 1 .. N] /\ \A p, q \in W : f[p] = f[q] => p = q
    BY <1>2, <1>3
  <2> HIDE DEF W, N
  <2>2. /\ Cardinality(W) \in Nat
        /\ \E p, q \in W : f[p] <= f[q] /\ Cardinality(W) - 1 <= f[q] - f[p]
    <3> HIDE DEF f
    <3> QED  BY <1>1, <1>5, <2>1, Spread
  <2>3. PICK p \in W, q \in W :
          p.n <= q.n /\ Cardinality(W) - 1 <= q.n - p.n
    BY <2>2
  <2>4. p.n \in Int /\ q.n \in Int
    BY <1>2
  <2>5. (q.n - p.n) * per <= to - from + MaxSlack(l)
    <3>1. CASE p.n < q.n
      <4>1. (q.n - p.n) * per <= q.ended - p.began + MaxSlack(l)
        BY <1>2, <3>1, TimelyKeepsRate DEF RateKept
      <4> DEFINE x == (q.n - p.n) * per
      <4>2. x \in Int /\ x <= q.ended - p.began + MaxSlack(l)
        BY <1>1, <2>4, <4>1
      <4> HIDE DEF x
      <4>3. /\ p.began \in Nat /\ q.ended \in Nat
            /\ p.began >= from /\ q.ended <= to
        BY <1>2
      <4>4. x <= to - from + MaxSlack(l)
        BY <1>1, <4>2, <4>3
      <4> QED  BY <4>4 DEF x
    <3>2. CASE p.n = q.n
      <4>1. (q.n - p.n) * per = 0
        BY <1>1, <2>4, <3>2
      <4> QED  BY <1>1, <4>1
    <3> QED  BY <2>3, <2>4, <3>1, <3>2
  <2> DEFINE a == Cardinality(W) - 1
             b == q.n - p.n
  <2>6. a \in Int /\ b \in Int /\ a <= b /\ b * per <= to - from + MaxSlack(l)
    BY <2>2, <2>3, <2>4, <2>5
  <2> HIDE DEF a, b, per
  <2>7. a * per <= b * per
    <3>1. b - a \in Nat
      BY <2>6
    <3>2. (b - a) * per \in Nat
      BY <1>1, <3>1
    <3>3. (b - a) * per = b * per - a * per
      BY <1>1, <2>6
    <3>4. a * per \in Int /\ b * per \in Int
      BY <1>1, <2>6
    <3> QED  BY <3>2, <3>3, <3>4
  <2>8. a * per <= to - from + MaxSlack(l)
    <3>1. a * per \in Int /\ b * per \in Int
      BY <1>1, <2>6
    <3> QED  BY <1>1, <2>6, <2>7, <3>1
  <2> QED  BY <2>8 DEF a, W, per
<1> HIDE DEF W
<1> QED  BY <1>4, <1>5 DEF W

(* The calls that a limiter lets through in a window of time are no more   *)
(* than the rate allows, and the slack, whatever callers do.               *)
THEOREM LimiterKeepsWindow == Spec => []WindowKept
<1> QED  BY OwnSlotsKeepWindow, LimiterInvariant, PTL

-----------------------------------------------------------------------------
(* What one step does to a replaced limiter: the swap of a caller that was *)
(* racing for it adds a slot and sends the caller off; nothing else adds a *)
(* slot to it or a caller.                                                 *)
LEMMA StepDrains ==
  ASSUME TypeOK, TakesOK, [Next]_vars, NEW l \in Ids, l < Len(limiters)
  PROVE  /\ Racing(l)' \subseteq Racing(l)
         /\ limiters'[l] # limiters[l] =>
              /\ Len(limiters'[l].slots) = Len(limiters[l].slots) + 1
              /\ Racing(l)' # Racing(l)
<1>1. CASE UNCHANGED <<pc, take, limiters>>
  BY <1>1 DEF Racing
<1>2. ASSUME NEW c \in Callers, Swap(c)
      PROVE  /\ Racing(l)' \subseteq Racing(l)
             /\ limiters'[l] # limiters[l] =>
                  /\ Len(limiters'[l].slots) = Len(limiters[l].slots) + 1
                  /\ Racing(l)' # Racing(l)
  <2>1. /\ c \notin Racing(l)'
        /\ \A d \in Callers \ {c} : pc'[d] = pc[d] /\ take'[d] = take[d]
    BY <1>2 DEF Swap, Racing, TypeOK
  <2>2. Racing(l)' \subseteq Racing(l)
    BY <2>1 DEF Racing
  <2>3. CASE take[c].lim = l
    <3>1. c \in Racing(l)
      BY <1>2, <2>3 DEF Swap, Racing
    <3>2. limiters'[l].slots = Append(limiters[l].slots, Slot(c))
      BY <1>2, <2>3 DEF Swap, TypeOK, Ids
    <3>3. limiters[l].slots \in Seq(Nat \ {0}) /\ Slot(c) \in Nat \ {0}
      BY <1>2, <2>3, LimiterTypes, SwapIssues
    <3> QED  BY <2>1, <2>2, <3>1, <3>2, <3>3
  <2>4. CASE take[c].lim # l
    <3>1. limiters'[l] = limiters[l]
      BY <1>2, <2>4 DEF Swap, TypeOK, Ids
    <3> QED  BY <2>2, <3>1
  <2> QED  BY <2>3, <2>4
<1>3. ASSUME NEW c \in Callers,
             \/ WaitBegin(c) \/ ReadClock(c) \/ LoadState(c) \/ SwapFails(c)
             \/ Wake(c)
      PROVE  limiters' = limiters /\ Racing(l)' \subseteq Racing(l)
  <2>1. /\ limiters' = limiters
        /\ \A d \in Callers \ {c} : pc'[d] = pc[d] /\ take'[d] = take[d]
    BY <1>3 DEF WaitBegin, ReadClock, LoadState, SwapFails, Wake, TypeOK
  <2>2. CASE WaitBegin(c)
    <3>1. take'[c].lim = Len(limiters)
      BY <2>2 DEF WaitBegin, TypeOK, Locals
    <3> QED  BY <2>1, <3>1 DEF Racing
  <2>3. CASE ReadClock(c) \/ LoadState(c) \/ SwapFails(c)
    <3>1. /\ take'[c].lim = take[c].lim
          /\ pc[c] \in {"now", "load", "swap"}
      BY <2>3 DEF ReadClock, LoadState, SwapFails, TypeOK, Locals, NoTake
    <3> QED  BY <2>1, <3>1 DEF Racing
  <2>4. CASE Wake(c)
    <3>1. pc'[c] = "idle"
      BY <2>4 DEF Wake, TypeOK
    <3> QED  BY <2>1, <3>1 DEF Racing
  <2> QED  BY <1>3, <2>1, <2>2, <2>3, <2>4
<1>4. ASSUME NEW c \in Callers, NEW rate \in Rates, SetLimit(c, rate)
      PROVE  UNCHANGED <<pc, take>> /\ limiters'[l] = limiters[l]
  BY <1>4 DEF SetLimit, TypeOK, Ids
<1>5. CASE \E c \in Callers, rate \in Rates : SetLimit(c, rate)
  BY <1>4, <1>5 DEF Racing
<1> QED
  BY <1>1, <1>2, <1>3, <1>5
     DEF Next, CallerStep, TakeStep, vars, WaitCancelled, SetLimitInvalid,
         SetLimitPanics, Tick, Cancel, Rest

(* A replaced limiter drains: it admits the callers that were racing for   *)
(* it when SetLimit replaced it, each at most once, and nobody else.       *)
THEOREM OldLimitersDrain == Spec => OldLimiterDrains
<1>1. IInv /\ [Next]_vars =>
        [\A l \in Ids : l < Len(limiters) =>
           /\ Racing(l)' \subseteq Racing(l)
           /\ limiters'[l] # limiters[l] =>
                /\ Len(limiters'[l].slots) = Len(limiters[l].slots) + 1
                /\ Racing(l)' # Racing(l)]_vars
  BY StepDrains DEF IInv
<1> QED  BY <1>1, LimiterInvariant, PTL DEF Spec, OldLimiterDrains

=============================================================================

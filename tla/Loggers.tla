------------------------------- MODULE Loggers -------------------------------
(* The loggers of pkg/logging: the default one (logger.go, kind "json") and *)
(* ZapLogger (zap.go, kind "zap"), their derivation by WithContext and      *)
(* WithFields, and the calls that lock: log, SetLevel, SetOutput.           *)
(* A struct copy shares the array behind the slice of fields and copies the *)
(* mutex as it is: both are modelled.  Fields have keys of their own, other *)
(* than "trace_id"; formatting and writers are left out.  zap's own core    *)
(* locks by itself, so its calls are not split.                             *)
EXTENDS Naturals, Sequences

CONSTANTS
  Goroutines,
  Fields,       \* key-value pairs
  Lists,        \* the arguments of WithFields
  Traces,       \* values of "trace_id" that a context may carry
  Blank,        \* the empty one
  NoTrace,      \* a context without one, or no context yet
  Free, Nobody, \* a mutex that is free; one that was copied while it was held
  Levels, Info, \* severities, in increasing order; the one of NewLogger
  MaxLoggers    \* BOUND: MaxLoggers[k]: loggers made, when they are of kind k

Kinds == {"json", "zap"}

ASSUME LoggersAssumption ==
  /\ Lists \subseteq Seq(Fields)
  /\ Fields \cap Traces = {}
  /\ Blank \in Traces
  /\ NoTrace \notin Fields \cup Traces
  /\ {Free, Nobody} \cap Goroutines = {} /\ Free # Nobody
  /\ Levels \subseteq Nat /\ Info \in Levels
  /\ MaxLoggers \in [Kinds -> Nat]

VARIABLES
  kind,     \* what NewZapLogger or NewLogger returned
  arrays,   \* the arrays behind the slices of fields, by number
  loggers,  \* the loggers, the root first
  given,    \* given[l]: what WithFields and WithContext gave to l (history)
  pc, call  \* pc[g]: where goroutine g is; call[g]: what it calls

vars == <<kind, arrays, loggers, given, pc, call>>

Cells   == Fields \cup Traces \cup {NoTrace}
Made    == 1 .. Len(loggers)
Logger  == [arr : Nat, len : Nat, ctx : Traces \cup {NoTrace},
            level : Levels, mu : Goroutines \cup {Free, Nobody}]
NoCall  == [op |-> "none"]
Call    == [op : {"log"}, on : Nat] \cup [op : {"set"}, on : Nat, level : Levels]

LoggersTypeOK ==
  /\ kind \in Kinds
  /\ arrays \in Seq(Seq(Cells))
  /\ loggers \in Seq(Logger)
  /\ \A l \in Made : /\ loggers[l].arr \in 1 .. Len(arrays)
                     /\ loggers[l].len <= Len(arrays[loggers[l].arr])
  /\ given \in Seq(Seq(Fields \cup Traces)) /\ Len(given) = Len(loggers)
  /\ pc \in [Goroutines -> {"idle", "wait", "hold"}]
  /\ call \in [Goroutines -> Call \cup {NoCall}]
  /\ \A g \in Goroutines :
       pc[g] # "idle" => call[g] # NoCall /\ call[g].on \in Made
  /\ \A l \in Made, g \in Goroutines :
       loggers[l].mu = g <=> pc[g] = "hold" /\ call[g].on = l

(* NewZapLogger, which falls back to NewLogger when zap cannot be built.    *)
Init ==
  /\ kind \in Kinds
  /\ arrays = <<<<>>>>
  /\ loggers = <<[arr |-> 1, len |-> 0, ctx |-> NoTrace, level |-> Info, mu |-> Free]>>
  /\ given = <<<<>>>>
  /\ pc = [g \in Goroutines |-> "idle"]
  /\ call = [g \in Goroutines |-> NoCall]

-----------------------------------------------------------------------------
(* Slices.                                                                  *)

Values(l) == SubSeq(arrays[loggers[l].arr], 1, loggers[l].len)

(* append(l.fields, v): in place while the array has room, otherwise in an  *)
(* array of twice the size, as the runtime grows small slices.              *)
Grown(l, v) ==
  Values(l) \o <<v>>
    \o [i \in 1 .. (IF loggers[l].len = 0 THEN 0 ELSE loggers[l].len - 1) |-> NoTrace]

Appended(l, v) ==
  LET a == loggers[l].arr
      n == loggers[l].len
  IN  IF n = Len(arrays[a])
      THEN [arrays |-> Append(arrays, Grown(l, v)), arr |-> Len(arrays) + 1]
      ELSE [arrays |-> [arrays EXCEPT ![a] = [@ EXCEPT ![n + 1] = v]], arr |-> a]

(* make and copy: an array of the exact size.                               *)
CopiedInPlace(l, list) ==                                      \* a mutant
  IF Len(list) = 1 THEN Appended(l, list[1])
  ELSE [arrays |-> Append(arrays, Values(l) \o list), arr |-> Len(arrays) + 1]

Copied(l, list) ==
  [arrays |-> Append(arrays, Values(l) \o list), arr |-> Len(arrays) + 1]

-----------------------------------------------------------------------------
(* Derived loggers.                                                         *)

(* newLogger := *l                                                          *)
Clone(l) == [loggers[l] EXCEPT !.mu = IF @ = Free THEN Free ELSE Nobody]

Derives(g, logger, gift) ==
  /\ pc[g] = "idle"
  /\ Len(loggers) < MaxLoggers[kind]
  /\ loggers' = Append(loggers, logger)
  /\ given' = Append(given, gift)
  /\ UNCHANGED <<kind, pc, call>>

WithContext(g, l, t) ==
  /\ kind = "json" \/ t = NoTrace
  /\ Derives(g, [Clone(l) EXCEPT !.ctx = t], given[l])
  /\ UNCHANGED arrays

(* ZapLogger's, with a trace: also a field.                                 *)
WithTrace(g, l, t) ==
  /\ kind = "zap"
  /\ arrays' = Appended(l, t).arrays
  /\ Derives(g, [Clone(l) EXCEPT !.ctx = t, !.arr = Appended(l, t).arr, !.len = @ + 1],
             Append(given[l], t))

WithFields(g, l, list) ==
  /\ arrays' = Copied(l, list).arrays
  /\ Derives(g, [Clone(l) EXCEPT !.arr = Copied(l, list).arr, !.len = @ + Len(list)],
             given[l] \o list)

-----------------------------------------------------------------------------
(* log, SetLevel and SetOutput of the default logger.                       *)

(* The level is read without the lock; a call below it returns at once.     *)
Log(g, l, v) ==
  /\ kind = "json" /\ pc[g] = "idle"
  /\ v >= loggers[l].level
  /\ pc' = [pc EXCEPT ![g] = "wait"]
  /\ call' = [call EXCEPT ![g] = [op |-> "log", on |-> l]]
  /\ UNCHANGED <<kind, arrays, loggers, given>>

SetLevel(g, l, v) ==
  /\ kind = "json" /\ pc[g] = "idle"
  /\ pc' = [pc EXCEPT ![g] = "wait"]
  /\ call' = [call EXCEPT ![g] = [op |-> "set", on |-> l, level |-> v]]
  /\ UNCHANGED <<kind, arrays, loggers, given>>

Acquire(g) ==
  LET l == call[g].on IN
  /\ pc[g] = "wait"
  /\ loggers[l].mu = Free
  /\ loggers' = [loggers EXCEPT ![l] = [@ EXCEPT !.mu = g]]
  /\ pc' = [pc EXCEPT ![g] = "hold"]
  /\ UNCHANGED <<kind, arrays, given, call>>

(* The entry is written, or cannot be marshalled: unlocked in both cases.   *)
UnlockedMaybe(g) == {Free, loggers[call[g].on].mu}           \* a mutant
Unlocked(g) == {Free}

LevelAfter(g) ==
  IF call[g].op = "set" THEN call[g].level ELSE loggers[call[g].on].level

Release(g) ==
  LET l == call[g].on IN
  /\ pc[g] = "hold"
  /\ \E m \in Unlocked(g) :
       loggers' = [loggers EXCEPT ![l] =
                     [@ EXCEPT !.mu = m, !.level = LevelAfter(g)]]
  /\ pc' = [pc EXCEPT ![g] = "idle"]
  /\ call' = [call EXCEPT ![g] = NoCall]
  /\ UNCHANGED <<kind, arrays, given>>

-----------------------------------------------------------------------------
Derive(g) ==
  \E l \in Made :
    \/ \E t \in Traces \cup {NoTrace} : WithContext(g, l, t)
    \/ \E t \in Traces : WithTrace(g, l, t)
    \/ \E list \in Lists : WithFields(g, l, list)

Begin(g) == \E l \in Made, v \in Levels : Log(g, l, v) \/ SetLevel(g, l, v)

Next == \E g \in Goroutines : Derive(g) \/ Begin(g) \/ Acquire(g) \/ Release(g)

Spec == Init /\ [][Next]_vars

(* A mutex is not withheld for ever from a goroutine that waits for it.     *)
Fairness == \A g \in Goroutines : SF_vars(Acquire(g)) /\ WF_vars(Release(g))

FairSpec == Spec /\ Fairness

-----------------------------------------------------------------------------
(* What an entry of logger l carries: the fields of the slice, and the      *)
(* trace of the context.                                                    *)
ContextTrace(l) ==
  IF loggers[l].ctx \in (IF kind = "zap" THEN Traces \ {Blank} ELSE Traces)
  THEN <<loggers[l].ctx>> ELSE <<>>

Entry(l) == Values(l) \o ContextTrace(l)

(* An entry carries the fields given to its logger and to those it was      *)
(* derived from, in their places, and no others, whatever is derived from   *)
(* any of them, although derived loggers share arrays and append to them in *)
(* place (logger.go:203-216, zap.go:151-170).                               *)
FieldsKept ==
  \A l \in Made :
    /\ Len(given[l]) <= Len(Entry(l))
    /\ \A i \in 1 .. Len(Entry(l)) :
         IF i <= Len(given[l]) /\ given[l][i] \in Fields
         THEN Entry(l)[i] = given[l][i] ELSE Entry(l)[i] \in Traces

(* log, SetLevel and SetOutput return, unless the mutex of their logger was *)
(* copied while it was held (logger.go:141-142, 219-228).                   *)
LogReturns ==
  \A g \in Goroutines :
    (pc[g] # "idle" /\ loggers[call[g].on].mu # Nobody) ~> pc[g] = "idle"

=============================================================================

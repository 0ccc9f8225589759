---------------------------- MODULE LoggersProofs ----------------------------
(* Proofs about Loggers: types with the mutexes, and the fields kept in    *)
(* arrays that loggers share, for any number of goroutines and loggers.    *)
EXTENDS Loggers, SequenceTheorems, TLAPS

(* A cell that was given w holds it, or another trace when w is one.       *)
Match(v, w) == /\ w \in Fields => v = w
               /\ w \in Traces => v \in Traces

(* Array a keeps what was given to a logger.                               *)
Keeps(arrs, a, gift) ==
  /\ a \in 1 .. Len(arrs) /\ Len(gift) <= Len(arrs[a])
  /\ \A i \in 1 .. Len(gift) : Match(arrs[a][i], gift[i])

Kept == \A l \in Made : /\ loggers[l].len = Len(given[l])
                        /\ Keeps(arrays, loggers[l].arr, given[l])

(* The cells that a logger has beyond those of a logger that shares its    *)
(* array are traces: an append to the shorter one overwrites no field.     *)
Beyond(longer, shorter) ==
  \A i \in 1 .. Len(longer) : i > Len(shorter) => longer[i] \in Traces

Shared == \A l, m \in Made :
            loggers[l].arr = loggers[m].arr => Beyond(given[m], given[l])

IInv == LoggersTypeOK /\ Kept /\ Shared

-----------------------------------------------------------------------------
(* What is known of one logger.                                            *)
LEMMA OfLogger ==
  ASSUME IInv, NEW l \in Made
  PROVE  /\ loggers[l] \in Logger
         /\ loggers[l].arr \in 1 .. Len(arrays)
         /\ arrays[loggers[l].arr] \in Seq(Cells)
         /\ loggers[l].len = Len(given[l])
         /\ Len(given[l]) \in Nat
         /\ Len(given[l]) <= Len(arrays[loggers[l].arr])
         /\ given[l] \in Seq(Fields \cup Traces)
         /\ Keeps(arrays, loggers[l].arr, given[l])
<1>1. loggers[l] \in Logger /\ given[l] \in Seq(Fields \cup Traces)
  BY DEF IInv, LoggersTypeOK, Made
<1>2. loggers[l].arr \in 1 .. Len(arrays)
  BY DEF IInv, LoggersTypeOK
<1>3. arrays[loggers[l].arr] \in Seq(Cells)
  BY <1>2 DEF IInv, LoggersTypeOK
<1> QED  BY <1>1, <1>2, <1>3 DEF IInv, Kept, Keeps

(* The values of a logger are the first cells of its array.                *)
LEMMA ValuesOf ==
  ASSUME IInv, NEW l \in Made
  PROVE  /\ Values(l) \in Seq(Cells) /\ Len(Values(l)) = Len(given[l])
         /\ \A i \in 1 .. Len(given[l]) :
              /\ Values(l)[i] = arrays[loggers[l].arr][i]
              /\ Match(Values(l)[i], given[l][i])
<1> DEFINE a == arrays[loggers[l].arr]
           n == loggers[l].len
<1>1. a \in Seq(Cells) /\ n \in Nat /\ n <= Len(a) /\ n = Len(given[l])
  BY OfLogger
<1>2. /\ SubSeq(a, 1, n) \in Seq(Cells) /\ Len(SubSeq(a, 1, n)) = n
      /\ \A i \in 1 .. n : SubSeq(a, 1, n)[i] = a[i]
  <2> HIDE DEF a, n
  <2> QED  BY <1>1
<1> QED  BY <1>1, <1>2, OfLogger DEF Values, Keeps

(* The invariant says what FieldsKept asks for.                            *)
LEMMA KeptFields == IInv => FieldsKept
<1> SUFFICES ASSUME IInv, NEW l \in Made
             PROVE  /\ Len(given[l]) <= Len(Entry(l))
                    /\ \A i \in 1 .. Len(Entry(l)) :
                         IF i <= Len(given[l]) /\ given[l][i] \in Fields
                         THEN Entry(l)[i] = given[l][i] ELSE Entry(l)[i] \in Traces
  BY DEF FieldsKept
<1> DEFINE v == Values(l)
           t == ContextTrace(l)
<1>1. /\ v \in Seq(Cells) /\ Len(v) = Len(given[l])
      /\ \A i \in 1 .. Len(given[l]) : Match(v[i], given[l][i])
      /\ given[l] \in Seq(Fields \cup Traces)
  BY ValuesOf, OfLogger
<1>2. t \in Seq(Traces)
  BY DEF ContextTrace
<1>3. t \in Seq(Cells)
  BY <1>2 DEF Cells
<1>4. Entry(l) = v \o t
  BY DEF Entry
<1> HIDE DEF v, t
<1>5. /\ Len(Entry(l)) = Len(v) + Len(t) /\ Len(v) \in Nat /\ Len(t) \in Nat
      /\ \A i \in 1 .. Len(v) + Len(t) :
           Entry(l)[i] = IF i <= Len(v) THEN v[i] ELSE t[i - Len(v)]
  <2>1. v \in Seq(Cells) /\ t \in Seq(Cells)
    BY <1>1, <1>3
  <2>2. \A i \in 1 .. Len(v) + Len(t) :
          (v \o t)[i] = IF i <= Len(v) THEN v[i] ELSE t[i - Len(v)]
    BY <2>1, ConcatProperties
  <2>3. Len(v \o t) = Len(v) + Len(t)
    BY <2>1, ConcatProperties
  <2>4. Len(v) \in Nat /\ Len(t) \in Nat
    BY <2>1
  <2> QED  BY <1>4, <2>2, <2>3, <2>4
<1>6. ASSUME NEW i \in 1 .. Len(Entry(l)), i <= Len(given[l])
      PROVE  IF given[l][i] \in Fields
             THEN Entry(l)[i] = given[l][i] ELSE Entry(l)[i] \in Traces
  <2>1. Entry(l)[i] = v[i] /\ i \in 1 .. Len(given[l])
    BY <1>1, <1>5, <1>6
  <2>2. given[l][i] \in Fields \cup Traces /\ Match(v[i], given[l][i])
    BY <1>1, <2>1
  <2> QED  BY <2>1, <2>2 DEF Match
<1>7. ASSUME NEW i \in 1 .. Len(Entry(l)), ~(i <= Len(given[l]))
      PROVE  Entry(l)[i] \in Traces
  <2>1. Entry(l)[i] = t[i - Len(v)] /\ i - Len(v) \in 1 .. Len(t)
    BY <1>1, <1>5, <1>7
  <2> QED  BY <1>2, <2>1
<1>8. Len(given[l]) <= Len(Entry(l))
  BY <1>1, <1>5
<1> QED  BY <1>6, <1>7, <1>8

(* The invariant holds of the root logger.                                 *)
LEMMA InitIInv == Init => IInv
<1> SUFFICES ASSUME Init PROVE IInv
  OBVIOUS
<1> DEFINE root == [arr |-> 1, len |-> 0, ctx |-> NoTrace, level |-> Info, mu |-> Free]
<1>1. root \in Logger
  BY LoggersAssumption DEF Logger
<1>2. /\ loggers = <<root>> /\ Made = {1} /\ loggers[1] = root
      /\ arrays = <<<<>>>> /\ arrays[1] = <<>> /\ given = <<<<>>>> /\ given[1] = <<>>
  BY DEF Init, Made
<1>3. /\ pc \in [Goroutines -> {"idle", "wait", "hold"}]
      /\ call \in [Goroutines -> Call \cup {NoCall}]
      /\ \A g \in Goroutines : pc[g] = "idle"
  BY DEF Init
<1>4. Free \notin Goroutines
  BY LoggersAssumption
<1>5. /\ arrays \in Seq(Seq(Cells)) /\ loggers \in Seq(Logger)
      /\ given \in Seq(Seq(Fields \cup Traces))
  <2>1. <<>> \in Seq(Cells) /\ <<>> \in Seq(Fields \cup Traces)
    OBVIOUS
  <2> HIDE DEF root
  <2> QED  BY <1>1, <1>2, <2>1
<1>6. LoggersTypeOK
  BY <1>2, <1>3, <1>4, <1>5 DEF LoggersTypeOK, Init
<1>7. Kept /\ Shared
  BY <1>2 DEF Kept, Shared, Keeps, Beyond
<1> QED  BY <1>6, <1>7 DEF IInv

-----------------------------------------------------------------------------
(* A derivation keeps the invariant when the new logger has what was given *)
(* to it, and shares its array as Shared says.                             *)
LEMMA DeriveKeeps ==
  ASSUME IInv, NEW g \in Goroutines, NEW logger \in Logger,
         NEW gift \in Seq(Fields \cup Traces), Derives(g, logger, gift),
         logger.mu \notin Goroutines, logger.len = Len(gift),
         arrays' \in Seq(Seq(Cells)), Keeps(arrays', logger.arr, gift),
         \A m \in Made : Keeps(arrays', loggers[m].arr, given[m]),
         \A m \in Made : loggers[m].arr = logger.arr =>
                           Beyond(gift, given[m]) /\ Beyond(given[m], gift)
  PROVE  IInv'
<1> DEFINE k == Len(loggers) + 1
<1>1. /\ loggers \in Seq(Logger) /\ Len(loggers) \in Nat
      /\ given \in Seq(Seq(Fields \cup Traces)) /\ Len(given) = Len(loggers)
  BY DEF IInv, LoggersTypeOK
<1>2. /\ loggers' \in Seq(Logger) /\ Made' = Made \cup {k} /\ k \notin Made
      /\ loggers'[k] = logger /\ \A m \in Made : loggers'[m] = loggers[m]
  BY <1>1, SMTT(30) DEF Derives, Made
<1>3. /\ given' \in Seq(Seq(Fields \cup Traces)) /\ Len(given') = Len(loggers')
      /\ given'[k] = gift /\ \A m \in Made : given'[m] = given[m]
  BY <1>1 DEF Derives, Made
<1>4. UNCHANGED <<kind, pc, call>>
  BY DEF Derives
<1>5. \A m \in Made' :
        /\ loggers'[m].len = Len(given'[m])
        /\ Keeps(arrays', loggers'[m].arr, given'[m])
  BY <1>2, <1>3 DEF IInv, Kept
<1>6. Kept'
  BY <1>5 DEF Kept
<1>7. Shared'
  <2>1. \A m \in Made : Beyond(given[m], given[m])
    BY DEF IInv, Shared
  <2>2. Beyond(gift, gift)
    BY DEF Beyond
  <2> QED  BY <1>2, <1>3, <2>1, <2>2, ZenonT(30) DEF IInv, Shared
<1>8. \A g2 \in Goroutines : pc[g2] # "idle" => call[g2].on \in Made
  BY DEF IInv, LoggersTypeOK
<1>9. \A m \in Made', g2 \in Goroutines :
        loggers'[m].mu = g2 <=> pc'[g2] = "hold" /\ call'[g2].on = m
  <2> SUFFICES ASSUME NEW m \in Made', NEW g2 \in Goroutines
               PROVE  loggers'[m].mu = g2 <=> pc[g2] = "hold" /\ call[g2].on = m
    BY <1>4
  <2>1. CASE m = k
    <3>1. loggers'[m].mu # g2
      BY <1>2, <2>1
    <3>2. ~(pc[g2] = "hold" /\ call[g2].on = m)
      BY <1>2, <1>8, <2>1
    <3> QED  BY <3>1, <3>2
  <2>2. CASE m \in Made
    <3>1. loggers'[m] = loggers[m]
      BY <1>2, <2>2
    <3> QED  BY <2>2, <3>1 DEF IInv, LoggersTypeOK
  <2> QED  BY <1>2, <2>1, <2>2
<1>10. LoggersTypeOK'
  <2>1. \A m \in Made' : /\ loggers'[m].arr \in 1 .. Len(arrays')
                         /\ loggers'[m].len <= Len(arrays'[loggers'[m].arr])
    BY <1>5 DEF Keeps
  <2>2. /\ kind' \in Kinds
        /\ pc' \in [Goroutines -> {"idle", "wait", "hold"}]
        /\ call' \in [Goroutines -> Call \cup {NoCall}]
        /\ \A g2 \in Goroutines :
             pc'[g2] # "idle" => call'[g2] # NoCall /\ call'[g2].on \in Made'
    BY <1>2, <1>4 DEF IInv, LoggersTypeOK
  <2> QED  BY <1>2, <1>3, <1>4, <1>9, <2>1, <2>2 DEF LoggersTypeOK
<1> QED  BY <1>6, <1>7, <1>10 DEF IInv

(* The copied mutex belongs to nobody.                                     *)
LEMMA CloneOf ==
  ASSUME IInv, NEW l \in Made
  PROVE  /\ Clone(l) \in Logger /\ Clone(l).mu \notin Goroutines
         /\ Clone(l).arr = loggers[l].arr /\ Clone(l).len = loggers[l].len
<1>1. loggers[l] \in Logger
  BY OfLogger
<1>2. {Free, Nobody} \cap Goroutines = {}
  BY LoggersAssumption
<1> QED  BY <1>1, <1>2 DEF Clone, Logger

(* A new array leaves the others alone, and nobody shares it.              *)
LEMMA NewArray ==
  ASSUME IInv, NEW content \in Seq(Cells), arrays' = Append(arrays, content)
  PROVE  /\ arrays' \in Seq(Seq(Cells))
         /\ Len(arrays) + 1 \in 1 .. Len(arrays')
         /\ arrays'[Len(arrays) + 1] = content
         /\ \A m \in Made : /\ Keeps(arrays', loggers[m].arr, given[m])
                            /\ loggers[m].arr # Len(arrays) + 1
<1>1. arrays \in Seq(Seq(Cells)) /\ Len(arrays) \in Nat
  BY DEF IInv, LoggersTypeOK
<1>2. /\ arrays' \in Seq(Seq(Cells)) /\ Len(arrays') = Len(arrays) + 1
      /\ arrays'[Len(arrays) + 1] = content
      /\ \A a \in 1 .. Len(arrays) : arrays'[a] = arrays[a]
  BY <1>1
<1>3. ASSUME NEW m \in Made
      PROVE  /\ Keeps(arrays', loggers[m].arr, given[m])
             /\ loggers[m].arr # Len(arrays) + 1
  BY <1>1, <1>2, OfLogger DEF Keeps
<1> QED  BY <1>1, <1>2, <1>3

(* WithContext without a field: the array is shared, at the same length.   *)
LEMMA ContextKeeps ==
  ASSUME IInv, NEW g \in Goroutines, NEW l \in Made,
         NEW t \in Traces \cup {NoTrace}, WithContext(g, l, t)
  PROVE  IInv'
<1> DEFINE logger == [Clone(l) EXCEPT !.ctx = t]
<1>1. /\ logger \in Logger /\ logger.mu \notin Goroutines
      /\ logger.arr = loggers[l].arr /\ logger.len = Len(given[l])
  BY CloneOf, OfLogger DEF Logger
<1>2. arrays' = arrays /\ Derives(g, logger, given[l])
  BY DEF WithContext
<1>3. /\ given[l] \in Seq(Fields \cup Traces)
      /\ arrays' \in Seq(Seq(Cells))
      /\ \A m \in Made : Keeps(arrays', loggers[m].arr, given[m])
  BY <1>2, OfLogger DEF IInv, LoggersTypeOK
<1>4. Keeps(arrays', logger.arr, given[l])
  BY <1>1, <1>3
<1>5. \A m \in Made : loggers[m].arr = logger.arr =>
                        Beyond(given[l], given[m]) /\ Beyond(given[m], given[l])
  BY <1>1 DEF IInv, Shared
<1> HIDE DEF logger
<1> QED  BY <1>1, <1>2, <1>3, <1>4, <1>5, DeriveKeeps

(* WithFields: a copy in an array of its own.                              *)
LEMMA FieldsKeep ==
  ASSUME IInv, NEW g \in Goroutines, NEW l \in Made, NEW list \in Lists,
         WithFields(g, l, list)
  PROVE  IInv'
<1> DEFINE new == Len(arrays) + 1
           content == Values(l) \o list
           gift == given[l] \o list
           logger == [Clone(l) EXCEPT !.arr = new, !.len = @ + Len(list)]
<1>1. list \in Seq(Fields) /\ Len(list) \in Nat
  BY LoggersAssumption
<1>2. list \in Seq(Cells) /\ list \in Seq(Fields \cup Traces)
  BY <1>1 DEF Cells
<1>3. /\ Values(l) \in Seq(Cells) /\ Len(Values(l)) = Len(given[l])
      /\ given[l] \in Seq(Fields \cup Traces) /\ Len(given[l]) \in Nat
      /\ \A i \in 1 .. Len(given[l]) : Match(Values(l)[i], given[l][i])
  BY ValuesOf, OfLogger
<1>4. /\ content \in Seq(Cells) /\ gift \in Seq(Fields \cup Traces)
      /\ Len(content) = Len(given[l]) + Len(list)
      /\ Len(gift) = Len(given[l]) + Len(list)
  <2>1. content \in Seq(Cells) /\ Len(content) = Len(Values(l)) + Len(list)
    BY <1>2, <1>3, ConcatProperties
  <2>2. gift \in Seq(Fields \cup Traces) /\ Len(gift) = Len(given[l]) + Len(list)
    BY <1>2, <1>3, ConcatProperties
  <2> QED  BY <1>3, <2>1, <2>2
<1>5. ASSUME NEW i \in 1 .. Len(gift) PROVE Match(content[i], gift[i])
  <2>1. CASE i <= Len(given[l])
    BY <1>2, <1>3, <1>4, <2>1, ConcatProperties
  <2>2. CASE i > Len(given[l])
    <3>1. content[i] = gift[i]
      BY <1>2, <1>3, <1>4, <2>2, ConcatProperties
    <3> QED  BY <3>1 DEF Match
  <2> QED  BY <1>3, <1>4, <2>1, <2>2
<1>6. arrays' = Append(arrays, content) /\ Derives(g, logger, gift)
  BY DEF WithFields, Copied
<1>7. Len(arrays) \in Nat
  BY DEF IInv, LoggersTypeOK
<1>8. /\ logger \in Logger /\ logger.mu \notin Goroutines
      /\ logger.arr = new /\ logger.len = Len(gift)
  <2>1. /\ Clone(l) \in Logger /\ Clone(l).mu \notin Goroutines
        /\ Clone(l).len = Len(given[l])
    BY CloneOf, OfLogger
  <2>2. Clone(l).len + Len(list) = Len(gift) /\ Len(gift) \in Nat /\ new \in Nat
    BY <1>1, <1>3, <1>4, <1>7, <2>1
  <2> HIDE DEF new, gift
  <2> QED  BY <2>1, <2>2 DEF Logger
<1> HIDE DEF content, gift, logger
<1>9. Keeps(arrays', logger.arr, gift)
  BY <1>4, <1>5, <1>6, <1>8, NewArray DEF Keeps
<1>10. /\ arrays' \in Seq(Seq(Cells))
       /\ \A m \in Made : /\ Keeps(arrays', loggers[m].arr, given[m])
                          /\ loggers[m].arr # logger.arr
  BY <1>4, <1>6, <1>8, NewArray
<1> QED  BY <1>4, <1>6, <1>8, <1>9, <1>10, DeriveKeeps

(* ZapLogger's WithContext: the trace goes into a new array when the one   *)
(* of its parent is full, and else into the cell after the parent's last.  *)
LEMMA TraceKeeps ==
  ASSUME IInv, NEW g \in Goroutines, NEW l \in Made, NEW t \in Traces,
         WithTrace(g, l, t)
  PROVE  IInv'
<1> DEFINE a == loggers[l].arr
           n == loggers[l].len
           gift == Append(given[l], t)
           to == Appended(l, t).arr
           logger == [Clone(l) EXCEPT !.ctx = t, !.arr = to, !.len = @ + 1]
<1>1. /\ a \in 1 .. Len(arrays) /\ arrays[a] \in Seq(Cells)
      /\ n = Len(given[l]) /\ n \in Nat /\ n <= Len(arrays[a])
      /\ given[l] \in Seq(Fields \cup Traces)
      /\ Len(arrays) \in Nat /\ arrays \in Seq(Seq(Cells))
  BY OfLogger, SMTT(30) DEF IInv, LoggersTypeOK
<1>2. t \in Cells /\ t \in Fields \cup Traces /\ t \notin Fields /\ NoTrace \in Cells
  BY LoggersAssumption DEF Cells
<1>3. /\ gift \in Seq(Fields \cup Traces) /\ Len(gift) = n + 1 /\ gift[n + 1] = t
      /\ \A i \in 1 .. n : gift[i] = given[l][i]
  BY <1>1, <1>2
<1>4. arrays' = Appended(l, t).arrays /\ Derives(g, logger, gift)
  BY DEF WithTrace
<1>5. ASSUME to \in Nat
      PROVE  /\ logger \in Logger /\ logger.mu \notin Goroutines
             /\ logger.arr = to /\ logger.len = Len(gift)
  <2>1. /\ Clone(l) \in Logger /\ Clone(l).mu \notin Goroutines
        /\ Clone(l).len = n
    BY CloneOf
  <2>2. Clone(l).len + 1 = Len(gift) /\ Len(gift) \in Nat
    BY <1>1, <1>3, <2>1
  <2> HIDE DEF to, gift, n
  <2> QED  BY <1>5, <2>1, <2>2 DEF Logger
<1>6. CASE n = Len(arrays[a])
  <2> DEFINE content == Grown(l, t)
             pad == [i \in 1 .. (IF n = 0 THEN 0 ELSE n - 1) |-> NoTrace]
  <2>1. arrays' = Append(arrays, content) /\ to = Len(arrays) + 1
    BY <1>4, <1>6 DEF Appended
  <2>2. /\ Values(l) \in Seq(Cells) /\ Len(Values(l)) = n
        /\ \A i \in 1 .. n : Match(Values(l)[i], given[l][i])
    BY <1>1, ValuesOf
  <2>3. pad \in Seq(Cells) /\ Len(pad) \in Nat
    <3>1. (IF n = 0 THEN 0 ELSE n - 1) \in Nat
      BY <1>1
    <3> QED  BY <1>2, <3>1
  <2>4. /\ Values(l) \o <<t>> \in Seq(Cells) /\ Len(Values(l) \o <<t>>) = n + 1
        /\ (Values(l) \o <<t>>)[n + 1] = t
        /\ \A i \in 1 .. n : (Values(l) \o <<t>>)[i] = Values(l)[i]
    <3>1. <<t>> \in Seq(Cells) /\ Len(<<t>>) = 1 /\ <<t>>[1] = t
      BY <1>2
    <3> DEFINE s == Values(l)
               u == <<t>>
    <3>2. s \in Seq(Cells) /\ Len(s) = n /\ u \in Seq(Cells) /\ Len(u) = 1 /\ u[1] = t
      BY <2>2, <3>1
    <3> HIDE DEF s, u, n
    <3>3. s \o u \in Seq(Cells) /\ Len(s \o u) = Len(s) + Len(u)
      BY <3>2, ConcatProperties
    <3>4. \A i \in 1 .. Len(s) + Len(u) :
            (s \o u)[i] = IF i <= Len(s) THEN s[i] ELSE u[i - Len(s)]
      BY <3>2, ConcatProperties
    <3>5. n \in Nat
      BY <1>1
    <3>6. (s \o u)[n + 1] = t
      <4> DEFINE k == n + 1
      <4>1. /\ k \in 1 .. Len(s) + Len(u) /\ ~(k <= Len(s)) /\ k - Len(s) = 1
        BY <3>2, <3>5
      <4> HIDE DEF k
      <4>2. (s \o u)[k] = u[k - Len(s)]
        BY <3>4, <4>1
      <4>3. (s \o u)[k] = t
        BY <3>2, <4>1, <4>2
      <4> QED  BY <4>3 DEF k
    <3>7. \A i \in 1 .. n : (s \o u)[i] = s[i]
      BY <3>2, <3>4, <3>5
    <3> QED  BY <3>2, <3>3, <3>6, <3>7 DEF s, u
  <2>5. content = (Values(l) \o <<t>>) \o pad
    BY DEF Grown
  <2>6. /\ content \in Seq(Cells) /\ Len(content) >= n + 1
        /\ \A i \in 1 .. n + 1 : content[i] = (Values(l) \o <<t>>)[i]
    <3> DEFINE s == Values(l) \o <<t>>
    <3>1. s \in Seq(Cells) /\ Len(s) = n + 1 /\ content = s \o pad
      BY <2>4, <2>5
    <3> HIDE DEF s, pad, content
    <3>2. content \in Seq(Cells) /\ Len(content) = Len(s) + Len(pad)
      BY <2>3, <3>1, ConcatProperties
    <3>3. \A i \in 1 .. Len(s) : content[i] = s[i]
      BY <2>3, <3>1, ConcatProperties
    <3> QED  BY <1>1, <2>3, <3>1, <3>2, <3>3 DEF s
  <2>7. ASSUME NEW i \in 1 .. n + 1 PROVE Match(content[i], gift[i])
    <3>1. CASE i = n + 1
      BY <1>3, <2>4, <2>6, <3>1 DEF Match
    <3>2. CASE i # n + 1
      <4>1. i \in 1 .. n
        BY <1>1, <3>2
      <4> QED  BY <1>3, <2>2, <2>4, <2>6, <4>1
    <3> QED  BY <3>1, <3>2
  <2>8. to \in Nat
    BY <1>1, <2>1
  <2> HIDE DEF content, gift, logger, to
  <2>9. /\ arrays' \in Seq(Seq(Cells)) /\ to \in 1 .. Len(arrays')
        /\ arrays'[to] = content
        /\ \A m \in Made : /\ Keeps(arrays', loggers[m].arr, given[m])
                           /\ loggers[m].arr # to
    BY <2>1, <2>6, NewArray
  <2>10. Keeps(arrays', to, gift)
    BY <1>3, <2>6, <2>7, <2>9 DEF Keeps
  <2>11. /\ logger \in Logger /\ logger.mu \notin Goroutines
         /\ logger.arr = to /\ logger.len = Len(gift)
    BY <1>5, <2>8
  <2> QED  BY <1>3, <1>4, <2>9, <2>10, <2>11, DeriveKeeps
<1>7. CASE n # Len(arrays[a])
  <2> DEFINE cells == [arrays[a] EXCEPT ![n + 1] = t]
  <2>1. arrays' = [arrays EXCEPT ![a] = cells] /\ to = a
    BY <1>4, <1>7 DEF Appended
  <2>2. /\ cells \in Seq(Cells) /\ Len(cells) = Len(arrays[a])
        /\ n + 1 \in 1 .. Len(arrays[a]) /\ cells[n + 1] = t
        /\ \A i \in 1 .. Len(arrays[a]) : i # n + 1 => cells[i] = arrays[a][i]
    <3> DEFINE old == arrays[a]
    <3>1. old \in Seq(Cells) /\ n \in Nat /\ n < Len(old)
      BY <1>1, <1>7
    <3> HIDE DEF old, n
    <3>2. Len(old) \in Nat /\ n + 1 \in 1 .. Len(old)
      BY <3>1
    <3>3. /\ [old EXCEPT ![n + 1] = t] \in Seq(Cells)
          /\ Len([old EXCEPT ![n + 1] = t]) = Len(old)
          /\ \A i \in 1 .. Len(old) :
               [old EXCEPT ![n + 1] = t][i] = IF i = n + 1 THEN t ELSE old[i]
      BY <1>2, <3>1, <3>2, ExceptSeq
    <3> QED  BY <3>2, <3>3 DEF old
  <2> HIDE DEF cells
  <2>3. /\ arrays' \in Seq(Seq(Cells)) /\ Len(arrays') = Len(arrays)
        /\ arrays'[a] = cells
        /\ \A b \in 1 .. Len(arrays) : b # a => arrays'[b] = arrays[b]
    BY <1>1, <2>1, <2>2
  <2>4. \A m \in Made : loggers[m].arr = a =>
          Beyond(given[m], given[l]) /\ Beyond(given[l], given[m])
    BY DEF IInv, Shared
  <2>5. ASSUME NEW m \in Made PROVE Keeps(arrays', loggers[m].arr, given[m])
    <3>1. /\ Keeps(arrays, loggers[m].arr, given[m]) /\ Len(given[m]) \in Nat
          /\ loggers[m].arr \in 1 .. Len(arrays)
      BY OfLogger
    <3>2. CASE loggers[m].arr # a
      BY <2>3, <3>1, <3>2 DEF Keeps
    <3>3. CASE loggers[m].arr = a
      <4>1. ASSUME NEW i \in 1 .. Len(given[m])
            PROVE  Match(cells[i], given[m][i])
        <5>1. CASE i # n + 1
          BY <2>2, <3>1, <3>3, <5>1 DEF Keeps
        <5>2. CASE i = n + 1
          <6>1. given[m][i] \in Traces
            <7>1. Beyond(given[m], given[l])
              BY <2>4, <3>3
            <7>2. i > Len(given[l])
              BY <1>1, <5>2
            <7> QED  BY <4>1, <7>1, <7>2 DEF Beyond
          <6> QED  BY <2>2, <5>2, <6>1, LoggersAssumption DEF Match
        <5> QED  BY <5>1, <5>2
      <4> QED  BY <2>2, <2>3, <3>1, <3>3, <4>1 DEF Keeps
    <3> QED  BY <3>2, <3>3
  <2>6. Keeps(arrays', to, gift)
    <3>1. ASSUME NEW i \in 1 .. n + 1 PROVE Match(cells[i], gift[i])
      <4>1. CASE i = n + 1
        BY <1>3, <2>2, <4>1 DEF Match
      <4>2. CASE i # n + 1
        <5>1. i \in 1 .. n /\ i \in 1 .. Len(arrays[a])
          BY <1>1, <2>2, <4>2, SMTT(30)
        <5>2. Match(arrays[a][i], given[l][i])
          BY <1>1, <5>1, OfLogger DEF Keeps
        <5> QED  BY <1>3, <2>2, <4>2, <5>1, <5>2
      <4> QED  BY <4>1, <4>2
    <3> QED  BY <1>1, <1>3, <2>1, <2>2, <2>3, <3>1, SMTT(30) DEF Keeps
  <2>7. ASSUME NEW m \in Made, loggers[m].arr = to
        PROVE  Beyond(gift, given[m]) /\ Beyond(given[m], gift)
    <3>1. /\ Beyond(given[m], given[l]) /\ Beyond(given[l], given[m])
          /\ Len(given[m]) \in Nat
      BY <2>1, <2>4, <2>7, OfLogger
    <3>2. Beyond(gift, given[m])
      <4> SUFFICES ASSUME NEW i \in 1 .. n + 1, i > Len(given[m])
                   PROVE  gift[i] \in Traces
        BY <1>3 DEF Beyond
      <4>1. CASE i = n + 1
        BY <1>3, <4>1
      <4>2. CASE i # n + 1
        BY <1>1, <1>3, <3>1, <4>2, SMTT(30) DEF Beyond
      <4> QED  BY <4>1, <4>2
    <3>3. Beyond(given[m], gift)
      BY <1>1, <1>3, <3>1 DEF Beyond
    <3> QED  BY <3>2, <3>3
  <2>8. to \in Nat
    BY <1>1, <2>1
  <2> HIDE DEF gift, logger, to
  <2>9. /\ logger \in Logger /\ logger.mu \notin Goroutines
        /\ logger.arr = to /\ logger.len = Len(gift)
    BY <1>5, <2>8
  <2> QED  BY <1>3, <1>4, <2>3, <2>5, <2>6, <2>7, <2>9, DeriveKeeps
<1> QED  BY <1>6, <1>7

-----------------------------------------------------------------------------
(* Calls that lock leave the arrays and what was given alone.              *)
LEMMA KeptByCalls ==
  ASSUME IInv, UNCHANGED <<arrays, given>>, Len(loggers') = Len(loggers),
         \A l \in Made : /\ loggers'[l].arr = loggers[l].arr
                         /\ loggers'[l].len = loggers[l].len
  PROVE  Made' = Made /\ Kept' /\ Shared'
<1>1. Made' = Made
  BY DEF Made
<1> QED  BY <1>1 DEF IInv, Kept, Shared

(* Log and SetLevel begin.                                                 *)
LEMMA BeginKeeps ==
  ASSUME IInv, NEW g \in Goroutines, Begin(g) PROVE IInv'
<1>1. PICK l \in Made, v \in Levels : Log(g, l, v) \/ SetLevel(g, l, v)
  BY DEF Begin
<1>2. PICK k \in Call :
        /\ k.on = l /\ k # NoCall
        /\ pc[g] = "idle" /\ pc' = [pc EXCEPT ![g] = "wait"]
        /\ call' = [call EXCEPT ![g] = k]
  <2>1. l \in Nat
    BY DEF Made
  <2> DEFINE log == [op |-> "log", on |-> l]
             set == [op |-> "set", on |-> l, level |-> v]
  <2>2. CASE Log(g, l, v)
    <3>1. log \in Call /\ log.on = l /\ log # NoCall
      BY <2>1 DEF Call, NoCall
    <3> QED  BY <2>2, <3>1 DEF Log
  <2>3. CASE SetLevel(g, l, v)
    <3>1. set \in Call /\ set.on = l /\ set # NoCall
      BY <2>1 DEF Call, NoCall
    <3> QED  BY <2>3, <3>1 DEF SetLevel
  <2> QED  BY <1>1, <2>2, <2>3
<1>3. UNCHANGED <<kind, arrays, loggers, given>>
  BY <1>1 DEF Log, SetLevel
<1>4. Made' = Made /\ Kept' /\ Shared'
  BY <1>3, KeptByCalls
<1>5. LoggersTypeOK'
  BY <1>2, <1>3, <1>4 DEF IInv, LoggersTypeOK
<1> QED  BY <1>4, <1>5 DEF IInv

(* A mutex that is free is taken.                                          *)
LEMMA AcquireKeeps ==
  ASSUME IInv, NEW g \in Goroutines, Acquire(g) PROVE IInv'
<1> DEFINE l == call[g].on
           held == [loggers[l] EXCEPT !.mu = g]
<1>1. l \in Made /\ pc[g] = "wait"
  BY DEF Acquire, IInv, LoggersTypeOK
<1>2. /\ loggers[l] \in Logger /\ loggers \in Seq(Logger) /\ Free \notin Goroutines
      /\ loggers[l].mu = Free
  BY <1>1, LoggersAssumption DEF Acquire, IInv, LoggersTypeOK, Made
<1>3. /\ held \in Logger /\ held.mu = g
      /\ held.arr = loggers[l].arr /\ held.len = loggers[l].len
  BY <1>2 DEF Logger
<1>4. /\ loggers' = [loggers EXCEPT ![l] = held]
      /\ pc' = [pc EXCEPT ![g] = "hold"] /\ UNCHANGED <<kind, arrays, given, call>>
  BY DEF Acquire
<1> HIDE DEF held
<1>5. /\ loggers' \in Seq(Logger) /\ Len(loggers') = Len(loggers)
      /\ loggers'[l] = held /\ \A m \in Made : m # l => loggers'[m] = loggers[m]
  BY <1>1, <1>2, <1>3, <1>4 DEF Made
<1>6. Made' = Made /\ Kept' /\ Shared'
  BY <1>3, <1>4, <1>5, KeptByCalls
<1>7. \A m \in Made, d \in Goroutines :
        loggers'[m].mu = d <=> pc'[d] = "hold" /\ call'[d].on = m
  BY <1>1, <1>2, <1>3, <1>4, <1>5 DEF IInv, LoggersTypeOK
<1>8. LoggersTypeOK'
  BY <1>1, <1>3, <1>4, <1>5, <1>6, <1>7, SMTT(30) DEF IInv, LoggersTypeOK
<1> QED  BY <1>6, <1>8 DEF IInv

(* The mutex is released, and SetLevel's level is set.                     *)
LEMMA ReleaseKeeps ==
  ASSUME IInv, NEW g \in Goroutines, Release(g) PROVE IInv'
<1> DEFINE l == call[g].on
           free == [loggers[l] EXCEPT !.mu = Free, !.level = LevelAfter(g)]
<1>1. l \in Made /\ pc[g] = "hold" /\ call[g] \in Call /\ loggers[l].mu = g
  BY DEF Release, IInv, LoggersTypeOK
<1>2. /\ loggers[l] \in Logger /\ loggers \in Seq(Logger) /\ Free \notin Goroutines
  BY <1>1, LoggersAssumption DEF IInv, LoggersTypeOK, Made
<1>3. LevelAfter(g) \in Levels
  BY <1>1, <1>2 DEF LevelAfter, Call, Logger
<1>4. /\ free \in Logger /\ free.mu = Free
      /\ free.arr = loggers[l].arr /\ free.len = loggers[l].len
  BY <1>2, <1>3 DEF Logger
<1>5. /\ loggers' = [loggers EXCEPT ![l] = free]
      /\ pc' = [pc EXCEPT ![g] = "idle"] /\ call' = [call EXCEPT ![g] = NoCall]
      /\ UNCHANGED <<kind, arrays, given>>
  <2>2. loggers' = [loggers EXCEPT ![l] = free]
    BY DEF Release, Unlocked
  <2>1. /\ pc' = [pc EXCEPT ![g] = "idle"] /\ call' = [call EXCEPT ![g] = NoCall]
        /\ UNCHANGED <<kind, arrays, given>>
    BY DEF Release
  <2> QED  BY <2>1, <2>2
<1> HIDE DEF free
<1>6. /\ loggers' \in Seq(Logger) /\ Len(loggers') = Len(loggers)
      /\ loggers'[l] = free /\ \A m \in Made : m # l => loggers'[m] = loggers[m]
  BY <1>1, <1>2, <1>4, <1>5 DEF Made
<1>7. Made' = Made /\ Kept' /\ Shared'
  BY <1>4, <1>5, <1>6, KeptByCalls
<1>8. \A m \in Made, d \in Goroutines :
        loggers'[m].mu = d <=> pc'[d] = "hold" /\ call'[d].on = m
  BY <1>1, <1>2, <1>4, <1>5, <1>6 DEF IInv, LoggersTypeOK
<1>9. /\ pc' \in [Goroutines -> {"idle", "wait", "hold"}]
      /\ call' \in [Goroutines -> Call \cup {NoCall}]
      /\ \A d \in Goroutines :
           pc'[d] # "idle" => call'[d] # NoCall /\ call'[d].on \in Made
  <2> HIDE DEF l
  <2> QED  BY <1>5 DEF IInv, LoggersTypeOK
<1>10. \A m \in Made : /\ loggers'[m].arr \in 1 .. Len(arrays)
                       /\ loggers'[m].len <= Len(arrays[loggers'[m].arr])
  BY <1>1, <1>4, <1>6 DEF IInv, LoggersTypeOK
<1>11. LoggersTypeOK'
  BY <1>5, <1>6, <1>7, <1>8, <1>9, <1>10 DEF IInv, LoggersTypeOK
<1> QED  BY <1>7, <1>11 DEF IInv

-----------------------------------------------------------------------------
(* The inductive invariant: types, arrays that keep what was given, and    *)
(* only traces beyond the shortest of the loggers that share an array.     *)
THEOREM LoggersInvariant == Spec => []IInv
<1>1. IInv /\ [Next]_vars => IInv'
  <2> SUFFICES ASSUME IInv, [Next]_vars PROVE IInv'
    OBVIOUS
  <2>1. CASE UNCHANGED vars
    <3>1. LoggersTypeOK'
      BY <2>1 DEF vars, IInv, LoggersTypeOK, Made
    <3>2. Kept'
      BY <2>1 DEF vars, IInv, Kept, Keeps, Made
    <3>3. Shared'
      BY <2>1 DEF vars, IInv, Shared, Made
    <3> QED  BY <3>1, <3>2, <3>3 DEF IInv
  <2>2. ASSUME NEW g \in Goroutines, Derive(g) PROVE IInv'
    BY <2>2, ContextKeeps, TraceKeeps, FieldsKeep DEF Derive
  <2> QED  BY <2>1, <2>2, BeginKeeps, AcquireKeeps, ReleaseKeeps DEF Next
<1> QED  BY <1>1, InitIInv, PTL DEF Spec

(* Every state of the loggers is well typed, and a mutex is held exactly   *)
(* by the goroutine inside the critical section of its logger.             *)
THEOREM LoggersTypeCorrect == Spec => []LoggersTypeOK
<1>1. IInv => LoggersTypeOK
  BY DEF IInv
<1> QED  BY <1>1, LoggersInvariant, PTL

(* No entry loses a field or shows one of another logger, however many     *)
(* loggers are derived and share arrays.                                   *)
THEOREM FieldsAreKept == Spec => []FieldsKept
<1> QED  BY KeptFields, LoggersInvariant, PTL

=============================================================================

---------------------------- MODULE BybitQueries ----------------------------
(* What GetCandles and GetOrderBook of the Bybit connector                 *)
(* (pkg/exchanges/bybit/connector.go) ask of the server and what they make *)
(* of its answer, and what fetchInstrumentsInfo keeps of the instruments:  *)
(* values, without state.  A cell of an answer is what strconv makes of    *)
(* it: an integer, a number (NaN and the infinities are numbers), or       *)
(* neither.                                                                *)
EXTENDS Integers, Sequences

LOCAL INSTANCE SequencesExt

Numeric == {"integer", "number"}

(* validateTimeRange: times are numbers, and 0 is time.Time{}.             *)
ValidRange(start, end) == start # 0 /\ end # 0 /\ start <= end

(* The number of candles asked for, and the depth of the order book, which *)
(* the server knows as 1, 50 and 200 only.                                 *)
Limit(n) == IF n <= 0 THEN 100 ELSE IF n > 1000 THEN 1000 ELSE n

Depth(d) == IF d <= 1 THEN 1 ELSE IF d <= 50 THEN 50 ELSE 200

(* doBybitGet and parseBybitResponse: an answer counts when it has come    *)
(* whole, with status 200, as JSON, and with retCode 0.                    *)
Good    == [whole |-> TRUE, status |-> 200, json |-> TRUE, retCode |-> 0]
Answers == {Good, [Good EXCEPT !.whole = FALSE], [Good EXCEPT !.status = 404],
            [Good EXCEPT !.json = FALSE], [Good EXCEPT !.retCode = 1]}
Counts(a) == a.whole /\ a.status = 200 /\ a.json /\ a.retCode = 0

(* Rows: a candle has a time, four prices, a volume and a turnover, which  *)
(* is not read; a level of the order book a price and a quantity.          *)
KlineRow(row) ==
  Len(row) >= 7 /\ row[1] = "integer" /\ \A i \in 2 .. 6 : row[i] \in Numeric

OrderBookRow(row) == Len(row) = 2 /\ \A i \in 1 .. 2 : row[i] \in Numeric

(* A row that does not parse is skipped.                                   *)
Candles(list) ==
  FoldLeft(LAMBDA candles, row :
             IF KlineRow(row) THEN Append(candles, SubSeq(row, 1, 6)) ELSE candles,
           <<>>, list)

Levels(list) ==
  FoldLeft(LAMBDA levels, row :
             IF OrderBookRow(row) THEN Append(levels, row) ELSE levels,
           <<>>, list)

(* Of the instruments listed, by symbol, those that are trading are kept.  *)
Trading(status) == {s \in DOMAIN status : status[s] = "Trading"}

=============================================================================

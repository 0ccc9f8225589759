-------------------------- MODULE MCBybitConnector --------------------------
(* Model values for model checking BybitConnector: one caller that uses    *)
(* everything and one that subscribes to the same candles.  Two intervals  *)
(* differ in case only; a third one is not supported.                      *)
EXTENDS BybitConnector

CONSTANTS c1, c2, s1, s2

MCCallers  == {c1, c2}
MCSymbols  == {s1, s2}
MCLong     == {s2}

Use(op, symbol, interval) ==
  [op |-> op, arg |-> [symbol |-> symbol, interval |-> interval]]

UsesOf(ops, interval) == {Use(op, s1, interval) : op \in ops}

MCUses ==
  [c \in MCCallers |->
     IF c = c1
     THEN UsesOf({"Connect", "Close", "Subscribe", "Unsubscribe"}, "1m")
            \cup {Use("Subscribe", s1, "1M"), Use("Get", s1, "1M"),
                  Use("Subscribe", s1, "7m")}
     ELSE UsesOf({"Subscribe", "Unsubscribe"}, "1m")]

(* Lists of up to two rows, short, complete or with a cell that does not    *)
(* parse: no candle and no level holds a value that was not in its row, and *)
(* no good row is lost or moved by a bad one before it.                     *)
Row(n, bad) ==
  [i \in 1 .. n |-> CASE i = bad -> "text" [] i = 1 -> "integer" [] OTHER -> "number"]
Rows  == {Row(n, bad) : n \in {1, 2, 6, 7}, bad \in 0 .. 7}
Lists == UNION {[1 .. n -> Rows] : n \in 0 .. 2}

Complete(row) == Len(row) = 7 /\ row \in {Row(7, 0), Row(7, 7)}
First6(row)   == SubSeq(row, 1, 6)

ASSUME RowsKept ==
  \A list \in Lists :
    LET good == SelectSeq(list, Complete) IN
    /\ Candles(list) = [i \in DOMAIN good |-> First6(good[i])]
    /\ Levels(list) = SelectSeq(list, LAMBDA row : row = Row(2, 0))

=============================================================================

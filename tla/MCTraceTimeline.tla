--------------------------- MODULE MCTraceTimeline ---------------------------
EXTENDS TraceTimeline

Seen(id, source, at, size) ==
  [id |-> id, source |-> source, at |-> at, cols |-> <<None, None>>, size |-> size]
Row(id, target, first, second, size) ==
  [id |-> id, source |-> "db", target |-> target, at |-> None, cols |-> <<first, second>>, size |-> size]

(* Events in, beside and between the windows; rows of two targets, with    *)
(* one time, another, none, and none that can be read.                     *)
Found == {
  Seen(1, "cloudwatch", 4, 1), Seen(2, "cloudwatch", 6, 2), Seen(3, "cloudwatch", 10, 1),
  Seen(4, "newrelic", 4, 1), Seen(5, "newrelic", 8, 2),
  Row(6, 1, 1, 9, 1), Row(7, 1, None, 7, 2), Row(8, 2, Garbled, 6, 2), Row(9, 2, None, None, 1),
  Row(10, 1, 30, 7, 1)}

UpToThree == {S \in SUBSET Found : Cardinality(S) <= 3}

AskedStarts == {None, 3, 5}
AskedEnds == {None, 8, 12, 13}
===============================================================================

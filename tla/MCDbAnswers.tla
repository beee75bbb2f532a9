----------------------------- MODULE MCDbAnswers -----------------------------
EXTENDS DbAnswers

AskedLimits == {-1, 0, 1, 3}

StoreRow(id) == [bytes |-> 1, id |-> id]
NoId == StoreRow(None)
Ids(isText) == {[n |-> k, text |-> isText] : k \in {1, 2}}

(* Up to three rows in a table, narrow or wider than a cell may be.  The   *)
(* ids of a table are all numbers or all text; a third row may hold an id  *)
(* that the limit hides.                                                   *)
StoreRows == {<<>>, <<NoId>>} \cup UNION {
  {<<StoreRow(a)>> : a \in Ids(x)} \cup {<<StoreRow(a), StoreRow(b)>> : a, b \in Ids(x)}
  \cup {<<NoId, StoreRow(a), StoreRow(b)>> : a, b \in Ids(x)} : x \in BOOLEAN}

Rows == [t \in Fanouts \cup {"query", "sample"} |->
  IF t = "store" THEN StoreRows
  ELSE {s \in BoundedSeq([bytes : {1, 9}, id : {None}], 3) :
          Len(s) = 3 => s[1].bytes = 1}]
===============================================================================

------------------------------ MODULE MCHistory ------------------------------
(* Four rows of t1, two of them with one timestamp, and one of t2.           *)
EXTENDS History, TLC

CONSTANTS t1, t2

TwoTags == {t1, t2}
FiveRows == 1..5
RowTagOf == [m \in FiveRows |-> IF m = 5 THEN t2 ELSE t1]
RowTsOf  == 1 :> 10 @@ 2 :> 20 @@ 3 :> 20 @@ 4 :> 30 @@ 5 :> 20
OpenAndBounded == {[from |-> None, to |-> None], [from |-> 20, to |-> None],
                   [from |-> None, to |-> 20]}
==============================================================================

------------------------------- MODULE MCPlayer ------------------------------
(* Two tags, three points.                                                   *)
EXTENDS Player, TLC

CONSTANTS t1, t2

TwoTags == {t1, t2}
ThreePoints == 1..3
PointTagOf == 1 :> t1 @@ 2 :> t2 @@ 3 :> t1
PointTsOf  == 1 :> 1 @@ 2 :> 3 @@ 3 :> 4
TwoSpeeds == {1, 2}
==============================================================================

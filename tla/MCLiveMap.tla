------------------------------ MODULE MCLiveMap ------------------------------
(* Small instances of the live map.                                          *)
EXTENDS LiveMap, TLC

CONSTANT t1

OneTag == {t1}
TwoMessages == 1..2

(* Two events of one tag that the handlers may commit in either order, the   *)
(* older one at time 0, the default of _is_stale.                            *)
PairTagOf == [m \in TwoMessages |-> t1]
PairTsOf  == 1 :> 0 @@ 2 :> 20

(* One event, which a redelivery can commit and publish again.               *)
OneMessage == {1}
OneTagOf == [m \in OneMessage |-> t1]
OneTsOf  == [m \in OneMessage |-> 10]
==============================================================================

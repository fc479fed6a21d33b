------------------------------ MODULE MCConsumer -----------------------------
(* Small instances of the consumer.                                          *)
EXTENDS Consumer, TLC

CONSTANTS t1, t2, backend, standalone, h1, h2, h3, h4

TwoTags == {t1, t2}
ThreeMessages == 1..3

(* t1 gets a newer event before an older one; t2 shares nothing with it.     *)
LateTagOf == 1 :> t1 @@ 2 :> t1 @@ 3 :> t2
LateTsOf  == 1 :> 20 @@ 2 :> 10 @@ 3 :> 10

AllEvents == [m \in ThreeMessages |-> "event"]

(* The same after a body without a tag_id.                                   *)
FourMessages == 0..3
DropTagOf == 0 :> t1 @@ LateTagOf
DropTsOf  == 0 :> 0 @@ LateTsOf
DropKinds == 0 :> "no_tag_id" @@ AllEvents

(* A body that is requeued for ever before an event of the same tag.         *)
TwoMessages == 1..2
MixedKinds == 1 :> "unstorable" @@ 2 :> "event"
MixedTagOf == [m \in TwoMessages |-> t1]
MixedTsOf  == [m \in TwoMessages |-> 10]

(* Message 1 has coordinates; 2 is an LS-1000 status message, which has none.*)
Located == {1, 3}

(* README: current_positions holds the last position of each tag.  Once a    *)
(* position of a tag is stored, its row has one.                             *)
CurrentHasPosition ==
    \A t \in Tag :
        (\E m \in Stored \cap Located : TagOf[m] = t) => current[t] \in Located

(* Two events of t1 in order, one of t2.                                     *)
OrderedTsOf == 1 :> 10 @@ 2 :> 20 @@ 3 :> 10

(* The backend alone, and the backend with a standalone consumer beside it.  *)
BothProcesses == {backend, standalone}
Alone == [h \in Handler |-> backend]
TwoAndOne == h1 :> backend @@ h2 :> standalone @@ h3 :> backend
TwoEach == TwoAndOne @@ h4 :> standalone

BackendTasks == Permutations({h1, h3})
==============================================================================

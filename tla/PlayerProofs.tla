----------------------------- MODULE PlayerProofs ----------------------------
(****************************************************************************)
(* Proofs about playback (Player): its types, the range and the rate of the *)
(* clock, what the map shows, and that a playing player has a frame to come.*)
(* The numbers of points, clicks and frames are arbitrary.                  *)
(****************************************************************************)
EXTENDS Player, TLAPS, WellFoundedInduction

(* A nonempty set of natural numbers has a least member.                     *)
LEMMA LeastOne ==
    ASSUME NEW T \in SUBSET Nat, T # {}
    PROVE  \E i \in T : \A j \in T : i <= j
<1> DEFINE Less == OpToRel(<, Nat)
<1>1. \A i, j \in Nat : i < j => <<i, j>> \in Less
  BY DEF OpToRel
<1>2. IsWellFoundedOn(Less, Nat)
  BY NatLessThanWellFounded
<1> HIDE DEF Less
<1>3. PICK i \in T : \A j \in T : ~(<<j, i>> \in Less)
  BY <1>2, WFMin
<1>4. \A j \in T : ~(j < i)
  BY <1>1, <1>3
<1> QED BY <1>4

(* A nonempty set of places has a last one: what computePositions picks for  *)
(* a tag is a point.                                                         *)
LEMMA LastOne ==
    ASSUME NEW n \in Nat, NEW S \in SUBSET (1..n), S # {}
    PROVE  \E i \in S : \A j \in S : j <= i
<1> DEFINE T == {n - i : i \in S}
<1>1. \A i \in S : i \in Int /\ n - i \in Nat
  OBVIOUS
<1>2. T \in SUBSET Nat /\ T # {}
  BY <1>1
<1> HIDE DEF T
<1>3. PICK x \in T : \A y \in T : x <= y
  BY <1>2, LeastOne
<1>4. PICK i \in S : x = n - i
  BY DEF T
<1>5. \A j \in S : n - i <= n - j
  BY <1>3, <1>4 DEF T
<1>6. \A j \in S : j <= i
  BY <1>1, <1>5
<1> QED BY <1>6

USE PositionsAssumption, PlayerAssumption

(* The places computePositions looks at for a tag and a time.                *)
UpTo(pts, t, time) ==
    {i \in DOMAIN pts : TagOf[pts[i]] = t /\ TsOf[pts[i]] <= time}

(* computePositions yields at most one point for each tag.                   *)
LEMMA PositionsType ==
    ASSUME NEW time, points \in Seq(Msg)
    PROVE  PositionsAt(time) \in [Tag -> Row]
<1> SUFFICES ASSUME NEW t \in Tag
             PROVE  PositionsAt(time)[t] \in Row
  BY DEF PositionsAt
<1> DEFINE S == UpTo(points, t, time)
<1>1. PositionsAt(time)[t] =
        IF S = {} THEN None ELSE points[CHOOSE i \in S : \A j \in S : j <= i]
  BY DEF PositionsAt, UpTo
<1>2. Len(points) \in Nat /\ DOMAIN points = 1..Len(points)
  OBVIOUS
<1>3. S \in SUBSET (1..Len(points))
  BY <1>2 DEF UpTo
<1> HIDE DEF S
<1>4. S # {} => \E i \in S : \A j \in S : j <= i
  BY <1>2, <1>3, LastOne
<1>5. S # {} => (CHOOSE i \in S : \A j \in S : j <= i) \in S
  BY <1>4
<1>6. \A i \in S : points[i] \in Msg
  BY <1>2, <1>3
<1> QED BY <1>1, <1>5, <1>6 DEF Row

(* The first point of a nonempty sorted recording is its earliest, the last  *)
(* its latest.                                                               *)
LEMMA RangeFacts ==
    ASSUME NEW pts \in Seq(Msg), pts # <<>>, IsSorted(pts)
    PROVE  Start(pts) \in Int /\ End(pts) \in Int /\ Start(pts) <= End(pts)
<1>1. Len(pts) \in Nat /\ Len(pts) > 0 /\ DOMAIN pts = 1..Len(pts)
  OBVIOUS
<1>2. pts[1] \in Msg /\ pts[Len(pts)] \in Msg
  BY <1>1
<1>3. 1 < Len(pts) => TsOf[pts[1]] <= TsOf[pts[Len(pts)]]
  BY <1>1 DEF IsSorted
<1>4. Start(pts) \in Int /\ End(pts) \in Int
  BY <1>2 DEF Start, End
<1>5. CASE Len(pts) = 1
  BY <1>4, <1>5 DEF Start, End
<1>6. CASE Len(pts) > 1
  BY <1>4, <1>3, <1>6 DEF Start, End
<1> QED BY <1>1, <1>5, <1>6

(* No points at all are a recording, too.                                    *)
LEMMA EmptySorted == <<>> \in Seq(Msg) /\ IsSorted(<<>>)
<1>1. <<>> \in Seq(Msg) /\ DOMAIN <<>> = {}
  OBVIOUS
<1> QED BY <1>1 DEF IsSorted

(* Speeds are positive, so the clock never runs backwards.                   *)
LEMMA Advance ==
    ASSUME NEW e \in Nat, NEW s \in Nat
    PROVE  e * s \in Nat
OBVIOUS
------------------------------------------------------------------------------
(* The inductive invariant.  A scheduled callback that rafRef knows is one   *)
(* of those counted, so cancelling it never makes the count negative; and a  *)
(* last frame is remembered only while playing, of no age: each frame of the *)
(* browser renews it, so what happened before a pause is never caught up.    *)
RefIsCounted == ref = "scheduled" => rafs > 0

LastFrameIsFresh == since # None => playing /\ since = 0

IInv == TypeOK /\ ClockInRange /\ PlayingHasLoop /\ RefIsCounted /\ LastFrameIsFresh

(* A clock that moves on stays in the range of the recording.                *)
LEMMA NextInRange ==
    ASSUME IInv, points # <<>>, NEW e \in Nat
    PROVE  /\ cur \in Int /\ speed \in Nat /\ e * speed \in Nat
           /\ NextTime(e) \in Int
           /\ NextTime(e) \in Start(points)..End(points)
           /\ NextTime(e) >= cur /\ NextTime(e) - cur <= e * speed
<1>1. /\ points \in Seq(Msg) /\ IsSorted(points) /\ speed \in Nat
      /\ cur \in Start(points)..End(points)
  BY DEF IInv, TypeOK, ClockInRange
<1>2. Start(points) \in Int /\ End(points) \in Int
  BY <1>1, RangeFacts
<1>3. e * speed \in Nat
  BY <1>1, Advance
<1> DEFINE step == e * speed
<1>4. NextTime(e) = IF cur + step < End(points) THEN cur + step ELSE End(points)
  BY DEF NextTime
<1>5. step \in Nat
  BY <1>3
<1> HIDE DEF step
<1>6. /\ cur \in Int /\ NextTime(e) \in Int /\ NextTime(e) \in Start(points)..End(points)
      /\ NextTime(e) >= cur /\ NextTime(e) - cur <= step
  BY <1>1, <1>2, <1>4, <1>5
<1> QED BY <1>1, <1>3, <1>6 DEF step

(* The controls keep the types.                                              *)
LEMMA ControlTypes ==
    ASSUME IInv,
           \/ Play \/ Pause \/ Reset
           \/ \E s \in Speeds : SetSpeed(s)
           \/ \E m \in Msg, n \in 0..MaxDelta : Seek(TsOf[m] + n)
           \/ \E k \in 0..MaxPoints : \E pts \in [1..k -> Msg] : Load(pts)
    PROVE  TypeOK'
<1>0. /\ TypeOK /\ points \in Seq(Msg) /\ clicks \in Int /\ MaxClicks \in Int
      /\ Nobody \in [Tag -> Row]
  BY DEF IInv, TypeOK, Nobody, Row
<1>1. CASE Play
  <2>1. Start(points) \in Int
    BY <1>0, <1>1, RangeFacts DEF Play, TypeOK
  <2>2. playing' \in BOOLEAN
    BY <1>1 DEF Play
  <2> QED BY <1>0, <1>1, <2>1, <2>2 DEF Play, Click, RequestFrame, TypeOK
<1>2. CASE Pause \/ Reset
  <2>1. playing' \in BOOLEAN
    BY <1>2 DEF Pause, Reset, Paused
  <2>2. rafs' \in Nat
    BY <1>0, <1>2 DEF Pause, Reset, Paused, TypeOK, IInv, RefIsCounted
  <2>3. points' \in Seq(Msg) /\ IsSorted(points')
    BY <1>0, <1>2, EmptySorted DEF Pause, Reset, TypeOK
  <2> QED BY <1>0, <1>2, <2>1, <2>2, <2>3 DEF Pause, Reset, Paused, Click, TypeOK
<1>3. CASE \E s \in Speeds : SetSpeed(s)
  <2>1. playing' \in BOOLEAN
    BY <1>0, <1>3 DEF SetSpeed, TypeOK
  <2> QED BY <1>0, <1>3, <2>1 DEF SetSpeed, Click, TypeOK
<1>4. ASSUME NEW m \in Msg, NEW n \in 0..MaxDelta, Seek(TsOf[m] + n)
      PROVE  TypeOK'
  <2>1. playing' \in BOOLEAN
    BY <1>0, <1>4 DEF Seek, TypeOK
  <2>2. shown' \in [Tag -> Row]
    BY <1>0, <1>4, PositionsType DEF Seek, Redraw
  <2>3. cur' \in Int
    BY <1>4 DEF Seek
  <2> QED BY <1>0, <1>4, <2>1, <2>2, <2>3 DEF Seek, Click, TypeOK
<1>5. ASSUME NEW k \in 0..MaxPoints, NEW pts \in [1..k -> Msg], Load(pts)
      PROVE  TypeOK'
  <2>1. pts \in Seq(Msg) /\ IsSorted(pts)
    BY <1>5 DEF Load, InOrder
  <2>2. StartClock(pts) \in Int \cup {None}
    BY <2>1, RangeFacts DEF StartClock
  <2>3. playing' \in BOOLEAN
    BY <1>5 DEF Load
  <2> QED BY <1>0, <1>5, <2>1, <2>2, <2>3 DEF Load, Click, TypeOK
<1> QED BY <1>1, <1>2, <1>3, <1>4, <1>5

(* How old lastFrameRef is for the first callback of a frame.                *)
Elapsed(d) == IF since = None THEN 0 ELSE since + d

(* A frame moves the clock within the recording, by at most its duration.    *)
LEMMA AdvanceFacts ==
    ASSUME IInv, NEW d \in 1..MaxDelta, FrameAdvance(d)
    PROVE  /\ points # <<>> /\ points' = points
           /\ Elapsed(d) \in Nat /\ Elapsed(d) <= d
           /\ cur' = NextTime(Elapsed(d)) /\ shown' = PositionsAt(cur')
           /\ cur \in Int /\ cur' \in Int /\ cur' \in Start(points)..End(points)
           /\ cur' >= cur /\ cur' - cur <= d * speed
<1>1. Elapsed(d) \in Nat /\ Elapsed(d) <= d
  BY DEF IInv, LastFrameIsFresh, Elapsed
<1>2. /\ points # <<>> /\ points' = points
      /\ cur' = NextTime(Elapsed(d)) /\ shown' = PositionsAt(cur')
  BY DEF FrameAdvance, Redraw, Elapsed
<1>3. /\ cur \in Int /\ speed \in Nat /\ Elapsed(d) * speed \in Nat
      /\ cur' \in Int /\ cur' \in Start(points)..End(points)
      /\ cur' >= cur /\ cur' - cur <= Elapsed(d) * speed
  BY <1>1, <1>2, NextInRange
<1>4. Elapsed(d) * speed <= d * speed
  <2> SUFFICES ASSUME NEW e \in Nat, NEW s \in Nat, e <= d
               PROVE  e * s <= d * s
    BY <1>1, <1>3
  <2>1. (d - e) * s \in Nat
    OBVIOUS
  <2>2. d * s = e * s + (d - e) * s
    OBVIOUS
  <2> QED BY <2>1, <2>2
<1>5. d * speed \in Int
  BY <1>3
<1> QED BY <1>1, <1>2, <1>3, <1>4, <1>5

(* Frames keep the types.                                                    *)
LEMMA FrameTypes ==
    ASSUME IInv, NEW d \in 1..MaxDelta, Frame(d)
    PROVE  TypeOK'
<1>0. TypeOK /\ points \in Seq(Msg)
  BY DEF IInv, TypeOK
<1>1. CASE FrameIdle(d)
  <2>1. playing' \in BOOLEAN
    BY <1>0, <1>1 DEF FrameIdle, TypeOK
  <2> QED BY <1>0, <1>1, <2>1 DEF FrameIdle, Fired, TypeOK
<1>2. CASE FrameFirst
  <2>1. playing' \in BOOLEAN
    BY <1>0, <1>2 DEF FrameFirst, TypeOK
  <2> QED BY <1>0, <1>2, <2>1 DEF FrameFirst, NoteFrame, TypeOK
<1>3. CASE FrameAdvance(d)
  <2>1. playing' \in BOOLEAN
    BY <1>0, <1>3 DEF FrameAdvance, EndPlayback, TypeOK
  <2>2. cur' \in Int /\ shown' \in [Tag -> Row]
    BY <1>0, <1>3, AdvanceFacts, PositionsType
  <2>3. \/ since' = None /\ rafs' \in {0, 1} /\ ref' \in {"scheduled", Fired}
        \/ since' = 0 /\ rafs' = rafs /\ ref' = "scheduled"
    BY <1>3 DEF FrameAdvance, EndPlayback, NoteFrame
  <2>4. /\ since' \in Nat \cup {None} /\ rafs' \in Nat
        /\ ref' \in {"none", "scheduled", "fired"}
    BY <1>0, <2>3 DEF Fired, TypeOK
  <2>5. UNCHANGED <<points, speed, clicks>>
    BY <1>3 DEF FrameAdvance
  <2> QED BY <1>0, <2>1, <2>2, <2>4, <2>5 DEF TypeOK
<1> QED BY <1>1, <1>2, <1>3 DEF Frame

(* Every step keeps the inductive invariant.                                 *)
LEMMA InvStep ==
    ASSUME IInv, [Next]_vars
    PROVE  IInv'
<1>1. CASE UNCHANGED vars
  BY <1>1 DEF vars, IInv, TypeOK, ClockInRange, PlayingHasLoop, RefIsCounted, LastFrameIsFresh
<1>2. CASE Play
  <2>1. Start(points) \in Int /\ End(points) \in Int /\ Start(points) <= End(points)
    BY <1>2, RangeFacts DEF Play, IInv, TypeOK
  <2>2. points # <<>> /\ points' = points /\ cur' \in {cur, Start(points)}
    BY <1>2 DEF Play
  <2>3. ClockInRange'
    BY <2>1, <2>2 DEF IInv, ClockInRange
  <2>4. PlayingHasLoop' /\ RefIsCounted' /\ LastFrameIsFresh'
    BY <1>2, <2>2 DEF Play, RequestFrame, IInv, TypeOK, PlayingHasLoop, RefIsCounted,
                      LastFrameIsFresh
  <2> QED BY <1>2, <2>3, <2>4, ControlTypes DEF IInv
<1>3. CASE Pause \/ Reset
  <2>1. ClockInRange'
    BY <1>3 DEF Pause, Reset, IInv, ClockInRange
  <2>2. PlayingHasLoop' /\ RefIsCounted' /\ LastFrameIsFresh'
    BY <1>3 DEF Pause, Reset, Paused, PlayingHasLoop, RefIsCounted, LastFrameIsFresh
  <2> QED BY <1>3, <2>1, <2>2, ControlTypes DEF IInv
<1>4. CASE \E s \in Speeds : SetSpeed(s)
  <2>1. ClockInRange' /\ PlayingHasLoop' /\ RefIsCounted' /\ LastFrameIsFresh'
    BY <1>4 DEF SetSpeed, IInv, ClockInRange, PlayingHasLoop, RefIsCounted, LastFrameIsFresh
  <2> QED BY <1>4, <2>1, ControlTypes DEF IInv
<1>5. CASE \E m \in Msg, n \in 0..MaxDelta : Seek(TsOf[m] + n)
  <2>1. ClockInRange' /\ PlayingHasLoop' /\ RefIsCounted' /\ LastFrameIsFresh'
    BY <1>5 DEF Seek, IInv, ClockInRange, PlayingHasLoop, RefIsCounted, LastFrameIsFresh
  <2> QED BY <1>5, <2>1, ControlTypes DEF IInv
<1>6. CASE \E k \in 0..MaxPoints : \E pts \in [1..k -> Msg] : Load(pts)
  <2>1. PICK k \in 0..MaxPoints : \E pts \in [1..k -> Msg] : Load(pts)
    BY <1>6
  <2>2. PICK pts \in [1..k -> Msg] : Load(pts)
    BY <2>1
  <2>3. /\ pts \in Seq(Msg) /\ IsSorted(pts)
        /\ points' = pts /\ cur' = StartClock(pts)
        /\ playing' = FALSE /\ since' = None /\ rafs' = rafs /\ ref' = ref
    BY <2>2 DEF Load, InOrder
  <2>4. pts # <<>> => Start(pts) \in Int /\ End(pts) \in Int /\ Start(pts) <= End(pts)
    BY <2>3, RangeFacts
  <2>5. ClockInRange'
    BY <2>3, <2>4 DEF ClockInRange, StartClock
  <2>6. PlayingHasLoop' /\ RefIsCounted' /\ LastFrameIsFresh'
    BY <2>3 DEF IInv, PlayingHasLoop, RefIsCounted, LastFrameIsFresh
  <2> QED BY <1>6, <2>5, <2>6, ControlTypes DEF IInv
<1>7. ASSUME NEW d \in 1..MaxDelta, Frame(d)
      PROVE  IInv'
  <2>1. TypeOK'
    BY <1>7, FrameTypes
  <2>2. CASE FrameIdle(d)
    <3>1. ~playing
      BY <2>2 DEF FrameIdle, IInv, TypeOK, PlayingHasLoop
    <3>2. ~playing' /\ since' = None /\ ref' # "scheduled"
      BY <2>2, <3>1 DEF FrameIdle, Fired, IInv, LastFrameIsFresh
    <3>3. points' = points /\ cur' = cur
      BY <2>2 DEF FrameIdle
    <3> QED BY <2>1, <3>2, <3>3
            DEF IInv, ClockInRange, PlayingHasLoop, RefIsCounted, LastFrameIsFresh
  <2>3. CASE FrameFirst
    BY <2>1, <2>3 DEF FrameFirst, NoteFrame, IInv, ClockInRange, PlayingHasLoop, RefIsCounted,
                      LastFrameIsFresh
  <2>4. CASE FrameAdvance(d)
    <3>1. ClockInRange'
      BY <2>4, AdvanceFacts DEF ClockInRange
    <3>2. PlayingHasLoop' /\ RefIsCounted' /\ LastFrameIsFresh'
      <4>1. CASE EndPlayback
        BY <4>1 DEF EndPlayback, Fired, PlayingHasLoop, RefIsCounted, LastFrameIsFresh
      <4>2. CASE NoteFrame /\ ref' = "scheduled" /\ UNCHANGED <<playing, rafs>>
        BY <2>4, <4>2 DEF FrameAdvance, NoteFrame, PlayingHasLoop, RefIsCounted,
                          LastFrameIsFresh
      <4> QED BY <2>4, <4>1, <4>2 DEF FrameAdvance
    <3> QED BY <2>1, <3>1, <3>2 DEF IInv
  <2> QED BY <1>7, <2>2, <2>3, <2>4 DEF Frame
<1> QED BY <1>1, <1>2, <1>3, <1>4, <1>5, <1>6, <1>7 DEF Next

(* A player that was just mounted satisfies it.                              *)
LEMMA InvInit ==
    ASSUME Init
    PROVE  IInv
<1>1. points \in Seq(Msg) /\ IsSorted(points)
  BY EmptySorted DEF Init
<1>2. playing \in BOOLEAN
  BY DEF Init
<1>3. TypeOK
  BY <1>1, <1>2 DEF Init, TypeOK, Nobody, Row
<1> QED BY <1>3 DEF Init, IInv, ClockInRange, PlayingHasLoop, RefIsCounted, LastFrameIsFresh

(* It always holds.                                                          *)
LEMMA InvTheorem == Spec => []IInv
<1>1. Init => IInv
  BY InvInit
<1>2. IInv /\ [Next]_vars => IInv'
  BY InvStep
<1> QED BY <1>1, <1>2, PTL DEF Spec

(* What the map shows after every step.                                      *)
LEMMA ShownStep ==
    ASSUME IInv, ShownAtClock, [Next]_vars
    PROVE  ShownAtClock'
<1>0. None \notin Int
  OBVIOUS
<1>1. ASSUME shown' = Nobody
      PROVE  ShownAtClock'
  BY <1>1 DEF ShownAtClock, Nobody
<1>2. ASSUME UNCHANGED <<points, cur, shown>>
      PROVE  ShownAtClock'
  <2>1. PositionsAt(cur)' = PositionsAt(cur)
    BY <1>2 DEF PositionsAt
  <2> QED BY <1>2, <2>1 DEF ShownAtClock
<1>3. ASSUME NEW time \in Int, points' = points, cur' = time, shown' = PositionsAt(time)
      PROVE  ShownAtClock'
  <2>1. PositionsAt(cur)' = PositionsAt(time)
    BY <1>3 DEF PositionsAt
  <2>2. cur' # None
    BY <1>3
  <2> QED BY <1>3, <2>1, <2>2 DEF ShownAtClock
<1>4. CASE UNCHANGED vars
  BY <1>2, <1>4 DEF vars
<1>5. CASE Play
  BY <1>1, <1>2, <1>5 DEF Play
<1>6. CASE Pause \/ (\E s \in Speeds : SetSpeed(s)) \/ FrameFirst
           \/ (\E d \in 1..MaxDelta : FrameIdle(d))
  BY <1>2, <1>6 DEF Pause, SetSpeed, FrameFirst, FrameIdle
<1>7. CASE Reset \/ (\E k \in 0..MaxPoints : \E pts \in [1..k -> Msg] : Load(pts))
  BY <1>1, <1>7 DEF Reset, Load
<1>8. ASSUME NEW m \in Msg, NEW n \in 0..MaxDelta, Seek(TsOf[m] + n)
      PROVE  ShownAtClock'
  BY <1>3, <1>8 DEF Seek, Redraw
<1>9. ASSUME NEW d \in 1..MaxDelta, FrameAdvance(d)
      PROVE  ShownAtClock'
  BY <1>3, <1>9, AdvanceFacts
<1> QED BY <1>4, <1>5, <1>6, <1>7, <1>8, <1>9 DEF Next, Frame

(* Types: the points are sorted, the clock is a time or unset, and the map   *)
(* has at most one known position for each tag (useHistoryPlayer).           *)
THEOREM PlayerTypeCorrect == Spec => []TypeOK
<1>1. IInv => TypeOK
  BY DEF IInv
<1> QED BY <1>1, InvTheorem, PTL

(* The clock never leaves the recording, whatever is loaded, reset or sought *)
(* while frame callbacks of earlier recordings are still scheduled (tick,    *)
(* load, seek).                                                              *)
THEOREM ClockTheorem == Spec => []ClockInRange
<1>1. IInv => ClockInRange
  BY DEF IInv
<1> QED BY <1>1, InvTheorem, PTL

(* While it plays, a frame callback is scheduled: pause cancels only what    *)
(* rafRef knows and no order of load, play and pause loses the loop.         *)
THEOREM LoopTheorem == Spec => []PlayingHasLoop
<1>1. IInv => PlayingHasLoop
  BY DEF IInv
<1> QED BY <1>1, InvTheorem, PTL

(* The map shows the positions at the clock's time, or nothing yet.          *)
THEOREM ShownTheorem == Spec => []ShownAtClock
<1>1. Init => ShownAtClock
  BY DEF Init, ShownAtClock
<1>2. IInv /\ ShownAtClock /\ [Next]_vars => ShownAtClock'
  BY ShownStep
<1> QED BY <1>1, <1>2, InvTheorem, PTL DEF Spec

(* No frame advances the clock by more than its duration times the speed,    *)
(* however many loops run: the first callback of a frame uses the time up.   *)
THEOREM RateTheorem == Spec => RateIsBounded
<1> DEFINE Bounded ==
        \A d \in 1..MaxDelta : FrameAdvance(d) => cur' >= cur /\ cur' - cur <= d * speed
<1>1. IInv => Bounded
  BY AdvanceFacts
<1>2. IInv /\ [Next]_vars => [Bounded]_vars
  BY <1>1
<1> QED BY <1>2, InvTheorem, PTL DEF Spec, RateIsBounded
==============================================================================

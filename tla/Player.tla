-------------------------------- MODULE Player -------------------------------
(****************************************************************************)
(* Playback of recorded positions: the useHistoryPlayer hook, driven by the *)
(* controls of HistoryPlayer and by requestAnimationFrame.  A frame         *)
(* callback schedules the next one, so playback is a loop; load and play    *)
(* can leave several of them running, of which rafRef knows the last.       *)
(*                                                                          *)
(* Time is in ticks.  `since` is the age of lastFrameRef: how long ago the  *)
(* last frame that advanced the clock was, None when the ref is null.       *)
(****************************************************************************)
EXTENDS Positions, Sequences, FiniteSets

CONSTANTS
    Speeds,     \* the playback speeds offered
    MaxPoints,  \* bound on the loaded points
    MaxDelta,   \* bound on the time between two frames
    MaxClicks   \* bound on what the user does in a behaviour

ASSUME PlayerAssumption ==
    /\ Speeds \subseteq Nat \ {0} /\ 1 \in Speeds
    /\ MaxPoints \in Nat /\ MaxDelta \in Nat \ {0} /\ MaxClicks \in Nat
    /\ None \notin Int

VARIABLES
    points,   \* sortedPointsRef.current
    playing,  \* playingRef.current
    speed,    \* speedRef.current
    cur,      \* currentTimeMsRef.current
    since,    \* age of lastFrameRef.current
    shown,    \* currentPositions
    rafs,     \* scheduled frame callbacks
    ref,      \* rafRef.current: "none", a "scheduled" callback or a "fired" one
    clicks    \* user actions so far

vars == <<points, playing, speed, cur, since, shown, rafs, ref, clicks>>

Start(pts) == TsOf[pts[1]]
End(pts)   == TsOf[pts[Len(pts)]]
IsSorted(pts) == \A i, j \in DOMAIN pts : i < j => TsOf[pts[i]] <= TsOf[pts[j]]

(* Types.                                                                    *)
TypeOK ==
    /\ points \in Seq(Msg) /\ IsSorted(points)
    /\ playing \in BOOLEAN
    /\ speed \in Speeds
    /\ cur \in Int \cup {None}
    /\ since \in Nat \cup {None}
    /\ shown \in [Tag -> Row]
    /\ rafs \in Nat
    /\ ref \in {"none", "scheduled", "fired"}
    /\ clicks \in 0..MaxClicks

Nobody == [t \in Tag |-> None]

Init ==
    /\ points = <<>>
    /\ playing = FALSE
    /\ speed = 1
    /\ cur = None /\ since = None
    /\ shown = Nobody
    /\ rafs = 0 /\ ref = "none"
    /\ clicks = 0

(* computePositions: the last point of each tag up to a time.                *)
PositionsAt(time) ==
    [t \in Tag |->
        LET upTo == {i \in DOMAIN points : TagOf[points[i]] = t /\ TsOf[points[i]] <= time}
        IN  IF upTo = {} THEN None
            ELSE points[CHOOSE i \in upTo : \A j \in upTo : j <= i]]

Click == clicks < MaxClicks /\ clicks' = clicks + 1
------------------------------------------------------------------------------
(* The controls.                                                             *)

(* Mutant: no frame is asked for while rafRef holds a callback.              *)
RequestOnce ==
    IF ref = "none" THEN rafs' = rafs + 1 /\ ref' = "scheduled" ELSE UNCHANGED <<rafs, ref>>

(* rafRef.current = requestAnimationFrame(tick)                              *)
RequestFrame == rafs' = rafs + 1 /\ ref' = "scheduled"

(* The button shows Play while nothing plays and points are loaded.          *)
Play ==
    /\ Click
    /\ points # <<>> /\ ~playing
    /\ IF cur >= End(points)
         THEN cur' = Start(points) /\ shown' = Nobody
         ELSE UNCHANGED <<cur, shown>>
    /\ playing' = TRUE
    /\ since' = None
    /\ RequestFrame
    /\ UNCHANGED <<points, speed>>

(* pause cancels the callback rafRef knows.                                  *)
Paused ==
    /\ playing' = FALSE
    /\ since' = None
    /\ rafs' = IF ref = "scheduled" THEN rafs - 1 ELSE rafs
    /\ ref' = "none"

Pause ==
    /\ Click
    /\ playing
    /\ Paused
    /\ UNCHANGED <<points, speed, cur, shown>>

SetSpeed(s) ==
    /\ Click
    /\ points # <<>> /\ s # speed
    /\ speed' = s
    /\ UNCHANGED <<points, playing, cur, since, shown, rafs, ref>>

(* Mutant: the map is drawn for the clock before it moved.                   *)
DrawBefore(time) == shown' = PositionsAt(cur)

(* setCurrentPositions(computePositions(time))                               *)
Redraw(time) == shown' = PositionsAt(time)

(* The slider gives a share of the range, clamped to it.                     *)
Seek(time) ==
    /\ Click
    /\ points # <<>>
    /\ time \in Start(points)..End(points)
    /\ cur' = time
    /\ Redraw(time)
    /\ UNCHANGED <<points, playing, speed, since, rafs, ref>>

(* Mutants: the clock keeps its value; the points are not sorted.            *)
KeptClock(pts) == IF pts = <<>> THEN None ELSE IF cur = None THEN Start(pts) ELSE cur
AnyOrder(pts) == TRUE

StartClock(pts) == IF pts = <<>> THEN None ELSE Start(pts)

(* sort by ts_utc_ms; which order the points came in does not matter.        *)
InOrder(pts) == IsSorted(pts)

(* The answer of handleLoad, sorted; a scheduled callback is not cancelled.  *)
Load(pts) ==
    /\ Click
    /\ InOrder(pts)
    /\ points' = pts
    /\ cur' = StartClock(pts)
    /\ shown' = Nobody
    /\ playing' = FALSE
    /\ since' = None
    /\ UNCHANGED <<speed, rafs, ref>>

(* The Reset button, or the switch to the live map.                          *)
Reset ==
    /\ Click
    /\ Paused
    /\ points' = <<>>
    /\ cur' = None
    /\ shown' = Nobody
    /\ UNCHANGED speed
------------------------------------------------------------------------------
(* Frames: all scheduled callbacks run with one timestamp, d after the       *)
(* previous frame.                                                           *)

Fired == IF ref = "scheduled" THEN "fired" ELSE ref

(* Nothing scheduled, or every callback returns at once.                     *)
FrameIdle(d) ==
    /\ ~playing \/ points = <<>> \/ rafs = 0
    /\ since' = IF since = None THEN None ELSE since + d
    /\ rafs' = 0 /\ ref' = Fired
    /\ UNCHANGED <<points, playing, speed, cur, shown, clicks>>

(* Mutant: lastFrameRef stays as it is.                                      *)
ForgetFrame == UNCHANGED since

(* lastFrameRef.current = timestamp                                          *)
NoteFrame == since' = 0

(* The first frame after play only notes the time.                           *)
FrameFirst ==
    /\ playing /\ points # <<>> /\ rafs = 1 /\ since = None
    /\ NoteFrame
    /\ ref' = "scheduled"
    /\ UNCHANGED <<points, playing, speed, cur, shown, rafs, clicks>>

(* Mutant: every loop has a last frame of its own.                           *)
NextTimePerLoop(elapsed) ==
    LET next == cur + elapsed * speed * rafs
    IN  IF next < End(points) THEN next ELSE End(points)

NextTime(elapsed) ==
    LET next == cur + elapsed * speed
    IN  IF next < End(points) THEN next ELSE End(points)

(* Playback ends: the callback that ends it asks for no frame and those      *)
(* after it return at once.  With lastFrameRef null the one before it had    *)
(* only noted the time and asked for a frame, which stays scheduled.         *)
EndPlayback ==
    /\ playing' = FALSE
    /\ since' = None
    /\ IF since = None THEN rafs' = 1 /\ ref' = "scheduled"
                       ELSE rafs' = 0 /\ ref' = Fired

(* The first callback advances the clock by the time since lastFrameRef and  *)
(* sets the ref; to the others no time has passed.  Each asks for a frame,   *)
(* unless one of them ends playback.                                         *)
FrameAdvance(d) ==
    LET next == NextTime(IF since = None THEN 0 ELSE since + d) IN
    /\ playing /\ points # <<>>
    /\ rafs > 0 /\ (since # None \/ rafs > 1)
    /\ cur' = next
    /\ Redraw(next)
    /\ IF next >= End(points)
         THEN EndPlayback
         ELSE NoteFrame /\ ref' = "scheduled" /\ UNCHANGED <<playing, rafs>>
    /\ UNCHANGED <<points, speed, clicks>>

Frame(d) == FrameIdle(d) \/ FrameFirst \/ FrameAdvance(d)

Next ==
    \/ Play \/ Pause \/ Reset
    \/ \E s \in Speeds : SetSpeed(s)
    \/ \E m \in Msg, n \in 0..MaxDelta : Seek(TsOf[m] + n)
    \/ \E k \in 0..MaxPoints : \E pts \in [1..k -> Msg] : Load(pts)
    \/ \E d \in 1..MaxDelta : Frame(d)

Spec == Init /\ [][Next]_vars

(* The browser keeps producing frames; the user promises nothing.            *)
FairSpec == Spec /\ WF_vars(\E d \in 1..MaxDelta : Frame(d))
------------------------------------------------------------------------------
(* The clock stays in the loaded range, through a load, a reset or a jump    *)
(* while frame callbacks of the previous recording are still scheduled.      *)
ClockInRange ==
    IF points = <<>> THEN cur = None
                     ELSE cur \in Start(points)..End(points)

(* The map shows what was known at the clock's time (or nothing yet, before  *)
(* the first frame after a load or a restart): never points of a recording   *)
(* that was replaced.                                                        *)
ShownAtClock == shown \in {Nobody} \cup (IF cur = None THEN {} ELSE {PositionsAt(cur)})

(* While the button says Pause there is something to play and a frame        *)
(* callback that will play it: no order of load, play, pause and reset with  *)
(* frames of loops that rafRef has lost leaves playback standing.            *)
PlayingHasLoop == playing => rafs > 0 /\ points # <<>>

(* One frame advances the clock by at most its duration times the speed,     *)
(* however many loops run and however long playback was paused before.       *)
RateIsBounded ==
    [][\A d \in 1..MaxDelta :
          FrameAdvance(d) => cur' >= cur /\ cur' - cur <= d * speed]_vars

(* Left alone, playback reaches the end and stops.                           *)
PlaybackEnds == playing ~> ~playing
==============================================================================

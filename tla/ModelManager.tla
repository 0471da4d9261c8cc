---------------------------- MODULE ModelManager ----------------------------
(***************************************************************************)
(* One animated world model of upstream/CModelManager.cpp: where it is on  *)
(* the time line of its motion, and what the operations and a tick make of *)
(* it.  Doors and platforms drive models through these operations, see     *)
(* WorldModels.  Times are in units in which the terminator of a list of   *)
(* stops, -1 second, is -1; a motion runs from 0 to End.  Models attached  *)
(* to a parent model are left out, and so is the pose itself: a tick moves *)
(* the model to the pose of its time, or is blocked and does not.          *)
(***************************************************************************)
EXTENDS Integers, Sequences

CONSTANTS
  End,     \* the end of the motion
  ListMax  \* TIME_LIST_MAX

ASSUME MotionAssumption == End \in Nat \ {0} /\ ListMax \in Nat \ {0}

Terminator == -1
NoTarget == -1
Untimed == -1

(***************************************************************************)
(* What the level designer chose for a model: whether it animates at all,  *)
(* SetLooping, SetReverse, SetReverseOnCollide (turns), SetTimeEachTrig    *)
(* (each, Untimed unless SetRunTimed) and SetTimeList (stops, empty unless *)
(* SetRunFromList).                                                        *)
(***************************************************************************)
Motions == [animated : BOOLEAN, looping : BOOLEAN, reverse : BOOLEAN, turns : BOOLEAN,
            each : Int, stops : Seq(0 .. End)]

FreshModel == [moving |-> FALSE, forward |-> TRUE, hasMoved |-> FALSE, time |-> 0,
               start |-> 0, target |-> NoTarget, index |-> 0, wrap |-> FALSE,
               colliding |-> FALSE]

------------------------------------------------------------------------------
(* The operations *)

Start(m) == [m EXCEPT !.forward = TRUE, !.moving = TRUE, !.hasMoved = TRUE,
                      !.time = 0, !.start = 0]

ReStart(m) == [m EXCEPT !.moving = TRUE, !.start = m.time]

Stop(m) == [m EXCEPT !.moving = FALSE]

\* SetTargetTime: a script sends the model to a time, or stops it.
SetTargetTime(m, t) ==
  IF t < 0 THEN [m EXCEPT !.moving = FALSE, !.target = t]
  ELSE IF m.hasMoved
       THEN [ReStart(m) EXCEPT !.target = t, !.forward = (t >= m.time)]
       ELSE [Start(m) EXCEPT !.target = t]

\* SetToTargetTime: the same, and the time line jumps there.
SetToTargetTime(m, t) ==
  IF t < 0 THEN SetTargetTime(m, t) ELSE [SetTargetTime(m, t) EXCEPT !.time = t]

------------------------------------------------------------------------------
(* A tick along the time line *)

Sign(m) == IF m.forward THEN 1 ELSE -1
Far(m) == IF m.forward THEN End ELSE 0
Reached(m, stop) == Sign(m) * m.time >= Sign(m) * stop

\* TimeList[i].  Right outside the array the code reads its neighbours in the structure,
\* bRunFromList and TLIndex, as floats that are next to 0.
TimeList(c, i) ==
  CASE i \in 0 .. Len(c.stops) - 1 -> c.stops[i + 1]
    [] i \in Len(c.stops) .. ListMax - 1 -> Terminator
    [] OTHER -> 0

\* TLIndex has no bounds in the code; the model goes no further than one place outside
\* the array.
Bounded(i) == IF i > ListMax THEN ListMax ELSE IF i < -1 THEN -1 ELSE i

\* The time a timed run has run for.
RunTime(m) == Sign(m) * (m.time - m.start)

\* On command of a script: up to the target.
TowardsTarget(m) ==
  IF ~Reached(m, m.target) \/ m.time = m.target THEN m
  ELSE [m EXCEPT !.time = m.target, !.moving = FALSE]

\* RunTimed: a run of TimeEachTrig is over.
TimedRun(m, c) ==
  IF c.each = Untimed \/ RunTime(m) < c.each THEN m
  ELSE [m EXCEPT !.time = m.start + Sign(m) * c.each, !.moving = FALSE]

\* RunFromList, wrapping around: once past the end the list begins again.
WrapAround(m, c) ==
  IF m.wrap /\ Reached(m, TimeList(c, m.index)) /\ Reached(m, Far(m))
  THEN [m EXCEPT !.wrap = FALSE, !.time = m.time - Sign(m) * End]
  ELSE m

\* RunFromList, at a stop that has k behind it on the list, in the model's direction.
IsLastStop(m, c, k) ==
  \/ (IF m.forward THEN k >= ListMax ELSE k < 0)
  \/ TimeList(c, k) = Terminator

PassStop(m, c, k) ==
  CASE ~IsLastStop(m, c, k) \/ ~c.looping -> [m EXCEPT !.index = Bounded(k)]
    [] OTHER ->
       IF c.reverse
       THEN [m EXCEPT !.index = IF m.forward THEN (IF k < 2 THEN 0 ELSE k - 2) ELSE k + 2,
                      !.forward = ~m.forward]
       \* Backwards the code means the last time on the list, but compares the times with
       \* -1 after they were scaled: it takes the last place of the array.
       ELSE [m EXCEPT !.index = IF m.forward THEN 0 ELSE ListMax - 1, !.wrap = TRUE]

ListStop(m, c) ==
  LET stop == TimeList(c, m.index)
      k    == m.index + Sign(m)
  IN  IF m.wrap \/ ~Reached(m, stop) THEN m
      ELSE [PassStop(m, c, k) EXCEPT
              !.time = IF ~m.forward /\ c.looping /\ ~c.reverse /\ IsLastStop(m, c, k)
                       THEN End ELSE stop,
              !.moving = FALSE]

\* Neither: at the end of the motion the model turns, begins again or stops.  What is
\* left of a timed run is carried over (the code does so with an uninitialised number
\* when the run is not timed, and never uses it).
Carried(m, c, from, left) ==
  IF c.each = Untimed THEN m.start ELSE from - Sign(m) * left

MotionEnd(m, c, ran) ==
  IF ~Reached(m, Far(m)) THEN m
  ELSE CASE c.reverse /\ (m.forward \/ c.looping) ->
              [m EXCEPT !.forward = ~m.forward, !.time = Far(m),
                        !.start = Carried(m, c, Far(m), -ran)]
         [] ~c.reverse /\ c.looping ->
              [m EXCEPT !.time = End - Far(m), !.start = Carried(m, c, End - Far(m), ran)]
         [] OTHER -> [m EXCEPT !.time = Far(m), !.moving = FALSE]

\* The model's time after dt, as ProcessModelTick has it before the model is moved.
Advance(m, c, dt) ==
  LET t == [m EXCEPT !.time = m.time + Sign(m) * dt]
  IN  IF t.target >= 0 THEN TowardsTarget(t)
      ELSE IF c.stops # <<>> THEN ListStop(WrapAround(TimedRun(t, c), c), c)
      ELSE MotionEnd(TimedRun(t, c), c, RunTime(t))

(***************************************************************************)
(* ProcessModelTick.  MoveModel may be blocked by an actor, and a model    *)
(* that reverses on collision turns for every actor it touches, so that    *)
(* two of them cancel out.                                                 *)
(***************************************************************************)
ProcessModelTick(m, c, dt, blocked, turned) ==
  CASE ~m.moving -> m
    [] m.moving /\ ~c.animated -> [m EXCEPT !.moving = FALSE, !.hasMoved = FALSE]
    [] OTHER -> [Advance(m, c, dt) EXCEPT
                   !.colliding = blocked,
                   !.forward = IF c.turns /\ turned THEN ~@ ELSE @]
==============================================================================

------------------------------ MODULE FrameClock ------------------------------
(***************************************************************************)
(* The game clock: CCommonData counts the callbacks of a 1 ms timer, and   *)
(* the frame loop of CRFMenu::GameLevel turns the count into the time dealt*)
(* to the components.  The timer thread and the main thread share          *)
(* TimeCounter and HasFocus without synchronisation, so each access is a   *)
(* step of its own.  The timer is the one TimerService promises, which     *)
(* TimerPool implements.  DispatchTick deals the time of a frame to every  *)
(* component; afterwards the loop deals explosions and effects the same    *)
(* time again, and it does so too when an open inventory has skipped       *)
(* DispatchTick and nothing was polled.  (In the boot stages the time step *)
(* is fixed and the counter is not read.)                                  *)
(***************************************************************************)
EXTENDS Integers

CONSTANTS
  Float(_),     \* the geFloat nearest to an integer: exact up to 2^24 ms
  Junk,         \* what the memory of a new CCommonData may hold
  Preempted,    \* the constructor may be held up for a period of the timer
  MaxTicks,     \* bound: callbacks that count
  MaxDealt      \* bound: time dealt by DispatchTick, and by the loop

ASSUME ClockAssumption ==
  /\ Preempted \in BOOLEAN /\ MaxTicks \in Nat /\ MaxDealt \in Nat
  /\ Junk \subseteq 0 .. MaxTicks
  /\ \A n \in 0 .. MaxTicks : Float(n) \in Nat
  /\ \A m, n \in 0 .. MaxTicks : m <= n => Float(m) <= Float(n)

VARIABLES
  m_nTimerID, \* the timer, as TimerService sees it
  object,     \* the CCommonData: "raw" memory, "ready", or "freed"
  counter,    \* TimeCounter
  focus,      \* HasFocus
  lastPoll,   \* LastTimePoll
  passed,     \* LastTimePassed_F
  ticks,      \* dwTicksGoneBy
  main,       \* where the main thread is
  seen,       \* its local: TimeCounter as first read by GetTimePassed_F
  cb,         \* where the callback TimerFunction is
  loaded,     \* its local: TimeCounter as it read it
  atLoss,     \* history: the counter when focus was lost, 0 while there is focus
  elapsed,    \* history: time counted in the game
  dealt,      \* history: time dealt to every component by DispatchTick
  again,      \* history: time dealt to explosions and effects by the loop
  repeated    \* history: the part of it dealt in frames that polled nothing

histVars == <<dealt, again, repeated>>
mainVars == <<object, focus, lastPoll, passed, ticks, main, seen, atLoss,
              histVars>>
threadVars == <<cb, loaded>>
clockVars == <<m_nTimerID, counter, elapsed, mainVars, threadVars>>

Timer == INSTANCE TimerService WITH Ids <- {1}, status <- m_nTimerID

InGame == main \in {"frame", "poll", "polled", "loop", "paused"}

ClockInit ==
  /\ Timer!Init
  /\ object = "raw" /\ main = "constructor"
  /\ counter \in Junk /\ lastPoll \in Junk /\ ticks \in Junk
  /\ focus = TRUE
  /\ passed = 0
  /\ seen = 0 /\ cb = "out" /\ loaded = 0
  /\ atLoss = 0
  /\ elapsed = 0
  /\ dealt = 0 /\ again = 0 /\ repeated = 0

------------------------------------------------------------------------------
(* The timer thread: TimerFunction *)

\* The first callback comes one period after the timer starts.
BeginCallback ==
  /\ main = "started" => Preempted
  /\ Timer!Begin(1)
  /\ cb' = "entered"
  /\ UNCHANGED <<counter, elapsed, mainVars, loaded>>

\* Mutant: the callback counts whether or not the window has focus.
CheckNoFocus ==
  /\ cb = "entered"
  /\ cb' = "counting" /\ loaded' = counter
  /\ UNCHANGED <<m_nTimerID, counter, elapsed, mainVars>>

\* if(HasFocus), and the load of TimeCounter += 1.
CheckFocus ==
  /\ cb = "entered"
  /\ IF focus THEN cb' = "counting" /\ loaded' = counter
              ELSE cb' = "leaving" /\ UNCHANGED loaded
  /\ UNCHANGED <<m_nTimerID, counter, elapsed, mainVars>>

\* The store of TimeCounter += 1.
Count ==
  /\ cb = "counting" /\ loaded < MaxTicks
  /\ counter' = loaded + 1
  /\ cb' = "leaving"
  /\ elapsed' = elapsed + (IF InGame THEN Float(loaded + 1) - Float(loaded) ELSE 0)
  /\ UNCHANGED <<m_nTimerID, mainVars, loaded>>

EndCallback ==
  /\ cb = "leaving"
  /\ Timer!End(1)
  /\ cb' = "out" /\ loaded' = 0
  /\ UNCHANGED <<counter, elapsed, mainVars>>

------------------------------------------------------------------------------
(* The main thread *)

\* The constructor starts the timer and only then clears the counter.
StartTimer ==
  /\ main = "constructor"
  /\ Timer!Start(1)
  /\ main' = "started"
  /\ UNCHANGED <<counter, elapsed, threadVars, object, focus, lastPoll, passed, ticks,
                 seen, atLoss, histVars>>

ClearCounter ==
  /\ main = "started"
  /\ counter' = 0 /\ lastPoll' = 0 /\ passed' = 0
  /\ object' = "ready"
  /\ main' = "menu"
  /\ UNCHANGED <<m_nTimerID, elapsed, threadVars, focus, ticks, seen, atLoss, histVars>>

\* The message pump delivers a change of focus.  It runs in the frame loop, in the
\* menus and in every GetAsyncKeyState, hence also while input is handled and while
\* components take their time.
FocusChange ==
  /\ main \in {"menu", "frame", "poll", "loop", "paused"}
  /\ focus' = ~focus
  /\ atLoss' = IF focus THEN counter ELSE 0
  /\ UNCHANGED <<m_nTimerID, counter, elapsed, threadVars, object, lastPoll, passed, ticks,
                 main, seen, histVars>>

\* GameLevel begins with ResetSystem, which calls ResetClock.
EnterGame ==
  /\ main = "menu"
  /\ main' = "frame"
  /\ lastPoll' = counter /\ passed' = 0
  /\ UNCHANGED <<m_nTimerID, counter, elapsed, threadVars, object, focus, ticks,
                 seen, atLoss, histVars>>

\* A frame that has handled its input goes on to DispatchTick, unless an inventory is
\* open that stops the time: then nothing is polled and dwTicksGoneBy stays.
HandleInput ==
  /\ main = "frame" /\ focus
  /\ main' \in {"poll", "paused"}
  /\ UNCHANGED <<m_nTimerID, counter, elapsed, threadVars, object, focus, lastPoll, passed,
                 ticks, seen, atLoss, histVars>>

\* GetTimePassed_F reads the counter once for the time passed ...
BeginPoll ==
  /\ main = "poll"
  /\ seen' = counter
  /\ main' = "polled"
  /\ UNCHANGED <<m_nTimerID, counter, elapsed, threadVars, object, focus, lastPoll, passed,
                 ticks, atLoss, histVars>>

\* Mutant: the time of the poll is not kept.
FinishPollForgets ==
  /\ main = "polled"
  /\ passed' = Float(seen) - Float(lastPoll)
  /\ ticks' = IF focus THEN passed' ELSE 0
  /\ dealt' = dealt + ticks'
  /\ main' = "loop"
  /\ UNCHANGED <<m_nTimerID, counter, elapsed, threadVars, object, focus, lastPoll,
                 seen, atLoss, again, repeated>>

\* ... and once more for LastTimePoll (or keeps the first value: the compiler may merge
\* the two loads).  DispatchTick deals the time, unless focus is lost.
FinishPoll ==
  /\ main = "polled"
  /\ passed' = Float(seen) - Float(lastPoll)
  /\ lastPoll' \in {seen, counter}
  /\ ticks' = IF focus THEN passed' ELSE 0
  /\ dealt' = dealt + ticks'
  /\ dealt' <= MaxDealt
  /\ main' = "loop" /\ seen' = 0
  /\ UNCHANGED <<m_nTimerID, counter, elapsed, threadVars, object, focus, atLoss,
                 again, repeated>>

\* The rest of the frame: Explosions()->Tick and EffectManager()->Tick are given
\* dwTicksGoneBy once more, whether or not this frame has polled it.
LoopTicks ==
  /\ main \in {"loop", "paused"}
  /\ again' = again + ticks
  /\ again' <= MaxDealt
  /\ repeated' = repeated + (IF main = "paused" THEN ticks ELSE 0)
  /\ main' = "frame"
  /\ UNCHANGED <<m_nTimerID, counter, elapsed, threadVars, object, focus, lastPoll, passed,
                 ticks, seen, atLoss, dealt>>

LeaveGame ==
  /\ main = "frame"
  /\ main' = "menu"
  /\ UNCHANGED <<m_nTimerID, counter, elapsed, threadVars, object, focus, lastPoll, passed,
                 ticks, seen, atLoss, histVars>>

\* Mutant: the timer outlives the object.
DeleteNoKill ==
  /\ main = "menu"
  /\ object' = "freed" /\ main' = "gone"
  /\ UNCHANGED <<m_nTimerID, counter, elapsed, threadVars, focus, lastPoll, passed, ticks,
                 seen, atLoss, histVars>>

\* The destructor: timeKillEvent returns once no call is in progress.
Delete ==
  /\ main = "menu"
  /\ Timer!Stop(1)
  /\ object' = "freed" /\ main' = "gone"
  /\ UNCHANGED <<counter, elapsed, threadVars, focus, lastPoll, passed, ticks,
                 seen, atLoss, histVars>>

------------------------------------------------------------------------------
Callback == BeginCallback \/ CheckFocus \/ Count \/ EndCallback
Main == \/ StartTimer \/ ClearCounter \/ FocusChange \/ EnterGame \/ HandleInput
        \/ BeginPoll \/ FinishPoll \/ LoopTicks \/ LeaveGame \/ Delete

ClockNext == Callback \/ Main

ClockSpec == ClockInit /\ [][ClockNext]_clockVars

------------------------------------------------------------------------------
(* Properties *)

\* Times are never negative: neither thread can make the clock run backwards under
\* the other.
ClockTypeOK ==
  /\ m_nTimerID \in [{1} -> {"unused", "idle", "firing", "dead"}]
  /\ object \in {"raw", "ready", "freed"}
  /\ main \in {"constructor", "started", "menu", "frame", "poll", "polled", "loop",
              "paused", "gone"}
  /\ cb \in {"out", "entered", "counting", "leaving"}
  /\ focus \in BOOLEAN
  /\ {counter, lastPoll, passed, ticks, seen, loaded, atLoss} \subseteq Nat
  /\ elapsed \in Nat
  /\ {dealt, again, repeated} \subseteq Nat

\* TimerFunction never runs on a CCommonData that has been deleted.
NoUseAfterFree == cb # "out" => object # "freed"

\* The game clock stops with the focus: only a callback that had already checked
\* HasFocus may still count.
OneTickAfterFocusLost == object # "raw" /\ ~focus => counter <= atLoss + 1

\* DispatchTick deals the components no time but what was counted while the game ran:
\* no millisecond twice, none from the menus.  The loop deals explosions and effects
\* none of it more than once again, but for the frames in which an open inventory
\* skips DispatchTick: each of them repeats the time of the last poll.
NoTimeInvented == dealt <= elapsed /\ again - repeated <= elapsed

\* "Get the amount of time passed since the last call": the time returned is the time
\* by which the moment of the last call moves on.
PollTakesAll ==
  [][main = "polled" /\ main' = "loop"
     => passed' = Float(lastPoll') - Float(lastPoll)]_clockVars
==============================================================================

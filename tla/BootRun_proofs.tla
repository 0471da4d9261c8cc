----------------------------- MODULE BootRun_proofs -----------------------------
(***************************************************************************)
(* A launch for any number of ticks and any times of the watchdog.  The    *)
(* three invariants are about three parts of the state and meet only in    *)
(* the place where the main thread is, so each is proved by itself:        *)
(* what the watchdog waits for is what it was last granted; what exists is *)
(* a function of the place; and so is what was played.                     *)
(***************************************************************************)
EXTENDS BootRun, TLAPS

Exits == [by : {"nobody", "watchdog", "return", "fatal", "reentry"}, code : Nat]

------------------------------------------------------------------------------
(* The watchdog *)

DogType ==
  [at : {"none", "ready", "waiting", "expired", "ended", "joined"}, stopping : BOOLEAN,
   generation : Nat, revision : Nat, deadline : Nat, until : Nat]

DogInv ==
  /\ dog \in DogType /\ exit \in Exits
  /\ dog.revision <= dog.generation
  /\ dog.at = "waiting" /\ dog.revision = dog.generation => dog.until = dog.deadline
  /\ dog.at = "expired" => dog.deadline = 0 /\ ~dog.stopping
  /\ exit.by = "watchdog" => dog.at = "expired"

LEMMA DogInit == Init => DogInv
  BY DEF Init, DogInv, DogType, Exits

\* A wait that begins is for the deadline that is granted now.
LEMMA DogLoops ==
  ASSUME DogInv, exit.by # "watchdog", dog' = Loop(dog), exit' = exit
  PROVE  DogInv'
<1>1. CASE dog.stopping
  <2>1. dog' = [dog EXCEPT !.at = "ended"]
    BY <1>1 DEF Loop
  <2> QED
    BY <2>1 DEF DogInv, DogType
<1>2. CASE ~dog.stopping
  <2>1. dog' = [dog EXCEPT !.at = "waiting", !.revision = dog.generation,
                           !.until = dog.deadline]
    BY <1>2 DEF Loop
  <2>2. dog \in DogType /\ exit \in Exits
    BY DEF DogInv
  <2>3. dog' \in DogType
    BY <2>1, <2>2 DEF DogType
  <2>4. /\ dog'.at = "waiting" /\ dog'.revision = dog.generation
        /\ dog'.generation = dog.generation /\ dog'.until = dog'.deadline
        /\ dog.generation \in Nat
    BY <2>1, <2>2 DEF DogType
  <2> QED
    BY <2>2, <2>3, <2>4 DEF DogInv
<1> QED
  BY <1>1, <1>2

LEMMA DogStep == ASSUME DogInv, [Next]_vars PROVE DogInv'
<1>1. CASE UNCHANGED <<dog, exit>>
  BY <1>1 DEF DogInv
<1>2. CASE InitializeLevel
  <2>1. exit' = exit /\ exit.by = "nobody"
    BY <1>2 DEF InitializeLevel, GoesTo, Running
  <2>2. dog' = dog \/ dog' = [dog EXCEPT !.at = "ready", !.deadline = SetupTime]
    BY <1>2 DEF InitializeLevel, StartWatchdog
  <2> QED
    BY <2>1, <2>2, BootAssumption DEF DogInv, DogType
<1>3. CASE ArmForTick
  <2>1. exit' = exit /\ exit.by = "nobody" /\ dog.at # "expired"
    BY <1>3 DEF ArmForTick, GoesTo, Running, MutexFree
  <2>2. dog' = [dog EXCEPT !.deadline = TickTime, !.generation = @ + 1]
    BY <1>3 DEF ArmForTick, Arm
  <2>3. dog \in DogType /\ exit \in Exits /\ dog.revision <= dog.generation
    BY DEF DogInv
  <2>4. dog' \in DogType
    <3>1. TickTime \in Nat /\ dog.generation + 1 \in Nat
      BY <2>3, BootAssumption DEF DogType
    <3> QED
      BY <2>2, <2>3, <3>1 DEF DogType
  <2>5. /\ dog'.at = dog.at /\ dog'.revision = dog.revision
        /\ dog'.generation = dog.generation + 1
        /\ dog.revision \in Nat /\ dog.generation \in Nat
    BY <2>2, <2>3 DEF DogType
  <2>6. dog'.revision <= dog'.generation /\ dog'.revision # dog'.generation
    BY <2>3, <2>5
  <2> QED
    BY <2>1, <2>3, <2>4, <2>5, <2>6 DEF DogInv
<1>4. CASE WatchBegins
  BY <1>4, DogLoops DEF WatchBegins, Running
<1>5. CASE WatchWakes
  <2>1. exit' = exit /\ exit.by = "nobody" /\ dog.at = "waiting" /\ dog' = Woken(dog)
    BY <1>5 DEF WatchWakes, Running
  <2>2. CASE dog.stopping \/ dog.generation # dog.revision
    <3>1. dog' = Loop(dog)
      BY <2>1, <2>2 DEF Woken
    <3> QED
      BY <2>1, <3>1, DogLoops
  <2>3. CASE ~(dog.stopping \/ dog.generation # dog.revision)
    <3>1. dog' = [dog EXCEPT !.at = "expired"] /\ dog.until = 0
      BY <1>5, <2>1, <2>3 DEF Woken, WatchWakes
    <3> QED
      BY <2>1, <2>3, <3>1 DEF DogInv, DogType
  <2> QED
    BY <2>2, <2>3
<1>6. CASE WatchKills
  BY <1>6 DEF WatchKills, Ends, DogInv, Exits
<1>7. CASE TimePasses
  <2>1. exit' = exit
    BY <1>7 DEF TimePasses
  <2>2. dog' = [dog EXCEPT !.deadline = Less(dog.deadline), !.until = Less(dog.until)]
    BY <1>7 DEF TimePasses
  <2>3. \A n \in Nat : Less(n) \in Nat /\ Less(0) = 0
    BY DEF Less
  <2> HIDE DEF Less
  <2> QED
    BY <2>1, <2>2, <2>3 DEF DogInv, DogType
<1>8. CASE StopWatchdog
  <2>1. exit' = exit /\ exit.by = "nobody" /\ dog.at # "expired"
    BY <1>8 DEF StopWatchdog, GoesTo, Running, MutexFree
  <2>2. dog' = [dog EXCEPT !.stopping = TRUE]
    BY <1>8 DEF StopWatchdog
  <2> QED
    BY <2>1, <2>2 DEF DogInv, DogType
<1>9. CASE Join
  <2>1. exit' = exit /\ exit.by = "nobody" /\ dog.at = "ended"
    BY <1>9 DEF Join, GoesTo, Running
  <2>2. dog' = [dog EXCEPT !.at = "joined"]
    BY <1>9 DEF Join
  <2> QED
    BY <2>1, <2>2 DEF DogInv, DogType
<1>10. CASE Return \/ FatalExit \/ FatalDestroy
  <2>1. dog' = dog
    BY <1>10 DEF Return, FatalExit, FatalDestroy
  <2>2. exit' \in Exits /\ (exit'.by = "watchdog" => exit.by = "watchdog")
    BY <1>10 DEF Return, FatalExit, FatalDestroy, Ends, GoesTo, Exits, DogInv
  <2> QED
    BY <2>1, <2>2 DEF DogInv
<1>11. CASE Making \/ QuitArrives
  BY <1>1, <1>11 DEF Making, CreateWindow, CreateEngine, CreateAudio, InitializeCommon,
                     Delete, QuitArrives, GoesTo
<1>12. CASE Playing /\ ~InitializeLevel /\ ~ArmForTick
  BY <1>1, <1>12 DEF Playing, Play, RenderBootWorld, Framebuffer, Setup, BeginTick, Input,
                     Dispatch, Frame, EndTick, Leave, Fails, GoesTo
<1>13. CASE Throw \/ Catch \/ Exit \/ FreeAudio \/ FreeEngine
  BY <1>1, <1>13 DEF Throw, Catch, Exit, FreeAudio, FreeEngine, GoesTo
<1>14. CASE UNCHANGED vars
  BY <1>1, <1>14 DEF vars
<1> QED
  BY <1>2, <1>3, <1>4, <1>5, <1>6, <1>7, <1>8, <1>9, <1>10, <1>11, <1>12, <1>13, <1>14
     DEF Next, WatchThread, Ending, Playing

\* The watchdog ends the program only when the time it last granted has run out, and
\* never once it was told to stop (KilledOnlyLate).
THEOREM KillsOnlyLate == Spec => []KilledOnlyLate
<1>1. DogInv => KilledOnlyLate
  BY DEF DogInv, KilledOnlyLate
<1> QED
  BY DogInit, DogStep, <1>1, PTL DEF Spec

------------------------------------------------------------------------------
(* What exists *)

States == {"none", "live", "freed"}

\* All there is, and rf_fatal_exit knows of it; nothing is left; and in between.
All ==
  /\ made["window"] = "live" /\ made["engine"] = "live" /\ made["audio"] = "live"
  /\ bound = {"audio", "engine"}
Gone ==
  /\ made["window"] # "live" /\ made["engine"] # "live" /\ made["audio"] # "live"
  /\ bound = {}
Silent ==
  /\ made["window"] = "live" /\ made["engine"] = "live" /\ made["audio"] # "live"
  /\ bound = {"engine"}

Within == {"common", "play", "level", "render", "framebuffer", "setup", "begin", "arm",
           "input", "dispatch", "frame", "end", "leave", "stop", "join"}

Fatal == {"fatal", "silence", "free", "destroy"}

MadeInv ==
  /\ made \in [Resources -> States] /\ entered \in BOOLEAN
  /\ main = "window" => Gone /\ made["engine"] = "none" /\ made["audio"] = "none"
  /\ main = "engine" => /\ made["window"] = "live" /\ made["engine"] = "none"
                        /\ made["audio"] = "none" /\ bound = {}
  /\ main = "audio" => Silent /\ made["audio"] = "none"
  /\ main \in Within => All
  /\ main \in {"catch", "delete"} => All \/ (Gone /\ made["audio"] = "none")
  /\ main = "return" => Gone
  /\ main = "silence" \/ (main = "fatal" /\ ~entered) => All \/ Gone
  /\ main = "free" => Silent \/ Gone
  /\ main = "destroy" => made["audio"] # "live"
  /\ main \in {"silence", "free", "destroy"} => entered
  /\ entered => main \in Fatal
  /\ exit.by = "return" => main = "return"
  /\ exit.by = "fatal" /\ exit.code = 1 =>
       made["window"] # "live" /\ made["engine"] # "live" /\ made["audio"] # "live"

LEMMA MadeInit == Init => MadeInv
<1> SUFFICES ASSUME Init PROVE MadeInv
  OBVIOUS
<1>1. made \in [Resources -> States]
  BY DEF Init, States
<1>2. made["window"] = "none" /\ made["engine"] = "none" /\ made["audio"] = "none"
  BY DEF Init, Resources
<1>3. main = "window" /\ bound = {} /\ entered = FALSE /\ exit.by = "nobody"
  BY DEF Init
<1> QED
  BY <1>1, <1>2, <1>3 DEF MadeInv, Gone, Within, Fatal

\* What is live can be freed, and then is not.
LEMMA Frees ==
  ASSUME NEW m \in [Resources -> States], NEW r \in Resources, m[r] = "live"
  PROVE  /\ Free(m, r) \in [Resources -> States]
         /\ Free(m, r)[r] = "freed"
         /\ \A q \in Resources \ {r} : Free(m, r)[q] = m[q]
  BY DEF Free, States

\* The window goes, unless the engine is there.
LEMMA Destroys ==
  ASSUME NEW m \in [Resources -> States]
  PROVE  /\ HostDestroy(m) \in [Resources -> States]
         /\ m["engine"] # "live" => HostDestroy(m)["window"] # "live"
         /\ HostDestroy(m)["engine"] = m["engine"] /\ HostDestroy(m)["audio"] = m["audio"]
         /\ m["window"] # "live" => HostDestroy(m) = m
<1>1. {"window", "engine", "audio"} \subseteq Resources
  BY DEF Resources
<1>2. CASE m["window"] = "live" /\ m["engine"] # "live"
  BY <1>1, <1>2, Frees DEF HostDestroy
<1>3. CASE ~(m["window"] = "live" /\ m["engine"] # "live")
  BY <1>1, <1>3 DEF HostDestroy
<1> QED
  BY <1>2, <1>3

\* The steps that neither make nor free anything: the place decides.
LEMMA MadeStays ==
  ASSUME MadeInv, UNCHANGED <<made, bound, entered, exit>>, exit.by = "nobody",
         \/ main \in Within /\ main' \in Within \cup {"catch", "delete"}
         \/ main \in Within /\ main' = "fatal"
         \/ main = "catch" /\ main' = "delete"
  PROVE  MadeInv'
<1>1. entered = FALSE
  BY DEF MadeInv, Within, Fatal
<1>2. CASE main \in Within
  <2>1. All
    BY <1>2 DEF MadeInv
  <2> QED
    BY <1>1, <1>2, <2>1 DEF MadeInv, Within, All, Gone, Silent, Fatal
<1>3. CASE main = "catch" /\ main' = "delete"
  BY <1>1, <1>3 DEF MadeInv, Within, All, Gone, Silent, Fatal
<1> QED
  BY <1>2, <1>3 DEF Within

LEMMA MadeStep == ASSUME MadeInv, [Next]_vars PROVE MadeInv'
<1> USE DEF Running, GoesTo
<1>0. {"window", "engine", "audio"} \subseteq Resources
  BY DEF Resources
<1>1. CASE UNCHANGED vars
  BY <1>1 DEF vars, MadeInv, All, Gone, Silent
<1>2. CASE CreateWindow
  <2>1. /\ made["window"] # "live" /\ made["engine"] = "none" /\ made["audio"] = "none"
        /\ bound = {} /\ made \in [Resources -> States] /\ entered = FALSE
        /\ exit.by = "nobody" /\ UNCHANGED <<entered, exit, bound>>
    BY <1>2 DEF CreateWindow, MadeInv, Gone, Fatal
  <2>2. CASE made' = [made EXCEPT !["window"] = "live"] /\ main' = "engine"
    BY <1>0, <2>1, <2>2 DEF MadeInv, Within, Fatal, States
  <2>3. CASE made' = made /\ main' = "catch"
    BY <2>1, <2>3 DEF MadeInv, All, Gone, Silent, Within, Fatal
  <2> QED
    BY <1>2, <2>2, <2>3 DEF CreateWindow
<1>3. CASE CreateEngine
  <2>1. /\ made["window"] = "live" /\ made["engine"] = "none" /\ made["audio"] = "none"
        /\ bound = {} /\ made \in [Resources -> States] /\ entered = FALSE
        /\ exit.by = "nobody" /\ UNCHANGED <<entered, exit>>
    BY <1>3 DEF CreateEngine, MadeInv, Fatal
  <2>2. CASE made' = [made EXCEPT !["engine"] = "live"] /\ bound' = bound \cup {"engine"}
             /\ main' = "audio"
    BY <1>0, <2>1, <2>2 DEF MadeInv, Silent, Within, Fatal, States
  <2>3. CASE made' = HostDestroy(made) /\ main' = "catch" /\ bound' = bound
    BY <2>1, <2>3, Destroys DEF MadeInv, All, Gone, Silent, Within, Fatal
  <2> QED
    BY <1>3, <2>2, <2>3 DEF CreateEngine
<1>4. CASE CreateAudio
  <2>1. /\ Silent /\ made["audio"] = "none" /\ made \in [Resources -> States]
        /\ entered = FALSE /\ exit.by = "nobody" /\ UNCHANGED <<entered, exit>>
    BY <1>4 DEF CreateAudio, MadeInv, Fatal
  <2>2. CASE made' = [made EXCEPT !["audio"] = "live"] /\ bound' = bound \cup {"audio"}
             /\ main' = "common"
    BY <1>0, <2>1, <2>2 DEF MadeInv, All, Silent, Within, Fatal, States
  <2>3. CASE made' = HostDestroy(Free(made, "engine")) /\ bound' = bound \ {"engine"}
             /\ main' = "catch"
    <3> DEFINE m == Free(made, "engine")
    <3>1. /\ m \in [Resources -> States] /\ m["engine"] = "freed" /\ m["audio"] = "none"
      BY <1>0, <2>1, Frees DEF Silent
    <3> HIDE DEF m
    <3>2. Gone' /\ made'["audio"] = "none" /\ made' \in [Resources -> States]
      BY <2>1, <2>3, <3>1, Destroys DEF Gone, Silent, m
    <3> QED
      BY <2>1, <2>3, <3>2 DEF MadeInv, Within, Fatal
  <2> QED
    BY <1>4, <2>2, <2>3 DEF CreateAudio
<1>5. CASE Delete
  <2>1. /\ All \/ (Gone /\ made["audio"] = "none")
        /\ made \in [Resources -> States] /\ entered = FALSE
        /\ exit.by = "nobody" /\ UNCHANGED <<entered, exit>>
        /\ main' \in {"fatal", "return"}
    BY <1>5 DEF Delete, MadeInv, Fatal
  <2>2. Gone' /\ made' \in [Resources -> States]
    <3>1. CASE made["audio"] = "none"
      BY <1>5, <2>1, <3>1 DEF Delete, All, Gone
    <3>2. CASE made["audio"] # "none"
      <4> DEFINE m == Free(made, "audio")
                 n == Free(m, "engine")
      <4>1. All
        BY <2>1, <3>2
      <4>2. m \in [Resources -> States] /\ m["engine"] = "live" /\ m["audio"] = "freed"
        BY <1>0, <2>1, <4>1, Frees DEF All
      <4> HIDE DEF m
      <4>3. n \in [Resources -> States] /\ n["engine"] = "freed" /\ n["audio"] = "freed"
        BY <1>0, <4>2, Frees
      <4>4. made' = HostDestroy(n) /\ bound' = bound \ {"audio", "engine"}
        BY <1>5, <3>2 DEF Delete, Unbound, m
      <4> HIDE DEF n
      <4> QED
        BY <4>1, <4>3, <4>4, Destroys DEF All, Gone
    <3> QED
      BY <3>1, <3>2
  <2> QED
    BY <2>1, <2>2 DEF MadeInv, Within, Fatal
<1>6. CASE InitializeCommon \/ Playing
  BY <1>6, MadeStays DEF InitializeCommon, Playing, Play, InitializeLevel, RenderBootWorld,
     Framebuffer, Setup, BeginTick, ArmForTick, Input, Dispatch, Frame, EndTick, Leave,
     Fails, Within, process
<1>7. CASE StopWatchdog \/ Join \/ Throw \/ Catch \/ Exit
  BY <1>7, MadeStays DEF StopWatchdog, Join, Throw, Catch, Exit, InGame, Within, process
<1>8. CASE WatchBegins \/ WatchWakes \/ TimePasses \/ QuitArrives
  BY <1>8 DEF WatchBegins, WatchWakes, TimePasses, QuitArrives, process,
              MadeInv, All, Gone, Silent
<1>9. CASE WatchKills
  <2>1. UNCHANGED <<made, bound, entered, main>> /\ exit'.by = "watchdog"
    BY <1>9 DEF WatchKills, process, Ends
  <2> QED
    BY <2>1 DEF MadeInv, All, Gone, Silent
<1>10. CASE Return
  <2>1. UNCHANGED <<made, bound, entered, main>> /\ exit'.by = "return" /\ main = "return"
    BY <1>10 DEF Return, process, Ends
  <2> QED
    BY <2>1 DEF MadeInv, All, Gone, Silent
<1>11. CASE FatalExit
  <2>1. UNCHANGED <<made, bound>> /\ main = "fatal" /\ exit.by = "nobody"
    BY <1>11 DEF FatalExit
  <2>2. CASE entered
    <3>1. exit'.by = "reentry" /\ UNCHANGED <<main, entered>>
      BY <1>11, <2>2 DEF FatalExit, Ends
    <3> QED
      BY <2>1, <2>2, <3>1 DEF MadeInv, All, Gone, Silent, Within, Fatal
  <2>3. CASE ~entered
    <3>1. entered' = TRUE /\ main' = "silence" /\ exit' = exit
      BY <1>11, <2>3 DEF FatalExit
    <3> QED
      BY <2>1, <2>3, <3>1 DEF MadeInv, All, Gone, Silent, Within, Fatal
  <2> QED
    BY <2>2, <2>3
<1>12. CASE FreeAudio
  <2>1. /\ All \/ Gone
        /\ made \in [Resources -> States] /\ main' = "free" /\ entered = TRUE
        /\ exit.by = "nobody" /\ UNCHANGED <<entered, exit>>
    BY <1>12 DEF FreeAudio, MadeInv
  <2>2. (Silent' \/ Gone') /\ made' \in [Resources -> States]
    <3>1. CASE All
      <4>1. made' = Free(made, "audio") /\ bound' = bound \ {"audio"}
        BY <1>12, <3>1 DEF FreeAudio, Releases, All
      <4> QED
        BY <1>0, <2>1, <3>1, <4>1, Frees DEF All, Silent, MadeInv
    <3>2. CASE Gone
      BY <1>12, <2>1, <3>2 DEF FreeAudio, Releases, Gone, MadeInv
    <3> QED
      BY <2>1, <3>1, <3>2
  <2> QED
    BY <2>1, <2>2 DEF MadeInv, Within, Fatal
<1>13. CASE FreeEngine
  <2>1. /\ Silent \/ Gone
        /\ made \in [Resources -> States] /\ main = "free"
        /\ exit.by = "nobody" /\ UNCHANGED <<entered, exit>>
    BY <1>13 DEF FreeEngine, MadeInv
  <2>2. made'["audio"] # "live" /\ made' \in [Resources -> States]
    <3>1. made["audio"] # "live" /\ made \in [Resources -> States]
      BY <2>1 DEF Silent, Gone, MadeInv
    <3>2. "engine" \in bound => made["engine"] = "live"
      BY <2>1 DEF Silent, Gone
    <3> QED
      BY <1>0, <1>13, <3>1, <3>2, Frees DEF FreeEngine, Releases
  <2>3. main' = "destroy" \/ (main' = "fatal" /\ "engine" \in bound)
    BY <1>13 DEF FreeEngine
  <2>4. entered
    BY <2>1 DEF MadeInv
  <2> QED
    BY <2>1, <2>2, <2>3, <2>4 DEF MadeInv, Within, Fatal
<1>14. CASE FatalDestroy
  <2>1. /\ made["audio"] # "live" /\ made \in [Resources -> States] /\ main' = "destroy"
        /\ made' = HostDestroy(made) /\ UNCHANGED entered /\ main = "destroy"
    BY <1>14 DEF FatalDestroy, MadeInv
  <2>2. exit'.by = "fatal" /\ (exit'.code = 1 => made["engine"] # "live")
    BY <1>14 DEF FatalDestroy, Ends
  <2>3. /\ made' \in [Resources -> States] /\ made'["audio"] # "live"
        /\ exit'.code = 1 => made'["window"] # "live" /\ made'["engine"] # "live"
    BY <2>1, <2>2, Destroys
  <2> QED
    BY <2>1, <2>2, <2>3 DEF MadeInv, Within, Fatal
<1> QED
  BY <1>1, <1>2, <1>3, <1>4, <1>5, <1>6, <1>7, <1>8, <1>9, <1>10, <1>11, <1>12, <1>13, <1>14
     DEF Next, Making, WatchThread, Ending

\* Whichever way the program is left, nothing is freed twice, and nothing is left
\* unless the status says so (TornDown).
THEOREM AllTornDown == Spec => []TornDown
<1>1. MadeInv => TornDown
  BY DEF MadeInv, TornDown, Gone, States, Resources
<1> QED
  BY MadeInit, MadeStep, <1>1, PTL DEF Spec

------------------------------------------------------------------------------
(* What was played *)

PlayTypes ==
  /\ run \in [ticks : Nat, steps : Nat, presented : BOOLEAN, failed : BOOLEAN]
  /\ host \in [frames : Nat, failed : BOOLEAN, quit : BOOLEAN, pending : BOOLEAN]
  /\ past \in [dispatched : Nat, shown : Nat]

Before == {"window", "engine", "audio", "common", "play", "level", "render", "framebuffer",
           "setup"}
Looping == {"begin", "arm", "input", "dispatch", "frame", "end"}

\* Every tick that is over was one time step and one frame, in the game and in the host.
Even ==
  /\ past.dispatched = run.ticks /\ past.shown = run.ticks /\ host.frames = run.ticks

Complete5 ==
  /\ past.dispatched = Ticks /\ past.shown = Ticks /\ host.quit = TRUE /\ host.failed = FALSE
Complete4 ==
  /\ past.dispatched = 0 /\ past.shown = 1 /\ host.quit = TRUE /\ host.failed = FALSE

PlayInv ==
  /\ PlayTypes /\ stage \in {0, 4, 5}
  /\ main \in Before => past.dispatched = 0 /\ Even
  /\ main = "play" => stage = 0
  /\ main = "level" => stage # 0
  /\ main = "render" => stage = 4
  /\ main \in {"framebuffer", "setup", "leave"} \cup Looping => stage = 5
  /\ main \in {"begin", "arm"} => Even
  /\ main \in {"input", "dispatch"} => Even /\ run.steps = 0
  /\ main = "frame" => /\ past.dispatched = run.ticks + run.steps
                       /\ past.shown = run.ticks /\ host.frames = run.ticks
  /\ main = "end" => /\ past.dispatched = run.ticks + run.steps
                     /\ past.shown = run.ticks + 1 /\ host.frames = run.ticks
  /\ main = "leave" /\ run.failed = FALSE => Even
  /\ result = "ok" => /\ main \in {"stop", "join", "delete", "return"}
                      /\ stage = 5 => Complete5
                      /\ stage = 4 => Complete4
  /\ exit.by = "return" /\ exit.code = 0 => result = "ok"

RunType == [ticks : Nat, steps : Nat, presented : BOOLEAN, failed : BOOLEAN]
HostType == [frames : Nat, failed : BOOLEAN, quit : BOOLEAN, pending : BOOLEAN]

LEMMA Pumps ==
  ASSUME NEW h \in HostType
  PROVE  Pump(h) \in HostType /\ Pump(h).frames = h.frames
  BY DEF Pump, HostType

LEMMA BootFrames ==
  ASSUME NEW h \in HostType, NEW last \in Nat, NEW f \in BootFrame(h, last)
  PROVE  f \in HostType /\ f.frames = h.frames + 1
<1>1. \/ f = [h EXCEPT !.frames = h.frames + 1]
      \/ f = [h EXCEPT !.frames = h.frames + 1, !.pending = TRUE]
      \/ f = [h EXCEPT !.frames = h.frames + 1, !.failed = TRUE, !.quit = TRUE]
  BY DEF BootFrame
<1>2. h.frames + 1 \in Nat
  BY DEF HostType
<1> QED
  BY <1>1, <1>2 DEF HostType

LEMMA PlayInit == Init => PlayInv
  BY BootAssumption DEF Init, PlayInv, PlayTypes, Before, Looping, Even

\* What a step of another part of the program leaves alone.
LEMMA PlayStays ==
  ASSUME PlayInv, UNCHANGED <<run, past, stage>>,
         host' \in [frames : Nat, failed : BOOLEAN, quit : BOOLEAN, pending : BOOLEAN],
         host'.frames = host.frames, host'.failed = host.failed,
         host.quit = TRUE => host'.quit = TRUE,
         exit' = exit \/ exit'.by # "return",
         result' # "ok" \/ result' = result,
         \/ main' = main /\ result' = result
         \/ main' \notin Before \cup Looping \cup {"leave"} /\ result' # "ok" /\ exit' = exit
            /\ exit.by = "nobody"
         \/ main' \in {"stop", "join", "delete", "return"} /\ result' = result
  PROVE  PlayInv'
<1>1. PlayTypes' /\ stage' \in {0, 4, 5}
  BY DEF PlayInv, PlayTypes
<1>2. Even => Even'
  BY DEF Even
<1>3. result' = "ok" => result = "ok"
  OBVIOUS
<1> QED
  BY <1>1, <1>2, <1>3 DEF PlayInv, Before, Looping, Complete4, Complete5

LEMMA PlayStep == ASSUME PlayInv, [Next]_vars PROVE PlayInv'
<1> USE DEF Running, GoesTo
<1>0. PlayTypes /\ stage \in {0, 4, 5}
  BY DEF PlayInv
<1>1. CASE UNCHANGED vars
  BY <1>0, <1>1, PlayStays DEF vars, PlayTypes
<1>2. CASE WatchBegins \/ WatchWakes \/ WatchKills \/ TimePasses \/ QuitArrives
  <2>1. /\ UNCHANGED <<run, past, stage, main, result>>
        /\ exit' = exit \/ exit'.by # "return"
        /\ host' = host \/ host' = [host EXCEPT !.pending = TRUE]
    BY <1>2 DEF WatchBegins, WatchWakes, WatchKills, TimePasses, QuitArrives, process, Ends
  <2>2. /\ host' \in [frames : Nat, failed : BOOLEAN, quit : BOOLEAN, pending : BOOLEAN]
        /\ host'.frames = host.frames /\ host'.failed = host.failed /\ host'.quit = host.quit
    BY <1>0, <2>1 DEF PlayTypes
  <2> QED
    BY <2>1, <2>2, PlayStays
<1>3. CASE CreateWindow \/ CreateEngine \/ CreateAudio \/ InitializeCommon
  <2>1. /\ UNCHANGED <<run, host, past, stage, exit>> /\ exit.by = "nobody"
        /\ main \in Before /\ (result' = result \/ result' = "fatal")
        /\ main' \in {"engine", "audio", "common", "catch", "play", "level", "delete"}
        /\ main' = "level" => stage # 0
        /\ main' = "play" => stage = 0
    BY <1>0, <1>3 DEF CreateWindow, CreateEngine, CreateAudio, InitializeCommon, process, Before
  <2>2. result # "ok" /\ Even /\ past.dispatched = 0
    BY <2>1 DEF PlayInv, Before
  <2> QED
    BY <1>0, <2>1, <2>2 DEF PlayInv, PlayTypes, Before, Looping, Even
<1>4. CASE Delete
  <2>1. /\ UNCHANGED <<run, host, past, stage, exit, result>> /\ exit.by = "nobody"
        /\ main' \in {"fatal", "return"} /\ (result = "ok" => main' = "return")
    BY <1>4 DEF Delete
  <2> QED
    BY <1>0, <2>1, PlayStays DEF PlayTypes, Before, Looping
<1>5. CASE StopWatchdog \/ Join
  <2>1. /\ UNCHANGED <<run, host, past, stage, exit, result>> /\ exit.by = "nobody"
        /\ main' \in {"join", "catch", "delete"} /\ (result = "ok" => main' # "catch")
    BY <1>5 DEF StopWatchdog, Join, process
  <2> QED
    BY <1>0, <2>1, PlayStays DEF PlayTypes, Before, Looping
<1>6. CASE Throw \/ Catch \/ Exit
  <2>1. /\ UNCHANGED <<run, host, past, stage, exit>> /\ exit.by = "nobody"
        /\ main' \in {"stop", "catch", "delete", "fatal"}
        /\ result' \in {"thrown", "failed"} \/ (InGame /\ result' = result)
    BY <1>6 DEF Throw, Catch, Exit, process
  <2>2. InGame => result # "ok"
    BY DEF InGame, PlayInv
  <2> QED
    BY <1>0, <2>1, <2>2, PlayStays DEF PlayTypes, Before, Looping
<1>7. CASE FatalExit \/ FreeAudio \/ FreeEngine \/ FatalDestroy
  <2>1. /\ UNCHANGED <<run, host, past, stage, result>> /\ exit.by = "nobody"
        /\ main \in {"fatal", "silence", "free", "destroy"}
        /\ main' \in {"fatal", "silence", "free", "destroy"}
        /\ exit' = exit \/ exit'.by \in {"reentry", "fatal"}
    BY <1>7 DEF FatalExit, FreeAudio, FreeEngine, FatalDestroy, Ends
  <2>2. result # "ok"
    BY <2>1 DEF PlayInv
  <2> QED
    BY <1>0, <2>1, <2>2 DEF PlayInv, PlayTypes, Before, Looping
<1>8. CASE Return
  <2>1. /\ UNCHANGED <<run, host, past, stage, result, main>>
        /\ exit'.code = 0 => result = "ok"
    BY <1>8 DEF Return, Ends, process
  <2> QED
    BY <1>0, <2>1 DEF PlayInv, PlayTypes, Before, Looping, Even, Complete4, Complete5
<1>9. CASE Play \/ InitializeLevel \/ Framebuffer \/ Setup
  <2>1. /\ UNCHANGED <<run, host, past, stage, exit>> /\ exit.by = "nobody" /\ main \in Before
        /\ Even /\ past.dispatched = 0 /\ result # "ok"
    BY <1>9 DEF Play, InitializeLevel, Framebuffer, Setup, process, Before, PlayInv
  <2>2. CASE Play
    <3>1. stage = 0 /\ main' = "delete" /\ result' = "ok"
      BY <2>2 DEF Play, PlayInv
    <3> QED
      BY <1>0, <2>1, <3>1 DEF PlayInv, PlayTypes, Before, Looping, Even
  <2>3. CASE InitializeLevel
    <3>1. \/ main' = "render" /\ stage = 4 /\ result' = result
          \/ main' = "framebuffer" /\ stage = 5 /\ result' = result
          \/ main' = "delete" /\ result' = "failed"
      BY <1>0, <2>3 DEF InitializeLevel, PlayInv
    <3> QED
      BY <1>0, <2>1, <3>1 DEF PlayInv, PlayTypes, Before, Looping, Even
  <2>4. CASE Framebuffer \/ Setup
    <3>1. \/ main' \in {"setup", "begin"} /\ stage = 5 /\ result' = result
          \/ main' = "stop" /\ result' = "failed"
      BY <2>4 DEF Framebuffer, Setup, PlayInv
    <3> QED
      BY <1>0, <2>1, <3>1 DEF PlayInv, PlayTypes, Before, Looping, Even
  <2> QED
    BY <1>9, <2>2, <2>3, <2>4
<1>10. CASE RenderBootWorld
  <2>1. /\ UNCHANGED <<run, stage, exit>> /\ exit.by = "nobody" /\ main' = "delete"
        /\ stage = 4 /\ past.dispatched = 0 /\ past.shown = 0 /\ host.frames = 0
    BY <1>10 DEF RenderBootWorld, process, PlayInv, Before, Even
  <2>2. CASE result' = "failed" /\ UNCHANGED <<host, past>>
    BY <1>0, <2>1, <2>2 DEF PlayInv, PlayTypes, Before, Looping
  <2>3. CASE /\ \E h \in BootFrame(host, 1) : host' = Pump(h)
             /\ result' = IF host'.frames = 1 /\ ~host'.failed /\ host'.quit
                          THEN "ok" ELSE "failed"
             /\ past' = [past EXCEPT !.shown = @ + 1]
    <3>1. PICK h \in BootFrame(host, 1) : host' = Pump(h)
      BY <2>3
    <3>2. h \in HostType /\ h.frames = host.frames + 1
      <4>1. host \in HostType
        BY <1>0 DEF PlayTypes, HostType
      <4> QED
        BY <3>1, <4>1, BootFrames
    <3>3. host' \in HostType
      BY <3>1, <3>2, Pumps
    <3>4. past' \in [dispatched : Nat, shown : Nat] /\ past'.dispatched = 0 /\ past'.shown = 1
      BY <1>0, <2>1, <2>3 DEF PlayTypes
    <3>5. result' = "ok" => host'.quit = TRUE /\ host'.failed = FALSE
      BY <2>3, <3>3 DEF HostType
    <3> QED
      BY <1>0, <2>1, <3>3, <3>4, <3>5
         DEF PlayInv, PlayTypes, Before, Looping, Complete4, HostType
  <2> QED
    BY <1>10, <2>2, <2>3 DEF RenderBootWorld
<1>11. CASE BeginTick
  <2>1. /\ UNCHANGED <<host, past, stage, exit, result>> /\ exit.by = "nobody" /\ main = "begin"
    BY <1>11 DEF BeginTick, process, Fails
  <2>2. stage = 5 /\ Even /\ result # "ok"
    BY <2>1 DEF PlayInv, Looping
  <2>3. CASE run' = run /\ main' \in {"leave", "arm"}
    BY <1>0, <2>1, <2>2, <2>3 DEF PlayInv, PlayTypes, Before, Looping, Even
  <2>4. CASE run' = [run EXCEPT !.failed = TRUE] /\ main' = "leave"
    <3>1. run' \in RunType /\ run'.failed = TRUE
      BY <1>0, <2>4 DEF PlayTypes, RunType
    <3> QED
      BY <1>0, <2>1, <2>2, <2>4, <3>1 DEF PlayInv, PlayTypes, Before, Looping, RunType
  <2> QED
    BY <1>11, <2>3, <2>4 DEF BeginTick, Fails
<1>12. CASE ArmForTick
  <2>1. /\ UNCHANGED <<host, past, stage, exit, result>> /\ exit.by = "nobody" /\ main = "arm"
    BY <1>12 DEF ArmForTick, process
  <2>2. stage = 5 /\ Even /\ result # "ok"
    BY <2>1 DEF PlayInv, Looping
  <2>3. PICK inactive \in BOOLEAN :
          /\ run' = [run EXCEPT !.steps = 0, !.presented = FALSE, !.failed = @ \/ inactive]
          /\ main' = IF inactive THEN "leave" ELSE "input"
    BY <1>12 DEF ArmForTick
  <2>4. run' \in RunType
    BY <1>0, <2>3 DEF PlayTypes, RunType
  <2>5. run'.steps = 0 /\ run'.ticks = run.ticks /\ (inactive => run'.failed)
    BY <1>0, <2>3 DEF PlayTypes
  <2>6. main' = "input" \/ (main' = "leave" /\ run'.failed)
    BY <2>3, <2>5
  <2> QED
    BY <1>0, <2>1, <2>2, <2>4, <2>5, <2>6
       DEF PlayInv, PlayTypes, Before, Looping, Even, RunType
<1>13. CASE Input
  <2>1. /\ UNCHANGED <<run, past, stage, exit, result>> /\ exit.by = "nobody" /\ main = "input"
        /\ main' \in {"leave", "dispatch"} /\ host' = Pump(host)
    BY <1>13 DEF Input, process
  <2>2. stage = 5 /\ Even /\ result # "ok" /\ run.steps = 0
    BY <2>1 DEF PlayInv, Looping
  <2>3. host' \in HostType /\ host'.frames = host.frames
    BY <1>0, <2>1, Pumps DEF PlayTypes, HostType
  <2> QED
    BY <1>0, <2>1, <2>2, <2>3 DEF PlayInv, PlayTypes, Before, Looping, Even, HostType
<1>14. CASE Dispatch
  <2>1. /\ UNCHANGED <<host, stage, exit, result>> /\ exit.by = "nobody" /\ main = "dispatch"
        /\ main' = "frame"
    BY <1>14 DEF Dispatch, process
  <2>2. stage = 5 /\ Even /\ result # "ok" /\ run.steps = 0
    BY <2>1 DEF PlayInv, Looping
  <2>3. /\ run' \in RunType /\ past' \in [dispatched : Nat, shown : Nat]
        /\ run'.ticks = run.ticks /\ past'.shown = past.shown
        /\ past'.dispatched = past.dispatched + run'.steps
    BY <1>0, <1>14, <2>2 DEF Dispatch, PlayTypes, RunType
  <2> QED
    BY <1>0, <2>1, <2>2, <2>3 DEF PlayInv, PlayTypes, Before, Looping, Even, RunType
<1>15. CASE Frame
  <2>1. /\ UNCHANGED <<stage, exit, result>> /\ exit.by = "nobody" /\ main = "frame"
        /\ host' = Pump(host)
    BY <1>15 DEF Frame, process, Fails
  <2>2. /\ stage = 5 /\ result # "ok" /\ past.dispatched = run.ticks + run.steps
        /\ past.shown = run.ticks /\ host.frames = run.ticks
    BY <2>1 DEF PlayInv, Looping
  <2>3. host' \in HostType /\ host'.frames = host.frames
    BY <1>0, <2>1, Pumps DEF PlayTypes, HostType
  <2>4. past' = past \/ past' = [past EXCEPT !.shown = @ + 1]
    BY <1>15 DEF Frame
  <2>5. past' \in [dispatched : Nat, shown : Nat]
    BY <1>0, <2>4 DEF PlayTypes
  <2>6. CASE run' = [run EXCEPT !.failed = TRUE] /\ main' = "leave"
    <3>1. run' \in RunType /\ run'.failed = TRUE
      BY <1>0, <2>6 DEF PlayTypes, RunType
    <3> QED
      BY <1>0, <2>1, <2>2, <2>3, <2>5, <2>6, <3>1
         DEF PlayInv, PlayTypes, Before, Looping, RunType, HostType
  <2>7. CASE /\ run' = [run EXCEPT !.presented = TRUE] /\ main' = "end"
             /\ past' = [past EXCEPT !.shown = @ + 1]
    <3>1. run' \in RunType /\ run'.ticks = run.ticks /\ run'.steps = run.steps
      BY <1>0, <2>7 DEF PlayTypes, RunType
    <3>2. past'.shown = past.shown + 1 /\ past'.dispatched = past.dispatched
      BY <1>0, <2>7 DEF PlayTypes
    <3> QED
      BY <1>0, <2>1, <2>2, <2>3, <2>5, <2>7, <3>1, <3>2
         DEF PlayInv, PlayTypes, Before, Looping, RunType, HostType
  <2> QED
    BY <1>15, <2>6, <2>7 DEF Frame, Fails
<1>16. CASE EndTick
  <2>1. /\ UNCHANGED <<past, stage, exit, result>> /\ exit.by = "nobody" /\ main = "end"
    BY <1>16 DEF EndTick, process, Fails
  <2>2. /\ stage = 5 /\ result # "ok" /\ past.dispatched = run.ticks + run.steps
        /\ past.shown = run.ticks + 1 /\ host.frames = run.ticks
    BY <2>1 DEF PlayInv, Looping
  <2>3. CASE Complete
    <3>1. run' = [run EXCEPT !.ticks = @ + 1] /\ main' = "begin" /\ run.steps = 1
      BY <1>16, <2>3 DEF EndTick, Complete
    <3>2. PICK h \in BootFrame(host, Ticks) : host' = Pump(h)
      BY <1>16, <2>3 DEF EndTick
    <3>3. h \in HostType /\ h.frames = host.frames + 1
      <4>1. host \in HostType /\ Ticks \in Nat
        BY <1>0, BootAssumption DEF PlayTypes, HostType
      <4> QED
        BY <3>2, <4>1, BootFrames
    <3>4. host' \in HostType /\ host'.frames = host.frames + 1
      BY <3>2, <3>3, Pumps
    <3>5. run' \in RunType /\ run'.ticks = run.ticks + 1
      BY <1>0, <3>1 DEF PlayTypes, RunType
    <3> QED
      BY <1>0, <2>1, <2>2, <3>1, <3>4, <3>5
         DEF PlayInv, PlayTypes, Before, Looping, Even, RunType, HostType
  <2>4. CASE ~Complete
    <3>1. run' = [run EXCEPT !.failed = TRUE] /\ main' = "leave" /\ host' = host
      BY <1>16, <2>4 DEF EndTick, Fails
    <3>2. run' \in RunType /\ run'.failed = TRUE
      BY <1>0, <3>1 DEF PlayTypes, RunType
    <3> QED
      BY <1>0, <2>1, <2>2, <3>1, <3>2 DEF PlayInv, PlayTypes, Before, Looping, RunType
  <2> QED
    BY <2>3, <2>4
<1>17. CASE Leave
  <2>1. /\ UNCHANGED <<run, host, past, stage, exit>> /\ exit.by = "nobody" /\ main = "leave"
        /\ main' = "stop" /\ stage = 5 /\ (run.failed = FALSE => Even)
    BY <1>17 DEF Leave, process, PlayInv
  <2>2. result' = "ok" => /\ run.failed = FALSE /\ run.ticks = Ticks
                          /\ host.failed = FALSE /\ host.quit = TRUE
    BY <1>0, <1>17 DEF Leave, PlayTypes
  <2>3. result' = "ok" => Complete5
    BY <2>1, <2>2 DEF Even, Complete5
  <2> QED
    BY <1>0, <2>1, <2>3 DEF PlayInv, PlayTypes, Before, Looping, Complete5
<1> QED
  BY <1>1, <1>2, <1>3, <1>4, <1>5, <1>6, <1>7, <1>8, <1>9, <1>10, <1>11, <1>12, <1>13, <1>14,
     <1>15, <1>16, <1>17 DEF Next, Making, Playing, WatchThread, Ending

\* A boot that returns 0 has dispatched and completed exactly what was asked for, and
\* its quit was consumed (SuccessExact).
THEOREM SuccessIsExact == Spec => []SuccessExact
<1>1. PlayInv => SuccessExact
  <2> SUFFICES ASSUME PlayInv, exit.by = "return", exit.code = 0, stage # 0
               PROVE  /\ past = IF stage = 4 THEN [dispatched |-> 0, shown |-> 1]
                                ELSE [dispatched |-> Ticks, shown |-> Ticks]
                      /\ host.quit /\ ~host.failed
    BY DEF SuccessExact
  <2>1. stage \in {4, 5} /\ result = "ok" /\ past \in [dispatched : Nat, shown : Nat]
    BY DEF PlayInv, PlayTypes
  <2>2. CASE stage = 4
    BY <2>1, <2>2 DEF PlayInv, Complete4
  <2>3. CASE stage = 5
    BY <2>1, <2>3 DEF PlayInv, Complete5
  <2> QED
    BY <2>1, <2>2, <2>3
<1> QED
  BY PlayInit, PlayStep, <1>1, PTL DEF Spec
================================================================================

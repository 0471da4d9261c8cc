-------------------------------- MODULE BootRun --------------------------------
(***************************************************************************)
(* A launch of the program from WinMain to the end of the process, above   *)
(* all the automated boot of stage 5, which plays a fixed number of ticks  *)
(* under a watchdog: adapters/native_main.cpp, boot_watchdog.h and         *)
(* rf_fatal_exit, the parts of host_window.cpp that count its frames and   *)
(* tear it down, and what of WinMain, CGenesisEngine and                   *)
(* CRFMenu::GameLevel they meet.                                           *)
(*                                                                         *)
(* A call of the game may hang, for nothing obliges the main thread to go  *)
(* on; it may throw, or end the program with exit (rf_fatal_exit).  Input  *)
(* is neutral in stage 5, so that HandleGameInput never ends the level.    *)
(***************************************************************************)
EXTENDS Naturals

CONSTANTS
  Stages,     \* the launches: 0 by a human, 4 renders one frame, 5 plays
  Ticks,      \* RF_BOOT_GAME_TICKS
  SetupTime,  \* what the watchdog grants GameLoop's setup, 10 s
  TickTime    \* and each tick, 5 s

ASSUME BootAssumption ==
  /\ Stages \subseteq {0, 4, 5}
  /\ {Ticks, SetupTime, TickTime} \subseteq Nat \ {0}

VARIABLES
  stage,
  main,    \* where the main thread is
  result,  \* what WinMain is about to return, or why it does not
  run,     \* BootGameRun
  host,    \* the frames, the quit flag, and whether SDL holds an SDL_QUIT
  dog,     \* the watchdog: its thread, its members, the wait in progress
  made,    \* the window, the sound system and the engine
  bound,   \* which of the last two rf_fatal_exit knows of
  entered, \* rf_fatal_exit is at work
  exit,    \* who ended the process, and its status
  past     \* history: ticks dispatched and frames completed

vars == <<stage, main, result, run, host, dog, made, bound, entered, exit, past>>
process == <<stage, made, bound, entered>>

Resources == {"window", "audio", "engine"}

Running == exit.by = "nobody"
Ends(by, code) == exit' = [by |-> by, code |-> code]
GoesTo(place) == main' = place /\ UNCHANGED exit

Init ==
  /\ stage \in Stages
  /\ main = "window" /\ result = "none"
  /\ run = [ticks |-> 0, steps |-> 0, presented |-> FALSE, failed |-> FALSE]
  /\ host = [frames |-> 0, failed |-> FALSE, quit |-> FALSE, pending |-> FALSE]
  /\ dog = [at |-> "none", stopping |-> FALSE, generation |-> 0, revision |-> 0,
            deadline |-> 0, until |-> 0]
  /\ made = [r \in Resources |-> "none"]
  /\ bound = {} /\ entered = FALSE
  /\ exit = [by |-> "nobody", code |-> 0]
  /\ past = [dispatched |-> 0, shown |-> 0]

------------------------------------------------------------------------------
(* Making and freeing *)

Free(m, r) == [m EXCEPT ![r] = IF @ = "live" THEN "freed" ELSE "broken"]

\* RF_HostDestroy, which refuses while there is a GL context: the engine has it.
HostDestroy(m) ==
  IF m["window"] = "live" /\ m["engine"] # "live" THEN Free(m, "window") ELSE m

\* The constructor of CGenesisEngine: the window, the engine, the sound system.
CreateWindow ==
  /\ main = "window" /\ Running
  /\ \/ made' = [made EXCEPT !["window"] = "live"] /\ GoesTo("engine")
     \/ GoesTo("catch") /\ UNCHANGED made
  /\ UNCHANGED <<stage, result, run, host, dog, bound, entered, past>>

CreateEngine ==
  /\ main = "engine" /\ Running
  /\ \/ /\ made' = [made EXCEPT !["engine"] = "live"] /\ bound' = bound \cup {"engine"}
        /\ GoesTo("audio")
     \/ made' = HostDestroy(made) /\ GoesTo("catch") /\ UNCHANGED bound
  /\ UNCHANGED <<stage, result, run, host, dog, entered, past>>

CreateAudio ==
  /\ main = "audio" /\ Running
  /\ \/ /\ made' = [made EXCEPT !["audio"] = "live"] /\ bound' = bound \cup {"audio"}
        /\ GoesTo("common")
     \/ /\ made' = HostDestroy(Free(made, "engine")) /\ bound' = bound \ {"engine"}
        /\ GoesTo("catch")
  /\ UNCHANGED <<stage, result, run, host, dog, entered, past>>

\* Mutant: the destructor does not tell rf_fatal_exit.
Forgotten == bound

\* ~CGenesisEngine tells it before anything is freed.
Unbound == bound \ {"audio", "engine"}

\* delete CCD, of which ~CGenesisEngine is the part that matters, if it was constructed.
Delete ==
  /\ main = "delete" /\ Running
  /\ IF made["audio"] = "none" THEN UNCHANGED <<made, bound>>
     ELSE /\ bound' = Unbound
          /\ made' = HostDestroy(Free(Free(made, "audio"), "engine"))
  /\ GoesTo(IF result = "fatal" THEN "fatal" ELSE "return")
  /\ UNCHANGED <<stage, result, run, host, dog, entered, past>>

------------------------------------------------------------------------------
(* The watchdog *)

Watching == dog.at \in {"ready", "waiting", "expired"}
Watched == Watching /\ ~dog.stopping

\* The mutex is held but for the waits; only "expired" is long enough to be seen.
MutexFree == dog.at # "expired"

\* The constructor: the thread is its last member.
StartWatchdog ==
  dog' = [dog EXCEPT !.at = "ready", !.deadline = SetupTime]

\* Mutant: the thread does not look at the generation.
ArmOldGeneration(d) == [d EXCEPT !.deadline = TickTime]

Arm(d) == [d EXCEPT !.deadline = TickTime, !.generation = @ + 1]

\* The loop of the thread: done, or one more wait, for what is to come next.
Loop(d) ==
  IF d.stopping THEN [d EXCEPT !.at = "ended"]
  ELSE [d EXCEPT !.at = "waiting", !.revision = d.generation, !.until = d.deadline]

WatchBegins ==
  /\ dog.at = "ready" /\ Running
  /\ dog' = Loop(dog)
  /\ UNCHANGED <<process, main, result, run, host, exit, past>>

\* Mutant: the thread waits but once.
WokenOnce(d) ==
  CASE d.stopping \/ d.generation # d.revision -> [d EXCEPT !.at = "ended"]
    [] OTHER -> [d EXCEPT !.at = "expired"]

\* What wait_until returns to, with the mutex: its predicate counts more than the time.
Woken(d) ==
  CASE d.stopping \/ d.generation # d.revision -> Loop(d)
    [] OTHER -> [d EXCEPT !.at = "expired"]

\* Notified or too late; what wakes it for neither sends it back to sleep.
WatchWakes ==
  /\ dog.at = "waiting" /\ Running
  /\ dog.stopping \/ dog.generation # dog.revision \/ dog.until = 0
  /\ dog' = Woken(dog)
  /\ UNCHANGED <<process, main, result, run, host, exit, past>>

\* _exit(124), a message later; the main thread may have gone on meanwhile.
WatchKills ==
  /\ dog.at = "expired" /\ Running
  /\ Ends("watchdog", 124)
  /\ UNCHANGED <<process, main, result, run, host, dog, past>>

Less(n) == IF n = 0 THEN 0 ELSE n - 1

TimePasses ==
  /\ Watching /\ Running /\ (dog.deadline > 0 \/ dog.until > 0)
  /\ dog' = [dog EXCEPT !.deadline = Less(@), !.until = Less(@)]
  /\ UNCHANGED <<process, main, result, run, host, exit, past>>

\* ~RF_BootWatchdog: asks the thread to end, and waits until it has.
StopWatchdog ==
  /\ main = "stop" /\ Running /\ MutexFree
  /\ dog' = [dog EXCEPT !.stopping = TRUE]
  /\ GoesTo("join")
  /\ UNCHANGED <<process, result, run, host, past>>

Join ==
  /\ main = "join" /\ Running /\ dog.at = "ended"
  /\ dog' = [dog EXCEPT !.at = "joined"]
  /\ GoesTo(IF result = "thrown" THEN "catch" ELSE "delete")
  /\ UNCHANGED <<process, result, run, host, past>>

------------------------------------------------------------------------------
(* The host as the boot sees it *)

\* RF_HostPump: an SDL_QUIT is taken from SDL's queue.
Pump(h) == [h EXCEPT !.quit = @ \/ h.pending, !.pending = FALSE]

\* RF_HostBootFrame: the last frame queues an SDL_QUIT; the queue may be full.
BootFrame(h, last) ==
  IF h.frames + 1 < last THEN {[h EXCEPT !.frames = @ + 1]}
  ELSE {[h EXCEPT !.frames = @ + 1, !.pending = TRUE],
        [h EXCEPT !.frames = @ + 1, !.failed = TRUE, !.quit = TRUE]}

\* Somebody else ends the program: a signal, or the window closed from outside.
QuitArrives ==
  /\ Running /\ made["window"] = "live" /\ ~host.pending
  /\ host' = [host EXCEPT !.pending = TRUE]
  /\ UNCHANGED <<process, main, result, run, dog, exit, past>>

------------------------------------------------------------------------------
(* The game's thread *)

Fails(place) == run' = [run EXCEPT !.failed = TRUE] /\ GoesTo(place)

\* InitializeCommon; WinMain makes its failure a fatal exit, after delete CCD.
InitializeCommon ==
  /\ main = "common" /\ Running
  /\ \/ UNCHANGED result /\ GoesTo(IF stage = 0 THEN "play" ELSE "level")
     \/ result' = "fatal" /\ GoesTo("delete")
  /\ UNCHANGED <<process, run, host, dog, past>>

\* A human's session: the menu and the game, until one or the other is left.
Play ==
  /\ main = "play" /\ Running
  /\ result' = "ok" /\ GoesTo("delete")
  /\ UNCHANGED <<process, run, host, dog, past>>

\* RF_RunBootStage: InitializeLevel, then what the stage asks for.
InitializeLevel ==
  /\ main = "level" /\ Running
  /\ \/ /\ GoesTo(IF stage = 4 THEN "render" ELSE "framebuffer")
        /\ IF stage = 4 THEN UNCHANGED dog ELSE StartWatchdog
        /\ UNCHANGED result
     \/ result' = "failed" /\ GoesTo("delete") /\ UNCHANGED dog
  /\ UNCHANGED <<process, run, host, past>>

RenderBootWorld ==
  /\ main = "render" /\ Running
  /\ \/ /\ \E h \in BootFrame(host, 1) : host' = Pump(h)
        /\ result' = IF host'.frames = 1 /\ ~host'.failed /\ host'.quit
                     THEN "ok" ELSE "failed"
        /\ past' = [past EXCEPT !.shown = @ + 1]
     \/ result' = "failed" /\ UNCHANGED <<host, past>>
  /\ GoesTo("delete")
  /\ UNCHANGED <<process, run, dog>>

\* run_boot_game, the watchdog running, up to its call of GameLoop.
Framebuffer ==
  /\ main = "framebuffer" /\ Running
  /\ \/ UNCHANGED result /\ GoesTo("setup")
     \/ result' = "failed" /\ GoesTo("stop")
  /\ UNCHANGED <<process, run, host, dog, past>>

\* GameLoop up to the loop of GameLevel.
Setup ==
  /\ main = "setup" /\ Running
  /\ GoesTo("begin")
  /\ UNCHANGED <<process, result, run, host, dog, past>>

BeginTick ==
  /\ main = "begin" /\ Running
  /\ CASE host.quit -> GoesTo("leave") /\ UNCHANGED run
       [] ~host.quit /\ run.ticks >= Ticks -> Fails("leave")
       [] OTHER -> GoesTo("arm") /\ UNCHANGED run
  /\ UNCHANGED <<process, result, host, dog, past>>

\* The rest of it; the level may have lost the focus, or stopped the time.
ArmForTick ==
  /\ main = "arm" /\ Running /\ MutexFree
  /\ dog' = Arm(dog)
  /\ \E inactive \in BOOLEAN :
       /\ run' = [run EXCEPT !.steps = 0, !.presented = FALSE, !.failed = @ \/ inactive]
       /\ GoesTo(IF inactive THEN "leave" ELSE "input")
  /\ UNCHANGED <<process, result, host, past>>

\* The messages of GameLevel, and HandleGameInput.
Input ==
  /\ main = "input" /\ Running
  /\ host' = Pump(host)
  /\ GoesTo(IF host'.quit THEN "leave" ELSE "dispatch")
  /\ UNCHANGED <<process, result, run, dog, past>>

\* DispatchTick, the one reader of the step, unless the inventory stopped the time.
Dispatch ==
  /\ main = "dispatch" /\ Running
  /\ \/ /\ run' = [run EXCEPT !.steps = @ + 1]
        /\ past' = [past EXCEPT !.dispatched = @ + 1]
     \/ UNCHANGED <<run, past>>
  /\ GoesTo("frame")
  /\ UNCHANGED <<process, result, host, dog>>

\* BeginFrame to RF_BootGameEndFrame: a failure, a death or a change of level ends the run.
Frame ==
  /\ main = "frame" /\ Running
  /\ host' = Pump(host)
  /\ \/ Fails("leave") /\ UNCHANGED past
     \/ /\ IF run.presented THEN Fails("leave")
           ELSE run' = [run EXCEPT !.presented = TRUE] /\ GoesTo("end")
        /\ past' = [past EXCEPT !.shown = @ + 1]
  /\ UNCHANGED <<process, result, dog>>

\* Mutant: the time steps of a tick are not counted.
CompleteIfPresented == run.presented

Complete == run.presented /\ run.steps = 1

EndTick ==
  /\ main = "end" /\ Running
  /\ IF Complete
     THEN /\ run' = [run EXCEPT !.ticks = @ + 1]
          /\ \E h \in BootFrame(host, Ticks) : host' = Pump(h)
          /\ GoesTo("begin")
     ELSE Fails("leave") /\ UNCHANGED host
  /\ UNCHANGED <<process, result, dog, past>>

\* GameLoop returns: what was played is held against what was asked for.
Leave ==
  /\ main = "leave" /\ Running
  /\ result' = IF ~run.failed /\ run.ticks = Ticks /\ ~host.failed
                    /\ host.frames = Ticks /\ host.quit
                THEN "ok" ELSE "failed"
  /\ GoesTo("stop")
  /\ UNCHANGED <<process, run, host, dog, past>>

------------------------------------------------------------------------------
(* Other ways out *)

InGame == main \in {"common", "play", "level", "render", "framebuffer", "setup", "input",
                    "dispatch", "frame", "leave"}

\* A std::exception; the watchdog, if there is one, goes with the frame of run_boot_game.
Throw ==
  /\ InGame /\ Running
  /\ result' = "thrown"
  /\ GoesTo(IF Watched THEN "stop" ELSE "catch")
  /\ UNCHANGED <<process, run, host, dog, past>>

\* main's handler: delete CCD if there is one, and 1.
Catch ==
  /\ main = "catch" /\ Running
  /\ result' = "failed" /\ GoesTo("delete")
  /\ UNCHANGED <<process, run, host, dog, past>>

Return ==
  /\ main = "return" /\ Running
  /\ Ends("return", IF result = "ok" THEN 0 ELSE 1)
  /\ UNCHANGED <<process, main, result, run, host, dog, past>>

\* exit(n) anywhere in the game is rf_fatal_exit.
Exit ==
  /\ InGame /\ Running
  /\ GoesTo("fatal")
  /\ UNCHANGED <<process, result, run, host, dog, past>>

\* rf_fatal_exit, up to RF_HostFatalShutdown; from inside of itself it ends at once.
FatalExit ==
  /\ main = "fatal" /\ Running
  /\ IF entered THEN Ends("reentry", 1) /\ UNCHANGED <<main, entered>>
     ELSE entered' = TRUE /\ GoesTo("silence")
  /\ UNCHANGED <<stage, made, bound, result, run, host, dog, past>>

Releases(r) ==
  IF r \in bound THEN made' = Free(made, r) /\ bound' = bound \ {r}
  ELSE UNCHANGED <<made, bound>>

FreeAudio ==
  /\ main = "silence" /\ Running
  /\ Releases("audio")
  /\ GoesTo("free")
  /\ UNCHANGED <<stage, entered, result, run, host, dog, past>>

\* geEngine_Free: what it calls may come to another exit, or leave the GL context.
FreeEngine ==
  /\ main = "free" /\ Running
  /\ \/ Releases("engine") /\ GoesTo("destroy")
     \/ /\ "engine" \in bound /\ bound' = bound \ {"engine"} /\ UNCHANGED made
        /\ GoesTo("fatal") \/ GoesTo("destroy")
  /\ UNCHANGED <<stage, entered, result, run, host, dog, past>>

\* The rest: a context that is left, or a leak, is status 2.
FatalDestroy ==
  /\ main = "destroy" /\ Running
  /\ made' = HostDestroy(made)
  /\ \E leaks \in BOOLEAN :
       Ends("fatal", IF made["engine"] = "live" \/ leaks THEN 2 ELSE 1)
  /\ UNCHANGED <<stage, main, bound, entered, result, run, host, dog, past>>

------------------------------------------------------------------------------
Making == CreateWindow \/ CreateEngine \/ CreateAudio \/ InitializeCommon \/ Delete

Playing ==
  \/ Play \/ InitializeLevel \/ RenderBootWorld \/ Framebuffer \/ Setup
  \/ BeginTick \/ ArmForTick \/ Input \/ Dispatch \/ Frame \/ EndTick \/ Leave

WatchThread == WatchBegins \/ WatchWakes \/ WatchKills

Ending ==
  \/ StopWatchdog \/ Join \/ Throw \/ Catch \/ Return
  \/ Exit \/ FatalExit \/ FreeAudio \/ FreeEngine \/ FatalDestroy

Next == Making \/ Playing \/ WatchThread \/ TimePasses \/ QuitArrives \/ Ending

\* The watchdog's thread runs when it can, time passes, and a thread that ended is
\* joined; of the game's thread nothing is assumed, which is why there is a watchdog.
Spec ==
  /\ Init /\ [][Next]_vars
  /\ WF_vars(WatchThread) /\ WF_vars(TimePasses) /\ WF_vars(Join)
------------------------------------------------------------------------------
(* Properties *)

\* The watchdog ends the program only when the time it last granted has run out, and
\* never once it was told to stop: a tick that arms it in time is not killed for the
\* deadline of the one before, whatever the order in which the threads get the mutex.
KilledOnlyLate == exit.by = "watchdog" => dog.deadline = 0 /\ ~dog.stopping

\* Status 0 is not only the absence of a reported failure: a boot of stage 5 that
\* returns it has dispatched exactly Ticks time steps and completed exactly Ticks
\* frames, one of stage 4 one frame, and the quit that they queued was consumed.
SuccessExact ==
  exit.by = "return" /\ exit.code = 0 /\ stage # 0 =>
    /\ past = IF stage = 4 THEN [dispatched |-> 0, shown |-> 1]
              ELSE [dispatched |-> Ticks, shown |-> Ticks]
    /\ host.quit /\ ~host.failed

\* Whichever way the program is left, by main, an exception or a fatal exit at any
\* point of the game, nothing is freed twice, and unless the status says otherwise
\* (2, a re-entry, the watchdog's 124) nothing is left.
TornDown ==
  \A r \in Resources :
    /\ made[r] # "broken"
    /\ exit.by = "return" \/ (exit.by = "fatal" /\ exit.code = 1) => made[r] # "live"

\* A boot that hangs anywhere between the watchdog's start and its join is ended.
Bounded == dog.at # "none" ~> exit.by # "nobody" \/ dog.at = "joined"
================================================================================

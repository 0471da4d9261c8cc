# A verification of RealityFactory-Linux

TLA+ models of the parts of RealityFactory-Linux in which something can go
wrong between two steps, TLC configurations that check them on small instances,
and TLAPS proofs about ten of them for every instance.

Paths are relative to `src/`. "Upstream" is the game as written for Windows
(`upstream/`), "adapters" is the layer that carries it to Linux and SDL
(`adapters/`).

1. [The system](#1-the-system)
2. [Modules and code](#2-modules-and-code)
3. [What is checked](#3-what-is-checked)
4. [What is proved](#4-what-is-proved)
5. [Where code and comments disagree](#5-where-code-and-comments-disagree)
6. [Flaws without a run](#6-flaws-without-a-run)
7. [What is not modelled](#7-what-is-not-modelled)
8. [Plan](#8-plan)

## 1. The system

The program is one main thread and, per running timer, one timer thread.

    timer thread --TimeCounter--> game clock --dwTicks--> the components of a level
    SDL --events--> host window --> input --> menus and levels   (doors, sounds, pawns, ...)

`WinMain` (`RabidFrameworkMain.cpp`) plays the level of the command line and
then shows the menus. `CRFMenu::GameLevel` (`CMenu.cpp:5449`) is the frame loop
of a level: it handles input, lets `CCommonData::DispatchTick` deal the time that
has passed to every component in a fixed order, and renders. Components call one another
directly; what they share they share by name (triggers) or by a small number
(the index of an effect, the identifier of a timer).

| Part | State | Operations | Used by | Hard because | Correct when |
|---|---|---|---|---|---|
| Timer pool `runtime_compat.cpp:120–390` | table of 64 slots, identifier counter, two kinds of mutex, a thread per timer | `timeSetEvent`, `timeKillEvent`, the thread | game clock | several threads, slots reused, counter wraps | slots are not shared, no callback after a kill, calls return |
| Timer deadlines `runtime_compat.cpp:131–185` | a `timespec` | the thread's loop | timer pool | carries, late wake-ups | never ahead, no burst |
| Game clock `CCommonData.cpp:3881–3950` | `TimeCounter`, `LastTimePoll`, `HasFocus` | timer callback, poll, reset, focus | frame loop | shared without a lock, rounded to floats | what `DispatchTick` deals was counted and is dealt once, what the loop deals again it deals once more; none after focus is lost, no use after deletion |
| Effect manager `EffManger.cpp` | `MAX_EFF_ITEMS` slots | add, modify, pause, delete, alive, tick | some thirty callers | ticked twice a frame, indices outlive effects, pool full | an owner's effect is its own until it ends it |
| Host window `host_window.cpp` | flags, SDL's mouse mode, cursor | pump, scopes, teardown | frame loop, menus | SDL runs ahead of its events, calls fail, calls nest | mouse captured exactly in a level with focus |
| Input `input_compat.cpp` | keys, buttons, clicks, motion | events, menu frame, reset | host window, menus, levels | releases the window never sees | what counts as held is held |
| World models `CModelManager.cpp` | a time line per model | start, stop, commands, tick | doors, platforms, triggers | five ways to run, all at once | runs end where they should |
| Doors, platforms `CAutoDoors.cpp`, `CMovingPlatforms.cpp` | three flags, a count, a sound handle each | collision, trigger, tick, save, load | collisions, scripts | flags set in six places, movers linked in rings | none stuck, none noisy for ever, pairs in step |
| Triggers, logic gates, countdowns `CTriggers.cpp`, `CLogic.cpp`, `CCountDown.cpp` | flags and times by name | `GetTriggerState`, tick | everything that reacts | states and refusals read in the middle of a frame, flags reset at different moments, delays | no pulse too short, missed or taken for two; delays and countdowns end |
| Network play `CNetwork.cpp` | sockets and a group of them on the server, a table of players and a stage per program | connect, handshake, update, delete; `ServerClientCycle` every 50 ms | frame loop | packets of several kinds in one stream, numbers reused, programs that vanish | everybody has his own entry and place; the tables agree |
| Pawns `CPawnHigh.cpp` | current order, its queue of actions, a stack of interrupted orders, triggers, `TargetDisable` | `TickHigh`: the reactions in order, then one action | frame loop, scripts of the level | reactions replace or interrupt orders that arm and disarm reactions | an interrupted order comes back as it was; a deaf pawn is one that will return; no trigger is forgotten |
| Boot run `native_main.cpp`, `boot_watchdog.h` | ticks, steps, the watchdog's deadline and generation, its thread | stages, arm, stop, verdict | start-up | hangs, exceptions, quits and fatal exits at any point | success means all was played; a hang ends; nobody is killed early |
| Fatal exit `runtime_compat.cpp:37`, `host_window.cpp:128`, `CGenesisEngine.cpp:43–147` | what of window, engine and sound exists, and what of it is known to the exit | constructor, destructor, `rf_fatal_exit` | all of upstream (`exit` is a macro) | comes from anywhere, also from itself | everything freed once |
| Session `CCommonData.cpp:2552–2760`, `CMenu.cpp` | the components of a level | build, change level, save, load, shut down | everything | thirty components in order | section 8 |
| Attributes `CPersistentAttributes.cpp`, `CAttribute.cpp`, `CChange.cpp` | values and limits, what lies about to be taken, changes under way | take, modify, tick | triggers, gates, player | they start, and are started by, what they change | a change gives its amount but for the rounding; what comes again does |
| Inventory, weapons | items | | | level data decides | sections 7, 8 |
| Rendering, sound, geometry, files | | | | floating point, I/O | section 7 |

`PROJECT.json` lists every part with its sources, and every hazard with the
line where it bites and the properties that would notice it.

## 2. Modules and code

    TimerService  <== refines ==  TimerPool         TimerPacing
         ^ (the timer it uses)
    FrameClock
    EffManager  <-- EffectFrame
        ^---------- WorldModels --> ModelManager
        ^---------- LevelLogic ---------^
                        |---------> Attributes
    HostInput      NetPlay      Pawn      BootRun

### TimerService, TimerPool

`TimerService` says what a user may rely on: each timer is `unused`, then `idle`
and `firing` in turn, then `dead`; a stop waits for a call in progress. It is
the contract `FrameClock` is written against, and `TimerPool` implements it.

`TimerPool` is the code of `timeSetEvent`, `timeKillEvent` and
`PeriodicTimerMain`, cut wherever another thread can look in. The pool mutex is a
variable, because it is held across `pthread_create`; a slot's mutex
guards single accesses of `stop`, so only its life (`mutexLive`) is kept. The
steps of `timeSetEvent` are `SetReserve`, `SetCreate` or `SetCreateFails`,
`SetPublish`, `SetReturn`; of `timeKillEvent`, `KillClaim`, `KillSignal`,
`KillJoin`, `KillRetire`; of the thread, `Fire`, `Return`, `Exit`. A caller kills only
identifiers `timeSetEvent` has returned, as often as it likes. Three variables are history:
`created`, `fate` and the part of `arg` that remembers the reserved identifier.

### TimerPacing

One thread against a clock that runs: `AddMilliseconds`, `DeadlinePassed` and the
resynchronisation (`Rearm`) on `timespec`s, where seconds and milliseconds have as many
nanoseconds as the constants say. `Advance` may happen at any time, so sleep,
scheduling and callback take as long as they like. `began` is history: when each
callback began.

### FrameClock

Every access to `TimeCounter` and `HasFocus` is a step: the callback's check of the focus with
its load (`CheckFocus`), its store (`Count`), the poll's two reads
(`BeginPoll`, `FinishPoll`), the constructor that starts the timer before
it clears the counter (`StartTimer`, `ClearCounter`), `ResetClock`
(`EnterGame`), the window's messages (`FocusChange`) and deletion. A
compiler may merge the poll's reads: `FinishPoll` takes either value.
The frame ends with `LoopTicks`, which gives explosions and effects `dwTicksGoneBy` although
`DispatchTick` has done so; a frame whose inventory stops the time (`paused`) comes there
without a poll and repeats the time of the last one.
`Float` is the conversion of the count to `geFloat`; it is exact up to 2^24 ms and the
properties must hold beyond. `Junk` is the memory the object is constructed in. History:
`atLoss`, `elapsed`, `dealt` (by `DispatchTick`), `again` (by the loop), and `repeated`, the part of
`again` that such frames have dealt.

### EffManager, EffectFrame

`EffManager` has the operations on the pool as operators on a function from slots; an item's
`Data` is represented by whose effect it is. `EffectFrame` is a frame as effects
see it: the components that own effects take their turn, the manager is ticked by
`DispatchTick` and again by `GameLevel`, and an ended effect stays for a
tick (`removeNext`). The callers of `Item_Add` keep the index in one of
five ways, each represented by one owner: until deleted
(`Loops`, from `CPlayer`), until asked after once the trigger is off (`Sources`, `C3DAudioSource`),
with pauses (`Spouts`, `CSpout`), asked after in every tick (`Explosions`,
`CExplosion`), never asked after (`Projectiles`, `CWeapon`); the sixth keeps
no index (`Shot`). An effect that is not endless may end in any tick.

A projectile has a sound and up to five effects, of any types, of which some end by
themselves; they are its parts (`PartsOf`), each with an index of its own, added together
by `Fire` and deleted together by `DropAll`. Which type each part and each explosion has is the level (`kind`).
Nothing keeps a projectile's stale index from hitting the effect of somebody else that has
the same type, and the model lets it. A type is `Safe` if no projectile has an effect of it that
ends by itself; the three properties are about effects of safe types, because of others
they are false (section 6).

### HostInput

SDL's own state (`sdl`) changes when an event happens, the window's (`host`, `input`) when the
pump reaches the event in `queue`. `sync_relative_mode` is `Syncs`, with its
failures; what calls it is `PumpBegins`, `PumpEvent`, `Scope` and `Destroy`.
`ProcessMenu` and `GameLevel` nest on `stack`, each with what its scopes
restore; `WinMain` is `PlayLevel` and `ShowMenu`. Motion and
the wheel are either pending or not. The pump takes events while SDL
collects them, and callers go on when it has taken all (`Quiet`).

### ModelManager, WorldModels

`ModelManager` has the time line of one model as operators: the operations of
`CModelManager` and, in `Advance`, the branches of `ProcessModelTick` in their order.
`WorldModels` composes it with `EffManager`: doors and
platforms share their code up to details, so `mover` is either and
`setup[d].kind` says which. A handler changes a record `World` piece by piece, in
the code's order (`TickMover` is `TickTrigger`, `TickCallBack`, `TickStopped`,
`TickSound`), and is one step, for handlers run to their end on the main thread.
`TriggerNextDoor`'s recursion is a recursive function (`Follow`) over as many calls as there
can be. A frame moves all models, then
ticks doors, then platforms, like `DispatchTick`. Triggers go on and off
between frames as they please. `SaveAndLoad` loses what `SaveTo` does not write.

Not in `ModelManager`: models with parents or children, the pose, events of
motions, and what blocks a model (the choice is free).

### LevelLogic, Attributes

Triggers, gates, countdowns and what changes attributes read each other through `GetTriggerState`
(`TriggerState`); what they read of the rest of the game is `Inputs`. A frame
is four steps, in the order of `DispatchTick`, with everything in between that may hit a
trigger or change an input: `ModelsTick`; `LogicTick`, which is the effects, the triggers
(`TickTrigger` for each) and the gates (`TickGate`); `AttributesTick`, after which the pawns move; and
`TimersTick`, the countdowns and the changes of attributes. A hit is
`HandleCollision`, or `HandleTriggerEvent` when a motion or a script asks; both are `Hit`. The ticks of
one manager are one recursive function over the order of its entities (`TickAll`), with the list of the gates' states that `SetState`
makes kept aside. `SaveAndLoad`
forgets the sounds, the target of the models, and that a `ModifyAttribute` has given. `past` is history: how long ago a trigger fired,
whether an odd number of times, how long a
countdown has run.

`Attributes` has the operations on one attribute of the player, and what a tick makes of an entity
of each of the three kinds that change them: `Attribute` (called a pickup there, because it is not an
attribute), `ModifyAttribute`, `ChangeAttribute`. `LevelLogic` gives them names and triggers. A pickup is a trigger to others while it lies
there, a gate of the type `attribute` looks at what the changes do, and both may start the next change. `Hurt`
is the rest of the game. What a change has yet to give is a float in the code: `total` is rounded whenever a frame's share is added (`Float`, which may be
any function that comes within `MaxError` for each unit of time), truncated when it is given, and floats may find a time that is over not quite over (`Residue`), so that
one more frame gives nothing. `total` is counted in parts of one, `Whole` to the unit, because TLA+'s numbers are integers. A change may so
come out one short of its amount, as in the code, and `CountsExactly` bounds how far off it is.

### NetPlay

A session is a host and joiners. Every connection is a process of its own, for a program that joins
again connects again; the host's connection to itself is one of them. `stage` is where a
program is in `clientrun`, `clientready` and `clientstage`; a joiner goes from `Connect` through
`GetAcceptance`, `AcceptedStage`, `PlayerSetup` and `OtherPlayers` to `JoinerCycle`. The host's
`ServerClientCycle` is `Begin` (accept one connection, ask which sockets are readable), a `Read...`
for each of them, `Broadcast`, and then its own part as a client, `HostCycle`, which works on
the same table `player` as the server. Sockets keep order and lose nothing, as HawkNL's reliable ones do; what
is lost is a program: `Disappear` closes its socket without a word, `Timeout` gives up waiting,
`ShutdownLevel` ends a level under a session, `AcceptError` is a socket that fails. `MaxFaults` bounds
these. `NewSocket` is HawkNL's choice of a number, as `CNetwork.cpp` uses it. History: `joined` (the server has read the player's
description), `wiped` (the level was shut down under the session), `clean` (the joiner got its list when the host had read all).

### Pawn

`TickHigh` makes passes over the same stages until nothing asks for another. `pc` is the
stage: `Waiting` and `Triggered` (a delayed and a new trigger), `Point`, `Target`, `Dist`,
`Hurts`, the order's method (`Run`), then the current action (`Finish` to `LowLevel`). What starts another order does it in
one of three ways, which are the operators `Take` (replace it: `RunOrder`), `Interrupt` (`Push`, and the new order) and
`Resume` (`Pop`). `cur` is what `Push` saves. A script is data: what running an order arms (`sets`) and the actions it
queues (`acts`), by what they do to the order. `ScriptAssumption` says which scripts are
considered: an order that is written to be called (it ends in Return) is entered by pain, in the way of an obstacle,
or from another such order; otherwise Return has nothing to return to, and the game hangs (section 6).
`ChangeHealth` is the rest of the game. `answer` is history: what has become in this pass of the order a trigger has given (`taken`, then `run`, or `overruled` by
another reaction before it could be run). Left out: what actions do to the body and how long they
take (they may end at any frame), sounds, `PSOUND` triggers, and the low-level scripts but for the order they give back.

### BootRun

`main` is where the main thread is between `WinMain` and the end of the process, `dog` the
watchdog with its thread. `Arm` is a step under the mutex; the thread's wait is `WatchBegins` and
`WatchWakes`, whose predicate sees more than the time, and `_exit` comes later (`WatchKills`), when the main thread may have gone
on. At each step of the game the main thread may stop for ever, throw (`Throw`), call the macro
`exit` (`Exit`, then `FatalExit`, `FreeAudio`, `FreeEngine`, `FatalDestroy`), or find an `SDL_QUIT` of somebody else
(`QuitArrives`). `BeginTick` to `EndTick` are the hooks of `native_main.cpp` around a frame of `GameLevel`,
`Leave` is the verdict. `made` and `bound` are window, engine and sound, and which of them the fatal exit knows of;
what is freed twice becomes `"broken"`. `past` is history: time steps dispatched and frames completed.

## 3. What is checked

Ten runs pass; the two that end in a violation are section 5. Each property of a
passing run is violated by at least one mutant, which is an operator of the module,
marked as such, that changes one definition as a plausible bug would.

| Run | Instance | Shows |
|---|---|---|
| `timer_pool` | 2 slots, 2 callers, identifiers 1–4, 4 creations, with fairness | `MutexLifetime`, `SlotExclusive`, `ReturnsOwnId`, `NoTimerLost`, `ImplementsService`, `CallsReturn` |
| `timer_pacing` | 2 ms per second, 2 ns per ms, periods 1–3 ms, 15 ns | `NeverAhead`, `NoBurst` |
| `frame_clock` | 6 counting callbacks, 8 ms dealt by `DispatchTick` and by the loop, memory 0 or 3, floats exact to 4 | `NoUseAfterFree`, `OneTickAfterFocusLost`, `NoTimeInvented` |
| `effects` | 2 slots, one owner of each kind, a projectile with 2 effects, 3 levels | `EndlessOwned`, `ExplosionMovesOwn`, `RemovedByOwner` |
| `host_input` | Escape, one button, 2 pending events, nesting 3, capture may fail | `CapturedInGameOnly`, `CapturedWhenPlaying`, `HeldIsDown` |
| `world_models` | 212 levels of 2 movers that may be linked and a third, 1 trigger, motion of length 2, pool of 2 | `SoundsOwned`, `NeverStuck`, `DoubleDoors`, `OneShotOnce` |
| `level_logic` | 9 levels of 2 triggers, 2 gates, 1 countdown, 1 pickup, 1 modification and 1 change of 2 attributes, 1 input; frames of 1 and 2, totals rounded to sixths, pool of 2 | `SoundsOwned`, `FlipFlopExact`, `CountsExactly`, `Paced`, `BecomesReady`, `DelaySettles` |
| `netplay` | a host, 2 joiners, 4 places, one who moves once, one fault | `OwnPlayerKept`, `RoomForEverybody`, `HandshakeExact`, `HostKnowsMembers`, `JoinersAgree` |
| `pawn_orders` | a script of 8 orders, 3 triggers, health 2, delays of 1, 2 orders on the stack | `DeafMeansInterrupted`, `ReturnFindsCaller`, `InterruptedKept`, `TriggerAnswered` |
| `boot_run` | stages 0, 4 and 5; 3 ticks; 3 units of time for the setup, 2 for a tick | `KilledOnlyLate`, `SuccessExact`, `TornDown`, `Bounded` |

That variables keep their types is not a question of a run of its own: types are proved (section 4) for
`TimerPool`, `TimerPacing`, `FrameClock`, `EffectFrame`, `HostInput`, `WorldModels`, `LevelLogic`, `NetPlay`, `Pawn` and `BootRun`, as a part of the
inductive invariants.

**The bounds, and why they are enough.**

* *Timer pool.* Two slots of 64: a slot is only ever compared with the others
  by the two linear searches, and with two callers two slots are free, full, and half
  full. Two callers race each other in each pair of steps; a third would
  wait for the same mutex. Four creations, as many as there are identifiers, reuse a slot
  twice and bring the counter round, but no identifier is given out again: `TimerService` promises that only
  then (`NoWrap`, the code's boundary of 2^32 creations). The invariants that do not speak of identifiers are proved
  across the wrap. There is no symmetry, because liveness is checked in the same run.
* *Pacing.* Seconds of 4 ns make a carry out of every second or fourth
  addition; periods below, at and above a second; the start at 0 and just
  before a carry. 15 ns are several periods of each length, with every
  lateness. The proofs lift every bound.
* *Clock.* Six callbacks are two frames with callbacks between any two steps;
  the float rounds from 5 ms on (there are two significant bits). `Preempted` is
  FALSE: the constructor is not held up for the 1 ms between starting the timer
  and clearing the counter. With TRUE, `NoTimeInvented` fails, see section 6.
* *Effects.* With two slots for five owners and passing sounds the pool is full most of the
  time, which is when indices of -1 and reused slots occur; owners of a kind do not know of each
  other, so one of each meets all the others. The projectile has two effects, of
  which at most one ends by itself: then one index may be stale and one is not, and they are deleted together. In the three levels
  what ends is a spray, as the spout's and the explosion's effects are, then a sound, then nothing. So each property has a level in which stale
  indices do harm to effects it does not speak of and must do none to those it does. (Without `Safe`, TLC finds each of the three violated.)
* *Host.* Two pending events make SDL's state differ from the window's in
  every flag; three nested calls are menu, level and a menu in between, and
  what the innermost restores differs from what the outermost does. Only enabling
  the capture may fail in this run (`CanFail`): when a release fails, which the code tries again in
  each pump, the mouse stays captured, and no property about that can hold.
* *World models.* Two movers linked to each other are the shortest ring; a third that ticks between the two, and may be linked to
  one of them, sees what the first has done and the second has not. In most levels it is a door that nothing moves. The levels pair eleven
  kinds of doors and five of platforms, chosen so that each setting is on and off with
  and without a trigger; a motion of length 2 has a beginning, a middle and an end; a time
  list of two of `TIME_LIST_MAX` = 20 places makes index overruns happen. A pool of two
  sounds is full when two movers sound, or refuses one when a sound rings out.
* *Level logic.* Every type of gate occurs, and so do triggers that are touched, shot, used and
  asked for by scripts, that depend on another trigger, a gate and a countdown. Frames of 1 and
  2 against `TimeOn` of 1 and 3 and a motion of 2: the pulse ends before the model,
  after it, or with it, in one frame or in several, and never exactly on time in some. Two gates that read
  each other are the smallest instance in which their order could matter. A change of 2 in 3 units of time, and one of 50 % of up
  to 5, give a part of one in each frame and end within a frame; the total is cut to multiples of six parts, which is less than `MaxError` = 5 per unit of time, so that
  a change comes out one short, and with the exact bound instead the run fails; a second attribute is what a pickup gives to when the first is full.
* *Network.* Two joiners race each other and the host in every stage of the handshake; one of them
  moves, which is enough for an update to meet an entry, a deletion or a list. One fault at any moment: a second one
  meets the first only through the tables, which the proofs cover for any number. Four places against three
  connections let a number be given out again while the deletion of its last owner is under way.
* *Pawn.* Two orders on the stack are pain above an obstacle and an obstacle above pain. Three triggers, so that a
  middle entry of the list is removed. Health 2 lets the pawn be hurt and live, and die. The script has
  every kind of action that acts on orders. Orders of triggers are overruled by a target, by the player and by pain.
* *Boot.* A first, a middle and a last tick: the one is armed over the setup, the next over a tick, the last one's
  frame queues the quit. Two and three units of time are told apart, and a unit passes between any two steps. The proofs lift every bound.

**Deadlock** is not checked in `timer_pool`, `timer_pacing`, `frame_clock`, `host_input`, `netplay`,
`pawn_orders` and `boot_run`: there the program or the session ends, a pawn dies or is removed, or the bound is reached.
`effects`, `world_models` and `level_logic` run for ever.

**Fairness** is assumed in four passing runs and one that fails.

* `level_logic`: the frame loop goes on (`Fairness`). Each of its ticks is possible whenever it is its turn, so this is
  weak fairness of the ticks, said of `phase`. Nobody is obliged to hit a trigger or to change an input.
* `timer_pool`: weak throughout. A call of `timeSetEvent` or `timeKillEvent` that has begun goes on (the
  main thread is scheduled), and each timer thread wakes, calls back, returns and ends. Nobody is obliged to
  begin a call. Weak fairness is enough for `KillRetire`, which waits for the
  pool mutex, because the number of creations is bounded: the mutex is in the end not
  taken again. A mutex that is fair is not assumed otherwise.
* `pawn_orders`: weak fairness of `TickHigh`, for each frame ticks the pawn, and strong fairness of `Ends`: an action that
  is given its time again and again comes to its end. A script whose actions never end answers nothing.
* `boot_run`: the watchdog's thread runs when it can, time passes, a join of a thread that has ended returns. Of the main thread
  nothing is assumed: that it may stop anywhere is what the watchdog is for.
* `net_disappeared` (section 5): the timer of each program keeps firing, so that every program
  makes its cycles. What fails there fails although the server looks again and again.

## 4. What is proved

`tlapm` checks the eight `_proofs` modules; every theorem is about the same
definitions TLC runs, for all values of the constants that satisfy the named
assumptions.

**`Timers_proofs`, the pool.** *Assumption:* slots are natural numbers, `None` is none of
them, there are at least two identifiers. The table, the callers and the bound may be of any size, the identifiers of any
width.

* `TypeCorrect` from `TypeInv`.
* `SlotsExclusive`, `MutexesLive`, `TimersNotLost` from `SlotInv`. The properties are not inductive:
  that a killer owns its slot depends on `stopping` keeping others out, on the
  creator holding the pool mutex, and on where the thread of the slot is. `SlotInv` therefore
  says what a slot being worked on looks like (`Ownership`) and what
  a slot looks like in each stage of its life (`Lifecycle`).
* `IdsUnique`, `OwnIdReturned`, `QuietAfterKills` from `IdInv`, as long as the counter has not
  come round (`NoWrap`): identifiers in the table are below `nextId` and
  distinct (`Numbering`), nobody knows an identifier before it is returned (`Secrecy`, which is why
  reading `timer->id` without the lock is safe), and `fate` agrees with the
  table (`Fates`).
* `Refinement`: if fewer timers are created than there are identifiers, the pool
  implements `TimerService`. Each step maps to a step of one timer or to none
  (`StatusStep`).

**`Timers_proofs`, the pacing.** *Assumption:* there is at least one nanosecond to a millisecond and a
millisecond to a second. Lemmas say what the arithmetic on timespecs does (`OfNsCorrect`,
`PassedCorrect`, `AddCorrect`, `RearmCorrect`): the carry is right for
every period, and comparison is comparison of nanoseconds. From `PacingInv`, which relates the deadline
to the last callback, follow `Normalised`, `NotAhead` and `BurstFree`.

**`Timers_proofs`, the clock.** *Assumption:* rounding is monotone. `ClockTypeCorrect` and
`NoCallbackAfterDelete` from `ClockInv`, whatever the interleaving: the life of the object, the
timer and the callback go together (`Lives`), and the counter is never behind a time somebody has read
(`Ordered`). `FocusStopsClock` and `TimeNotInvented` from `StepInv`, assuming that the
constructor is not held up (`Preempted` = FALSE): the callback counts on from the present
value (`InStep`), at most one more after focus is lost (`AtMostOne`), what `DispatchTick` has dealt and what
waits to be polled is at most what was counted in the game (`Accounted`), and what the loop has dealt is at most what
`DispatchTick` has, but for the frames that polled nothing (`OnceMore`). `Accounted`
holds for *every* monotone rounding: the errors of single polls do not add up.

**`EffectFrame_proofs`.** `EndlessAlwaysOwned`, `ExplosionsMoveOwn`, `OwnersRemove`, for any number of owners and slots, and for
any number of projectiles with any number of effects of any types. *Assumptions:* none but those on the constants: what the projectiles of a level may spoil is a part of the
properties (`Safe`) and not assumed away. The invariant says that those whose effects are endless and of a safe type have the slot their index names, and
no slot is theirs otherwise (`KeptInv`), of what type the effects of each owner are (`Sorted`), and that whoever is attached to an effect that has ended has still to be asked before the
slot is swept (`ExplosionInv`, which is where the order of the components in a frame comes in). The heart of it is `SafeKeeps`: whoever deletes
without asking, by an index of a safe type, is one whose own effect cannot have ended, so the slot is still its own.

**`HostInput_proofs`.** For any keys, buttons, depth of nesting and number of pending events: `CapturedInGame`, `PlayingCaptures`,
`HeldKeysAreDown`. None of the three is inductive, because the window's flags lag behind SDL's. The invariant says that where they
disagree an event in the queue will put them right (`Coming`, `LetGo`), that only the innermost
call can be a level (`Nesting`), and what mode the mouse is in by the flags (`Mouse`).

**`NetPlay_proofs`.** For any number of joiners, places, moves and faults: `OwnPlayerAlwaysKept`, `RoomAlways`, `HandshakeAlwaysExact`. What has to be shown is
that a deletion under way is never for its reader (`NoOwnDelete`): sockets and numbers belong
together one to one (`Sockets`, `Numbers`), the host accepts itself first (`Backlog`), and the deletion a
program is sent is that of a number it does not have (`Sessions`). The handshake has an invariant of its own, proved from
that one: what is under way is counted (`Count`, of which the lemmas say what writing and reading do to it), and at each stage of
a program (`Shaking`) there is nothing, or one PLAYERINFO on the way there, or what is left of the four packets on the way back.

`HostAlwaysKnowsMembers` and `JoinersAlwaysAgree` are about what a program will know when it has read all that is under way to it.
That is computed packet by packet (`End`, for a program in whatever stage, and `Knows`, for one in the game); the lemmas `EndTail` and
`EndLast` say that to read one packet, or to be sent one more, is to take one step of that computation. The first theorem follows from `KInv`: the
host's numbers in the end are those of the members (`WillKnowMembers`), whatever packets there are, because a table is never full (`Numbers`) and because
who enters early stays or is entered again (`KnowsMore`). For the second, whoever joins gets a list of
what the host knows, and from then on both are sent the same (`BothRead`), so the two differ only in what each knows of itself (`Agree`). The one step at
which the host is ahead of what it will read is that the server enters a new player in the host's table at once, when
updates and the deletion of the last owner of the number may still be under way: `FreshAdd` says that this makes no difference in the end. It needs to be
known whose poses an update has (`UpdatesKnown`), that a joiner knows itself only before the handshake (`OwnOnly`), and introduces itself once, first of all
(`InfoFirst`).

**`WorldModels_proofs`.** *Assumption:* every mover ticks once a frame, and is linked to a mover if at all. Any number of movers linked in any way,
any level, motions of any length, a pool of any size: `OwnSounds`, `NoneStuck`, `OneShotsOnce`, `DoorsInStep`.
The handlers are proved one after another to keep `Good`, which says of each mover that a handle it has is that of its own looping sound and that its
model moves while it sounds (`Owns`), that a trigger it waits for will be looked at (`Rearmed`), what its model is
like when it is at rest (`AtRest`), and that one of a kind that runs once will not run again (`Spent`). The
calls of `TriggerNextDoor` and the ticks of a frame are recursive functions; what each call keeps they all keep, which is `Induct`.
`DoorsInStep` holds between frames only. Within a frame a door that has ticked is ahead of the other by exactly what the other's tick
will do (`Ahead`), and a third mover between them changes neither, or both at once (`Stage`).

**`LevelLogic_proofs`.** *Assumptions:* each entity ticks once a frame (`OrderAssumption`), a name belongs to one entity
(`KindsAssumption`), a frame takes some time and there is something that may make a sound (`LogicAssumption`). Levels are any in which a countdown that has a
sound repeats it and a pickup does not (`Sounds`), as the code has it. Any number of entities, gates that look at each other in any network, a pool of any size, frames and motions of any
length: `SoundsAlwaysOwned`, `AlwaysCountsExactly`, `FlipFlopsAlwaysExact`, `TriggersKeepPace`, all from `AlwaysInvariant` (`IInv`, which TLC has also checked on the
instance of `level_logic`). None of the four is inductive.

* *Sounds* (`Heard`). Handles and the pool agree (`Tuned`), and who has a handle is a countdown that counts or a trigger that animates (`Sings`). That the trigger's
  model moves is true only of the triggers that have ticked since the models did: the model may have come to its end in this frame. The invariant of a frame is therefore
  indexed by who has ticked, and the claim about a round of ticks is proved entity by entity (`RoundKeeps`, from `Induct`).
* *Pace* (`PaceOf`). What `time` says of how long ago the trigger fired depends on where in its cycle it is; a trigger that is not hit has
  never fired or its cycle is over, and a one-shot that has fired stays in its animation.
* *Flip-flops* (`FlipOf`). What the gate has not yet seen is a trigger that has come on and has not ticked yet (its `time` is 0), and a trigger that is off has been seen
  off. Both rest on the order within `LogicTick`, triggers first, and on a pulse that is longer than any frame, so that a trigger that has just come on is still on when the gate
  looks. Gates that tick before it in the same round do not matter.
* *Countdowns and changes* (`CountOf`, `Due`). `total` is what is due less what was given, but for the rounding of the frames so far (`SummedFacts`), and less than a whole; that dividing with
  truncation leaves it so, for either sign, is `RunChangeDue`. It holds for every rounding that comes within `MaxError` for each unit of time, and for a residue of any kind.

**`Pawn_proofs`.** For every script that satisfies `ScriptAssumption`, and any depth: `TypeCorrect`, `DeafInterrupted`, `CallerFound`,
`InterruptedOrdersKept`. The strengthening (`Bottom`) is that what lies at the bottom of the stack is an order not written to be
called, and that nothing a replacing order is taken from holds one that is.

**`BootRun_proofs`.** For any number of ticks and any times: `KillsOnlyLate`, `AllTornDown`, `SuccessIsExact`. The three
invariants are about three parts of the state. A wait whose generation is the present one is for the present deadline, and the thread that is about to
kill holds the mutex (`DogInv`). What exists is a function of the place where the main thread is (`MadeInv`); so are the
numbers of steps, frames and ticks (`PlayInv`): after a tick they are equal, within one they differ by what the stage has done.

**Only model-checked:** liveness (`CallsReturn`, `BecomesReady`, `DelaySettles`, `TriggerAnswered`, `Bounded`), since fairness is outside
the prover's reach. Every other property of a run that passes is proved. Induction over data is done by hand. The library's induction theorems take
an operator as a parameter, which the provers cannot instantiate; its theorem that a well-founded relation has least elements (`WFMin`) takes none, and
from it follows that a set with 0 and the successors of its members has all natural numbers (`Induct`). A claim about a recursive function becomes one about the set
of those n for which it holds. No module uses a `RECURSIVE` operator.

## 5. Where code and comments disagree

Each of these runs checks one sentence of the repository and ends in its violation.

| Run | The code | The sentence |
|---|---|---|
| `clock_lost_tick` (`CCommonData.cpp:3928`) | the poll reads the counter twice; a callback in between is dealt to nobody | "Get the amount of time passed since the last call" (3912) |
| `net_disappeared` (`CNetwork.cpp:322`) | `ReadBuffer` assigns the outcome of a comparison (`readlen = nlRead(...) > 0`) and so never returns `NL_INVALID`: the branch at 469 that removes a joiner whose connection has ended is dead, and the joiner keeps its place | "delete client if they dissappear" (473) |

`PROJECT.json` has the quotations.

## 6. Flaws without a run

Met while reading; the models abstract from them, or allow them.

* *Clock.* The constructor starts the timer before it clears the counter
  (`CCommonData.cpp:236`): a callback of an old value may be stored after the clearing.
  Every frame deals explosions and effects its time twice (`CMenu.cpp:5564` after `CCommonData.cpp:2482`, 2510), and a
  frame with an inventory that stops the time deals them that of the last poll, although nothing was polled.
  Such an inventory is followed by one tick as long as it was open (5544):
  `ResetClock` is called only when a level begins. `Spin` waits in vain while the window has no focus (3983).
  After 2^32 timers `NextTimerId` does not ask whether the next identifier is free (`runtime_compat.cpp:335`).
* *Effects.* The manager is ticked twice in a frame (`CMenu.cpp:5564`) although
  `DispatchTick` ticks it (`CCommonData.cpp:2427`). `CStaticEntity.cpp:369` asks
  for a sound that ended two effect ticks ago and may be told about another. `Item_Add` keeps the
  `Pause` of the slot's last effect (`EffManger.cpp:348`). `CSpout.cpp:241`, 258 and
  286 use the index -1. `UnAttach` misses explosions still delayed (`CExplosion.cpp:437`).
  A projectile moves and deletes up to five effects by the index it once got and never asks whether they are still its own
  (`CWeapon.cpp:396–470`); the sound is endless and stays its own. When an effect has ended by itself and its slot was taken again for an effect of the same type, the
  projectile moves and deletes that one: the spray of a spout, which then keeps an index that is not its own, the effect an
  explosion is attached to, whose slot is taken again before it asks, or another projectile's. `EndlessOwned`, `ExplosionMovesOwn` and `RemovedByOwner` are false
  of such types and say so (`Safe`).
* *Input.* A shot fired in a level is a click in the menu that follows
  (`input_compat.cpp:162`, nothing resets `pressed` and `released`); a second
  click while one is shown is lost (163). Escape that closes an inventory
  gives up the capture (`host_window.cpp:290`).
* *World models.* A non-looping list runs into its terminator and beyond the end of `TimeList`
  (`CModelManager.cpp:1091`); backwards, the terminator is looked for after scaling (1232). A script's target
  outlives its run and is not saved (1046). A door that a
  script moves loses its looping sound to the next one (`CAutoDoors.cpp:303`), and
  restarts a sound that does not loop in every frame (561). Events of a motion are lost while it is blocked, and
  its time runs on (1365, against "set the current time back to the previous time").
  A trigger that is on stops a running platform whether `bRunWhileTrig` says so or not (`CMovingPlatforms.cpp:596`).
  A script that names no door works on a stray pointer (`CLevelController.cpp:123`).
  An automatic platform that runs once and has a trigger runs twice: the trigger stops it, whatever it is for, and a frame
  later starts it again (`CMovingPlatforms.cpp:592`, against "runs ONLY ONCE", `GameEntityDataTypes.h:312`); `OneShotOnce`
  leaves it out. A third door that is linked to one of two that are linked to each other can start that one between their
  ticks (`CAutoDoors.cpp:432`), and the pair is out of step from then on; `DoubleDoors` leaves such pairs out.
* *Triggers.* `HandleCollision` leaks its list when the trigger is for players only (`CTriggers.cpp:154`).
  A pulse that is not longer than a frame is seen by no gate (`CTriggers.cpp:385`), which is why `FlipFlopExact` asks for more.
* *Gates and countdowns.* Has Attribute asks for more than `Amount` (`CLogic.cpp:179`), which is documented
  as the minimum (`GameEntityDataTypes.h:2313`). A hold goes off for a frame
  and on again while its input stays on (`CLogic.cpp:160`). A countdown does not see its trigger
  rise while it counts or is stopped, and starts late if the trigger is still on then (`CCountDown.cpp:93`); loaded while it
  counts, it goes on without its sound.
* *Network.* A joiner that vanishes or times out stays in the tables of the others, as a body that does not move; its number may then be
  given to another under the same entry. A joiner that gives up waiting leaves its socket open, and the host keeps
  a place for it. The host accepts one connection and reads one packet of each socket in a cycle, so what piles up is never
  caught up with. `ShutdownLevel` in a session forgets the program's own number, and the next cycle uses `Player[-1]`. A host that quits leaves the
  sockets of its group open. That HawkNL reads a part of a packet is not looked at.
* *Pawns.* The order of a trigger can be lost before it is run: a point, a target or the player that is noticed in the same pass takes its place
  (taken at 2909, then 3070, 3226, 3255), or pain interrupts it, and then it comes back with an empty queue and is not run, for `Push` does not save `RunOrder` (3288). The trigger
  is off the list by then. `TriggerAnswered` counts this as overruled. `NewPath` to a point without an order forgets the name of the
  present one (2447), which `RestartOrder` would then look for. A script point is looked for whether the pawn is deaf or not, unlike every other reaction. Dying keeps the stack, and a pawn that was deaf
  dies deaf. Pain without an action to carry on with dereferences a null `Index` (`CPawnHigh.cpp:3425`).
  `RemoveTriggerStack` of a middle entry leaves the `prev` of its successor (1462). Return with an empty stack never
  comes back (3827), nor does a blend without a name. `DELTRIGGERORDER` passes the wrong name (489). A trigger's delay is counted once in each pass over
  the stages and not once in a frame. An order in the way of an obstacle that interrupts one of pain lets pain interrupt again. A
  pawn without a body cannot be asked for its inventory. `SaveTo` and `RestoreFrom` of pawns have empty loops (`CPawn.cpp:1746`, 1777).
* *Weapons and inventory.* `Holster` without a weapon in hand leaves a current weapon of 40, one beyond the table. `dropflag` stays set when the dropped weapon has no
  attribute. Changing the view resets `AttackTime`, and so does `Use`, which skips the test of the magazine. Reloading with the attack key down
  fires during the reload. `ReSetWeapon` uses `CurrentWeapon` after it has overwritten it. The display of the ammunition
  indexes the table of weapons with -1 or 40 when no weapon is held. The default weapon, or one chosen while another is being
  dropped, leaves `dropflag` set, and the next holster drops the wrong weapon (`CWeapon.cpp:1139`, 1750). `SaveTo` writes ten of forty slots
  (1290). With attributes kept at death, or after dying in a loaded game, the weapon in hand may be one that the
  inventory lacks (`CCommonData.cpp:4050`, 4100). `LoadInventoryIni` does not come back from a section without an end.
  `CPersistentAttributes::SaveTo` writes a pointer. A `ChangeAttribute` that takes no time divides by zero.
  `ModifyAttribute` is not saved: after loading, one whose trigger is on gives its amount again. `SetHighLimit` does not
  clamp (`CPersistentAttributes.cpp:98`): a power-up of a negative amount leaves the value above its limit until it is next changed.
* *Boot.* Nothing watches the teardown that follows the join of the watchdog, as `MODIFICATIONS.md:27` says.

## 7. What is not modelled

* *Out of reach:* collisions, actors' poses, cameras, particles and rendering are
  floating-point geometry. Their outcomes are inputs: whether a model is
  blocked, whether an effect ends, who touches a door or a trigger, whom a pawn sees.
* *Data of a level:* level scripts are programs of the level's author, of which only
  the commands to doors and platforms are actions; a pawn's script is data of `Pawn`.
* *Pure I/O and tables:* files without regard to case, key codes, entity schema, sound
  buffers, menus' pages, the stages 1 to 3 of the boot run and the arguments of the command line.
* *Third party:* HawkNL, Simkin, Qx, hashtable, and Genesis3D, which is not in the repository.
* *Windows only:* streamed sound and its thread.
* *Planned:* section 8.

## 8. Plan

1. *Who reads whom*: `LevelLogic` and `WorldModels` in one frame, the triggers of the one being the
   states of the other.
2. *Session*: building, changing, saving, loading and shutting down a level, with
   the clock and the host of the present modules in it.
3. *Inventory* and *weapons*: the view and the weapon to return to, ammunition, what is kept over death and loading.

Theorems next: for the composition of 1, that `FlipFlopExact` and `DoubleDoors` survive it, from the invariants of the two modules, which speak of disjoint
parts of the state except for the pool of effects. A proof that `NetPlay` implements a session of which only the table of each program is known would restate
`JoinersAgree` as a refinement.
The properties of new modules join existing runs where the modules compose, so that there stays one run for
each question.

----------------------------- MODULE WorldModels -----------------------------
(***************************************************************************)
(* Doors (upstream/CAutoDoors.cpp) and moving platforms                    *)
(* (upstream/CMovingPlatforms.cpp), both called movers here: what starts   *)
(* them, what their models do then (ModelManager), the sound they make     *)
(* (EffManager), and the links by which one starts the next.               *)
(***************************************************************************)
EXTENDS ModelManager, EffManager

CONSTANTS
  Movers,    \* the movers in the order of their ticks, doors first
  Setups,    \* the level designer's choices: functions from movers to Settings
  Next2,     \* NextToTrigger of a mover that is linked
  Triggers,  \* the triggers movers may depend on
  Steps,     \* how much time may pass in a frame
  Targets    \* the times scripts send a mover to, negative to stop it

Names == {Movers[i] : i \in DOMAIN Movers}

\* kind: "door" or "platform"; sound: the sound made while moving, "none", "once" or
\* "loop"; trigger: TriggerName or "none"; whileTrig: bRunWhileTrig; auto: bAutoStart;
\* linked: NextToTrigger is set; scripted: a script of the level sends it places.
Settings == [kind : {"door", "platform"}, noCollide : BOOLEAN, shoot : BOOLEAN,
             useKey : BOOLEAN, playerOnly : BOOLEAN, oneShot : BOOLEAN,
             whileTrig : BOOLEAN, auto : BOOLEAN, linked : BOOLEAN, scripted : BOOLEAN,
             trigger : Triggers \cup {"none"}, sound : {"none", "once", "loop"},
             motion : Motions]

\* Every mover ticks once a frame, and is linked to a mover if it is linked at all.
ASSUME WorldAssumption ==
  /\ Movers \in Seq(Names) \ {<<>>} /\ "none" \notin Names
  /\ \A i, j \in DOMAIN Movers : Movers[i] = Movers[j] => i = j
  /\ Setups \subseteq [Names -> Settings]
  /\ Next2 \in [Names -> Names]
  /\ EffTypes = {"snd"}
  /\ Datas = [owner : Names, loop : BOOLEAN]
  /\ Steps \subseteq Nat \ {0} /\ Targets \subseteq Int
  /\ "none" \notin Triggers

VARIABLES
  setup,   \* the level
  mover,   \* bInAnimation, bTrigger, CallBackCount and SoundHandle of each mover
  model,   \* the model of each mover
  Item,    \* the pool of effects
  on       \* the triggers that are on

vars == <<setup, mover, model, Item, on>>

\* What the handlers work on; they change it piece by piece.
World == [mover |-> mover, model |-> model, Item |-> Item]

Becomes(w) == mover' = w.mover /\ model' = w.model /\ Item' = w.Item

\* No trigger, or a trigger that is on.
StateOf(d) == setup[d].trigger \in on \cup {"none"}

------------------------------------------------------------------------------
(* What the handlers have in common *)

\* PlaySound: a looping sound is kept, of any other the handle is forgotten.
PlaySound(w, d) ==
  LET loop == setup[d].sound = "loop"
      i    == CHOOSE j \in Slots \cup {-1} : IsFirstFree(w.Item, j)
  IN  IF setup[d].sound = "none" THEN [w EXCEPT !.mover[d].handle = -1]
      ELSE [w EXCEPT !.Item = ItemAdd(@, i, "snd", [owner |-> d, loop |-> loop]),
                     !.mover[d].handle = IF loop THEN i ELSE -1]

\* Mutant: the handle of the deleted sound is kept.
SilenceKeepsHandle(w, d) ==
  IF w.mover[d].handle = -1 THEN w
  ELSE [w EXCEPT !.Item = ItemDelete(@, "snd", w.mover[d].handle)]

Silence(w, d) ==
  IF w.mover[d].handle = -1 THEN w
  ELSE [w EXCEPT !.Item = ItemDelete(@, "snd", w.mover[d].handle),
                 !.mover[d].handle = -1]

\* RunWhileTrig, RunFromList, RunTimed and RunToNextEvent go on where they stopped.
GoesOn(d) ==
  setup[d].whileTrig \/ setup[d].motion.stops # <<>> \/ setup[d].motion.each # Untimed

Idle(w, d) == ~w.mover[d].inAnimation /\ ~w.mover[d].trigger

Activate(w, d) ==
  PlaySound([w EXCEPT !.mover[d].trigger = TRUE, !.mover[d].inAnimation = TRUE,
                      !.model[d] = IF GoesOn(d) /\ w.model[d].hasMoved
                                   THEN ReStart(@) ELSE Start(@)], d)

Untrigger(w, d) ==
  Silence([w EXCEPT !.mover[d].trigger = FALSE, !.model[d] = Stop(@)], d)

\* Whether TriggerNextDoor or TriggerNextPlatform starts d.
CanFollow(w, d, shot) == StateOf(d) /\ (shot => setup[d].shoot) /\ Idle(w, d)

\* The mover that d starts next, "none" when there is none.
Linked(d) ==
  IF setup[d].linked /\ setup[Next2[d]].kind = setup[d].kind THEN Next2[d] ELSE "none"

\* One call of TriggerNextDoor: "at" is the mover it is for, and then that of the call
\* it makes itself.
Call(s, shot) ==
  IF s.at # "none" /\ CanFollow(s.w, s.at, shot)
  THEN [w |-> Activate(s.w, s.at), at |-> Linked(s.at)]
  ELSE [s EXCEPT !.at = "none"]

\* Every call but the last starts a mover that was idle, so there are no more calls
\* than movers and one.
Follow(w, d, shot) ==
  LET after[n \in 0 .. Len(Movers) + 1] ==
        IF n = 0 THEN [w |-> w, at |-> Linked(d)] ELSE Call(after[n - 1], shot)
  IN  after[Len(Movers) + 1]

TriggerNext(w, d, shot) == Follow(w, d, shot).w

------------------------------------------------------------------------------
(* HandleCollision, of doors and of platforms *)

\* The mover reacts at all to being shot, used or touched, by the player or another.
Reacts(d, shot, use, player) ==
  /\ setup[d].playerOnly => player
  /\ use => setup[d].useKey
  /\ shot = setup[d].shoot
  /\ setup[d].noCollide => use

\* Mutant: the mover that is hit is the only one to start.
CollisionAlone(w, d, shot) ==
  IF ~StateOf(d) THEN [w EXCEPT !.mover[d].callBack = 2]
  ELSE IF Idle(w, d) THEN Activate(w, d) ELSE w

Collision(w, d, shot) ==
  IF ~StateOf(d) THEN [w EXCEPT !.mover[d].callBack = 2]
  ELSE TriggerNext(IF Idle(w, d) THEN Activate(w, d) ELSE w, d, shot)

HandleCollision(d, shot, use, player) ==
  /\ Reacts(d, shot, use, player)
  /\ shot => ~use /\ ~player
  /\ Becomes(Collision(World, d, shot))
  /\ UNCHANGED <<setup, on>>

------------------------------------------------------------------------------
(* A frame: the models move, then doors and platforms tick *)

\* The trigger is on.  A platform that it does not start is stopped, whatever the
\* reason; a door goes on.
Triggered(w, d) ==
  LET door   == setup[d].kind = "door"
      starts == Idle(w, d) /\ setup[d].noCollide /\ (door => ~setup[d].useKey)
  IN  IF starts THEN TriggerNext(Activate(w, d), d, FALSE)
      ELSE IF door THEN w ELSE Untrigger(w, d)

\* The trigger is off.
Untriggered(w, d) ==
  IF /\ w.mover[d].inAnimation /\ w.mover[d].trigger
     /\ setup[d].noCollide /\ setup[d].whileTrig
  THEN Untrigger(w, d) ELSE w

TickTrigger(w, d) ==
  IF setup[d].trigger = "none" THEN w
  ELSE IF StateOf(d) THEN Triggered(w, d) ELSE Untriggered(w, d)

TickCallBack(w, d) == [w EXCEPT !.mover[d].callBack = IF @ = 0 THEN 0 ELSE @ - 1]

\* Mutant: a one-shot mover is rearmed like the others.
TickStoppedRearms(w, d) ==
  IF ~w.mover[d].inAnimation \/ w.model[d].moving THEN w
  ELSE Silence([w EXCEPT !.mover[d].inAnimation = FALSE, !.mover[d].trigger = FALSE], d)

\* Mutant: the mover is no longer animating, but still counts as triggered.
TickStoppedKeepsTrigger(w, d) ==
  IF ~w.mover[d].inAnimation \/ w.model[d].moving THEN w
  ELSE Silence([w EXCEPT !.mover[d].inAnimation = setup[d].oneShot], d)

\* The animation is over: all but one-shots can be triggered again.
TickStopped(w, d) ==
  IF ~w.mover[d].inAnimation \/ w.model[d].moving THEN w
  ELSE Silence([w EXCEPT !.mover[d].inAnimation = setup[d].oneShot,
                         !.mover[d].trigger = @ /\ setup[d].oneShot], d)

\* The model moves without the mover, on command of a script, or it does not move.
TickSound(w, d) ==
  IF w.model[d].moving
  THEN IF ~w.mover[d].inAnimation /\ w.mover[d].handle = -1 THEN PlaySound(w, d) ELSE w
  ELSE Silence(w, d)

TickMover(w, d) == TickSound(TickStopped(TickCallBack(TickTrigger(w, d), d), d), d)

TickModels(dt, blocked, turned) ==
  [d \in Names |-> ProcessModelTick(model[d], setup[d].motion, dt,
                                    d \in blocked, d \in turned)]

TickMovers(w) ==
  LET after[n \in 0 .. Len(Movers)] ==
        IF n = 0 THEN w ELSE TickMover(after[n - 1], Movers[n])
  IN  after[Len(Movers)]

Frame(dt, blocked, turned) ==
  /\ Becomes(TickMovers([World EXCEPT !.model = TickModels(dt, blocked, turned)]))
  /\ UNCHANGED <<setup, on>>

------------------------------------------------------------------------------
(* The rest of the game, as movers see it *)

\* Triggers, logic gates and the like go on and off; models do so too, by events.
TriggerFlips(t) ==
  /\ \E d \in Names : setup[d].trigger = t
  /\ on' = (IF t \in on THEN on \ {t} ELSE on \cup {t})
  /\ UNCHANGED <<setup, mover, model, Item>>

\* SetDoorTargetTime and SetPlatformTargetTime, SetDoorToTargetTime and so on.
Command(d, t) ==
  /\ setup[d].scripted
  /\ \/ model' = [model EXCEPT ![d] = SetTargetTime(@, t)]
     \/ model' = [model EXCEPT ![d] = SetToTargetTime(@, t)]
  /\ UNCHANGED <<setup, mover, Item, on>>

\* Sounds that do not loop end, and the effect manager removes them in its next tick.
EffectsTick(ends) ==
  /\ ends \subseteq {i \in Processed(Swept(Item)) : ~Item[i].data.loop}
  /\ Item' = Ended(Swept(Item), ends)
  /\ UNCHANGED <<setup, mover, model, on>>

(***************************************************************************)
(* A game is saved and loaded again: the level is built anew, and then     *)
(* what SaveTo wrote is restored, of the movers first and of the models    *)
(* last.  Neither the target nor the sounds are written.  To load the      *)
(* state a game was saved in just then reaches every state that loading    *)
(* an older one does.                                                      *)
(***************************************************************************)
SaveAndLoad ==
  /\ mover' = [d \in Names |-> [mover[d] EXCEPT !.handle = -1]]
  /\ model' = [d \in Names |-> [model[d] EXCEPT !.target = NoTarget, !.colliding = FALSE]]
  /\ Item' = FreshPool("snd", [owner |-> Movers[1], loop |-> FALSE])
  /\ UNCHANGED <<setup, on>>

\* The constructors: an automatic platform is started, and counts as triggered but not
\* as animating.
Init ==
  /\ setup \in Setups
  /\ mover = [d \in Names |-> [inAnimation |-> FALSE, callBack |-> 0, handle |-> -1,
                               trigger |-> setup[d].auto]]
  /\ model = [d \in Names |-> IF setup[d].auto THEN Start(FreshModel) ELSE FreshModel]
  /\ Item = FreshPool("snd", [owner |-> Movers[1], loop |-> FALSE])
  /\ on = {}

NextFrame ==
  \E dt \in Steps, blocked \in SUBSET {d \in Names : model[d].moving},
     turned \in SUBSET {d \in Names : setup[d].motion.turns} : Frame(dt, blocked, turned)

Next ==
  \/ \E d \in Names, shot, use, player \in BOOLEAN : HandleCollision(d, shot, use, player)
  \/ NextFrame
  \/ \E t \in Triggers : TriggerFlips(t)
  \/ \E d \in Names, t \in Targets : Command(d, t)
  \/ \E ends \in SUBSET Slots : EffectsTick(ends)
  \/ SaveAndLoad

Spec == Init /\ [][Next]_vars

------------------------------------------------------------------------------
(* Properties *)

(***************************************************************************)
(* The handle a mover keeps is that of its own looping sound, still being  *)
(* played: Item_Delete would stop anybody's sound (the SoundHandle of      *)
(* HandleCollision, Tick and RestoreFrom).  And a looping sound is played  *)
(* only while the model of its mover moves, and the mover can end it:      *)
(* "Audio effect loops while animation plays" (GameEntityDataTypes.h).     *)
(* Movers that scripts send places are excepted from this: a mover whose   *)
(* model is moving by command is idle, and when it is activated then,      *)
(* PlaySound overwrites the handle of the sound it made.                   *)
(***************************************************************************)
SoundsOwned ==
  /\ \A d \in Names : mover[d].handle # -1 =>
       LET i == Item[mover[d].handle]
       IN  IsLive(i) /\ i.data = [owner |-> d, loop |-> TRUE]
  /\ \A i \in Slots : Item[i].active /\ Item[i].data.loop =>
       LET d == Item[i].data.owner
       IN  setup[d].scripted \/ (mover[d].handle = i /\ model[d].moving)

(***************************************************************************)
(* No mover is left triggered without an animation that would rearm it,    *)
(* which nothing could start again; only an automatic platform is such,    *)
(* from the constructor on (the flags HandleCollision, TriggerNextDoor and *)
(* Tick set and reset one by one).                                         *)
(***************************************************************************)
NeverStuck == \A d \in Names : mover[d].trigger /\ ~mover[d].inAnimation => setup[d].auto

(***************************************************************************)
(* Double doors: two doors that are alike and linked to each other stay in *)
(* step, whatever they collide with and whatever their trigger does,       *)
(* although one ticks before the other (TriggerNextDoor, Tick).  A door    *)
(* that turns on collision, or that a script moves, leaves the other; and  *)
(* so does one that a third mover is linked to, which may start it between *)
(* their two ticks.                                                        *)
(***************************************************************************)
Double(d, e) ==
  /\ \A x \in Names \ {d, e} : Linked(x) \notin {d, e}
  /\ setup[d] = setup[e] /\ setup[d].kind = "door" /\ setup[d].linked
  /\ Next2[d] = e /\ Next2[e] = d
  /\ ~setup[d].scripted /\ ~setup[d].motion.turns

DoubleDoors ==
  \A d, e \in Names : Double(d, e) =>
    /\ model[d].time = model[e].time
    /\ model[d].moving = model[e].moving
    /\ mover[d].inAnimation = mover[e].inAnimation

(***************************************************************************)
(* "TRUE if door opens ONLY ONCE" (GameEntityDataTypes.h): a one-shot      *)
(* mover that has moved and come to rest stays at rest for ever, also when *)
(* it is triggered through links, and when the game is loaded again.       *)
(* Excepted is an automatic platform with a trigger: the trigger stops it, *)
(* whatever it is for, and starts it again a frame later.                  *)
(***************************************************************************)
OneShotOnce ==
  [][\A d \in Names :
       /\ setup[d].oneShot /\ ~setup[d].scripted
       /\ setup[d].auto => setup[d].trigger = "none"
       /\ model[d].hasMoved /\ ~model[d].moving
       => ~model'[d].moving /\ model'[d].time = model[d].time]_vars

==============================================================================

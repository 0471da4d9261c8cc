------------------------------ MODULE LevelLogic ------------------------------
(***************************************************************************)
(* What makes a level react: triggers (upstream/CTriggers.cpp), logic      *)
(* gates (upstream/CLogic.cpp) and countdown timers                        *)
(* (upstream/CCountDown.cpp), and what changes the attributes of the       *)
(* player (Attributes), which read each other's states, and the order in   *)
(* which a frame of the game gives them time.  Times are in one unit       *)
(* throughout.                                                             *)
(*                                                                         *)
(* Pawns, damage, the inventory and the like are signals that come and go  *)
(* (Inputs), and amounts by which attributes change (Hurts).  A trigger    *)
(* moves a model without looping or turning it (ModelManager) and may make *)
(* a sound (EffManager); bActive, which is always true, and bTrigger,      *)
(* which is never read, are left out.                                      *)
(***************************************************************************)
EXTENDS ModelManager, EffManager, Attributes

CONSTANTS
  Triggers,  \* the triggers, gates and timers in the order of their ticks
  Gates,
  Timers,
  Pickups,   \* what can be taken, and what modifies or changes attributes, likewise
  Modifiers,
  Changes,
  AttributeNames,
  Inputs,    \* what the rest of the game may signal
  Hurts,     \* by how much it may change an attribute
  Setups,    \* the level designer's choices: members of Levels
  Steps      \* how much time may pass in a frame

TriggerNames == {Triggers[i] : i \in DOMAIN Triggers}
GateNames == {Gates[i] : i \in DOMAIN Gates}
TimerNames == {Timers[i] : i \in DOMAIN Timers}
PickupNames == {Pickups[i] : i \in DOMAIN Pickups}
ModifierNames == {Modifiers[i] : i \in DOMAIN Modifiers}
ChangeNames == {Changes[i] : i \in DOMAIN Changes}
Owners == TriggerNames \cup TimerNames \cup PickupNames
Signals == TriggerNames \cup GateNames \cup TimerNames \cup PickupNames \cup Inputs
None == "none"
Nobody == "nobody"   \* a name that nobody has
Names == Signals \cup {None, Nobody}

(***************************************************************************)
(* The settings of the designer.  on, off: TimeOn and TimeOff; by:         *)
(* TriggerName; event: a motion or a script turns the trigger on.  The     *)
(* type "has" stands for the gates that only look at the rest of the game: *)
(* Use, Contents, Difficulty, Weapon and Character; "clear" is Clear Use   *)
(* Attribute, and "attribute" is Has Attribute, which compares the amount. *)
(***************************************************************************)
TriggerSettings ==
  [on : Nat, off : Nat, oneShot : BOOLEAN, by : Names, playerOnly : BOOLEAN,
   shoot : BOOLEAN, useKey : BOOLEAN, noCollide : BOOLEAN, event : BOOLEAN,
   motion : Motions]

GateSettings ==
  {c \in [type : {"and", "delay", "not", "or", "xor", "flipflop", "callback", "hold", "has",
                  "stayon", "clear", "attribute"},
          in1 : Signals \cup AttributeNames, in2 : Signals, delay : Nat, amount : Int] :
     c.in1 \in (IF c.type = "attribute" THEN AttributeNames ELSE Signals)}

TimerSettings == [amount : Nat, by : Names, stop : Names]

\* The gift of a pickup is for its name, or if that has no use for it, for another.
PickupSettings ==
  [by : Names, playerOnly : BOOLEAN, useKey : BOOLEAN, reSpawn : BOOLEAN,
   delay : Nat, name : AttributeNames, gift : Gifts, altName : AttributeNames \cup {None},
   altGift : Gifts]

ModifierSettings == [by : Names, name : AttributeNames, gift : Gifts]

ChangeSettings ==
  [by : Names, stop : Names, name : AttributeNames,
   amount : Int, percentage : BOOLEAN, time : Nat \ {0}]

\* A countdown plays its sound over and over, a pickup once.
Sounds ==
  {s \in [Owners -> {"none", "once", "loop"}] :
     (\A c \in TimerNames : s[c] # "once") /\ (\A p \in PickupNames : s[p] # "loop")}

Levels == [trigger : [TriggerNames -> TriggerSettings], gate : [GateNames -> GateSettings],
           timer : [TimerNames -> TimerSettings], pickup : [PickupNames -> PickupSettings],
           modifier : [ModifierNames -> ModifierSettings],
           change : [ChangeNames -> ChangeSettings],
           sound : Sounds,
           attribute : [AttributeNames -> AttributeRecords]]

IsOrder(s, names) ==
  s \in Seq(names) /\ \A i, j \in DOMAIN s : s[i] = s[j] => i = j

ASSUME OrderAssumption ==
  /\ IsOrder(Triggers, TriggerNames) /\ IsOrder(Gates, GateNames)
  /\ IsOrder(Timers, TimerNames) /\ IsOrder(Pickups, PickupNames)
  /\ IsOrder(Modifiers, ModifierNames) /\ IsOrder(Changes, ChangeNames)

\* An entity is of one kind, and a name that of one thing.
ASSUME KindsAssumption ==
  /\ TriggerNames \cap (GateNames \cup TimerNames \cup PickupNames) = {}
  /\ GateNames \cap (TimerNames \cup PickupNames) = {}
  /\ TimerNames \cap PickupNames = {}
  /\ ModifierNames \cap (Signals \cup ChangeNames) = {}
  /\ ChangeNames \cap Signals = {}
  /\ Inputs \cap (TriggerNames \cup GateNames \cup TimerNames \cup PickupNames) = {}
  /\ {None, Nobody} \cap Signals = {}

ASSUME LogicAssumption ==
  /\ EffTypes = {"snd"}
  /\ Datas = [owner : Owners, loop : BOOLEAN]
  /\ Owners # {}
  /\ Steps \subseteq Nat \ {0} /\ Hurts \subseteq Int
  /\ Setups \subseteq Levels

VARIABLES
  setup,   \* the level
  trigger, \* bState, isHit, time, bInAnimation and CallBackCount of each trigger
  model,   \* and its model
  gate,    \* bState, OldState, inDelay and time of each gate
  timer,   \* active, bState, OldState and Time of each countdown
  pickup,  \* alive, active (which is bState), Tick and CallBackCount of each pickup
  modifier,\* active of each ModifyAttribute
  change,  \* and what each ChangeAttribute has to do
  attribute, \* the player's
  handle,  \* SoundHandle of a trigger, index of a countdown
  Item,    \* the pool of effects
  on,      \* the inputs that are on
  phase,   \* what of the frame is done: nothing, its models, its logic, its attributes
  dt,      \* the time of the frame
  past     \* what has happened, for the properties

attributes == <<pickup, modifier, change, attribute>>
level == <<trigger, model, gate, timer, attributes, handle, Item, on>>
vars == <<setup, level, phase, dt, past>>

\* What the handlers work on; they change it piece by piece.
World == [trigger |-> trigger, model |-> model, gate |-> gate, timer |-> timer,
          pickup |-> pickup, modifier |-> modifier, change |-> change,
          attribute |-> attribute, handle |-> handle, Item |-> Item, on |-> on]

Becomes(w) ==
  /\ trigger' = w.trigger /\ model' = w.model /\ gate' = w.gate /\ timer' = w.timer
  /\ pickup' = w.pickup /\ modifier' = w.modifier /\ change' = w.change
  /\ attribute' = w.attribute /\ handle' = w.handle /\ Item' = w.Item /\ on' = w.on

------------------------------------------------------------------------------
(* What they have in common *)

\* GetTriggerState.  A name that nobody has is off.
TriggerState(w, s) ==
  CASE s \in TriggerNames -> w.trigger[s].state
    [] s \in GateNames -> w.gate[s].state
    [] s \in TimerNames -> w.timer[s].state
    [] s \in PickupNames -> w.pickup[s].active
    [] OTHER -> s \in w.on

\* GetCallBackState: a trigger was refused, a pickup taken lately.
CallBackState(w, s) ==
  \/ s \in TriggerNames /\ w.trigger[s].callBack > 0
  \/ s \in PickupNames /\ w.pickup[s].callBack > 0

PlaySound(w, o) ==
  LET loop == setup.sound[o] = "loop"
      i    == CHOOSE j \in Slots \cup {-1} : IsFirstFree(w.Item, j)
  IN  IF setup.sound[o] = "none" THEN [w EXCEPT !.handle[o] = -1]
      ELSE [w EXCEPT !.Item = ItemAdd(@, i, "snd", [owner |-> o, loop |-> loop]),
                     !.handle[o] = IF loop THEN i ELSE -1]

Silence(w, o) ==
  IF w.handle[o] = -1 THEN w
  ELSE [w EXCEPT !.Item = ItemDelete(@, "snd", w.handle[o]), !.handle[o] = -1]

------------------------------------------------------------------------------
(* Triggers *)

Allowed(w, t) == setup.trigger[t].by = None \/ TriggerState(w, setup.trigger[t].by)

Refuse(w, t) == [w EXCEPT !.trigger[t].callBack = 2]

Ready(w, t) == ~w.trigger[t].inAnimation /\ ~w.trigger[t].isHit

Fire(w, t) ==
  PlaySound([w EXCEPT !.trigger[t] = [@ EXCEPT !.state = TRUE, !.isHit = TRUE, !.time = 0,
                                               !.inAnimation = TRUE],
                      !.model[t] = Start(@)], t)

Hit(w, t) ==
  CASE ~Allowed(w, t) -> Refuse(w, t)
    [] Allowed(w, t) /\ Ready(w, t) -> Fire(w, t)
    [] OTHER -> w

\* The trigger reacts at all to being shot, used or touched, by the player or another.
Reacts(t, shot, use, player) ==
  LET c == setup.trigger[t]
  IN  (c.playerOnly => player) /\ (use => c.useKey) /\ shot = c.shoot /\ (c.noCollide => use)

\* Mutant: bState follows isHit, which goes off with it.
PulseForgotten(s, c) ==
  LET time == s.time + dt
  IN  CASE ~s.isHit -> s
        [] s.isHit /\ time >= c.on -> [s EXCEPT !.time = 0, !.state = FALSE, !.isHit = FALSE]
        [] OTHER -> [s EXCEPT !.time = time]

\* On for TimeOn, and then off for TimeOff before it can be hit again.
Pulse(s, c) ==
  LET time == s.time + dt
  IN  CASE ~s.isHit -> s
        [] s.isHit /\ s.state /\ time >= c.on -> [s EXCEPT !.time = 0, !.state = FALSE]
        [] s.isHit /\ ~s.state /\ time >= c.off -> [s EXCEPT !.time = 0, !.isHit = FALSE]
        [] OTHER -> [s EXCEPT !.time = time]

\* Mutant: a trigger is rearmed during its pulse and not after it.
RearmsInPulse(s, c) == ~c.oneShot /\ s.isHit

Rearms(s, c) == ~c.oneShot /\ ~s.isHit

\* The model has stopped.
Stopped(w, t) ==
  IF ~w.trigger[t].inAnimation \/ w.model[t].moving THEN w
  ELSE Silence([w EXCEPT !.trigger[t].inAnimation =
                           ~Rearms(w.trigger[t], setup.trigger[t])], t)

CallBackLeft(n) == IF n = 0 THEN 0 ELSE n - 1

Pulsed(s, c) == [Pulse(s, c) EXCEPT !.callBack = CallBackLeft(s.callBack)]

TickTrigger(w, t) ==
  Stopped([w EXCEPT !.trigger[t] = Pulsed(w.trigger[t], setup.trigger[t])], t)

------------------------------------------------------------------------------
(* Gates: s is the state of one, c its settings, a and b its inputs *)

\* Mutant: a delay does not end.
DelayedForEver(s, c, a) ==
  IF ~s.delaying
  THEN IF s.old = a THEN s ELSE [s EXCEPT !.old = a, !.time = 0, !.delaying = TRUE]
  ELSE IF s.time + dt < c.delay THEN [s EXCEPT !.time = @ + dt]
       ELSE [s EXCEPT !.state = s.old]

\* Takes over what its input had become when the delay began.
Delayed(s, c, a) ==
  IF ~s.delaying
  THEN IF s.old = a THEN s ELSE [s EXCEPT !.old = a, !.time = 0, !.delaying = TRUE]
  ELSE IF s.time + dt < c.delay THEN [s EXCEPT !.time = @ + dt]
       ELSE [s EXCEPT !.time = @ + dt, !.state = s.old, !.delaying = FALSE]

\* On for the delay, whatever its input does; then off, for a tick at least.
Held(s, c, a) ==
  IF ~s.delaying
  THEN IF a THEN [s EXCEPT !.state = TRUE, !.time = 0, !.delaying = TRUE] ELSE s
  ELSE IF s.time + dt < c.delay THEN [s EXCEPT !.time = @ + dt]
       ELSE [s EXCEPT !.time = @ + dt, !.state = FALSE, !.delaying = FALSE]

\* Mutant: turned over by the level of its input, not by its rise.
TurnedByLevel(s, a) == [s EXCEPT !.state = @ # a, !.old = a]

Turned(s, a) == [s EXCEPT !.state = @ # (a /\ ~s.old), !.old = a]

NextGate(w, g, a, b) ==
  LET s == w.gate[g]
      c == setup.gate[g]
  IN  CASE c.type = "and" -> [s EXCEPT !.state = a /\ b]
        [] c.type = "or" -> [s EXCEPT !.state = a \/ b]
        [] c.type = "xor" -> [s EXCEPT !.state = a # b]
        [] c.type = "not" -> [s EXCEPT !.state = ~a]
        [] c.type = "has" -> [s EXCEPT !.state = a]
        [] c.type = "callback" -> [s EXCEPT !.state = CallBackState(w, c.in1)]
        [] c.type = "stayon" -> [s EXCEPT !.state = @ \/ a]
        [] c.type = "flipflop" -> Turned(s, a)
        [] c.type = "delay" -> Delayed(s, c, a)
        [] c.type = "hold" -> Held(s, c, a)
        [] c.type = "clear" -> [s EXCEPT !.old = a]
        [] c.type = "attribute" ->
             LET held == w.attribute[c.in1]
             IN  [s EXCEPT !.state = held.has /\ held.value > c.amount]

\* When its input rises, Clear Use Attribute ends the use of its second.
Cleared(w, g, a) ==
  IF setup.gate[g].type = "clear" /\ a /\ ~w.gate[g].old THEN {setup.gate[g].in2} ELSE {}

\* GetLTriggerState: gates see each other as they were before the tick (SetState).
GateState(w, states, s) == IF s \in GateNames THEN states[s] ELSE TriggerState(w, s)

TickGate(w, g, states) ==
  LET a == GateState(w, states, setup.gate[g].in1)
      b == GateState(w, states, setup.gate[g].in2)
  IN  [w EXCEPT !.gate[g] = NextGate(w, g, a, b), !.on = @ \ Cleared(w, g, a)]

------------------------------------------------------------------------------
(* Countdowns *)

\* Mutant: the sound of the counting goes on.
StopTimerLoud(w, c) == [w EXCEPT !.timer[c].active = FALSE, !.timer[c].state = FALSE]

StopTimer(w, c) ==
  Silence([w EXCEPT !.timer[c].active = FALSE, !.timer[c].state = FALSE], c)

\* Its trigger is on: it begins to count, if that is new.
StartTimer(w, c) ==
  IF setup.timer[c].by = None THEN w
  ELSE LET rises == TriggerState(w, setup.timer[c].by) /\ ~w.timer[c].old
           s     == [w EXCEPT !.timer[c].old = TriggerState(w, setup.timer[c].by)]
       IN  IF ~rises THEN s
           ELSE PlaySound([s EXCEPT !.timer[c].time = setup.timer[c].amount,
                                    !.timer[c].active = TRUE, !.timer[c].state = FALSE], c)

Count(w, c) ==
  LET s == [w EXCEPT !.timer[c].time = @ - dt]
  IN  IF s.timer[c].time > 0 THEN s
      ELSE Silence([s EXCEPT !.timer[c].active = FALSE, !.timer[c].state = TRUE], c)

TickTimer(w, c) ==
  CASE setup.timer[c].stop # None /\ TriggerState(w, setup.timer[c].stop) -> StopTimer(w, c)
    [] OTHER -> IF w.timer[c].active THEN Count(w, c) ELSE StartTimer(w, c)

------------------------------------------------------------------------------
(* Attributes *)

TickPickupOf(w, p) ==
  LET c == setup.pickup[p]
      s == w.pickup[p]
      v == [w EXCEPT !.pickup[p] =
                       TickPickup(s, c, c.by = None \/ TriggerState(w, c.by), dt)]
  IN  IF Revives(s, c, dt) THEN PlaySound(v, p) ELSE v

\* ModifyAttribute gives once while its trigger is on, or when there is something to
\* give it to.
TickModifier(w, m) ==
  LET c == setup.modifier[m]
  IN  CASE c.by = None -> w
        [] c.by # None /\ ~TriggerState(w, c.by) -> [w EXCEPT !.modifier[m] = FALSE]
        [] OTHER ->
             IF w.modifier[m] \/ ~w.attribute[c.name].has THEN w
             ELSE [w EXCEPT !.modifier[m] = TRUE, !.attribute[c.name] = Given(@, c.gift)]

\* A change that begins does nothing yet, and one that is stopped does not even look at
\* what starts it.
TickChange(w, h) ==
  LET c == setup.change[h]
      s == w.change[h]
      asked == c.by # None /\ TriggerState(w, c.by)
      rises == asked /\ ~s.old
      heard == IF c.by = None THEN s ELSE [s EXCEPT !.old = asked]
      held  == w.attribute[c.name]
  IN  CASE s.active /\ c.stop # None /\ TriggerState(w, c.stop) ->
             [w EXCEPT !.change[h].active = FALSE]
        [] s.active /\ ~(c.stop # None /\ TriggerState(w, c.stop)) ->
             [w EXCEPT !.change[h] = RunChange(heard, c, dt),
                       !.attribute[c.name] = Modify(@, Share(s, c, dt))]
        [] OTHER ->
             [w EXCEPT !.change[h] = IF rises /\ held.has THEN StartChange(heard, c, held)
                                     ELSE heard]

------------------------------------------------------------------------------
(* The ticks of a frame: each manager gives its entities time in their order *)

Tick(w, e, states) ==
  CASE e \in TriggerNames -> TickTrigger(w, e)
    [] e \in GateNames -> TickGate(w, e, states)
    [] e \in PickupNames -> TickPickupOf(w, e)
    [] e \in ModifierNames -> TickModifier(w, e)
    [] e \in TimerNames -> TickTimer(w, e)
    [] e \in ChangeNames -> TickChange(w, e)

\* states: of the gates, as they were before (SetState).
TickAll(w, order) ==
  LET states == [g \in GateNames |-> w.gate[g].state]
      after[n \in 0 .. Len(order)] ==
        IF n = 0 THEN w ELSE Tick(after[n - 1], order[n], states)
  IN  after[Len(order)]

------------------------------------------------------------------------------
(* What is told apart, for the properties: how long ago each trigger fired, *)
(* and whether it has done so an odd number of times; how long each         *)
(* countdown has run                                                        *)

Never == -1
Cycle(t) == setup.trigger[t].on + setup.trigger[t].off
Fires(t) == trigger'[t].state /\ ~trigger[t].state
Upto(n, bound) == IF n > bound THEN bound ELSE n

Remember ==
  past' = [past EXCEPT
    !.since = [t \in TriggerNames |-> IF Fires(t) THEN 0 ELSE @[t]],
    !.odd = [t \in TriggerNames |-> @[t] # Fires(t)]]

RememberLogic ==
  past' = [past EXCEPT
    !.since = [t \in TriggerNames |-> IF @[t] = Never THEN Never ELSE Upto(@[t] + dt, Cycle(t))]]

RememberTimers ==
  past' = [past EXCEPT !.ran =
    [c \in TimerNames |->
       IF timer'[c].active /\ ~timer[c].active THEN 0
       ELSE IF timer[c].active THEN Upto(@[c] + dt, setup.timer[c].amount) ELSE @[c]]]

------------------------------------------------------------------------------
(* Steps *)

\* HandleCollision: of the player and of others, before, during or after a frame's ticks.
HandleCollision(t, shot, use, player) ==
  /\ shot => ~use /\ ~player
  /\ Reacts(t, shot, use, player)
  /\ Becomes(Hit(World, t))
  /\ Remember
  /\ UNCHANGED <<setup, phase, dt>>

\* The motion of a model has come to an event, or a script of the level or of a pawn calls.
HandleTriggerEvent(t) ==
  /\ setup.trigger[t].event
  /\ Becomes(Hit(World, t))
  /\ Remember
  /\ UNCHANGED <<setup, phase, dt>>

\* A frame begins: the models move.
ModelsTick ==
  /\ phase = "none"
  /\ dt' \in Steps
  /\ phase' = "models"
  /\ model' = [t \in TriggerNames |->
                 ProcessModelTick(model[t], setup.trigger[t].motion, dt', FALSE, FALSE)]
  /\ UNCHANGED <<setup, trigger, gate, timer, attributes, handle, Item, on, past>>

\* The effects, of which some end, then the triggers, then the gates.
LogicTick(ends) ==
  LET swept == [World EXCEPT !.Item = Swept(@)]
      heard == [swept EXCEPT !.Item = Ended(@, ends)]
  IN  /\ phase = "models"
      /\ ends \subseteq {i \in Processed(swept.Item) : ~swept.Item[i].data.loop}
      /\ phase' = "logic"
      /\ Becomes(TickAll(TickAll(heard, Triggers), Gates))
      /\ RememberLogic
      /\ UNCHANGED <<setup, dt>>

\* What can be taken, then what modifies attributes; pawns come after it.
AttributesTick ==
  /\ phase = "logic"
  /\ phase' = "attributes"
  /\ Becomes(TickAll(TickAll(World, Pickups), Modifiers))
  /\ UNCHANGED <<setup, dt, past>>

\* The countdowns, then what changes attributes.
TimersTick ==
  /\ phase = "attributes"
  /\ phase' = "none" /\ dt' = 0
  /\ Becomes(TickAll(TickAll(World, Timers), Changes))
  /\ RememberTimers
  /\ UNCHANGED setup

\* The player runs into a pickup, or uses it, and takes what it has for the first of its
\* attributes that can do with it.
TakePickup(p, use) ==
  LET c     == setup.pickup[p]
      first == Useful(attribute[c.name], c.gift)
      other == c.altName # None /\ Useful(attribute[c.altName], c.altGift)
      left  == [World EXCEPT !.pickup[p] = Taken(@)]
  IN  /\ pickup[p].active /\ use = c.useKey
      /\ first \/ other
      /\ Becomes(PlaySound(IF first THEN [left EXCEPT !.attribute[c.name] = Given(@, c.gift)]
                           ELSE [left EXCEPT !.attribute[c.altName] = Given(@, c.altGift)], p))
      /\ UNCHANGED <<setup, phase, dt, past>>

\* A pawn takes it, for its own.
PawnTakes(p) ==
  /\ pickup[p].active /\ ~setup.pickup[p].playerOnly /\ ~setup.pickup[p].useKey
  /\ Becomes(PlaySound([World EXCEPT !.pickup[p] = Taken(@)], p))
  /\ UNCHANGED <<setup, phase, dt, past>>

\* Damage and the like.
Hurt(a, n) ==
  /\ attribute[a].has
  /\ attribute' = [attribute EXCEPT ![a] = Modify(@, n)]
  /\ UNCHANGED <<setup, trigger, model, gate, timer, pickup, modifier, change, handle, Item,
                 on, phase, dt, past>>

\* Pawns, damage, attributes and the like.
InputFlips(x) ==
  /\ on' = (IF x \in on THEN on \ {x} ELSE on \cup {x})
  /\ UNCHANGED <<setup, trigger, model, gate, timer, attributes, handle, Item, phase, dt, past>>

(***************************************************************************)
(* A game is saved and loaded again, between two frames: the constructors  *)
(* forget the sounds and RestoreFrom reads what SaveTo wrote, of triggers, *)
(* gates, countdowns, pickups, changes and attributes all they have, of a  *)
(* model all but its target, of ModifyAttribute nothing.                   *)
(***************************************************************************)
SaveAndLoad ==
  /\ phase = "none"
  /\ handle' = [o \in Owners |-> -1]
  /\ model' = [t \in TriggerNames |-> [model[t] EXCEPT !.target = NoTarget]]
  /\ Item' = FreshPool("snd", [owner |-> CHOOSE o \in Owners : TRUE, loop |-> FALSE])
  /\ modifier' = [m \in ModifierNames |-> FALSE]
  /\ UNCHANGED <<setup, trigger, gate, timer, pickup, change, attribute, on, phase, dt, past>>

Init ==
  /\ setup \in Setups
  /\ trigger = [t \in TriggerNames |-> [state |-> FALSE, isHit |-> FALSE, time |-> 0,
                                        inAnimation |-> FALSE, callBack |-> 0]]
  /\ model = [t \in TriggerNames |-> FreshModel]
  /\ gate = [g \in GateNames |-> [state |-> FALSE, old |-> FALSE, delaying |-> FALSE,
                                  time |-> 0]]
  /\ timer = [c \in TimerNames |-> [active |-> FALSE, state |-> FALSE, old |-> FALSE,
                                    time |-> 0]]
  /\ pickup = [p \in PickupNames |-> FreshPickup]
  /\ modifier = [m \in ModifierNames |-> FALSE]
  /\ change = [h \in ChangeNames |-> FreshChange]
  /\ attribute = setup.attribute
  /\ handle = [o \in Owners |-> -1]
  /\ Item = FreshPool("snd", [owner |-> CHOOSE o \in Owners : TRUE, loop |-> FALSE])
  /\ on = {}
  /\ phase = "none" /\ dt = 0
  /\ past = [since |-> [t \in TriggerNames |-> Never], odd |-> [t \in TriggerNames |-> FALSE],
             ran |-> [c \in TimerNames |-> 0]]

Next ==
  \/ \E t \in TriggerNames, shot, use, player \in BOOLEAN : HandleCollision(t, shot, use, player)
  \/ \E t \in TriggerNames : HandleTriggerEvent(t)
  \/ ModelsTick
  \/ \E ends \in SUBSET Slots : LogicTick(ends)
  \/ AttributesTick
  \/ TimersTick
  \/ \E p \in PickupNames : PawnTakes(p) \/ \E use \in BOOLEAN : TakePickup(p, use)
  \/ \E a \in AttributeNames, n \in Hurts : Hurt(a, n)
  \/ \E x \in Inputs : InputFlips(x)
  \/ SaveAndLoad

\* The game loop goes on with its frames.  Each of the four ticks is always possible in its
\* turn, so that this asks no more than weak fairness of the ticks would.
Fairness == []<>(phase = "models") /\ []<>(phase = "none")

Spec == Init /\ [][Next]_vars /\ Fairness

------------------------------------------------------------------------------
(* Properties *)

(***************************************************************************)
(* The handle a trigger or a countdown keeps is that of its own looping    *)
(* sound, still being played: Item_Delete would stop anybody's sound       *)
(* (SoundHandle in CTriggers.cpp, index in CCountDown.cpp).  And a looping *)
(* sound is played only as long as the model of its trigger moves, or its  *)
(* countdown counts, and by one who can end it.                            *)
(***************************************************************************)
SoundsOwned ==
  /\ \A o \in Owners : handle[o] # -1 =>
       LET i == Item[handle[o]] IN IsLive(i) /\ i.data = [owner |-> o, loop |-> TRUE]
  /\ \A i \in Slots : Item[i].active /\ Item[i].data.loop =>
       LET o == Item[i].data.owner
       IN  /\ handle[o] = i
           /\ IF o \in TimerNames THEN timer[o].active
              ELSE phase = "models" \/ model[o].moving

(***************************************************************************)
(* A trigger that fires stays on for TimeOn, and then off for TimeOff,     *)
(* before it can fire again, "isHit should not be turned off until the     *)
(* full trigger cycle, on-off is complete" (CTriggers::Tick), and one that *)
(* is bOneShot never fires again: whenever it is hit or asked for, however *)
(* long the frames are, and across saving and loading.                     *)
(***************************************************************************)
Paced ==
  [][\A t \in TriggerNames :
       /\ Fires(t) => \/ past.since[t] = Never
                      \/ past.since[t] = Cycle(t) /\ ~setup.trigger[t].oneShot
       /\ trigger[t].state /\ ~trigger'[t].state =>
            past'.since[t] >= setup.trigger[t].on]_vars

(***************************************************************************)
(* A flip-flop that follows a trigger has turned over once for each time   *)
(* the trigger fired, if TimeOn is longer than any frame: no pulse is      *)
(* missed or taken for two (Pulse, and case 5 of CLogic::Tick).            *)
(***************************************************************************)
FlipFlopExact ==
  \A g \in GateNames, t \in TriggerNames :
    /\ setup.gate[g].type = "flipflop" /\ setup.gate[g].in1 = t
    /\ \A d \in Steps : d < setup.trigger[t].on
    => gate[g].state = (past.odd[t] # (trigger[t].state /\ ~gate[g].old))

(***************************************************************************)
(* A countdown comes on when TimeAmt has passed since it was started, not  *)
(* before, and does not count on after that; until then it shows what is   *)
(* left (CCountDown::Tick, Restore).                                       *)
(* A change of an attribute has at any time given what is due for the time *)
(* counted, to less than one and what floats have been out by (Total in    *)
(* CChangeAttribute::Tick, which is carried from frame to frame and saved):*)
(* however the frames fall, no whole one is lost but the one that rounding *)
(* keeps from being reached.                                               *)
(***************************************************************************)
CountsExactly ==
  /\ \A c \in TimerNames :
       /\ timer[c].active =>
            /\ ~timer[c].state /\ timer[c].time = setup.timer[c].amount - past.ran[c]
            /\ past.ran[c] < setup.timer[c].amount \/ setup.timer[c].amount = 0
       /\ timer[c].state => past.ran[c] = setup.timer[c].amount
  /\ \A h \in ChangeNames :
       LET c    == setup.change[h]
           s    == change[h]
           owed == s.increment * (c.time - s.count) - s.given * Whole(c)
           off  == MaxError * (c.time - s.count)
       IN  /\ owed < Whole(c) + off /\ -owed < Whole(c) + off
           /\ s.active => s.count >= 0

(***************************************************************************)
(* Every trigger but a one-shot becomes ready again and again, whether its *)
(* pulse or its model ends first (bInAnimation and isHit); and what can be *)
(* taken again lies there again, unless its trigger keeps it away (alive,  *)
(* active and Tick in CAttribute::Tick).                                   *)
(***************************************************************************)
BecomesReady ==
  /\ \A t \in TriggerNames :
       []<>(setup.trigger[t].oneShot
            \/ (~trigger[t].inAnimation /\ ~trigger[t].isHit /\ ~trigger[t].state))
  /\ \A p \in PickupNames :
       LET c == setup.pickup[p]
       IN  []<>(\/ pickup[p].active \/ ~c.reSpawn
                \/ c.by # None /\ ~TriggerState(World, c.by))

(***************************************************************************)
(* The output of a delay is in the end what its input in the end is,       *)
(* whatever the input did while a delay was running (case 1 of             *)
(* CLogic::Tick).                                                          *)
(***************************************************************************)
DelaySettles ==
  \A g \in GateNames, x \in Inputs, b \in BOOLEAN :
    <>[](setup.gate[g].type = "delay" /\ setup.gate[g].in1 = x /\ (x \in on) = b)
      => <>[](gate[g].state = b)
==============================================================================

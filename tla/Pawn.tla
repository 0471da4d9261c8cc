--------------------------------- MODULE Pawn ---------------------------------
(***************************************************************************)
(* A pawn on its high level: CPawn::TickHigh (upstream/CPawnHigh.cpp) with *)
(* ScriptedObject's Push, Pop, AddAction and RemoveTriggerStack, the part  *)
(* of Tick and TickLow that leads to it (CPawn.cpp, CPawnLow.cpp), and the *)
(* script of a pawn as data.                                               *)
(*                                                                         *)
(* An order is a method of the script.  Running it arms what the pawn      *)
(* reacts to and queues the actions it consists of.  In every frame the    *)
(* pawn makes one pass or more over the same stages: triggers, points,     *)
(* targets, the player's distance and pain may replace or interrupt the    *)
(* order, then the current action goes on.  pc is the stage it is at.      *)
(*                                                                         *)
(* Left out: what an action does to the body and how long it takes, its    *)
(* sound, and the triggers of type PSOUND, which start no order.           *)
(***************************************************************************)
EXTENDS Naturals, Sequences

CONSTANTS
  Orders,      \* the methods of the script
  Names,       \* the names triggers are armed under
  Script,      \* what running an order arms and queues
  SpawnOrder,
  LowExits,    \* the orders a low-level script may go back to
  Faulty,      \* the orders whose method may throw before it has come to what it arms
  Called,      \* the orders written to be called: they may end in Return
  MaxHealth,
  MaxDelay,
  MaxDepth     \* bound: no interruption when so many orders are on the stack

None == "none"
Same == "same"
Named == Orders \cup {None}

(***************************************************************************)
(* The actions by what they do to the order: "work" takes its time and     *)
(* ends (DELAY, ROTATETOPOINT, JUMPCMD, ...), "instant" is done at once    *)
(* (SETFLAG, ALLOWUSE, ...), "move" is MOVETOPOINT and MOVETOTARGET, "next"*)
(* NEXTORDER and NEWPATH, "end" REMOVE with its flag, "remove" without it. *)
(* Disarming has no name in DelTriggerOrder, which leaves it in AnimName.  *)
(***************************************************************************)
Kinds == {"work", "instant", "move", "new", "next", "restart", "return", "avoid", "arm",
          "disarm", "attribute", "damage", "remove", "end", "low"}
Actions == [kind : Kinds, order : Named, name : Names \cup {None}, delay : 0 .. MaxDelay]
Settings == [dist : Named \cup {Same}, pain : Orders \cup {Same}, find : Named \cup {Same},
             point : Named \cup {Same}, stop : BOOLEAN]

\* An order that is not written to be called neither returns nor goes on as one that is.
Plain(a) ==
  /\ a.kind # "return"
  /\ a.kind \in {"new", "next", "damage"} => a.order \notin Called
Tame(a) ==
  /\ a.kind \in {"new", "next", "damage", "low", "arm", "attribute"} => a.order \in Orders
  /\ a.kind \in {"low", "arm", "attribute"} => a.order \notin Called
  /\ a.kind = "arm" => a.name \in Names

ASSUME PawnAssumption ==
  /\ None \notin Orders \cup Names /\ Same \notin Orders
  /\ Script \in [Orders -> [sets : Settings, acts : Seq(Actions)]]
  /\ Called \subseteq Orders /\ SpawnOrder \in Orders \ Called
  /\ LowExits \subseteq Orders \ Called
  /\ MaxHealth \in Nat /\ MaxDelay \in Nat /\ MaxDepth \in Nat
\* Called orders are reached by pain, in the way of an obstacle, or from a called order.
ASSUME ScriptAssumption ==
  \A o \in Orders :
    /\ \A i \in 1 .. Len(Script[o].acts) : Tame(Script[o].acts[i])
    /\ o \notin Called => \A i \in 1 .. Len(Script[o].acts) : Plain(Script[o].acts[i])
    /\ {Script[o].sets.dist, Script[o].sets.find, Script[o].sets.point} \cap Called = {}

VARIABLES
  pc,        \* "rest" between frames, the stage of a pass, or "fault"
  again,     \* runflag, as far as pain has set it
  cur,       \* what Push saves: Order, Top to Bottom, Index, and DistOrder while DistActive
  runOrder,
  active,    \* ActionActive
  stack,     \* Stack, the last interrupted order at the end
  deaf,      \* TargetDisable
  armed,     \* Trigger: the list of trigger orders
  dangling,  \* the names of entries whose prev points to freed memory
  wait,      \* TriggerWait, TriggerTime, TriggerOrder
  set,       \* TargetOrder, PointOrder and PainOrder while active, DeadOrder, AvoidOrder
  body,      \* active, alive, Actor # NULL, highlevel
  health,    \* the value of the attribute of the pawn
  old,       \* OldAttributeAmount
  answer     \* history, read by no action: what has become of a trigger's order in this pass

vars == <<pc, again, cur, runOrder, active, stack, deaf, armed, dangling, wait, set, body,
          health, old, answer>>
triggers == <<armed, dangling, wait>>
ears == <<triggers, answer>>
life == <<body, health, old>>

Frames == [order : Orders, queue : Seq(Actions), index : Nat, dist : Named]

Init ==
  /\ pc = "rest"
  /\ again = FALSE
  /\ cur = [order |-> SpawnOrder, queue |-> <<>>, index |-> 0, dist |-> None]
  /\ runOrder = TRUE
  /\ active = FALSE
  /\ stack = <<>>
  /\ deaf = FALSE
  /\ armed = <<>>
  /\ dangling = {}
  /\ wait = [on |-> FALSE, time |-> 0, order |-> SpawnOrder]
  /\ set = [find |-> None, point |-> None, pain |-> None, dead |-> None, avoid |-> None]
  /\ body = [spawned |-> FALSE, alive |-> TRUE, actor |-> FALSE, high |-> TRUE]
  /\ health = 0
  /\ old = 0
  /\ answer = "none"

(***************************************************************************)
(* What becomes of the order.                                              *)
(***************************************************************************)
Fresh(o) == [cur EXCEPT !.order = o, !.queue = <<>>, !.index = 0]

\* Order := o, to be run; the queue is freed.
Take(o) ==
  /\ cur' = Fresh(o)
  /\ runOrder' = TRUE
  /\ active' = FALSE

\* Mutants of Resume and Interrupt: TargetDisable forgotten, DistActive not restored, no Push.
ResumeStaysDeaf ==
  /\ cur' = stack[Len(stack)]
  /\ stack' = SubSeq(stack, 1, Len(stack) - 1)
  /\ active' = TRUE
  /\ deaf' = deaf
ResumeKeepsDist ==
  /\ cur' = [stack[Len(stack)] EXCEPT !.dist = cur.dist]
  /\ stack' = SubSeq(stack, 1, Len(stack) - 1)
  /\ active' = TRUE
  /\ deaf' = FALSE
InterruptForgets(o, dist) ==
  /\ cur' = [Fresh(o) EXCEPT !.dist = dist]
  /\ runOrder' = TRUE /\ active' = FALSE
  /\ UNCHANGED stack

\* Push: the order is saved with its queue, and o is to be run.
Interrupt(o, dist) ==
  /\ stack' = Append(stack, cur)
  /\ cur' = [Fresh(o) EXCEPT !.dist = dist]
  /\ runOrder' = TRUE
  /\ active' = FALSE

\* Pop, and what both callers set after it: the interrupted action starts over.
Resume ==
  /\ cur' = stack[Len(stack)]
  /\ stack' = SubSeq(stack, 1, Len(stack) - 1)
  /\ active' = TRUE
  /\ deaf' = FALSE

(***************************************************************************)
(* Between frames: the pawn appears, the rest of the game changes its      *)
(* attribute, and its low-level script runs.                               *)
(***************************************************************************)
Spawn ==
  /\ pc = "rest" /\ ~body.spawned
  /\ body' = [body EXCEPT !.spawned = TRUE, !.actor = TRUE]
  /\ UNCHANGED <<pc, again, cur, runOrder, active, stack, deaf, ears, set, health, old>>

\* Damage, and what heals a pawn that is alive.
ChangeHealth ==
  /\ pc = "rest" /\ body.actor /\ health > 0
  /\ \E h \in 0 .. MaxHealth : h # health /\ health' = h
  /\ UNCHANGED <<pc, again, cur, runOrder, active, stack, deaf, ears, set, body, old>>

Awake == pc = "rest" /\ body.spawned /\ body.alive

\* The low-level script gives an order of the high level: HighLevel.
LowReturns ==
  /\ Awake /\ ~body.high
  /\ \E o \in LowExits : cur' = [cur EXCEPT !.order = o]
  /\ body' = [body EXCEPT !.high = TRUE]
  /\ runOrder' = TRUE
  /\ active' = FALSE
  /\ UNCHANGED <<pc, again, stack, deaf, ears, set, health, old>>

\* The low-level script ends the pawn: EndScript.
LowStops ==
  /\ Awake /\ ~body.high
  /\ body' = [body EXCEPT !.alive = FALSE]
  /\ UNCHANGED <<pc, again, cur, runOrder, active, stack, deaf, ears, set, health, old>>

(***************************************************************************)
(* The stages of TickHigh.                                                 *)
(***************************************************************************)
\* The frame begins.  The inventory of a pawn without an actor is NULL.
Frame ==
  /\ Awake /\ body.high
  /\ IF set.dead = None
     THEN pc' = "triggers" /\ UNCHANGED <<cur, runOrder, active, set>>
     ELSE IF ~body.actor
     THEN pc' = "fault" /\ UNCHANGED <<cur, runOrder, active, set>>
     ELSE /\ pc' = "triggers"
          /\ IF health = 0
             THEN Take(set.dead) /\ set' = [set EXCEPT !.dead = None]
             ELSE UNCHANGED <<cur, runOrder, active, set>>
  /\ UNCHANGED <<again, stack, deaf, ears, life>>

\* What goes through the script, or takes the place of the order before it could.
Settles(as) == answer' = IF answer = "taken" THEN as ELSE answer

\* TriggerTime is counted in every pass.
Waiting ==
  /\ pc = "triggers" /\ wait.on
  /\ LET time == IF wait.time = 0 THEN 0 ELSE wait.time - 1 IN
     IF time = 0 /\ ~deaf
     THEN /\ Take(wait.order) /\ answer' = "taken"
          /\ wait' = [wait EXCEPT !.on = FALSE, !.time = 0]
     ELSE /\ wait' = [wait EXCEPT !.time = time] /\ answer' = "none"
          /\ UNCHANGED <<cur, runOrder, active>>
  /\ pc' = "point" /\ again' = FALSE
  /\ UNCHANGED <<stack, deaf, armed, dangling, set, life>>

\* No trigger is armed that has come on, or the pawn does not listen.
Quiet ==
  /\ pc = "triggers" /\ ~wait.on
  /\ pc' = "point" /\ again' = FALSE /\ answer' = "none"
  /\ UNCHANGED <<cur, runOrder, active, stack, deaf, triggers, set, life>>

\* RemoveTriggerStack.  The prev of the entry behind is mended at the head only, and an
\* entry whose prev is stale would be unlinked from freed memory.
Unlink(i) ==
  LET behind == IF i < Len(armed) THEN {armed[i + 1].name} ELSE {} IN
  /\ armed' = SubSeq(armed, 1, i - 1) \o SubSeq(armed, i + 1, Len(armed))
  /\ dangling' = (IF i = 1 THEN dangling \ behind ELSE dangling \cup behind) \ {armed[i].name}

\* The first entry whose condition is met is taken, or waits for its delay.
Triggered ==
  /\ pc = "triggers" /\ ~wait.on /\ ~deaf
  /\ \E i \in DOMAIN armed :
       /\ IF armed[i].delay > 0
          THEN /\ wait' = [on |-> TRUE, time |-> armed[i].delay, order |-> armed[i].order]
               /\ answer' = "none" /\ UNCHANGED <<cur, runOrder, active>>
          ELSE Take(armed[i].order) /\ answer' = "taken" /\ UNCHANGED wait
       /\ Unlink(i)
       /\ pc' = IF armed[i].name \in dangling THEN "fault" ELSE "point"
  /\ again' = FALSE
  /\ UNCHANGED <<stack, deaf, set, life>>

\* FindPointOrder: a script point is in sight.
Point ==
  /\ pc = "point" /\ pc' = "target"
  /\ \/ /\ set.point # None /\ body.actor
        /\ Take(set.point) /\ Settles("overruled")
        /\ set' = [set EXCEPT !.point = None]
     \/ UNCHANGED <<cur, runOrder, active, set, answer>>
  /\ UNCHANGED <<again, stack, deaf, triggers, life>>

\* FindTargetOrder: a target is in sight.
Target ==
  /\ pc = "target" /\ pc' = "dist"
  /\ \/ /\ set.find # None /\ ~deaf /\ body.actor
        /\ Take(set.find) /\ Settles("overruled")
        /\ set' = [set EXCEPT !.find = None]
     \/ UNCHANGED <<cur, runOrder, active, set, answer>>
  /\ UNCHANGED <<again, stack, deaf, triggers, life>>

\* PlayerDistOrder: the player has come close.
Dist ==
  /\ pc = "dist" /\ pc' = "pain"
  /\ \/ /\ cur.dist # None /\ ~deaf
        /\ cur' = [Fresh(cur.dist) EXCEPT !.dist = None]
        /\ runOrder' = TRUE /\ active' = FALSE /\ Settles("overruled")
     \/ UNCHANGED <<cur, runOrder, active, answer>>
  /\ UNCHANGED <<again, stack, deaf, triggers, set, life>>

\* The attribute has dropped: by chance the pain order interrupts what goes on.  Push does
\* not save RunOrder: an order that was still to be run comes back with nothing to do.
Hurts ==
  /\ pc = "pain" /\ pc' = "run"
  /\ set.pain # None /\ ~deaf /\ body.actor
  /\ 0 < health /\ health < old /\ Len(stack) < MaxDepth
  /\ Interrupt(set.pain, cur.dist)
  /\ deaf' = TRUE /\ again' = TRUE /\ old' = health /\ Settles("overruled")
  /\ UNCHANGED <<triggers, set, body, health>>

\* No pain.  What happens to a deaf pawn is noticed when it listens again; the inventory
\* of a pawn without an actor is NULL.
Bears ==
  /\ pc = "pain"
  /\ IF set.pain # None /\ ~deaf
     THEN IF body.actor THEN pc' = "run" /\ old' = health ELSE pc' = "fault" /\ UNCHANGED old
     ELSE pc' = "run" /\ UNCHANGED old
  /\ UNCHANGED <<again, cur, runOrder, active, stack, deaf, ears, set, body, health>>

Given(new, now) == IF new = Same THEN now ELSE new

\* The method of the order runs: what it arms holds at once, its actions are queued.
\* AddPainOrder asks the inventory for the attribute.
Run ==
  LET s == Script[cur.order].sets IN
  /\ pc = "run" /\ runOrder
  /\ cur' = [cur EXCEPT !.queue = @ \o Script[cur.order].acts, !.index = 0,
                        !.dist = Given(s.dist, @)]
  /\ set' = [set EXCEPT !.find = Given(s.find, @), !.point = Given(s.point, @),
                        !.pain = Given(s.pain, @)]
  /\ deaf' = (deaf /\ s.find \notin Orders)
  /\ old' = IF s.pain = Same THEN old ELSE health
  /\ body' = [body EXCEPT !.alive = @ /\ ~s.stop]
  /\ pc' = IF s.pain # Same /\ ~body.actor THEN "fault" ELSE "advance"
  /\ runOrder' = FALSE /\ active' = FALSE /\ Settles("run")
  /\ UNCHANGED <<again, stack, triggers, health>>

\* The method throws: what it had queued stays.  The frame is over unless it was an
\* exception of the script's.
Breaks ==
  /\ pc = "run" /\ runOrder /\ cur.order \in Faulty
  /\ \E n \in 0 .. Len(Script[cur.order].acts) :
       cur' = [cur EXCEPT !.queue = @ \o SubSeq(Script[cur.order].acts, 1, n), !.index = 0]
  /\ runOrder' = FALSE /\ Settles("run")
  /\ \/ pc' = "rest" /\ UNCHANGED active
     \/ pc' = "advance" /\ active' = FALSE
  /\ UNCHANGED <<again, stack, deaf, triggers, set, life>>

NoRun ==
  /\ pc = "run" /\ ~runOrder /\ pc' = "advance"
  /\ UNCHANGED <<again, cur, runOrder, active, stack, deaf, ears, set, life>>

\* The next action: the first one when there is none yet, none behind the last one.
Next1 == IF cur.index = 0 THEN IF cur.queue = <<>> THEN 0 ELSE 1
         ELSE IF cur.index < Len(cur.queue) THEN cur.index + 1 ELSE 0

Advance ==
  /\ pc = "advance" /\ ~active /\ pc' = "act"
  /\ cur' = [cur EXCEPT !.index = Next1]
  /\ active' = TRUE
  /\ UNCHANGED <<again, runOrder, stack, deaf, ears, set, life>>

\* An order that has come to its end gives way to the one it interrupted, whose current
\* action is asked for its sound even if there is none.
FallsBack ==
  /\ pc = "advance" /\ active /\ cur.index = 0 /\ stack # <<>>
  /\ Resume
  /\ pc' = IF stack[Len(stack)].index = 0 THEN "fault" ELSE "act"
  /\ UNCHANGED <<again, runOrder, ears, set, life>>

Stays ==
  /\ pc = "advance" /\ active /\ (cur.index # 0 \/ stack = <<>>) /\ pc' = "act"
  /\ UNCHANGED <<again, cur, runOrder, active, stack, deaf, ears, set, life>>

(***************************************************************************)
(* The current action.                                                     *)
(***************************************************************************)
Action == cur.queue[cur.index]
At(kinds) == pc = "act" /\ cur.index # 0 /\ Action.kind \in kinds

\* The end of a pass: on to the next one, or to the next frame.
PassEnds(loop) == pc' = IF loop \/ again THEN "triggers" ELSE "rest"

\* ActionActive := false, and nothing else happens to the order.
Finish == active' = FALSE /\ UNCHANGED <<cur, runOrder, stack, deaf>>

\* Nothing to do.
Idles ==
  /\ pc = "act" /\ cur.index = 0
  /\ PassEnds(FALSE)
  /\ UNCHANGED <<again, cur, runOrder, active, stack, deaf, ears, set, life>>

\* An action that takes its time goes on, or a movement does.
GoesOn ==
  /\ At({"work", "move"}) /\ (Action.kind = "move" => body.actor)
  /\ PassEnds(FALSE)
  /\ UNCHANGED <<again, cur, runOrder, active, stack, deaf, ears, set, life>>

\* It comes to its end; without a point, a target or an actor there is no movement.  The
\* end of LoopAnimation repeats the pass, if there is an actor.
Ends ==
  /\ At({"work", "move"})
  /\ \/ PassEnds(FALSE)
     \/ Action.kind = "work" /\ body.actor /\ PassEnds(TRUE)
  /\ Finish
  /\ UNCHANGED <<again, ears, set, life>>

\* An obstacle: the movement is interrupted by the order for it.
Avoids ==
  /\ At({"move"}) /\ body.actor /\ set.avoid # None /\ Len(stack) < MaxDepth
  /\ Interrupt(set.avoid, None)
  /\ PassEnds(TRUE)
  /\ UNCHANGED <<again, deaf, ears, set, life>>

Instant ==
  /\ At({"instant"})
  /\ Finish /\ PassEnds(TRUE)
  /\ UNCHANGED <<again, ears, set, life>>

\* NewOrder; NextOrder and NewPath if the script point has an order.
NewOrder ==
  /\ At({"new", "next"})
  /\ Take(Action.order) /\ PassEnds(TRUE)
  /\ UNCHANGED <<again, stack, deaf, ears, set, life>>

\* NextOrder and NewPath without one: both return true.  (NewPath forgets the name of the
\* order with it, which RestartOrder alone would ask for.)
NoNextOrder ==
  /\ At({"next"})
  /\ Finish /\ PassEnds(TRUE)
  /\ UNCHANGED <<again, ears, set, life>>

RestartOrder ==
  /\ At({"restart"})
  /\ Take(cur.order) /\ PassEnds(FALSE)
  /\ UNCHANGED <<again, stack, deaf, ears, set, life>>

\* Return: with nothing to return to, the pass is repeated with the same action.
Return ==
  /\ At({"return"})
  /\ IF stack # <<>> THEN Resume ELSE UNCHANGED <<cur, active, stack, deaf>>
  /\ PassEnds(TRUE)
  /\ UNCHANGED <<again, runOrder, ears, set, life>>

AvoidOrder ==
  /\ At({"avoid"})
  /\ set' = IF Action.order = None THEN set ELSE [set EXCEPT !.avoid = Action.order]
  /\ Finish /\ PassEnds(TRUE)
  /\ UNCHANGED <<again, ears, life>>

\* AddTriggerOrder: a new entry becomes the head, one of the same name is changed.
AddTriggerOrder ==
  LET entry == [name |-> Action.name, order |-> Action.order, delay |-> Action.delay] IN
  /\ At({"arm"})
  /\ IF \E i \in DOMAIN armed : armed[i].name = Action.name
     THEN armed' = [i \in DOMAIN armed |->
                      IF armed[i].name = Action.name THEN entry ELSE armed[i]]
     ELSE armed' = <<entry>> \o armed
  /\ Finish /\ PassEnds(TRUE)
  /\ UNCHANGED <<again, dangling, wait, answer, set, life>>

\* DelTriggerOrder finds the entry by its name, if the action has one.
DelTriggerOrder ==
  /\ At({"disarm"})
  /\ \/ \E i \in DOMAIN armed :
          /\ armed[i].name = Action.name
          /\ Unlink(i)
          /\ IF Action.name \in dangling THEN pc' = "fault" ELSE PassEnds(TRUE)
     \/ /\ \A i \in DOMAIN armed : armed[i].name # Action.name
        /\ PassEnds(TRUE)
        /\ UNCHANGED <<armed, dangling>>
  /\ Finish
  /\ UNCHANGED <<again, wait, answer, set, life>>

\* AttributeOrder: the attribute is set to its limit, and the order for its end.
AttributeOrder ==
  /\ At({"attribute"})
  /\ IF body.actor
     THEN /\ set' = [set EXCEPT !.dead = Action.order]
          /\ health' = MaxHealth /\ old' = MaxHealth
     ELSE UNCHANGED <<set, health, old>>
  /\ Finish /\ PassEnds(TRUE)
  /\ UNCHANGED <<again, ears, body>>

\* TestDamageOrder: the last change of the attribute was large enough, or not.  It ends
\* the frame in any case.
TestDamageOrder ==
  /\ At({"damage"})
  /\ \/ body.actor /\ Take(Action.order) /\ UNCHANGED <<stack, deaf>>
     \/ Finish
  /\ pc' = "rest"
  /\ UNCHANGED <<again, ears, set, life>>

Remove ==
  /\ At({"remove", "end"})
  /\ body' = [body EXCEPT !.actor = FALSE, !.alive = @ /\ Action.kind = "remove"]
  /\ Finish /\ PassEnds(FALSE)
  /\ UNCHANGED <<again, ears, set, health, old>>

\* LowLevel: the queue is freed, and TickLow has the pawn from the next frame on.
LowLevel ==
  /\ At({"low"})
  /\ cur' = Fresh(Action.order)
  /\ runOrder' = FALSE /\ active' = FALSE
  /\ body' = [body EXCEPT !.high = FALSE]
  /\ PassEnds(FALSE)
  /\ UNCHANGED <<again, stack, deaf, ears, set, health, old>>

TickHigh ==
  \/ Frame \/ Waiting \/ Quiet \/ Triggered \/ Point \/ Target \/ Dist \/ Hurts \/ Bears
  \/ Run \/ Breaks \/ NoRun \/ Advance \/ FallsBack \/ Stays
  \/ Idles \/ GoesOn \/ Ends \/ Avoids \/ Instant \/ NewOrder \/ NoNextOrder \/ RestartOrder
  \/ Return \/ AvoidOrder \/ AddTriggerOrder \/ DelTriggerOrder \/ AttributeOrder
  \/ TestDamageOrder \/ Remove \/ LowLevel
Next == Spawn \/ ChangeHealth \/ LowReturns \/ LowStops \/ TickHigh

Spec == Init /\ [][Next]_vars

(***************************************************************************)
(* Every frame gives the pawn its tick (CPawn::Tick), and an action that   *)
(* is given its time again and again comes to its end.                     *)
(***************************************************************************)
FairSpec == Spec /\ WF_vars(TickHigh) /\ SF_vars(Ends)

(***************************************************************************)
(* Properties.                                                             *)
(***************************************************************************)
TypeOK ==
  /\ pc \in {"rest", "triggers", "point", "target", "dist", "pain", "run", "advance", "act",
            "fault"}
  /\ again \in BOOLEAN /\ runOrder \in BOOLEAN /\ active \in BOOLEAN /\ deaf \in BOOLEAN
  /\ cur \in Frames /\ cur.index <= Len(cur.queue)
  /\ stack \in Seq(Frames) /\ \A i \in DOMAIN stack : stack[i].index <= Len(stack[i].queue)
  /\ armed \in Seq([name : Names, order : Orders, delay : 0 .. MaxDelay])
  /\ dangling \subseteq Names
  /\ wait \in [on : BOOLEAN, time : 0 .. MaxDelay, order : Orders]
  /\ set \in [find : Named, point : Named, pain : Named, dead : Named, avoid : Named]
  /\ body \in [spawned : BOOLEAN, alive : BOOLEAN, actor : BOOLEAN, high : BOOLEAN]
  /\ health \in 0 .. MaxHealth /\ old \in 0 .. MaxHealth
  /\ answer \in {"none", "taken", "run", "overruled"}

\* A pawn that does not listen to triggers, targets and the player is in an order that
\* was interrupted by pain or stands above one: it will listen again (TargetDisable).
DeafMeansInterrupted == deaf => stack # <<>>

\* Return always has an order to return to, whatever has replaced, interrupted or ended
\* the orders before; otherwise TickHigh would not leave its loop.
ReturnFindsCaller == At({"return"}) => stack # <<>>

\* An interrupted order is left alone, whatever happens above it, and comes back as it
\* was when it is the last one: its queue, its action and the player's distance.
InterruptedKept ==
  [][ \/ stack' = stack
      \/ stack' = Append(stack, cur)
      \/ /\ stack # <<>>
         /\ stack' = SubSeq(stack, 1, Len(stack) - 1)
         /\ cur' = stack[Len(stack)] ]_vars

\* A trigger that has come on is not forgotten: when its delay is over its order is run,
\* however often the pawn is hurt or has to avoid something meanwhile, unless the pawn is
\* removed or thinks on its low level, or another reaction of the very pass that takes the
\* order (a point, a target, the player, pain) takes its place: that one overrules it for
\* good.  The orders that replace a pain order (AttributeOrder's and FindPointOrder's, which
\* do not ask for TargetDisable) have to come to an end.
Gone == ~body.alive \/ ~body.high \/ pc = "fault"
TriggerAnswered ==
  (wait.on \/ answer = "taken") ~> (answer \in {"run", "overruled"} \/ Gone)
==============================================================================

---- MODULE MCLevelLogic ----
(* LevelLogic for TLC: two triggers, two gates, a countdown, one of each of what changes an *)
(* attribute, and two attributes, in several levels. *)
EXTENDS LevelLogic
MCTriggers == <<"t1", "t2">>
MCGates == <<"g1", "g2">>
MCTimers == <<"c1">>
MCPickups == <<"p1">>
MCModifiers == <<"m1">>
MCChanges == <<"h1">>
MCHurts == {-1}
\* Towards zero, to six shares; a time of three leaves something.
MCFloat(total, time, increment) ==
  LET n == total + time * increment
  IN  6 * Truncated(n, 6)
MCResidue(n) == n = 3
MCTypes == {"snd"}
MCDatas == [owner : Owners, loop : BOOLEAN]

Motion == [animated |-> TRUE, looping |-> FALSE, reverse |-> FALSE, turns |-> FALSE,
           each |-> Untimed, stops |-> <<>>]
Touched == [on |-> 3, off |-> 1, oneShot |-> FALSE, by |-> None, playerOnly |-> FALSE,
            shoot |-> FALSE, useKey |-> FALSE, noCollide |-> FALSE, event |-> FALSE,
            motion |-> Motion]
\* Nobody turns it on.
Idle == [Touched EXCEPT !.noCollide = TRUE]
Scripted == [Idle EXCEPT !.event = TRUE]
Gate(type, a, b) == [type |-> type, in1 |-> a, in2 |-> b, delay |-> 2, amount |-> 0]
More(n, a) == [Gate("attribute", a, "x") EXCEPT !.amount = n]
NoTimer == [amount |-> 2, by |-> None, stop |-> None]
Gift(n) == [powerUp |-> FALSE, setMaximum |-> FALSE, amount |-> n]
\* Nobody puts it there, or starts it.
NoPickup == [by |-> Nobody, playerOnly |-> FALSE, useKey |-> FALSE, reSpawn |-> FALSE,
             delay |-> 0, name |-> "health", gift |-> Gift(1), altName |-> None,
             altGift |-> Gift(1)]
NoModifier == [by |-> None, name |-> "health", gift |-> Gift(1)]
NoChange == [by |-> None, stop |-> None, name |-> "health", amount |-> 1,
             percentage |-> FALSE, time |-> 1]
Lacking == [has |-> FALSE, value |-> 0, low |-> 0, high |-> 0]
Having(n, high) == [has |-> TRUE, value |-> n, low |-> 0, high |-> high]
Level(t1, t2, g1, g2, c1, sounds) ==
  [trigger |-> [t1 |-> t1, t2 |-> t2], gate |-> [g1 |-> g1, g2 |-> g2],
   timer |-> [c1 |-> c1], sound |-> sounds, pickup |-> [p1 |-> NoPickup],
   modifier |-> [m1 |-> NoModifier], change |-> [h1 |-> NoChange],
   attribute |-> [health |-> Lacking, armour |-> Lacking]]
Loud == [t1 |-> "loop", t2 |-> "once", c1 |-> "loop", p1 |-> "once"]
Quiet == [o \in Owners |-> "none"]

MCSetups == {
  \* A trigger opens the next; gates count the one and hear of refusals at the other.
  Level([Touched EXCEPT !.playerOnly = TRUE], [Touched EXCEPT !.by = "t1", !.on = 1],
        Gate("flipflop", "t1", "t1"), Gate("callback", "t2", "t1"), NoTimer, Loud),
  \* A countdown between a trigger and what stops it, with gates in a chain.
  Level(Touched, Idle, Gate("not", "g2", "x"), Gate("xor", "g1", "x"),
        [amount |-> 3, by |-> "t1", stop |-> "x"], Loud),
  \* A one-shot that is shot, and one that a script or a model turns on.
  Level([Touched EXCEPT !.shoot = TRUE, !.oneShot = TRUE], Scripted,
        Gate("stayon", "t1", "x"), Gate("hold", "t2", "x"), NoTimer,
        [Loud EXCEPT !["t2"] = "loop"]),
  \* A lock: used with a key held in the inventory, which is then taken away.
  Level([Touched EXCEPT !.useKey = TRUE, !.by = "g1"], Idle,
        Gate("has", "x", "x"), Gate("clear", "t1", "x"), NoTimer, Quiet),
  \* A delay, and a countdown started and stopped by gates; short pulses, no model.
  Level([Touched EXCEPT !.on = 1, !.off = 0, !.motion.animated = FALSE], Idle,
        Gate("delay", "x", "x"), Gate("and", "g1", "t1"),
        [amount |-> 2, by |-> "g1", stop |-> "g2"], Loud),
  \* A flip-flop and a delay behind a trigger.
  Level(Touched, [Idle EXCEPT !.noCollide = FALSE, !.by = "c1"], Gate("flipflop", "t1", "t1"),
        Gate("or", "t1", "t2"), [amount |-> 2, by |-> "g1", stop |-> None], Quiet),
  \* Something to take that comes again and modifies when it does; its going is heard of.
  [Level(Idle, Idle, Gate("callback", "p1", "x"), More(1, "health"), NoTimer, Loud)
     EXCEPT !.pickup.p1 = [NoPickup EXCEPT !.by = None, !.reSpawn = TRUE, !.delay = 2,
                                           !.altName = "armour"],
            !.modifier.m1 = [NoModifier EXCEPT !.by = "p1", !.name = "armour",
                                               !.gift = Gift(-1)],
            !.attribute.health = Having(1, 2), !.attribute.armour = Having(1, 2)],
  \* A power-up to be used, which a gate on the attribute puts there, and which opens a
  \* trigger; the attribute sinks over a time.
  [Level([Touched EXCEPT !.on = 1, !.off = 0, !.motion.animated = FALSE], Idle,
         More(2, "health"), Gate("flipflop", "t1", "t1"), NoTimer, Quiet)
     EXCEPT !.pickup.p1 = [NoPickup EXCEPT !.by = "g1", !.useKey = TRUE, !.playerOnly = TRUE,
                             !.gift = [Gift(1) EXCEPT !.powerUp = TRUE, !.setMaximum = TRUE]],
            !.change.h1 = [NoChange EXCEPT !.by = "t1", !.stop = "x", !.amount = -2,
                                           !.time = 3],
            !.attribute.health = Having(3, 3)],
  \* A percentage, and a ModifyAttribute that fills up.
  [Level([Touched EXCEPT !.off = 2, !.motion.animated = FALSE], Idle, Gate("not", "t1", "x"),
         More(3, "health"), [amount |-> 2, by |-> "t1", stop |-> None], Quiet)
     EXCEPT !.modifier.m1 = [NoModifier EXCEPT !.by = "x",
                               !.gift = [Gift(0) EXCEPT !.setMaximum = TRUE]],
            !.change.h1 = [NoChange EXCEPT !.by = "g1", !.amount = -50,
                                           !.percentage = TRUE, !.time = 3],
            !.attribute.health = Having(3, 5)]}
====

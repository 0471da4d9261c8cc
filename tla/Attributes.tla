------------------------------ MODULE Attributes ------------------------------
(***************************************************************************)
(* The attributes of the player (upstream/CPersistentAttributes.cpp) and   *)
(* what a level has to change them: what can be taken, called Attribute    *)
(* there and a pickup here, and ModifyAttribute (upstream/CAttribute.cpp), *)
(* and ChangeAttribute, which works over a time (upstream/CChange.cpp).    *)
(* Each is given as what an operation or a tick makes of it; LevelLogic    *)
(* puts them into the frames of a level.  Times are in the unit of the     *)
(* level.  Values are integers in the code too, but what a change has yet  *)
(* to give is a float, which is rounded whenever it is computed.           *)
(***************************************************************************)
EXTENDS Integers

CONSTANTS
  Float(_, _, _),  \* total + dt * increment, as floats compute it
  MaxError,        \* how far from it they come for each unit of time
  Residue(_)       \* whether floats leave something of a time that is over

ASSUME FloatAssumption == MaxError \in Nat

------------------------------------------------------------------------------
(* An attribute: whether the list has it, its value and its limits *)

AttributeRecords == [has : BOOLEAN, value : Int, low : Int, high : Int]

\* The low limit first, so that a high limit below it prevails.
ClampValue(a) ==
  LET up == IF a.value < a.low THEN a.low ELSE a.value
  IN  [a EXCEPT !.value = IF up > a.high THEN a.high ELSE up]

Set(a, n) == IF a.has THEN ClampValue([a EXCEPT !.value = n]) ELSE a

Modify(a, n) == Set(a, a.value + n)

\* The value stays, also above a limit that was lowered.
SetHighLimit(a, n) == IF a.has THEN [a EXCEPT !.high = n] ELSE a

(***************************************************************************)
(* What pickups and ModifyAttribute give: g.powerUp raises the limit,      *)
(* g.setMaximum fills up to it, else g.amount is added.                    *)
(***************************************************************************)
Gifts == [powerUp : BOOLEAN, setMaximum : BOOLEAN, amount : Int]

Given(a, g) ==
  LET raised == IF g.powerUp THEN SetHighLimit(a, a.high + g.amount) ELSE a
  IN  CASE g.setMaximum -> Set(raised, raised.high)
        [] ~g.setMaximum /\ g.powerUp -> raised
        [] OTHER -> Modify(a, g.amount)

\* A pickup is left for who has no use for it.
Useful(a, g) == a.has /\ (g.powerUp \/ a.value < a.high \/ g.amount < 0)

------------------------------------------------------------------------------
(* Pickups *)

FreshPickup == [alive |-> TRUE, active |-> FALSE, tick |-> 0, callBack |-> 0]

Taken(s) == [alive |-> FALSE, active |-> FALSE, tick |-> 0, callBack |-> 2]

Revives(s, c, dt) == ~s.alive /\ c.reSpawn /\ s.tick + dt >= c.delay

\* c: its settings; wanted: its trigger, if it has one, is on.  One that comes again does
\* so a tick before it is seen.
TickPickup(s, c, wanted, dt) ==
  LET told == [s EXCEPT !.callBack = IF @ = 0 THEN 0 ELSE @ - 1]
  IN  CASE s.alive -> [told EXCEPT !.active = wanted]
        [] ~s.alive /\ c.reSpawn -> [told EXCEPT !.tick = @ + dt, !.alive = Revives(s, c, dt)]
        [] OTHER -> told

------------------------------------------------------------------------------
(* A change over a time: c.amount, or that percentage of the value, in c.time *)

(***************************************************************************)
(* increment is counted in shares for each unit of time, and total too, so *)
(* that a whole is Whole(c) of them.  given, how much Modify was asked for *)
(* since the start, is for the properties.                                 *)
(***************************************************************************)
FreshChange == [active |-> FALSE, old |-> FALSE, count |-> 0, total |-> 0, increment |-> 0,
                given |-> 0]

Whole(c) == 100 * c.time

StartChange(s, c, a) ==
  [s EXCEPT !.active = TRUE, !.count = c.time, !.total = 0, !.given = 0,
            !.increment = c.amount * (IF c.percentage THEN a.value ELSE 100)]

\* total with what this frame adds to it.  The error of increment is part of MaxError.
Summed(s, dt) ==
  LET exact == s.total + dt * s.increment
      float == Float(s.total, dt, s.increment)
  IN  IF float \in exact - MaxError * dt .. exact + MaxError * dt THEN float ELSE exact

\* (int)total.
Truncated(n, whole) == IF n >= 0 THEN n \div whole ELSE -((-n) \div whole)

Share(s, c, dt) == Truncated(Summed(s, dt), Whole(c))

\* A time that is over to the millisecond may last for another frame.
Lasts(s, c, dt) == s.count > dt \/ (s.count = dt /\ Residue(c.time) = TRUE)

\* Mutant: what is less than one is forgotten.
RunChangeForgets(s, c, dt) ==
  [s EXCEPT !.total = 0, !.count = s.count - dt, !.active = Lasts(s, c, dt),
            !.given = s.given + Share(s, c, dt)]

RunChange(s, c, dt) ==
  [s EXCEPT !.total = Summed(s, dt) - Share(s, c, dt) * Whole(c),
            !.count = s.count - dt, !.active = Lasts(s, c, dt),
            !.given = s.given + Share(s, c, dt)]
==============================================================================

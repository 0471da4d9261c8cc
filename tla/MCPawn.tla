-------------------------------- MODULE MCPawn --------------------------------
(***************************************************************************)
(* A guard for TLC: it patrols, is called by a bell, bumps into the        *)
(* player, flinches, dodges obstacles, vanishes at a point and dies.       *)
(***************************************************************************)
EXTENDS Pawn

MCOrders == {"guard", "patrol", "alarm", "attack", "flinch", "dodge", "die", "look"}
MCCalled == {"flinch", "dodge"}
MCLowExits == {"patrol"}
MCFaulty == {"look"}

Keep == [dist |-> Same, pain |-> Same, find |-> Same, point |-> Same, stop |-> FALSE]
Do(kind, order) == [kind |-> kind, order |-> order, name |-> None, delay |-> 0]
Simply(kind) == Do(kind, None)
Arm(name, order, delay) == [kind |-> "arm", order |-> order, name |-> name, delay |-> delay]
Disarm(name) == [kind |-> "disarm", order |-> None, name |-> name, delay |-> 0]

MCScript ==
  [guard  |-> [sets |-> [Keep EXCEPT !.pain = "flinch", !.point = "look", !.find = "attack"],
               acts |-> <<Do("attribute", "die"), Do("avoid", "dodge"),
                          Arm("bell", "alarm", 1), Arm("bump", "attack", 0),
                          Arm("flag", "alarm", 0), Do("new", "patrol")>>],
   patrol |-> [sets |-> [Keep EXCEPT !.dist = "attack", !.find = None],
               acts |-> <<Simply("move"), Do("next", "patrol")>>],
   look   |-> [sets |-> Keep, acts |-> <<Simply("remove")>>],
   alarm  |-> [sets |-> Keep,
               acts |-> <<Disarm("bell"), Arm("bump", "attack", 0), Do("low", "attack")>>],
   attack |-> [sets |-> Keep, acts |-> <<Do("damage", "patrol"), Simply("restart")>>],
   flinch |-> [sets |-> Keep, acts |-> <<Simply("move"), Simply("return")>>],
   dodge  |-> [sets |-> Keep, acts |-> <<Simply("instant"), Simply("work"), Simply("return")>>],
   die    |-> [sets |-> Keep, acts |-> <<Simply("remove"), Do("attribute", "die"), Simply("end")>>]]
===============================================================================

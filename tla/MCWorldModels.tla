---- MODULE MCWorldModels ----
(* WorldModels for TLC: two movers linked to each other, in many a level, and a third
   that ticks between them. *)
EXTENDS WorldModels
MCMovers == <<"m1", "m3", "m2">>
MCNext == [m1 |-> "m2", m2 |-> "m1", m3 |-> "m1"]
MCTypes == {"snd"}
MCDatas == [owner : Names, loop : BOOLEAN]
MCTargets == {-1, 1}

Plain == [animated |-> TRUE, looping |-> FALSE, reverse |-> FALSE, turns |-> FALSE,
          each |-> Untimed, stops |-> <<>>]
Door == [kind |-> "door", noCollide |-> FALSE, shoot |-> FALSE, useKey |-> FALSE,
         playerOnly |-> FALSE, oneShot |-> FALSE, whileTrig |-> FALSE, auto |-> FALSE,
         linked |-> FALSE, scripted |-> FALSE, trigger |-> "none", sound |-> "loop",
         motion |-> Plain]
LinkedDoor == [Door EXCEPT !.linked = TRUE]
TriggerDoor == [LinkedDoor EXCEPT !.noCollide = TRUE, !.trigger = "t1"]
Doors == {LinkedDoor, TriggerDoor,
  [LinkedDoor EXCEPT !.trigger = "t1", !.sound = "once", !.playerOnly = TRUE],
  [TriggerDoor EXCEPT !.whileTrig = TRUE],
  [TriggerDoor EXCEPT !.oneShot = TRUE, !.whileTrig = TRUE],
  [LinkedDoor EXCEPT !.oneShot = TRUE, !.sound = "none"],
  [Door EXCEPT !.shoot = TRUE, !.motion.turns = TRUE],
  [Door EXCEPT !.scripted = TRUE],
  [LinkedDoor EXCEPT !.useKey = TRUE, !.noCollide = TRUE, !.motion.each = 1],
  [LinkedDoor EXCEPT !.motion.stops = <<1>>, !.sound = "none"],
  [Door EXCEPT !.motion.animated = FALSE]}
Platform == [Door EXCEPT !.kind = "platform"]
Platforms == {[Platform EXCEPT !.auto = TRUE, !.motion.looping = TRUE, !.motion.reverse = TRUE],
  [Platform EXCEPT !.noCollide = TRUE, !.trigger = "t1", !.linked = TRUE, !.motion.looping = TRUE],
  [Platform EXCEPT !.noCollide = TRUE, !.trigger = "t1", !.whileTrig = TRUE, !.sound = "none",
                   !.motion.looping = TRUE, !.motion.reverse = TRUE, !.motion.stops = <<1, 2>>],
  [Platform EXCEPT !.oneShot = TRUE, !.linked = TRUE, !.motion.reverse = TRUE, !.motion.each = 1],
  [Platform EXCEPT !.motion.looping = TRUE, !.scripted = TRUE, !.motion.stops = <<1>>, !.sound = "none"]}
Still == [Door EXCEPT !.noCollide = TRUE, !.sound = "none"]
MCSetups == {[m1 |-> a, m2 |-> b, m3 |-> Still] : a \in Doors, b \in Doors \cup Platforms}
            \cup {[m1 |-> a, m2 |-> b, m3 |-> Still] : a, b \in Platforms}
            \cup {[m1 |-> [Platform EXCEPT !.auto = TRUE, !.oneShot = TRUE], m2 |-> a,
                   m3 |-> Still] : a \in Platforms}
            \cup {[m1 |-> a, m2 |-> a, m3 |-> b] :
                     a \in {LinkedDoor, TriggerDoor},
                     b \in {LinkedDoor, [TriggerDoor EXCEPT !.linked = FALSE],
                            [Platform EXCEPT !.linked = TRUE]}}
====

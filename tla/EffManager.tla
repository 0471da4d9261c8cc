------------------------------ MODULE EffManager ------------------------------
(***************************************************************************)
(* The pool of effects of upstream/EffManger.cpp: lights, sprays, sounds   *)
(* and the rest share MAX_EFF_ITEMS slots, and whoever adds an effect keeps*)
(* nothing but the index of its slot.  These are the operations on a pool  *)
(* of slots; who calls them, and when, is the subject of EffectFrame.      *)
(***************************************************************************)
EXTENDS Integers

CONSTANTS
  MaxEffItems,  \* MAX_EFF_ITEMS
  EffTypes,     \* EFF_LIGHT, EFF_SPRAY, ...
  Datas         \* what the Data of an item may stand for: the effect of some owner

ASSUME PoolAssumption == MaxEffItems \in Nat \ {0}

Slots == 0 .. MaxEffItems - 1

Pools == [Slots -> [active : BOOLEAN, type : EffTypes, data : Datas,
                    pause : BOOLEAN, removeNext : BOOLEAN]]

\* The constructor clears Active and Pause; the rest is set when an item is added.
FreshPool(t, d) ==
  [i \in Slots |-> [active |-> FALSE, type |-> t, data |-> d, pause |-> FALSE,
                    removeNext |-> FALSE]]

IsLive(item) == item.active /\ ~item.removeNext

Matches(item, type) == item.active /\ item.type = type

\* Item_Alive
ItemAlive(p, i) == IsLive(p[i])

\* The slot Item_Add takes: the first that is not active, or -1.
IsFirstFree(p, i) ==
  \/ i = -1 /\ \A j \in Slots : p[j].active
  \/ i \in Slots /\ ~p[i].active /\ \A j \in Slots : j < i => p[j].active

\* Item_Add, at the slot it takes.  Pause is left as the last effect there had it.
ItemAdd(p, i, type, data) ==
  IF i = -1 THEN p
  ELSE [p EXCEPT ![i] = [@ EXCEPT !.active = TRUE, !.removeNext = FALSE,
                                  !.type = type, !.data = data]]

\* Item_Delete.  RemoveNext and Pause stay.
ItemDelete(p, type, i) ==
  IF Matches(p[i], type) THEN [p EXCEPT ![i].active = FALSE] ELSE p

\* Item_Pause
ItemPause(p, type, i, flag) ==
  IF Matches(p[i], type) THEN [p EXCEPT ![i].pause = flag] ELSE p

\* Mutant: a paused effect is taken for one that has ended.
SweptPaused(p) ==
  [i \in Slots |-> IF p[i].active /\ (p[i].removeNext \/ p[i].pause)
                   THEN [p[i] EXCEPT !.active = FALSE, !.removeNext = FALSE] ELSE p[i]]

\* The first pass of Tick removes the effects that ended in the last Tick ...
Swept(p) ==
  [i \in Slots |-> IF p[i].active /\ p[i].removeNext
                   THEN [p[i] EXCEPT !.active = FALSE, !.removeNext = FALSE] ELSE p[i]]

\* ... and the second processes the others, of which some end.
Processed(p) == {i \in Slots : p[i].active /\ ~p[i].pause}

Ended(p, ends) ==
  [i \in Slots |-> IF i \in ends THEN [p[i] EXCEPT !.removeNext = TRUE] ELSE p[i]]
===============================================================================

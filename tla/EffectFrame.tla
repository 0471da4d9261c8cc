------------------------------ MODULE EffectFrame ------------------------------
(***************************************************************************)
(* The frame of the game as the effects see it: the components that own    *)
(* effects are ticked one after the other, and the effect manager twice,   *)
(* once by DispatchTick and once by the loop of GameLevel.  One kind of    *)
(* owner is modelled for each way the code keeps an index:                 *)
(*   Loops        a looped sound, kept until deleted (CPlayer::ProcessMove)*)
(*   Sources      a sound played once, asked after only while the trigger  *)
(*                is off (C3DAudioSource)                                  *)
(*   Spouts       an endless spray that pauses (CSpout)                    *)
(*   Explosions   an effect of any type attached to an actor, asked after  *)
(*                in every tick (CExplosionInit)                           *)
(*   Projectiles  a looped sound and several effects of any types, deleted *)
(*                without being asked after (CWeapon)                      *)
(* and effects that nobody keeps the index of (Shot).                      *)
(*                                                                         *)
(* Of a projectile's effects some end by themselves.  Its index is then    *)
(* stale, and what it deletes may be another's, though never of another    *)
(* type: a type is safe if no projectile has an effect of it that ends.    *)
(***************************************************************************)
EXTENDS EffManager

CONSTANTS
  Loops, Sources, Spouts, Explosions, Projectiles,
  MaxParts,  \* the effects of a projectile: the code has its sound and five more
  Kinds,     \* what effects the explosions and projectiles of a level may have
  Shot,      \* the owner of the effects nobody keeps
  ShotTypes  \* their types

PartsOf(w) == {w} \X (0 .. MaxParts - 1)
Parts == Projectiles \X (0 .. MaxParts - 1)
Clients == Loops \cup Sources \cup Spouts \cup Explosions \cup Parts

ASSUME FrameAssumption ==
  /\ {"snd", "spray"} \subseteq EffTypes /\ "none" \notin EffTypes
  /\ MaxParts \in Nat /\ ShotTypes \subseteq EffTypes
  /\ Kinds \subseteq [Parts \cup Explosions -> [type : EffTypes \cup {"none"}, ends : BOOLEAN]]
  /\ \A k \in Kinds : \A c \in Explosions : k[c].type \in EffTypes
  /\ Datas = Clients \cup {Shot} /\ Shot \notin Clients
  /\ Loops \cap Spouts = {} /\ Loops \cap Explosions = {} /\ Spouts \cap Explosions = {}
  /\ Loops \cap Sources = {} /\ Spouts \cap Sources = {} /\ Explosions \cap Sources = {}
  /\ Parts \cap (Loops \cup Sources \cup Spouts \cup Explosions) = {}

VARIABLES
  Item,        \* the pool
  client,      \* what each owner knows of its effect
  phase,       \* whose turn it is in the frame
  todo,        \* the owners of this phase whose turn is still to come
  kind         \* the level: the type of an explosion's or a projectile's effect, "none"
               \* where a projectile lacks it, and whether the latter ends by itself

vars == <<Item, client, phase, todo, kind>>

\* Endless effects are ended by their owner only; the others end by themselves.
Endless == Loops \cup Spouts \cup {p \in Parts : kind[p].type # "none" /\ ~kind[p].ends}

\* The type of the effects an owner adds.
TypeOf(c) == IF c \in Loops \cup Sources THEN "snd"
             ELSE IF c \in Spouts THEN "spray" ELSE kind[c].type

\* Mutant: the loop ticks the effects without the explosions before them.
FollowNoExplosions == [input |-> "explosions1", explosions1 |-> "effects1",
           effects1 |-> "spouts", spouts |-> "sources", sources |-> "weapons",
           weapons |-> "attack", attack |-> "effects2", explosions2 |-> "effects2",
           effects2 |-> "input"]

\* The order of a frame: HandleGameInput, the ticks of DispatchTick, the attack and
\* the ticks of the loop itself.
Follow == [input |-> "explosions1", explosions1 |-> "effects1",
           effects1 |-> "spouts", spouts |-> "sources", sources |-> "weapons",
           weapons |-> "attack", attack |-> "explosions2", explosions2 |-> "effects2",
           effects2 |-> "input"]

\* The owners ticked in a phase.
Members(f) == CASE f = "input" -> Loops
                [] f \in {"explosions1", "explosions2"} -> Explosions
                [] f = "spouts" -> Spouts
                [] f = "sources" -> Sources
                [] f = "weapons" -> Projectiles
                [] OTHER -> {}

Init ==
  /\ Item = FreshPool("snd", Shot)
  /\ client = [c \in Clients |-> [mode |-> "off", index |-> -1, paused |-> FALSE]]
  /\ phase = "input" /\ todo = Loops
  /\ kind \in Kinds

\* The next phase; while the inventory stops the time DispatchTick is left out.
GoTo(f) == phase' = f /\ todo' = Members(f)

NextPhase ==
  /\ todo = {} /\ phase \notin {"effects1", "effects2"}
  /\ \/ GoTo(Follow[phase])
     \/ phase = "input" /\ GoTo("attack")
  /\ UNCHANGED <<Item, client, kind>>

------------------------------------------------------------------------------
(* The owners *)

\* The turn of owner c in phase f; the owners of a phase take turns in any order.
Turn(c, f) == phase = f /\ c \in todo /\ todo' = todo \ {c} /\ UNCHANGED <<phase, kind>>

\* The owners in the domain of index add their effects at these slots.
AddAll(index, mode) ==
  /\ Item' = [i \in Slots |->
       IF \E c \in DOMAIN index : index[c] = i
       THEN LET c == CHOOSE c \in DOMAIN index : index[c] = i
            IN  ItemAdd(Item, i, TypeOf(c), c)[i]
       ELSE Item[i]]
  /\ client' = [c \in Clients |->
       IF c \in DOMAIN index THEN [client[c] EXCEPT !.index = index[c], !.mode = mode]
       ELSE client[c]]

\* Owner c adds an effect and keeps its index.
Add(c, mode) ==
  \E i \in Slots \cup {-1} : IsFirstFree(Item, i) /\ AddAll([d \in {c} |-> i], mode)

\* The owners cs delete their effects and forget the indices.  Some owners call
\* Item_Delete with the index -1: it reads what is before the pool, which is not an
\* active effect.
DropAll(cs, mode) ==
  /\ Item' = [i \in Slots |->
       IF \E c \in cs : client[c].index = i /\ Matches(Item[i], TypeOf(c))
       THEN [Item[i] EXCEPT !.active = FALSE] ELSE Item[i]]
  /\ client' = [c \in Clients |->
       IF c \in cs THEN [client[c] EXCEPT !.index = -1, !.mode = mode] ELSE client[c]]

Drop(c, mode) == DropAll({c}, mode)

\* Owner c sees to its effect otherwise, with Item_Modify or not at all.
Keep == UNCHANGED <<Item, client>>
Forget(c, mode) ==
  /\ client' = [client EXCEPT ![c].index = -1, ![c].mode = mode]
  /\ UNCHANGED Item
Become(c, mode) ==
  /\ client' = [client EXCEPT ![c].mode = mode]
  /\ UNCHANGED Item

\* CPlayer::ProcessMove: the sound of moving in a liquid.
LoopTick(c) ==
  /\ Turn(c, "input")
  /\ \/ client[c].index = -1 /\ Add(c, "on")
     \/ client[c].index # -1 /\ Drop(c, "off")
     \/ Keep

\* Mutant: the sound is deleted without asking whether it is alive.
SourceTickBlind(c) ==
  /\ Turn(c, "sources")
  /\ \/ client[c].mode = "off" /\ Add(c, "on")
     \/ client[c].mode = "on" /\ Keep
     \/ IF client[c].index # -1 THEN Drop(c, "off") ELSE Become(c, "off")

\* C3DAudioSource with a sound that is not looped.
SourceTick(c) ==
  /\ Turn(c, "sources")
  /\ \/ client[c].mode = "off" /\ Add(c, "on")                 \* trigger on
     \/ client[c].mode = "on" /\ Keep
     \/ IF client[c].index # -1 /\ ~ItemAlive(Item, client[c].index)  \* trigger off
        THEN Drop(c, "off") ELSE Become(c, "off")

\* CSpout: created when triggered; deleted when no longer, or when its time has run
\* out; paused and resumed in between.
SpoutTick(c) ==
  /\ Turn(c, "spouts")
  /\ \/ client[c].mode = "off" /\ Add(c, "on")
     \/ client[c].mode = "on" /\ Drop(c, "off") \* untriggered, or its life is over
     \/ /\ client[c].mode = "on"                       \* PauseTime has run out
        /\ client' = [client EXCEPT ![c].paused = ~@]
        /\ Item' = IF client[c].index = -1 THEN Item
                   ELSE ItemPause(Item, "spray", client[c].index, ~client[c].paused)
     \/ Keep

\* AddExplosion with an actor: the explosion waits for its delay.
AddExplosion(c) ==
  /\ phase \in {"input", "spouts", "sources", "weapons", "attack"}
  /\ client[c].mode = "off"
  /\ Become(c, "delayed")
  /\ UNCHANGED <<phase, todo, kind>>

\* CExplosionInit::Tick: when the delay is over the effect is added and attached; an
\* attached one follows its actor while the effect is alive.
ExplosionTick(c) ==
  /\ Turn(c, "explosions1") \/ Turn(c, "explosions2")
  /\ \/ client[c].mode = "off" /\ Keep
     \/ client[c].mode = "delayed" /\ (Keep \/ Add(c, "attached"))
     \/ /\ client[c].mode = "attached" /\ client[c].index # -1
        /\ IF ItemAlive(Item, client[c].index) THEN Keep ELSE Forget(c, "off")
     \/ /\ client[c].mode = "attached" /\ client[c].index = -1
        /\ Forget(c, "off")

\* RemoveActorCheck: the explosions attached to the actor are taken off the list.
UnAttach(c) ==
  /\ phase \in {"input", "spouts", "sources", "weapons", "attack"}
  /\ client[c].mode = "attached"
  /\ Forget(c, "off")
  /\ UNCHANGED <<phase, todo, kind>>

\* CWeapon: a projectile flies on, or it is done and its sound and effects are deleted,
\* by indices and types, whether they are still its own or not.
ProjectileTick(w) ==
  /\ Turn(w, "weapons")
  /\ \/ (\A p \in PartsOf(w) : client[p].mode = "on") /\ DropAll(PartsOf(w), "off")
     \/ Keep

\* The pool once the slots taken have been used.
Filled(taken) ==
  [i \in Slots |-> IF i \in taken THEN [Item[i] EXCEPT !.active = TRUE] ELSE Item[i]]

\* Add_Projectile adds the sound and the effects one after another.  (A projectile that hits
\* at once deletes its sound again, and there is none.)
Fire(w) ==
  /\ phase = "attack" /\ \A p \in PartsOf(w) : client[p].mode = "off"
  /\ \E index \in [PartsOf(w) -> Slots \cup {-1}] :
       /\ \A p \in PartsOf(w) :
            IF kind[p].type = "none" THEN index[p] = -1
            ELSE IsFirstFree(Filled({index[q] : q \in {q \in PartsOf(w) : q[2] < p[2]}}),
                             index[p])
       /\ AddAll(index, "on")
  /\ UNCHANGED <<phase, todo, kind>>

\* An effect nobody keeps: the sound of a hit, an explosion that is not attached.
PlayOnce ==
  /\ phase \in {"input", "explosions1", "spouts", "sources", "weapons", "attack",
               "explosions2"}
  /\ \E i \in Slots, type \in ShotTypes :
       IsFirstFree(Item, i) /\ Item' = ItemAdd(Item, i, type, Shot)
  /\ UNCHANGED <<client, phase, todo, kind>>

------------------------------------------------------------------------------
\* EffManager::Tick.  Every effect that is not endless may end in any Tick.
EffectTick ==
  /\ phase \in {"effects1", "effects2"}
  /\ \E ends \in SUBSET {i \in Processed(Swept(Item)) : Item[i].data \notin Endless} :
       Item' = Ended(Swept(Item), ends)
  /\ GoTo(Follow[phase])
  /\ UNCHANGED <<client, kind>>

Next ==
  \/ NextPhase \/ EffectTick \/ PlayOnce
  \/ \E c \in Loops : LoopTick(c)
  \/ \E c \in Sources : SourceTick(c)
  \/ \E c \in Spouts : SpoutTick(c)
  \/ \E c \in Explosions : AddExplosion(c) \/ ExplosionTick(c) \/ UnAttach(c)
  \/ \E w \in Projectiles : ProjectileTick(w) \/ Fire(w)

Spec == Init /\ [][Next]_vars

------------------------------------------------------------------------------
(* Properties *)

Phases == DOMAIN Follow

\* A safe type is one of which no projectile has an effect that ends by itself.
Safe(t) == \A p \in Parts : kind[p].type = t => ~kind[p].ends

\* An index its owner has not given up is that of the owner's effect.
Owns(c) == client[c].index # -1 =>
  LET i == client[c].index IN Item[i].active /\ Item[i].data = c

\* Whoever ends its effect itself keeps it until then: nobody else deletes it, and its
\* slot is not given away.  And no such effect is left behind in the pool without an owner
\* who could end it.  This holds of all types but those of which a projectile has an
\* effect that ends: CWeapon deletes it by the index it once had.
EndlessOwned ==
  /\ \A c \in Endless : Safe(TypeOf(c)) =>
       Owns(c) /\ (client[c].index # -1 => ~Item[client[c].index].removeNext)
  /\ \A i \in Slots :
       Item[i].active /\ Item[i].data \in Endless /\ Safe(Item[i].type) =>
         client[Item[i].data].index = i

\* An attached explosion that asks Item_Alive is told about its own effect: it does not
\* drag another one along with its actor.  Where projectiles, or C3DAudioSource with its
\* sounds, may delete the effect that has ended, the slot can be taken again before the
\* explosion asks; then it is told about another's.
ExplosionMovesOwn ==
  \A c \in Explosions :
    /\ c \in todo /\ client[c].mode = "attached" /\ client[c].index # -1
    /\ Safe(TypeOf(c)) /\ TypeOf(c) # "snd"
    => (ItemAlive(Item, client[c].index) => Item[client[c].index].data = c)

\* "Returns the slot index used so that the effect can be modified later": an effect that
\* has not ended is removed only when its owner gives its index up.  A projectile that
\* deletes by a stale index breaks this for effects of the type of that index, and
\* for no other.
RemovedByOwner ==
  [][\A i \in Slots : ItemAlive(Item, i) /\ Safe(Item[i].type) /\ ~Item'[i].active =>
       /\ Item[i].data \in Clients
       /\ client[Item[i].data].index = i /\ client'[Item[i].data].index = -1]_vars

==============================================================================

--------------------------- MODULE EffectFrame_proofs ---------------------------
(***************************************************************************)
(* Who may rely on the index it keeps, for any number of owners and slots, *)
(* and for projectiles with any effects.                                   *)
(*                                                                         *)
(* An endless effect never ends by itself.  Whoever calls Item_Delete for  *)
(* its slot with its type is its owner, if the type is safe: the others who*)
(* call it are sources, for effects that are not alive, and projectiles,   *)
(* whose effects of that type do not end either, so that their indices are *)
(* not stale.  An explosion's effect does end; but whoever is still        *)
(* attached to one that has will be asked before the manager sweeps its    *)
(* slot.                                                                   *)
(***************************************************************************)
EXTENDS EffectFrame, TLAPS

Modes == {"off", "on", "delayed", "attached"}
Records == [mode : Modes, index : Slots \cup {-1}, paused : BOOLEAN]
ItemRecords == [active : BOOLEAN, type : EffTypes, data : Datas, pause : BOOLEAN,
                removeNext : BOOLEAN]

Types ==
  /\ Item \in Pools
  /\ client \in [Clients -> Records]
  /\ phase \in Phases /\ todo \subseteq Members(phase)
  /\ kind \in Kinds

Has(c) == client[c].index # -1

\* Those who end their effect themselves, where nobody deletes by a stale index.
Keepers == {c \in Endless : Safe(TypeOf(c))}

\* The explosions whose effects nobody deletes when they have ended.
Askers == {c \in Explosions : Safe(TypeOf(c)) /\ TypeOf(c) # "snd"}

\* The effects of keepers live until their owner gives them up.
KeptInv ==
  /\ \A c \in Keepers : Has(c) =>
       /\ IsLive(Item[client[c].index]) /\ Item[client[c].index].data = c
  /\ \A i \in Slots : Item[i].active /\ Item[i].data \in Keepers =>
       client[Item[i].data].index = i
  /\ \A c \in Spouts \cup Parts : client[c].mode = "off" => ~Has(c)
  /\ \A p \in Parts : Has(p) => kind[p].type # "none"

\* An effect is of the type its owner gives it.
Sorted == \A i \in Slots : Item[i].active /\ Item[i].data # Shot =>
            Item[i].type = TypeOf(Item[i].data)

\* An attached explosion has its own effect, and if that has ended, its turn to notice
\* comes before the manager's.
Attached(c) == client[c].mode = "attached" /\ Has(c)
ExplosionInv ==
  \A c \in Askers : Attached(c) =>
    /\ Item[client[c].index].active /\ Item[client[c].index].data = c
    /\ Item[client[c].index].removeNext =>
         /\ phase \notin {"effects1", "effects2"}
         /\ phase \in {"explosions1", "explosions2"} => c \in todo

IInv == Types /\ KeptInv /\ Sorted /\ ExplosionInv

USE PoolAssumption, FrameAssumption

LEMMA SlotsOk == -1 \notin Slots
BY DEF Slots

\* What follows from the level alone.
LEMMA Kept ==
  ASSUME kind' = kind
  PROVE  /\ Keepers' = Keepers /\ Askers' = Askers
         /\ \A c : TypeOf(c)' = TypeOf(c)
BY DEF Keepers, Askers, Endless, Safe, TypeOf

LEMMA Whose ==
  /\ Keepers \subseteq Endless /\ Endless \subseteq Clients /\ Endless \cap Sources = {}
  /\ Endless \cap Explosions = {} /\ Askers \subseteq Explosions /\ Explosions \subseteq Clients
  /\ Parts \cap Explosions = {} /\ Spouts \cap Explosions = {}
  /\ Shot \notin Clients /\ Parts \subseteq Clients /\ Spouts \subseteq Clients
BY DEF Keepers, Askers, Endless, Clients

LEMMA TypesOfEffects ==
  ASSUME kind \in Kinds
  PROVE  /\ \A c \in Clients \ Parts : TypeOf(c) \in EffTypes
         /\ \A p \in Parts : TypeOf(p) = kind[p].type /\ TypeOf(p) \in EffTypes \cup {"none"}
<1>1. kind \in [Parts \cup Explosions -> [type : EffTypes \cup {"none"}, ends : BOOLEAN]]
  OBVIOUS
<1>2. \A c \in Explosions : kind[c].type \in EffTypes
  OBVIOUS
<1> QED  BY <1>1, <1>2 DEF TypeOf, Clients

\* Whoever has an index, and deletes by it without asking, is a keeper if its type is safe.
LEMMA SafeKeeps ==
  ASSUME IInv, NEW c \in Clients \ (Explosions \cup Sources), Has(c), Safe(TypeOf(c))
  PROVE  c \in Keepers
<1>1. CASE c \in Loops \cup Spouts
  BY <1>1 DEF Keepers, Endless
<1>2. CASE c \in Parts
  <2>1. kind[c].type # "none" /\ TypeOf(c) = kind[c].type
    BY <1>2, TypesOfEffects DEF IInv, Types, KeptInv
  <2>2. ~kind[c].ends
    BY <1>2, <2>1 DEF Safe
  <2> QED  BY <1>2, <2>1, <2>2 DEF Keepers, Endless
<1> QED  BY <1>1, <1>2 DEF Clients

\* A step of the owners cs in their phase.
Steady(cs) ==
  /\ phase' = phase /\ todo' \subseteq todo /\ kind' = kind
  /\ phase \in {"explosions1", "explosions2"} => todo \ todo' \subseteq cs

(***************************************************************************)
(* The operations on the pool.                                             *)
(***************************************************************************)
Sets(cs, index, mode) ==
  client' = [c \in Clients |->
    IF c \in cs THEN [client[c] EXCEPT !.index = index[c], !.mode = mode] ELSE client[c]]

LEMMA ClientsSet ==
  ASSUME Types, NEW cs, cs \subseteq Clients, NEW mode \in Modes,
         NEW index \in [cs -> Slots \cup {-1}], Sets(cs, index, mode)
  PROVE  /\ client' \in [Clients -> Records]
         /\ \A c \in cs : client'[c].index = index[c] /\ client'[c].mode = mode
         /\ \A c \in Clients \ cs : client'[c] = client[c]
<1>1. \A c \in Clients : client[c] \in Records
  BY DEF Types
<1>2. ASSUME NEW c \in cs
      PROVE  /\ client'[c].index = index[c] /\ client'[c].mode = mode
             /\ client'[c] \in Records
  <2>1. client'[c] = [client[c] EXCEPT !.index = index[c], !.mode = mode]
    BY DEF Sets
  <2>2. index[c] \in Slots \cup {-1} /\ client[c] \in Records
    BY <1>1
  <2> QED  BY <2>1, <2>2 DEF Records
<1>3. \A c \in Clients \ cs : client'[c] = client[c]
  BY DEF Sets
<1>4. \A c \in Clients : client'[c] \in Records
  BY <1>1, <1>2, <1>3
<1>5. client' \in [Clients -> Records]
  BY <1>4 DEF Sets
<1>6. \A c \in cs : client'[c].index = index[c] /\ client'[c].mode = mode
  BY <1>2
<1> QED  BY <1>3, <1>5, <1>6, Zenon

LEMMA AddAllKeeps ==
  ASSUME IInv, NEW cs, cs \subseteq Clients, NEW mode \in Modes,
         NEW index \in [cs -> Slots \cup {-1}], AddAll(index, mode),
         \A c \in cs : index[c] # -1 => ~Item[index[c]].active /\ TypeOf(c) \in EffTypes,
         \A c, d \in cs : index[c] = index[d] /\ index[c] # -1 => c = d,
         \A c \in cs : c \in Endless \cup Parts => ~Has(c),
         \A c \in cs : c \in Explosions => client[c].mode # "attached",
         \A c \in cs : c \in Spouts \cup Parts => mode # "off",
         \A p \in cs \cap Parts : index[p] # -1 => kind[p].type # "none",
         Steady(cs)
  PROVE  IInv'
<1>0. DOMAIN index = cs
  OBVIOUS
<1>1. /\ client' \in [Clients -> Records]
      /\ \A c \in cs : client'[c].index = index[c] /\ client'[c].mode = mode
      /\ \A c \in Clients \ cs : client'[c] = client[c]
  <2>1. Sets(cs, index, mode)
    BY <1>0, Zenon DEF AddAll, Sets
  <2>2. Types
    BY DEF IInv
  <2> QED  BY <2>1, <2>2, ClientsSet
<1>2. ASSUME NEW c \in cs, index[c] # -1
      PROVE  /\ Item'[index[c]].active /\ ~Item'[index[c]].removeNext
             /\ Item'[index[c]].type = TypeOf(c) /\ Item'[index[c]].data = c
             /\ Item'[index[c]] \in ItemRecords
  <2> DEFINE i == index[c]
             new == [Item[i] EXCEPT !.active = TRUE, !.removeNext = FALSE,
                                    !.type = TypeOf(c), !.data = c]
  <2>1. i \in Slots /\ Item[i] \in ItemRecords
    BY <1>2 DEF IInv, Types, Pools, ItemRecords
  <2>2. (CHOOSE d \in DOMAIN index : index[d] = i) = c
    BY <1>0, <1>2
  <2>3. Item'[i] = ItemAdd(Item, i, TypeOf(c), c)[i]
    BY <1>0, <2>1, <2>2 DEF AddAll
  <2>4. ItemAdd(Item, i, TypeOf(c), c)[i] = new
    BY <1>2, <2>1 DEF ItemAdd, IInv, Types, Pools
  <2>5. c \in Datas /\ TypeOf(c) \in EffTypes
    BY <1>2
  <2>6. new \in ItemRecords /\ new.active /\ ~new.removeNext /\ new.type = TypeOf(c)
        /\ new.data = c
    BY <2>1, <2>5 DEF ItemRecords
  <2> QED  BY <2>3, <2>4, <2>6
<1>3. ASSUME NEW i \in Slots, \A c \in cs : index[c] # i
      PROVE  Item'[i] = Item[i]
  BY <1>0, <1>3 DEF AddAll
<1>4. \A i \in Slots : Item[i].active => Item'[i] = Item[i]
  BY <1>3, SlotsOk
<1>5. Types'
  <2>1. \A i \in Slots : Item'[i] \in ItemRecords
    BY <1>2, <1>3, SlotsOk DEF IInv, Types, Pools, ItemRecords
  <2>2. Item' \in Pools
    <3>1. DOMAIN Item' = Slots /\ Item' = [i \in Slots |-> Item'[i]]
      BY DEF AddAll
    <3> QED  BY <2>1, <3>1 DEF Pools, ItemRecords
  <2> QED  BY <1>1, <2>2 DEF IInv, Types, Steady
<1>6. KeptInv'
  <2>1. ASSUME NEW d \in Keepers, Has(d)'
        PROVE  IsLive(Item'[client'[d].index]) /\ Item'[client'[d].index].data = d
    <3>1. CASE d \in cs
      BY <1>1, <1>2, <2>1, <3>1 DEF Has, IsLive
    <3>2. CASE d \notin cs
      <4>1. d \in Clients /\ client'[d] = client[d]
        BY <1>1, <3>2, Whose
      <4>2. client[d].index \in Slots
        BY <2>1, <4>1 DEF Has, IInv, Types, Records
      <4>3. IsLive(Item[client[d].index]) /\ Item[client[d].index].data = d
        BY <2>1, <4>1 DEF Has, IInv, KeptInv
      <4> QED  BY <1>4, <4>1, <4>2, <4>3 DEF IsLive
    <3> QED  BY <3>1, <3>2
  <2>2. ASSUME NEW j \in Slots, Item'[j].active, Item'[j].data \in Keepers
        PROVE  client'[Item'[j].data].index = j
    <3>1. CASE \E c \in cs : index[c] = j
      BY <1>1, <1>2, <3>1, SlotsOk
    <3>2. CASE \A c \in cs : index[c] # j
      <4>1. Item'[j] = Item[j] /\ client[Item[j].data].index = j
        BY <1>3, <2>2, <3>2 DEF IInv, KeptInv
      <4>2. Item[j].data \notin cs
        BY <2>2, <4>1, SlotsOk, Whose DEF Has
      <4> QED  BY <1>1, <2>2, <4>1, <4>2, Whose
    <3> QED  BY <3>1, <3>2
  <2>3. ASSUME NEW d \in Spouts \cup Parts, client'[d].mode = "off"
        PROVE  ~Has(d)'
    BY <1>1, <2>3, Whose DEF IInv, KeptInv, Has
  <2>4. ASSUME NEW p \in Parts, Has(p)'
        PROVE  kind'[p].type # "none"
    <3>1. CASE p \in cs
      BY <1>1, <2>4, <3>1 DEF Has, Steady
    <3>2. CASE p \notin cs
      BY <1>1, <2>4, <3>2, Whose DEF Has, Steady, IInv, KeptInv
    <3> QED  BY <3>1, <3>2
  <2> QED  BY <2>1, <2>2, <2>3, <2>4, Kept DEF KeptInv, Steady
<1>7. Sorted'
  <2> SUFFICES ASSUME NEW j \in Slots, Item'[j].active, Item'[j].data # Shot
               PROVE  Item'[j].type = TypeOf(Item'[j].data)
    BY Kept DEF Sorted, Steady
  <2>1. CASE \E c \in cs : index[c] = j
    BY <1>2, <2>1, SlotsOk
  <2>2. CASE \A c \in cs : index[c] # j
    BY <1>3, <2>2 DEF IInv, Sorted
  <2> QED  BY <2>1, <2>2
<1>8. ExplosionInv'
  <2> SUFFICES ASSUME NEW d \in Askers, Attached(d)'
               PROVE  /\ Item'[client'[d].index].active /\ Item'[client'[d].index].data = d
                      /\ Item'[client'[d].index].removeNext =>
                           /\ phase' \notin {"effects1", "effects2"}
                           /\ phase' \in {"explosions1", "explosions2"} => d \in todo'
    BY Kept DEF ExplosionInv, Steady
  <2>1. CASE d \in cs
    BY <1>1, <1>2, <2>1 DEF Attached, Has
  <2>2. CASE d \notin cs
    <3>1. d \in Clients /\ client'[d] = client[d] /\ Attached(d)
      BY <1>1, <2>2, Whose DEF Attached, Has
    <3>2. client[d].index \in Slots
      BY <3>1 DEF Attached, Has, IInv, Types, Records
    <3>3. Item[client[d].index].active
      BY <3>1 DEF IInv, ExplosionInv
    <3> QED  BY <1>4, <2>2, <3>1, <3>2, <3>3 DEF IInv, ExplosionInv, Steady
  <2> QED  BY <2>1, <2>2
<1> QED  BY <1>5, <1>6, <1>7, <1>8 DEF IInv

\* One owner adds its effect.
LEMMA AddKeeps ==
  ASSUME IInv, NEW c \in Clients \ Parts, NEW mode \in Modes, Add(c, mode),
         c \in Endless => ~Has(c),
         c \in Explosions => client[c].mode # "attached",
         c \in Spouts => mode # "off",
         Steady({c})
  PROVE  IInv'
<1>1. PICK i \in Slots \cup {-1} : IsFirstFree(Item, i) /\ AddAll([d \in {c} |-> i], mode)
  BY DEF Add
<1> DEFINE index == [d \in {c} |-> i]
<1>2. index \in [{c} -> Slots \cup {-1}] /\ index[c] = i
  OBVIOUS
<1>3. i # -1 => ~Item[i].active
  BY <1>1, SlotsOk DEF IsFirstFree
<1>4. TypeOf(c) \in EffTypes
  BY TypesOfEffects DEF IInv, Types
<1> HIDE DEF index
<1>5. AddAll(index, mode)
  BY <1>1 DEF index
<1> QED  BY <1>2, <1>3, <1>4, <1>5, AddAllKeeps

\* What Item_Delete does for the owners cs.
Dropped(cs, mode) ==
  /\ client' \in [Clients -> Records]
  /\ \A c \in cs : client'[c].index = -1 /\ client'[c].mode = mode
  /\ \A c \in Clients \ cs : client'[c] = client[c]
  /\ Item' \in Pools
  /\ \A j \in Slots : /\ Item'[j].data = Item[j].data /\ Item'[j].type = Item[j].type
                      /\ Item'[j].removeNext = Item[j].removeNext
                      /\ Item'[j].active => Item[j].active /\ Item'[j] = Item[j]
  /\ \A j \in Slots : Item'[j] = Item[j] \/
       (\E c \in cs : /\ client[c].index = j /\ Item[j].active /\ ~Item'[j].active
                      /\ Item[j].type = TypeOf(c))
  /\ \A c \in cs : client[c].index \in Slots /\ Matches(Item[client[c].index], TypeOf(c))
       => ~Item'[client[c].index].active

LEMMA DropAllFacts ==
  ASSUME IInv, NEW cs, cs \subseteq Clients \ Explosions, NEW mode \in Modes,
         DropAll(cs, mode)
  PROVE  Dropped(cs, mode)
<1>1. /\ client' \in [Clients -> Records]
      /\ \A c \in cs : client'[c].index = -1 /\ client'[c].mode = mode
      /\ \A c \in Clients \ cs : client'[c] = client[c]
  <2> DEFINE index == [c \in cs |-> -1]
  <2>1. index \in [cs -> Slots \cup {-1}] /\ \A c \in cs : index[c] = -1
    OBVIOUS
  <2>2. Sets(cs, index, mode)
    BY DEF DropAll, Sets
  <2> HIDE DEF index
  <2>3. Types /\ cs \subseteq Clients
    BY DEF IInv
  <2>4. /\ client' \in [Clients -> Records]
        /\ \A c \in cs : client'[c].index = index[c] /\ client'[c].mode = mode
        /\ \A c \in Clients \ cs : client'[c] = client[c]
    BY <2>1, <2>2, <2>3, ClientsSet
  <2> QED  BY <2>1, <2>4, Zenon
<1> DEFINE hit(j) == \E c \in cs : client[c].index = j /\ Matches(Item[j], TypeOf(c))
<1>2. Item' = [j \in Slots |-> IF hit(j) THEN [Item[j] EXCEPT !.active = FALSE] ELSE Item[j]]
  BY DEF DropAll
<1>3. \A j \in Slots : Item[j] \in ItemRecords
  BY DEF IInv, Types, Pools, ItemRecords
<1>4. ASSUME NEW j \in Slots
      PROVE  /\ Item'[j] \in ItemRecords
             /\ Item'[j].data = Item[j].data /\ Item'[j].type = Item[j].type
             /\ Item'[j].removeNext = Item[j].removeNext
             /\ ~hit(j) => Item'[j] = Item[j]
             /\ hit(j) => ~Item'[j].active
  <2> HIDE DEF hit
  <2>1. CASE hit(j)
    <3>1. Item'[j] = [Item[j] EXCEPT !.active = FALSE]
      BY <1>2, <2>1
    <3> QED  BY <1>3, <2>1, <3>1 DEF ItemRecords
  <2>2. CASE ~hit(j)
    <3>1. Item'[j] = Item[j]
      BY <1>2, <2>2
    <3> QED  BY <1>3, <2>2, <3>1
  <2> QED  BY <2>1, <2>2
<1>5. Item' \in Pools
  BY <1>2, <1>4 DEF Pools, ItemRecords
<1>6. ASSUME NEW j \in Slots
      PROVE  Item'[j] = Item[j] \/
              (\E c \in cs : /\ client[c].index = j /\ Item[j].active /\ ~Item'[j].active
                             /\ Item[j].type = TypeOf(c))
  <2>1. CASE hit(j)
    <3>1. PICK c \in cs : client[c].index = j /\ Matches(Item[j], TypeOf(c))
      BY <2>1
    <3> QED  BY <1>4, <2>1, <3>1 DEF Matches
  <2>2. CASE ~hit(j)
    BY <1>4, <2>2
  <2> QED  BY <2>1, <2>2
<1>7. ASSUME NEW c \in cs, client[c].index \in Slots, Matches(Item[client[c].index], TypeOf(c))
      PROVE  ~Item'[client[c].index].active
  <2>1. hit(client[c].index)
    BY <1>7
  <2> QED  BY <1>4, <1>7, <2>1
<1>8. \A j \in Slots : Item'[j].active => Item[j].active /\ Item'[j] = Item[j]
  BY <1>6
<1> HIDE DEF hit
<1>9. \A j \in Slots : /\ Item'[j].data = Item[j].data /\ Item'[j].type = Item[j].type
                       /\ Item'[j].removeNext = Item[j].removeNext
  BY <1>4
<1>10. \A c \in cs :
         client[c].index \in Slots /\ Matches(Item[client[c].index], TypeOf(c))
           => ~Item'[client[c].index].active
  BY <1>7
<1>11. \A j \in Slots : /\ Item'[j].data = Item[j].data /\ Item'[j].type = Item[j].type
                        /\ Item'[j].removeNext = Item[j].removeNext
                        /\ Item'[j].active => Item[j].active /\ Item'[j] = Item[j]
  BY <1>8, <1>9
<1>12. \A j \in Slots : Item'[j] = Item[j] \/
        (\E c \in cs : /\ client[c].index = j /\ Item[j].active /\ ~Item'[j].active
                       /\ Item[j].type = TypeOf(c))
  BY <1>6
<1> QED  BY <1>1, <1>5, <1>10, <1>11, <1>12 DEF Dropped

\* Item_Delete by sources of effects that are not alive, and by the others by index and type.
LEMMA DropAllKeeps ==
  ASSUME IInv, NEW cs, cs \subseteq Clients \ Explosions, NEW mode \in Modes \ {"attached"},
         DropAll(cs, mode),
         \A c \in cs \cap Sources : Has(c) => ~ItemAlive(Item, client[c].index),
         Steady(cs)
  PROVE  IInv'
<1>0. Dropped(cs, mode)
  BY DropAllFacts
<1>1. /\ client' \in [Clients -> Records]
      /\ \A c \in cs : client'[c].index = -1 /\ client'[c].mode = mode
      /\ \A c \in Clients \ cs : client'[c] = client[c]
  BY <1>0 DEF Dropped
<1>2. /\ Item' \in Pools
      /\ \A j \in Slots : /\ Item'[j].data = Item[j].data /\ Item'[j].type = Item[j].type
                          /\ Item'[j].removeNext = Item[j].removeNext
                          /\ Item'[j].active => Item[j].active /\ Item'[j] = Item[j]
  BY <1>0 DEF Dropped
<1>3. \A j \in Slots : Item'[j] = Item[j] \/
        (\E c \in cs : /\ client[c].index = j /\ Item[j].active /\ ~Item'[j].active
                       /\ Item[j].type = TypeOf(c))
  BY <1>0 DEF Dropped
<1>4. \A c \in cs : client[c].index \in Slots /\ Matches(Item[client[c].index], TypeOf(c))
        => ~Item'[client[c].index].active
  BY <1>0 DEF Dropped
<1>5. ASSUME NEW d \in (Keepers \cup Askers) \ cs, NEW j \in Slots,
             Item[j].active, Item[j].data = d, d \in Keepers => ~Item[j].removeNext
      PROVE  Item'[j] = Item[j]
  <2> SUFFICES ASSUME Item'[j] # Item[j] PROVE FALSE
    OBVIOUS
  <2>1. PICK c \in cs : client[c].index = j /\ Item[j].type = TypeOf(c)
    BY <1>3
  <2>2. d # Shot /\ TypeOf(c) = TypeOf(d) /\ Has(c)
    BY <1>5, <2>1, SlotsOk, Whose DEF IInv, Sorted, Has
  <2>3. Safe(TypeOf(c))
    BY <2>2 DEF Keepers, Askers
  <2>4. CASE c \in Sources
    <3>1. TypeOf(c) = "snd" /\ ~ItemAlive(Item, j)
      BY <2>1, <2>2, <2>4 DEF TypeOf
    <3>2. d \in Keepers
      BY <2>2, <3>1 DEF Askers
    <3> QED  BY <1>5, <3>1, <3>2 DEF ItemAlive, IsLive
  <2>5. CASE c \notin Sources
    <3>1. c \in Keepers
      BY <2>2, <2>3, <2>5, SafeKeeps
    <3>2. Item[j].data = c
      BY <2>1, <2>2, <3>1 DEF IInv, KeptInv
    <3> QED  BY <1>5, <3>2
  <2> QED  BY <2>4, <2>5
<1>6. Types'
  BY <1>1, <1>2 DEF IInv, Types, Steady
<1>7. KeptInv'
  <2>1. ASSUME NEW d \in Keepers, Has(d)'
        PROVE  IsLive(Item'[client'[d].index]) /\ Item'[client'[d].index].data = d
    <3>1. d \notin cs /\ d \in Clients /\ client'[d] = client[d]
      BY <1>1, <2>1, Whose DEF Has
    <3>2. client[d].index \in Slots
      BY <2>1, <3>1 DEF Has, IInv, Types, Records
    <3>3. IsLive(Item[client[d].index]) /\ Item[client[d].index].data = d
      BY <2>1, <3>1 DEF Has, IInv, KeptInv
    <3> QED  BY <1>5, <3>1, <3>2, <3>3 DEF IsLive
  <2>2. ASSUME NEW j \in Slots, Item'[j].active, Item'[j].data \in Keepers
        PROVE  client'[Item'[j].data].index = j
    <3>1. Item[j].active /\ Item[j].data = Item'[j].data /\ client[Item[j].data].index = j
      BY <1>2, <2>2 DEF IInv, KeptInv
    <3>2. Item[j].data \notin cs
      <4> SUFFICES ASSUME Item[j].data \in cs PROVE FALSE
        OBVIOUS
      <4>1. Matches(Item[j], TypeOf(Item[j].data))
        BY <2>2, <3>1, Whose DEF IInv, Sorted, Matches
      <4> QED  BY <1>4, <2>2, <3>1, <4>1
    <3> QED  BY <1>1, <2>2, <3>1, <3>2, Whose
  <2>3. ASSUME NEW d \in Spouts \cup Parts, client'[d].mode = "off"
        PROVE  ~Has(d)'
    BY <1>1, <2>3, Whose DEF IInv, KeptInv, Has
  <2>4. ASSUME NEW p \in Parts, Has(p)'
        PROVE  kind'[p].type # "none"
    BY <1>1, <2>4, Whose DEF Has, Steady, IInv, KeptInv
  <2> QED  BY <2>1, <2>2, <2>3, <2>4, Kept DEF KeptInv, Steady
<1>8. Sorted'
  BY <1>2, Kept DEF IInv, Sorted, Steady
<1>9. ExplosionInv'
  <2> SUFFICES ASSUME NEW d \in Askers, Attached(d)'
               PROVE  /\ Item'[client'[d].index].active /\ Item'[client'[d].index].data = d
                      /\ Item'[client'[d].index].removeNext =>
                           /\ phase' \notin {"effects1", "effects2"}
                           /\ phase' \in {"explosions1", "explosions2"} => d \in todo'
    BY Kept DEF ExplosionInv, Steady
  <2>1. d \notin cs /\ d \in Clients /\ client'[d] = client[d] /\ Attached(d)
    BY <1>1, Whose DEF Attached, Has
  <2>2. client[d].index \in Slots
    BY <2>1 DEF Attached, Has, IInv, Types, Records
  <2>3. Item[client[d].index].active /\ Item[client[d].index].data = d
    BY <2>1 DEF IInv, ExplosionInv
  <2>4. d \notin Keepers
    BY Whose
  <2>5. Item'[client[d].index] = Item[client[d].index]
    BY <1>5, <2>1, <2>2, <2>3, <2>4
  <2> QED  BY <2>1, <2>3, <2>5 DEF IInv, ExplosionInv, Steady
<1> QED  BY <1>6, <1>7, <1>8, <1>9 DEF IInv

\* An owner who does nothing, or gives up what is attached, or changes its mode.
LEMMA ClientKeeps ==
  ASSUME IInv, Item' = Item, NEW c \in Clients, client' \in [Clients -> Records],
         \A d \in Clients \ {c} : client'[d] = client[d],
         c \notin Explosions => client'[c].index = client[c].index,
         c \in Spouts \cup Parts => client'[c].mode = client[c].mode,
         c \in Explosions /\ Attached(c)' =>
           /\ Attached(c) /\ client'[c].index = client[c].index
           /\ ItemAlive(Item, client[c].index),
         Steady({c})
  PROVE  IInv'
<1>1. Types'
  BY DEF IInv, Types, Steady
<1>2. \A d \in Endless \cup Parts : client'[d].index = client[d].index
  BY Whose
<1>3. KeptInv'
  <2>1. \A d \in Keepers : Has(d)' =>
          IsLive(Item'[client'[d].index]) /\ Item'[client'[d].index].data = d
    BY <1>2, Whose DEF IInv, KeptInv, Has
  <2>2. \A j \in Slots : Item'[j].active /\ Item'[j].data \in Keepers =>
          client'[Item'[j].data].index = j
    BY <1>2, Whose DEF IInv, KeptInv
  <2>3. \A d \in Spouts \cup Parts : client'[d].mode = "off" => ~Has(d)'
    BY Whose DEF IInv, KeptInv, Has
  <2>4. \A p \in Parts : Has(p)' => kind'[p].type # "none"
    BY <1>2 DEF IInv, KeptInv, Has, Steady
  <2> QED  BY <2>1, <2>2, <2>3, <2>4, Kept DEF KeptInv, Steady
<1>4. Sorted'
  BY Kept DEF IInv, Sorted, Steady
<1>5. ExplosionInv'
  <2> SUFFICES ASSUME NEW d \in Askers, Attached(d)'
               PROVE  /\ Item'[client'[d].index].active /\ Item'[client'[d].index].data = d
                      /\ Item'[client'[d].index].removeNext =>
                           /\ phase' \notin {"effects1", "effects2"}
                           /\ phase' \in {"explosions1", "explosions2"} => d \in todo'
    BY Kept DEF ExplosionInv, Steady
  <2>1. CASE d = c
    BY <2>1, Whose DEF IInv, ExplosionInv, ItemAlive, IsLive
  <2>2. CASE d # c
    <3>1. client'[d] = client[d] /\ Attached(d)
      BY <2>2, Whose DEF Attached, Has
    <3> QED  BY <2>2, <3>1 DEF IInv, ExplosionInv, Steady
  <2> QED  BY <2>1, <2>2
<1> QED  BY <1>1, <1>3, <1>4, <1>5 DEF IInv

(***************************************************************************)
(* The invariant holds initially, and every step preserves it.             *)
(***************************************************************************)
LEMMA InitIInv == Init => IInv
<1> SUFFICES ASSUME Init PROVE IInv
  OBVIOUS
<1>1. Item \in Pools /\ \A i \in Slots : ~Item[i].active
  BY DEF Init, FreshPool, Pools
<1>2. Types
  BY <1>1 DEF Init, Types, Records, Modes, Phases, Follow, Members
<1>3. \A c \in Clients : ~Has(c)
  BY DEF Init, Has
<1>4. KeptInv /\ Sorted /\ ExplosionInv
  BY <1>1, <1>3, Whose DEF KeptInv, Sorted, ExplosionInv, Attached
<1> QED  BY <1>2, <1>4 DEF IInv

\* The turn of an owner is a step of its phase.
LEMMA TurnStep ==
  ASSUME NEW c, NEW f, Turn(c, f)
  PROVE  Steady({c}) /\ phase = f
BY DEF Turn, Steady

LEMMA KeepStep ==
  ASSUME IInv, NEW c \in Clients \ Explosions, Keep, Steady({c})
  PROVE  IInv'
<1>1. client' = client /\ Item' = Item /\ client \in [Clients -> Records]
  BY DEF Keep, IInv, Types
<1> QED  BY <1>1, ClientKeeps

LEMMA LoopKeeps ==
  ASSUME IInv, NEW c \in Loops, LoopTick(c)
  PROVE  IInv'
<1>1. Steady({c})
  BY TurnStep DEF LoopTick
<1>2. c \in Clients \ Explosions /\ c \notin Spouts \cup Parts \cup Sources
  BY DEF Clients
<1>3. "on" \in Modes /\ "off" \in Modes \ {"attached"}
  BY DEF Modes
<1>4. CASE client[c].index = -1 /\ Add(c, "on")
  BY <1>1, <1>2, <1>3, <1>4, AddKeeps DEF Has
<1>5. CASE Drop(c, "off")
  BY <1>1, <1>2, <1>3, <1>5, DropAllKeeps DEF Drop
<1>6. CASE Keep
  BY <1>1, <1>2, <1>6, KeepStep
<1> QED  BY <1>4, <1>5, <1>6 DEF LoopTick

LEMMA SourceKeeps ==
  ASSUME IInv, NEW c \in Sources, SourceTick(c)
  PROVE  IInv'
<1>1. Steady({c})
  BY TurnStep DEF SourceTick
<1>2. c \in Clients \ Explosions /\ c \notin Endless \cup Parts \cup Spouts
  BY Whose DEF Clients
<1>3. "on" \in Modes /\ "off" \in Modes \ {"attached"}
  BY DEF Modes
<1>4. CASE Add(c, "on")
  BY <1>1, <1>2, <1>3, <1>4, AddKeeps
<1>5. CASE client[c].index # -1 /\ ~ItemAlive(Item, client[c].index) /\ Drop(c, "off")
  BY <1>1, <1>2, <1>3, <1>5, DropAllKeeps DEF Drop
<1>6. CASE Keep
  BY <1>1, <1>2, <1>6, KeepStep
<1>7. CASE Become(c, "off")
  <2>1. /\ client' \in [Clients -> Records] /\ Item' = Item
        /\ \A d \in Clients \ {c} : client'[d] = client[d]
        /\ client'[c].index = client[c].index
    BY <1>2, <1>3, <1>7 DEF Become, IInv, Types, Records
  <2> QED  BY <1>1, <1>2, <2>1, ClientKeeps
<1> QED  BY <1>4, <1>5, <1>6, <1>7 DEF SourceTick

\* Pausing changes neither who has an effect nor whether it is alive.
LEMMA PauseKeeps ==
  ASSUME IInv, NEW c \in Spouts, NEW flag \in BOOLEAN,
         client' = [client EXCEPT ![c].paused = ~@],
         Item' = IF client[c].index = -1 THEN Item
                 ELSE ItemPause(Item, "spray", client[c].index, flag),
         Steady({c})
  PROVE  IInv'
<1> DEFINE i == client[c].index
<1>1. c \in Clients \ Explosions /\ i \in Slots \cup {-1}
  BY DEF Clients, IInv, Types, Records
<1>2. /\ client' \in [Clients -> Records]
      /\ \A d \in Clients : client'[d].index = client[d].index
                         /\ client'[d].mode = client[d].mode
  BY <1>1 DEF IInv, Types, Records
<1>3. /\ Item' \in Pools
      /\ \A j \in Slots : /\ Item'[j].active = Item[j].active
                          /\ Item'[j].removeNext = Item[j].removeNext
                          /\ Item'[j].data = Item[j].data /\ Item'[j].type = Item[j].type
  <2>1. CASE Item' = Item
    BY <2>1 DEF IInv, Types
  <2>2. CASE i \in Slots /\ Item' = [Item EXCEPT ![i].pause = flag]
    <3>1. Item \in Pools /\ Item[i] \in ItemRecords
      BY <2>2 DEF IInv, Types, Pools, ItemRecords
    <3>2. Item'[i] = [Item[i] EXCEPT !.pause = flag] /\ \A j \in Slots \ {i} : Item'[j] = Item[j]
      BY <2>2, <3>1 DEF Pools
    <3>3. \A j \in Slots : Item'[j] \in ItemRecords
      BY <3>1, <3>2 DEF IInv, Types, Pools, ItemRecords
    <3>4. Item' = [j \in Slots |-> Item'[j]]
      BY <2>2, <3>1 DEF Pools
    <3>5. Item' \in Pools
      BY <3>3, <3>4 DEF Pools, ItemRecords
    <3> QED  BY <2>2, <3>1, <3>2, <3>5 DEF ItemRecords
  <2> QED  BY <1>1, <2>1, <2>2 DEF ItemPause
<1>4. Types'
  BY <1>2, <1>3 DEF IInv, Types, Steady
<1>5. KeptInv'
  <2>1. ASSUME NEW d \in Keepers, Has(d)'
        PROVE  IsLive(Item'[client'[d].index]) /\ Item'[client'[d].index].data = d
    <3>1. d \in Clients /\ Has(d) /\ client'[d].index = client[d].index
      BY <1>2, <2>1, Whose DEF Has
    <3>2. client[d].index \in Slots
      BY <3>1 DEF Has, IInv, Types, Records
    <3> QED  BY <1>3, <3>1, <3>2 DEF IInv, KeptInv, IsLive
  <2>2. \A j \in Slots : Item'[j].active /\ Item'[j].data \in Keepers =>
          client'[Item'[j].data].index = j
    BY <1>2, <1>3, Whose DEF IInv, KeptInv
  <2>3. \A d \in Spouts \cup Parts : client'[d].mode = "off" => ~Has(d)'
    BY <1>2, Whose DEF IInv, KeptInv, Has
  <2>4. \A p \in Parts : Has(p)' => kind'[p].type # "none"
    BY <1>2, Whose DEF IInv, KeptInv, Has, Steady
  <2> QED  BY <2>1, <2>2, <2>3, <2>4, Kept DEF KeptInv, Steady
<1>6. Sorted'
  BY <1>3, Kept DEF IInv, Sorted, Steady
<1>7. ExplosionInv'
  <2> SUFFICES ASSUME NEW d \in Askers, Attached(d)'
               PROVE  /\ Item'[client'[d].index].active /\ Item'[client'[d].index].data = d
                      /\ Item'[client'[d].index].removeNext =>
                           /\ phase' \notin {"effects1", "effects2"}
                           /\ phase' \in {"explosions1", "explosions2"} => d \in todo'
    BY Kept DEF ExplosionInv, Steady
  <2>1. d \in Clients /\ d # c /\ Attached(d) /\ client'[d].index = client[d].index
    BY <1>1, <1>2, Whose DEF Attached, Has
  <2>2. client[d].index \in Slots
    BY <2>1 DEF Attached, Has, IInv, Types, Records
  <2> QED  BY <1>3, <2>1, <2>2 DEF IInv, ExplosionInv, Steady
<1> QED  BY <1>4, <1>5, <1>6, <1>7 DEF IInv

LEMMA SpoutKeeps ==
  ASSUME IInv, NEW c \in Spouts, SpoutTick(c)
  PROVE  IInv'
<1>1. Steady({c})
  BY TurnStep DEF SpoutTick
<1>2. c \in Clients \ Explosions /\ c \notin Loops \cup Parts \cup Sources
  BY DEF Clients
<1>3. "on" \in Modes \ {"off"} /\ "off" \in Modes \ {"attached"}
  BY DEF Modes
<1>4. CASE client[c].mode = "off" /\ Add(c, "on")
  <2>1. ~Has(c)
    BY <1>4 DEF IInv, KeptInv
  <2> QED  BY <1>1, <1>2, <1>3, <1>4, <2>1, AddKeeps
<1>5. CASE Drop(c, "off")
  BY <1>1, <1>2, <1>3, <1>5, DropAllKeeps DEF Drop
<1>6. CASE /\ client' = [client EXCEPT ![c].paused = ~@]
           /\ Item' = IF client[c].index = -1 THEN Item
                      ELSE ItemPause(Item, "spray", client[c].index, ~client[c].paused)
  BY <1>1, <1>6, PauseKeeps
<1>7. CASE Keep
  BY <1>1, <1>2, <1>7, KeepStep
<1> QED  BY <1>4, <1>5, <1>6, <1>7 DEF SpoutTick

\* The effects of a projectile are added at slots that are free, and each at one of its own.
LEMMA FireSlots ==
  ASSUME IInv, NEW w \in Projectiles, NEW index \in [PartsOf(w) -> Slots \cup {-1}],
         \A p \in PartsOf(w) :
           IF kind[p].type = "none" THEN index[p] = -1
           ELSE IsFirstFree(Filled({index[q] : q \in {q \in PartsOf(w) : q[2] < p[2]}}),
                            index[p])
  PROVE  /\ \A p \in PartsOf(w) : index[p] # -1 =>
              ~Item[index[p]].active /\ kind[p].type # "none"
         /\ \A p, q \in PartsOf(w) : index[p] = index[q] /\ index[p] # -1 => p = q
<1> DEFINE taken(p) == {index[q] : q \in {q \in PartsOf(w) : q[2] < p[2]}}
<1>1. \A i \in Slots : Item[i] \in ItemRecords
  BY DEF IInv, Types, Pools, ItemRecords
<1>2. ASSUME NEW T, NEW i \in Slots, ~Filled(T)[i].active
      PROVE  ~Item[i].active /\ i \notin T
  BY <1>1, <1>2 DEF Filled, ItemRecords
<1>3. ASSUME NEW p \in PartsOf(w), index[p] # -1
      PROVE  kind[p].type # "none" /\ ~Item[index[p]].active /\ index[p] \notin taken(p)
  <2>1. kind[p].type # "none" /\ IsFirstFree(Filled(taken(p)), index[p])
    BY <1>3
  <2> HIDE DEF taken
  <2>2. index[p] \in Slots /\ ~Filled(taken(p))[index[p]].active
    BY <1>3, <2>1 DEF IsFirstFree
  <2> QED  BY <1>2, <2>1, <2>2
<1>4. ASSUME NEW p \in PartsOf(w), NEW q \in PartsOf(w), index[p] = index[q], index[p] # -1
      PROVE  p = q
  <2>1. ~(q[2] < p[2]) /\ ~(p[2] < q[2])
    BY <1>3, <1>4
  <2> QED  BY <2>1 DEF PartsOf
<1> QED  BY <1>3, <1>4

LEMMA ProjectileKeeps ==
  ASSUME IInv, NEW w \in Projectiles, ProjectileTick(w) \/ Fire(w)
  PROVE  IInv'
<1>1. PartsOf(w) \subseteq Parts
  BY DEF PartsOf, Parts
<1>2. /\ PartsOf(w) \subseteq Clients \ Explosions
      /\ PartsOf(w) \cap (Loops \cup Spouts \cup Sources) = {}
  BY <1>1, Whose
<1>3. "on" \in Modes \ {"off"} /\ "off" \in Modes \ {"attached"}
  BY DEF Modes
<1>4. CASE Fire(w)
  <2>1. PICK index \in [PartsOf(w) -> Slots \cup {-1}] :
          /\ \A p \in PartsOf(w) :
               IF kind[p].type = "none" THEN index[p] = -1
               ELSE IsFirstFree(Filled({index[q] : q \in {q \in PartsOf(w) : q[2] < p[2]}}),
                                index[p])
          /\ AddAll(index, "on")
    BY <1>4, Zenon DEF Fire
  <2>2. /\ \A p \in PartsOf(w) : index[p] # -1 =>
             ~Item[index[p]].active /\ kind[p].type # "none"
        /\ \A p, q \in PartsOf(w) : index[p] = index[q] /\ index[p] # -1 => p = q
    BY <2>1, FireSlots
  <2>3. \A p \in PartsOf(w) : index[p] # -1 => TypeOf(p) \in EffTypes
    BY <1>1, <2>2, TypesOfEffects DEF IInv, Types
  <2>4. Steady(PartsOf(w)) /\ \A p \in PartsOf(w) : ~Has(p)
    BY <1>1, <1>4 DEF Fire, Steady, IInv, KeptInv
  <2>5. AddAll(index, "on")
    BY <2>1
  <2> QED  BY <1>2, <1>3, <2>2, <2>3, <2>4, <2>5, AddAllKeeps
<1>5. CASE Turn(w, "weapons") /\ DropAll(PartsOf(w), "off")
  <2>1. Steady(PartsOf(w))
    BY <1>5 DEF Turn, Steady
  <2> QED  BY <1>2, <1>3, <1>5, <2>1, DropAllKeeps
<1>6. CASE Turn(w, "weapons") /\ Keep
  <2>1. /\ Item' = Item /\ client' = client /\ phase' = phase /\ todo' \subseteq todo
        /\ kind' = kind /\ phase = "weapons"
    BY <1>6 DEF Keep, Turn
  <2> QED  BY <2>1, Kept
           DEF IInv, Types, KeptInv, Sorted, ExplosionInv, Attached, Has
<1> QED  BY <1>4, <1>5, <1>6 DEF ProjectileTick

LEMMA ExplosionKeeps ==
  ASSUME IInv, NEW c \in Explosions,
         AddExplosion(c) \/ ExplosionTick(c) \/ UnAttach(c)
  PROVE  IInv'
<1>1. Steady({c})
  BY TurnStep DEF AddExplosion, ExplosionTick, UnAttach, Steady
<1>2. c \in Clients \ Parts /\ c \notin Endless \cup Spouts \cup Sources
  BY Whose DEF Clients
<1>3. Modes = {"off", "on", "delayed", "attached"}
  BY DEF Modes
<1>4. CASE client[c].mode = "delayed" /\ Add(c, "attached")
  BY <1>1, <1>2, <1>3, <1>4, AddKeeps
<1>5. ASSUME NEW mode \in {"off", "delayed"}, Become(c, mode) \/ Forget(c, mode)
      PROVE  IInv'
  <2>1. /\ client' \in [Clients -> Records]
        /\ \A d \in Clients \ {c} : client'[d] = client[d]
        /\ client'[c].mode = mode /\ Item' = Item
    BY <1>2, <1>3, <1>5 DEF Become, Forget, IInv, Types, Records
  <2>2. ~Attached(c)'
    BY <2>1 DEF Attached
  <2> QED  BY <1>1, <1>2, <2>1, <2>2, ClientKeeps
<1>6. CASE Keep /\ (client[c].mode = "attached" => Has(c) /\ ItemAlive(Item, client[c].index))
  <2>1. client' = client /\ Item' = Item /\ client \in [Clients -> Records]
    BY <1>6 DEF Keep, IInv, Types
  <2> QED  BY <1>1, <1>2, <1>6, <2>1, ClientKeeps DEF Attached, Has
<1>7. CASE AddExplosion(c)
  BY <1>5, <1>7 DEF AddExplosion
<1>8. CASE UnAttach(c)
  BY <1>5, <1>8 DEF UnAttach
<1>9. CASE ExplosionTick(c)
  <2>1. \/ client[c].mode = "off" /\ Keep
        \/ client[c].mode = "delayed" /\ Keep
        \/ client[c].mode = "delayed" /\ Add(c, "attached")
        \/ Has(c) /\ ItemAlive(Item, client[c].index) /\ Keep
        \/ Forget(c, "off")
    BY <1>9 DEF ExplosionTick, Has
  <2> QED  BY <1>4, <1>5, <1>6, <2>1
<1> QED  BY <1>7, <1>8, <1>9

LEMMA PlayOnceKeeps ==
  ASSUME IInv, PlayOnce
  PROVE  IInv'
<1>1. PICK i \in Slots, type \in ShotTypes :
        IsFirstFree(Item, i) /\ Item' = ItemAdd(Item, i, type, Shot)
  BY DEF PlayOnce
<1>2. client' = client /\ phase' = phase /\ todo' = todo /\ kind' = kind
  BY DEF PlayOnce
<1>3. ~Item[i].active
  BY <1>1, SlotsOk DEF IsFirstFree
<1>4. /\ Item'[i].active /\ Item'[i].data = Shot
      /\ \A j \in Slots \ {i} : Item'[j] = Item[j]
      /\ Item' \in Pools
  <2> DEFINE new == [Item[i] EXCEPT !.active = TRUE, !.removeNext = FALSE,
                                    !.type = type, !.data = Shot]
  <2>1. Item' = [Item EXCEPT ![i] = new]
    BY <1>1, SlotsOk DEF ItemAdd
  <2>2. Item \in Pools /\ Item[i] \in ItemRecords /\ type \in EffTypes
    BY DEF IInv, Types, Pools, ItemRecords
  <2>3. new.active /\ new.data = Shot /\ new \in ItemRecords
    BY <2>2 DEF ItemRecords
  <2> HIDE DEF new
  <2>4. Item'[i] = new /\ \A j \in Slots \ {i} : Item'[j] = Item[j]
    BY <2>1, <2>2 DEF Pools
  <2>5. Item' \in Pools
    BY <2>1, <2>2, <2>3 DEF Pools, ItemRecords
  <2> QED  BY <2>3, <2>4, <2>5
<1>5. Types'
  BY <1>2, <1>4 DEF IInv, Types
<1>6. \A j \in Slots : Item[j].active => Item'[j] = Item[j]
  BY <1>3, <1>4
<1>7. KeptInv'
  <2>1. ASSUME NEW d \in Keepers, Has(d)
        PROVE  IsLive(Item'[client[d].index]) /\ Item'[client[d].index].data = d
    <3>1. client[d].index \in Slots
      BY <2>1, Whose DEF Has, IInv, Types, Records
    <3> QED  BY <1>6, <2>1, <3>1 DEF IInv, KeptInv, IsLive
  <2>2. \A j \in Slots : Item'[j].active /\ Item'[j].data \in Keepers =>
          client[Item'[j].data].index = j
    BY <1>4, Whose DEF IInv, KeptInv
  <2> QED  BY <1>2, <2>1, <2>2, Kept DEF IInv, KeptInv, Has
<1>8. Sorted'
  BY <1>2, <1>4, Kept DEF IInv, Sorted
<1>9. ExplosionInv'
  <2> SUFFICES ASSUME NEW d \in Askers, Attached(d)
               PROVE  /\ Item'[client[d].index].active /\ Item'[client[d].index].data = d
                      /\ Item'[client[d].index].removeNext =>
                           /\ phase \notin {"effects1", "effects2"}
                           /\ phase \in {"explosions1", "explosions2"} => d \in todo
    BY <1>2, Kept DEF ExplosionInv, Attached, Has
  <2>1. client[d].index \in Slots
    BY Whose DEF Attached, Has, IInv, Types, Records
  <2> QED  BY <1>6, <2>1 DEF IInv, ExplosionInv
<1> QED  BY <1>5, <1>7, <1>8, <1>9 DEF IInv

LEMMA FollowOk ==
  ASSUME Types
  PROVE  Follow[phase] \in Phases
BY DEF Types, Phases, Follow

LEMMA NextPhaseKeeps ==
  ASSUME IInv, NextPhase
  PROVE  IInv'
<1>1. /\ Item' = Item /\ client' = client /\ kind' = kind /\ todo = {}
      /\ phase \notin {"effects1", "effects2"}
  BY DEF NextPhase
<1>2. /\ phase' \in Phases /\ todo' = Members(phase')
      /\ phase' \in {"effects1", "effects2"} => phase \in {"explosions1", "explosions2"}
  BY FollowOk DEF NextPhase, GoTo, Follow, Phases, IInv, Types
<1>3. Types'
  BY <1>1, <1>2 DEF IInv, Types
<1>4. KeptInv' /\ Sorted'
  BY <1>1, Kept DEF IInv, KeptInv, Sorted, Has
<1>5. ExplosionInv'
  <2> SUFFICES ASSUME NEW c \in Askers, Attached(c)'
               PROVE  /\ Item'[client'[c].index].active /\ Item'[client'[c].index].data = c
                      /\ Item'[client'[c].index].removeNext =>
                           /\ phase' \notin {"effects1", "effects2"}
                           /\ phase' \in {"explosions1", "explosions2"} => c \in todo'
    BY <1>1, Kept DEF ExplosionInv
  <2>1. Attached(c)
    BY <1>1 DEF Attached, Has
  <2>2. phase' \in {"explosions1", "explosions2"} => c \in todo'
    BY <1>2, Whose DEF Members
  <2> QED  BY <1>1, <1>2, <2>1, <2>2 DEF IInv, ExplosionInv
<1> QED  BY <1>3, <1>4, <1>5 DEF IInv

\* The manager sweeps no slot of a keeper's effect, nor one an explosion is attached to.
LEMMA EffectTickKeeps ==
  ASSUME IInv, EffectTick
  PROVE  IInv'
<1>1. PICK ends \in SUBSET {i \in Processed(Swept(Item)) : Item[i].data \notin Endless} :
        Item' = Ended(Swept(Item), ends)
  BY DEF EffectTick
<1>2. /\ client' = client /\ kind' = kind /\ phase \in {"effects1", "effects2"}
      /\ phase' \in {"spouts", "input"} /\ phase' \in Phases /\ todo' = Members(phase')
  BY DEF EffectTick, GoTo, Follow, Phases
<1>3. /\ Item' \in Pools
      /\ \A i \in Slots :
           /\ Item'[i].data = Item[i].data /\ Item'[i].type = Item[i].type
           /\ Item'[i].active <=> IsLive(Item[i])
           /\ IsLive(Item[i]) /\ i \notin ends => Item'[i] = Item[i]
  <2>0. PICK p : p = Swept(Item)
    OBVIOUS
  <2>1. Item \in Pools
    BY DEF IInv, Types
  <2>2. /\ p \in Pools
        /\ \A i \in Slots : /\ p[i].data = Item[i].data /\ p[i].type = Item[i].type
                            /\ p[i].active <=> IsLive(Item[i])
    <3>1. ASSUME NEW i \in Slots
          PROVE  /\ p[i] \in ItemRecords
                 /\ p[i].data = Item[i].data /\ p[i].type = Item[i].type
                 /\ p[i].active <=> IsLive(Item[i])
      <4>1. Item[i] \in ItemRecords
        BY <2>1 DEF Pools, ItemRecords
      <4> QED  BY <2>0, <4>1 DEF Swept, ItemRecords, IsLive
    <3>2. p = [i \in Slots |-> p[i]]
      BY <2>0 DEF Swept
    <3>3. p \in Pools
      BY <3>1, <3>2 DEF Pools, ItemRecords
    <3> QED  BY <3>1, <3>3
  <2>3. \A i \in Slots : IsLive(Item[i]) => p[i] = Item[i]
    BY <2>0, <2>1 DEF Swept, Pools, IsLive
  <2>4. Item' = [i \in Slots |-> IF i \in ends THEN [p[i] EXCEPT !.removeNext = TRUE]
                                 ELSE p[i]]
    BY <1>1, <2>0 DEF Ended
  <2>5. ASSUME NEW i \in Slots
        PROVE  /\ Item'[i] \in ItemRecords
               /\ Item'[i].data = p[i].data /\ Item'[i].type = p[i].type
               /\ Item'[i].active = p[i].active
    <3>1. p[i] \in ItemRecords
      BY <2>2 DEF Pools, ItemRecords
    <3>2. CASE i \in ends
      BY <2>4, <3>1, <3>2 DEF ItemRecords
    <3>3. CASE i \notin ends
      <4>1. Item'[i] = p[i]
        BY <2>4, <3>3
      <4> QED  BY <3>1, <4>1, Zenon
    <3> QED  BY <3>2, <3>3
  <2>6. Item' \in Pools
    BY <2>4, <2>5 DEF Pools, ItemRecords
  <2>7. \A i \in Slots : IsLive(Item[i]) /\ i \notin ends => Item'[i] = Item[i]
    BY <2>3, <2>4
  <2> QED  BY <2>2, <2>5, <2>6, <2>7
<1>4. Types'
  BY <1>2, <1>3 DEF IInv, Types
<1>5. KeptInv'
  <2>1. ASSUME NEW d \in Keepers, Has(d)
        PROVE  IsLive(Item'[client[d].index]) /\ Item'[client[d].index].data = d
    <3>1. client[d].index \in Slots
      BY <2>1, Whose DEF Has, IInv, Types, Records
    <3>2. IsLive(Item[client[d].index]) /\ Item[client[d].index].data = d
      BY <2>1 DEF IInv, KeptInv
    <3>3. client[d].index \notin ends
      BY <2>1, <3>2, Whose
    <3> QED  BY <1>3, <3>1, <3>2, <3>3
  <2>2. \A j \in Slots : Item'[j].active /\ Item'[j].data \in Keepers =>
          client[Item'[j].data].index = j
    BY <1>3 DEF IInv, KeptInv, IsLive
  <2> QED  BY <1>2, <2>1, <2>2, Kept DEF IInv, KeptInv, Has
<1>6. Sorted'
  BY <1>2, <1>3, Kept DEF IInv, Sorted, IsLive
<1>7. ExplosionInv'
  <2> SUFFICES ASSUME NEW c \in Askers, Attached(c)
               PROVE  Item'[client[c].index].active /\ Item'[client[c].index].data = c
    BY <1>2, Kept DEF ExplosionInv, Attached, Has
  <2>1. client[c].index \in Slots
    BY Whose DEF Attached, Has, IInv, Types, Records
  <2>2. IsLive(Item[client[c].index]) /\ Item[client[c].index].data = c
    BY <1>2 DEF IInv, ExplosionInv, IsLive
  <2> QED  BY <1>3, <2>1, <2>2
<1> QED  BY <1>4, <1>5, <1>6, <1>7 DEF IInv

LEMMA NextIInv == IInv /\ [Next]_vars => IInv'
<1> SUFFICES ASSUME IInv, [Next]_vars PROVE IInv'
  OBVIOUS
<1>1. CASE NextPhase  BY <1>1, NextPhaseKeeps
<1>2. CASE EffectTick  BY <1>2, EffectTickKeeps
<1>3. CASE PlayOnce  BY <1>3, PlayOnceKeeps
<1>4. CASE \E c \in Loops : LoopTick(c)  BY <1>4, LoopKeeps
<1>5. CASE \E c \in Sources : SourceTick(c)  BY <1>5, SourceKeeps
<1>6. CASE \E c \in Spouts : SpoutTick(c)  BY <1>6, SpoutKeeps
<1>7. CASE \E c \in Explosions : AddExplosion(c) \/ ExplosionTick(c) \/ UnAttach(c)
  BY <1>7, ExplosionKeeps
<1>8. CASE \E w \in Projectiles : ProjectileTick(w) \/ Fire(w)  BY <1>8, ProjectileKeeps
<1>9. CASE UNCHANGED vars
  BY <1>9, Kept DEF vars, IInv, Types, KeptInv, Sorted, ExplosionInv, Attached, Has
<1> QED  BY <1>1, <1>2, <1>3, <1>4, <1>5, <1>6, <1>7, <1>8, <1>9 DEF Next

\* EndlessOwned and ExplosionMovesOwn are what the invariant says of the owners.
LEMMA IInvImplies == IInv => EndlessOwned /\ ExplosionMovesOwn
<1> SUFFICES ASSUME IInv PROVE EndlessOwned /\ ExplosionMovesOwn
  OBVIOUS
<1>1. ASSUME NEW c \in Endless, Safe(TypeOf(c)), Has(c)
      PROVE  /\ Item[client[c].index].active /\ Item[client[c].index].data = c
             /\ ~Item[client[c].index].removeNext
  BY <1>1 DEF IInv, KeptInv, Keepers, IsLive
<1>2. ASSUME NEW i \in Slots, Item[i].active, Item[i].data \in Endless, Safe(Item[i].type)
      PROVE  client[Item[i].data].index = i
  <2>1. Item[i].data \in Keepers
    BY <1>2, Whose DEF IInv, Sorted, Keepers
  <2> QED  BY <1>2, <2>1 DEF IInv, KeptInv
<1>3. EndlessOwned
  BY <1>1, <1>2 DEF EndlessOwned, Owns, Has
<1>4. ExplosionMovesOwn
  BY DEF IInv, ExplosionInv, ExplosionMovesOwn, Attached, Has, Askers
<1> QED  BY <1>3, <1>4

(***************************************************************************)
(* The theorems.                                                           *)
(***************************************************************************)
\* Whoever keeps the index of an endless effect has it until it gives it up, and no
\* endless effect is left without an owner, in a pool of any size (EffManger.cpp); of the
\* types of which no projectile has an effect that ends by itself.
THEOREM EndlessAlwaysOwned == Spec => []EndlessOwned
<1>1. Init => IInv  BY InitIInv
<1>2. IInv /\ [Next]_vars => IInv'  BY NextIInv
<1>3. IInv => EndlessOwned  BY IInvImplies
<1> QED  BY <1>1, <1>2, <1>3, PTL DEF Spec

\* CExplosionInit moves no effect but its own along with the actor, if no projectile has an
\* effect of the type that ends by itself, and it is no sound.
THEOREM ExplosionsMoveOwn == Spec => []ExplosionMovesOwn
<1>1. Init => IInv  BY InitIInv
<1>2. IInv /\ [Next]_vars => IInv'  BY NextIInv
<1>3. IInv => ExplosionMovesOwn  BY IInvImplies
<1> QED  BY <1>1, <1>2, <1>3, PTL DEF Spec

\* Item_Delete of an effect that has not ended, of a safe type, is by its owner.
LEMMA DropOwn ==
  ASSUME IInv, NEW cs, cs \subseteq Clients \ Explosions, NEW mode \in Modes, DropAll(cs, mode),
         \A c \in cs \cap Sources : Has(c) => ~ItemAlive(Item, client[c].index),
         NEW i \in Slots, ItemAlive(Item, i), Safe(Item[i].type), ~Item'[i].active
  PROVE  /\ Item[i].data \in Clients
         /\ client[Item[i].data].index = i /\ client'[Item[i].data].index = -1
<1>1. Dropped(cs, mode)
  BY DropAllFacts
<1>2. PICK c \in cs : client[c].index = i /\ Item[i].type = TypeOf(c)
  BY <1>1 DEF Dropped, ItemAlive, IsLive
<1>3. Has(c) /\ Safe(TypeOf(c))
  BY <1>2, SlotsOk DEF Has
<1>4. c \notin Sources
  BY <1>2, <1>3
<1>5. c \in Keepers
  BY <1>3, <1>4, SafeKeeps
<1>6. Item[i].data = c
  BY <1>2, <1>3, <1>5 DEF IInv, KeptInv
<1>7. client'[c].index = -1
  BY <1>1 DEF Dropped
<1> QED  BY <1>2, <1>6, <1>7

\* Item_Add removes nothing.
LEMMA AddOwn ==
  ASSUME IInv, NEW index, NEW mode, AddAll(index, mode), NEW i \in Slots, Item[i].active
  PROVE  Item'[i].active
<1>1. \A t, d : \A j \in Slots : ItemAdd(Item, j, t, d)[j].active
  BY SlotsOk DEF ItemAdd, IInv, Types, Pools
<1> DEFINE taker == CHOOSE c \in DOMAIN index : index[c] = i
<1>2. Item'[i] = IF \E c \in DOMAIN index : index[c] = i
                 THEN ItemAdd(Item, i, TypeOf(taker), taker)[i] ELSE Item[i]
  BY Zenon DEF AddAll
<1> HIDE DEF taker
<1> QED  BY <1>1, <1>2

\* An effect that has not ended, of a type of which no projectile has an effect that ends by
\* itself, is removed by its owner only (Item_Delete in CWeapon.cpp and elsewhere).
THEOREM OwnersRemove == Spec => RemovedByOwner
<1>1. ASSUME IInv, Next, NEW i \in Slots, ItemAlive(Item, i), Safe(Item[i].type),
             ~Item'[i].active
      PROVE  /\ Item[i].data \in Clients
             /\ client[Item[i].data].index = i /\ client'[Item[i].data].index = -1
  <2>1. Item[i].active /\ IsLive(Item[i])
    BY <1>1 DEF ItemAlive, IsLive
  <2>2. \A c, mode : ~Add(c, mode)
    BY <1>1, <2>1, AddOwn DEF Add
  <2>3. Item' # Item
    BY <1>1, <2>1
  <2>4. "off" \in Modes
    BY DEF Modes
  <2>5. ASSUME NEW c \in Loops \cup Spouts, Drop(c, "off")
        PROVE  /\ Item[i].data \in Clients
               /\ client[Item[i].data].index = i /\ client'[Item[i].data].index = -1
    <3>1. {c} \subseteq Clients \ Explosions /\ {c} \cap Sources = {}
      BY DEF Clients
    <3> QED  BY <1>1, <2>4, <2>5, <3>1, DropOwn DEF Drop
  <2>6. CASE \E c \in Loops : LoopTick(c)
    BY <2>2, <2>3, <2>5, <2>6 DEF LoopTick, Keep
  <2>7. CASE \E c \in Sources : SourceTick(c)
    <3>1. PICK c \in Sources : SourceTick(c)
      BY <2>7
    <3>2. ~ItemAlive(Item, client[c].index) /\ Drop(c, "off")
      BY <2>2, <2>3, <3>1 DEF SourceTick, Keep, Become
    <3>3. {c} \subseteq Clients \ Explosions
      BY DEF Clients
    <3> QED  BY <1>1, <2>4, <3>2, <3>3, DropOwn DEF Drop
  <2>8. CASE \E c \in Spouts : SpoutTick(c)
    <3>1. PICK c \in Spouts : SpoutTick(c)
      BY <2>8
    <3>2. ASSUME Item' = IF client[c].index = -1 THEN Item
                         ELSE ItemPause(Item, "spray", client[c].index, ~client[c].paused)
          PROVE  FALSE
      BY <1>1, <2>1, <3>2 DEF ItemPause, IInv, Types, Pools
    <3> QED  BY <2>2, <2>3, <2>5, <3>1, <3>2 DEF SpoutTick, Keep
  <2>9. CASE \E c \in Explosions : AddExplosion(c) \/ ExplosionTick(c) \/ UnAttach(c)
    BY <2>2, <2>3, <2>9 DEF AddExplosion, ExplosionTick, UnAttach, Become, Forget, Keep
  <2>10. CASE \E w \in Projectiles : ProjectileTick(w) \/ Fire(w)
    <3>1. PICK w \in Projectiles : ProjectileTick(w) \/ Fire(w)
      BY <2>10
    <3>2. ~Fire(w)
      BY <1>1, <2>1, AddOwn DEF Fire
    <3>3. DropAll(PartsOf(w), "off")
      BY <2>3, <3>1, <3>2 DEF ProjectileTick, Keep
    <3>4. PartsOf(w) \subseteq Clients \ Explosions /\ PartsOf(w) \cap Sources = {}
      <4>1. PartsOf(w) \subseteq Parts
        BY DEF PartsOf, Parts
      <4> QED  BY <4>1, Whose
    <3> QED  BY <1>1, <2>4, <3>3, <3>4, DropOwn
  <2>11. CASE EffectTick
    <3>1. PICK ends : Item' = Ended(Swept(Item), ends)
      BY <2>11 DEF EffectTick
    <3>2. Swept(Item)[i] = Item[i]
      BY <2>1 DEF Swept, IsLive
    <3>3. Swept(Item)[i].active /\ Swept(Item)[i] \in ItemRecords
      BY <1>1, <2>1, <3>2 DEF IInv, Types, Pools, ItemRecords
    <3>4. Item'[i].active
      BY <3>1, <3>3 DEF Ended, ItemRecords
    <3> QED  BY <1>1, <3>4
  <2>12. CASE PlayOnce
    <3>1. PICK j \in Slots, type \in ShotTypes : Item' = ItemAdd(Item, j, type, Shot)
      BY <2>12 DEF PlayOnce
    <3>2. Item'[i].active
      BY <1>1, <2>1, <3>1, SlotsOk DEF ItemAdd, IInv, Types, Pools
    <3> QED  BY <1>1, <3>2
  <2>13. CASE NextPhase
    BY <2>3, <2>13 DEF NextPhase
  <2> QED  BY <1>1, <2>6, <2>7, <2>8, <2>9, <2>10, <2>11, <2>12, <2>13 DEF Next
<1>2. IInv /\ [Next]_vars =>
        [\A i \in Slots : ItemAlive(Item, i) /\ Safe(Item[i].type) /\ ~Item'[i].active =>
           /\ Item[i].data \in Clients
           /\ client[Item[i].data].index = i /\ client'[Item[i].data].index = -1]_vars
  BY <1>1
<1>3. Init => IInv  BY InitIInv
<1>4. IInv /\ [Next]_vars => IInv'  BY NextIInv
<1> QED  BY <1>2, <1>3, <1>4, PTL DEF Spec, RemovedByOwner
================================================================================

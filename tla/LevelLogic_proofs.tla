-------------------------- MODULE LevelLogic_proofs --------------------------
(***************************************************************************)
(* Proofs about LevelLogic, for any level of any number of triggers, gates,*)
(* countdowns, pickups and changes, and a pool of effects of any size.     *)
(***************************************************************************)
EXTENDS LevelLogic, WellFoundedInduction, TLAPS

------------------------------------------------------------------------------
(* The ticks of the entities of one manager *)

\* A set of natural numbers that holds 0 and the successors of its members holds all.
LEMMA Induct ==
  ASSUME NEW S, 0 \in S, \A n \in Nat : n \in S => n + 1 \in S
  PROVE  \A n \in Nat : n \in S
<1> DEFINE T == {n \in Nat : n \notin S}
           R == OpToRel(<, Nat)
<1>1. SUFFICES ASSUME T # {} PROVE FALSE
  OBVIOUS
<1>2. IsWellFoundedOn(R, Nat)
  BY NatLessThanWellFounded, Zenon
<1> HIDE DEF R
<1>3. PICK x \in T : \A y \in T : <<y, x>> \notin R
  BY <1>1, <1>2, WFMin
<1>4. x \in Nat \ {0} /\ x - 1 \in Nat /\ <<x - 1, x>> \in R
  BY DEF R, OpToRel
<1> QED
  BY <1>3, <1>4

StatesOf(w) == [g \in GateNames |-> w.gate[g].state]

\* What the first m of the entities in an order make of w, one by one.
IsRound(f, m, w, order) ==
  f = [n \in 0 .. m |-> IF n = 0 THEN w ELSE Tick(f[n - 1], order[n], StatesOf(w))]

LEMMA RoundExists ==
  ASSUME NEW w, NEW order
  PROVE  \A m \in Nat : \E f : IsRound(f, m, w, order)
<1> DEFINE S == {m \in Nat : \E f : IsRound(f, m, w, order)}
           q == StatesOf(w)
<1>1. 0 \in S
  <2>1. IsRound([n \in 0 .. 0 |-> w], 0, w, order)
    BY DEF IsRound
  <2> QED
    BY <2>1
<1>2. ASSUME NEW m \in Nat, m \in S PROVE m + 1 \in S
  <2>1. PICK f : IsRound(f, m, w, order)
    BY <1>2
  <2> DEFINE g == [n \in 0 .. m + 1 |->
                     IF n = m + 1 THEN Tick(f[m], order[m + 1], q) ELSE f[n]]
  <2> HIDE DEF q
  <2>2. ASSUME NEW n \in 0 .. m + 1
        PROVE  g[n] = IF n = 0 THEN w ELSE Tick(g[n - 1], order[n], q)
    <3>1. CASE n = m + 1
      <4>1. g[n] = Tick(f[m], order[m + 1], q) /\ g[n - 1] = f[m]
        BY <3>1
      <4> QED
        BY <4>1, <3>1
    <3>2. CASE n # m + 1
      <4>1. n \in 0 .. m
        BY <3>2
      <4>2. f[n] = IF n = 0 THEN w ELSE Tick(f[n - 1], order[n], q)
        BY <2>1, <4>1 DEF IsRound, q
      <4>3. g[n] = f[n] /\ (n # 0 => g[n - 1] = f[n - 1])
        BY <4>1
      <4> QED
        BY <4>2, <4>3
    <3> QED
      BY <3>1, <3>2
  <2>3. DOMAIN g = 0 .. m + 1 /\ g = [n \in 0 .. m + 1 |-> g[n]]
    OBVIOUS
  <2> HIDE DEF g
  <2>4. g = [n \in 0 .. m + 1 |-> IF n = 0 THEN w ELSE Tick(g[n - 1], order[n], q)]
    BY <2>2, <2>3
  <2>5. IsRound(g, m + 1, w, order)
    BY <2>4 DEF IsRound, q
  <2> QED
    BY <2>5
<1> HIDE DEF S
<1>3. \A m \in Nat : m \in S
  BY <1>1, <1>2, Induct
<1> QED
  BY <1>3 DEF S

\* What holds before the first tick, P[0], and by each tick becomes what holds then, P[n],
\* holds in the end.
LEMMA RoundKeeps ==
  ASSUME NEW w, NEW order, Len(order) \in Nat, NEW P, w \in P[0],
         \A n \in 1 .. Len(order) : \A v \in P[n - 1] : Tick(v, order[n], StatesOf(w)) \in P[n]
  PROVE  TickAll(w, order) \in P[Len(order)]
<1> DEFINE N == Len(order)
           q == StatesOf(w)
<1>1. N \in Nat
  OBVIOUS
<1>2. PICK f : IsRound(f, N, w, order)
  BY <1>1, RoundExists
<1> DEFINE A == CHOOSE h : IsRound(h, N, w, order)
<1>3. IsRound(A, N, w, order)
  BY <1>2
<1>4. TickAll(w, order) = A[N]
  BY DEF TickAll, IsRound, StatesOf
<1> HIDE DEF A
<1> HIDE DEF q
<1>5. A[0] = w /\ \A n \in 1 .. N : A[n] = Tick(A[n - 1], order[n], q)
  BY <1>1, <1>3 DEF IsRound, q
<1> DEFINE S == {n \in Nat : n <= N => A[n] \in P[n]}
<1>6. 0 \in S
  BY <1>5
<1>7. ASSUME NEW n \in Nat, n \in S PROVE n + 1 \in S
  <2>1. SUFFICES ASSUME n + 1 <= N PROVE A[n + 1] \in P[n + 1]
    OBVIOUS
  <2>2. A[n] \in P[n]
    BY <1>1, <1>7, <2>1
  <2>3. A[n + 1] = Tick(A[n], order[n + 1], q) /\ n + 1 \in 1 .. N /\ n + 1 - 1 = n
    BY <1>1, <1>5, <2>1
  <2> QED
    BY <2>2, <2>3 DEF q
<1> HIDE DEF S
<1>8. N \in S
  BY <1>1, <1>6, <1>7, Induct
<1> QED
  BY <1>1, <1>4, <1>8 DEF S

------------------------------------------------------------------------------
(* What the handlers work on, and the sounds *)

TriggerRecords == [state : BOOLEAN, isHit : BOOLEAN, time : Int, inAnimation : BOOLEAN,
                   callBack : Nat]

ModelRecords == [moving : BOOLEAN, forward : BOOLEAN, hasMoved : BOOLEAN, time : Int,
                 start : Int, target : Int, index : Int, wrap : BOOLEAN,
                 colliding : BOOLEAN]

GateRecords == [state : BOOLEAN, old : BOOLEAN, delaying : BOOLEAN, time : Int]

TimerRecords == [active : BOOLEAN, state : BOOLEAN, old : BOOLEAN, time : Int]

PickupRecords == [alive : BOOLEAN, active : BOOLEAN, tick : Int, callBack : Nat]

ChangeRecords == [active : BOOLEAN, old : BOOLEAN, count : Int, total : Int,
                  increment : Int, given : Int]

Worlds ==
  [trigger : [TriggerNames -> TriggerRecords], model : [TriggerNames -> ModelRecords],
   gate : [GateNames -> GateRecords], timer : [TimerNames -> TimerRecords],
   pickup : [PickupNames -> PickupRecords], modifier : [ModifierNames -> BOOLEAN],
   change : [ChangeNames -> ChangeRecords],
   attribute : [AttributeNames -> AttributeRecords],
   handle : [Owners -> Slots \cup {-1}], Item : Pools, on : SUBSET Inputs]

Loop(o) == [owner |-> o, loop |-> TRUE]

\* Item_Add has a place to go, or none.
LEMMA FirstFreeExists ==
  ASSUME NEW p
  PROVE  \E i \in Slots \cup {-1} : IsFirstFree(p, i)
<1> DEFINE T == {j \in Slots : ~p[j].active}
           R == OpToRel(<, Nat)
<1>1. CASE T = {}
  <2>1. IsFirstFree(p, -1)
    BY <1>1 DEF IsFirstFree
  <2> QED
    BY <2>1
<1>2. CASE T # {}
  <2>1. IsWellFoundedOn(R, Nat) /\ T \subseteq Nat
    <3>1. IsWellFoundedOn(R, Nat)
      BY NatLessThanWellFounded, Zenon
    <3>2. T \subseteq Nat
      BY PoolAssumption DEF Slots
    <3> QED
      BY <3>1, <3>2
  <2> HIDE DEF R
  <2>2. PICK i \in T : \A j \in T : <<j, i>> \notin R
    BY <1>2, <2>1, WFMin
  <2>3. ASSUME NEW j \in Slots, j < i PROVE p[j].active
    <3>1. i \in Nat /\ j \in Nat
      BY PoolAssumption DEF Slots
    <3>2. <<j, i>> \in R
      BY <3>1, <2>3 DEF R, OpToRel
    <3> QED
      BY <2>2, <3>2
  <2>4. IsFirstFree(p, i)
    BY <2>3 DEF IsFirstFree
  <2> QED
    BY <2>4
<1> QED
  BY <1>1, <1>2

\* What handles and pool become of a sound that o plays: o has no handle and the pool is
\* as it was, or the sound has a place that was free, which o keeps if it loops.
Played(h, p, g, q, o, loop) ==
  \/ q = p /\ g = [h EXCEPT ![o] = -1]
  \/ \E i \in Slots :
       /\ ~p[i].active
       /\ \A j \in Slots \ {i} : q[j] = p[j]
       /\ IsLive(q[i]) /\ q[i].data = [owner |-> o, loop |-> loop]
       /\ g = [h EXCEPT ![o] = IF loop THEN i ELSE -1]

\* And when o is silenced.
Silenced(h, p, g, q, o) ==
  /\ g = [h EXCEPT ![o] = -1]
  /\ \A j \in Slots : j # h[o] => q[j] = p[j]
  /\ h[o] # -1 => ~q[h[o]].active

\* Handles and pool are of their kind, and the rest is as it was.
OnlySound(w, v) ==
  /\ v.handle \in [Owners -> Slots \cup {-1}] /\ v.Item \in Pools
  /\ v = [w EXCEPT !.handle = v.handle, !.Item = v.Item]

LEMMA OnlySoundFields ==
  ASSUME NEW w \in Worlds, NEW v, OnlySound(w, v)
  PROVE  /\ v \in Worlds
         /\ v.trigger = w.trigger /\ v.model = w.model /\ v.gate = w.gate
         /\ v.timer = w.timer /\ v.pickup = w.pickup /\ v.modifier = w.modifier
         /\ v.change = w.change /\ v.attribute = w.attribute /\ v.on = w.on
  BY DEF OnlySound, Worlds

LEMMA SetupType ==
  ASSUME setup \in Setups
  PROVE  /\ \A t \in TriggerNames : setup.trigger[t] \in TriggerSettings
         /\ \A g \in GateNames : setup.gate[g] \in GateSettings
         /\ \A c \in TimerNames : setup.timer[c] \in TimerSettings
         /\ \A p \in PickupNames : setup.pickup[p] \in PickupSettings
         /\ \A m \in ModifierNames : setup.modifier[m] \in ModifierSettings
         /\ \A h \in ChangeNames : setup.change[h] \in ChangeSettings
         /\ setup.sound \in Sounds
         /\ setup.attribute \in [AttributeNames -> AttributeRecords]
<1>1. setup \in Levels
  BY LogicAssumption
<1> QED
  BY <1>1 DEF Levels

LEMMA PlaySoundMakes ==
  ASSUME NEW w \in Worlds, NEW o \in Owners
  PROVE  LET v == PlaySound(w, o)
         IN  /\ OnlySound(w, v)
             /\ \E loop \in BOOLEAN : /\ Played(w.handle, w.Item, v.handle, v.Item, o, loop)
                                      /\ loop = (setup.sound[o] = "loop")
<1> DEFINE loop == setup.sound[o] = "loop"
           i == CHOOSE j \in Slots \cup {-1} : IsFirstFree(w.Item, j)
           v == PlaySound(w, o)
           new == [owner |-> o, loop |-> loop]
           h == w.handle
<1>1. i \in Slots \cup {-1} /\ IsFirstFree(w.Item, i)
  BY FirstFreeExists
<1>2. v = IF setup.sound[o] = "none" THEN [w EXCEPT !.handle[o] = -1]
          ELSE [w EXCEPT !.Item = ItemAdd(@, i, "snd", new),
                         !.handle[o] = IF loop THEN i ELSE -1]
  BY DEF PlaySound
<1>3. new \in Datas /\ loop \in BOOLEAN
  BY LogicAssumption
<1>4. h \in [Owners -> Slots \cup {-1}] /\ w.Item \in Pools
  BY DEF Worlds
<1> HIDE DEF i, v, new, loop
<1>5. CASE setup.sound[o] = "none"
  <2>1. v = [w EXCEPT !.handle = [h EXCEPT ![o] = -1]]
    BY <1>2, <1>5
  <2>2. [h EXCEPT ![o] = -1] \in [Owners -> Slots \cup {-1}]
    BY <1>4
  <2>3. v.handle = [h EXCEPT ![o] = -1] /\ v.Item = w.Item /\ OnlySound(w, v)
    BY <1>4, <2>1, <2>2 DEF OnlySound, Worlds
  <2>4. Played(h, w.Item, v.handle, v.Item, o, loop)
    BY <2>3 DEF Played
  <2> QED
    BY <1>3, <2>3, <2>4 DEF v, loop
<1>6. CASE setup.sound[o] # "none"
  <2> DEFINE p == ItemAdd(w.Item, i, "snd", new)
             k == IF loop THEN i ELSE -1
             g == [h EXCEPT ![o] = k]
  <2>1. v = [w EXCEPT !.Item = p, !.handle = g]
    BY <1>2, <1>6 DEF Worlds
  <2>2. k \in Slots \cup {-1} /\ g \in [Owners -> Slots \cup {-1}]
    BY <1>1, <1>4
  <2>3. CASE i = -1
    <3>1. p = w.Item /\ g = [h EXCEPT ![o] = -1]
      BY <2>3 DEF ItemAdd
    <3> HIDE DEF p, g
    <3>2. v.handle = g /\ v.Item = p /\ OnlySound(w, v)
      BY <1>4, <2>1, <2>2, <3>1 DEF OnlySound, Worlds
    <3>3. Played(h, w.Item, v.handle, v.Item, o, loop)
      BY <3>1, <3>2 DEF Played
    <3> QED
      BY <1>3, <3>2, <3>3 DEF v, loop
  <2>4. CASE i # -1
    <3>1. i \in Slots /\ ~w.Item[i].active
      BY <1>1, <2>4 DEF IsFirstFree
    <3>2. p = [w.Item EXCEPT ![i] = [@ EXCEPT !.active = TRUE, !.removeNext = FALSE,
                                              !.type = "snd", !.data = new]]
      BY <2>4 DEF ItemAdd
    <3>3. p \in Pools
      <4>1. "snd" \in EffTypes
        BY LogicAssumption
      <4> QED
        BY <1>3, <1>4, <3>1, <3>2, <4>1 DEF Pools
    <3>4. /\ \A j \in Slots \ {i} : p[j] = w.Item[j]
          /\ IsLive(p[i]) /\ p[i].data = new
      BY <1>4, <3>1, <3>2 DEF IsLive, Pools
    <3> HIDE DEF p
    <3> DEFINE G == g
    <3> HIDE DEF G
    <3>5. v = [w EXCEPT !.Item = p, !.handle = G] /\ G \in [Owners -> Slots \cup {-1}]
      BY <2>1, <2>2 DEF G
    <3>6. v.handle = G /\ v.Item = p /\ OnlySound(w, v)
      BY <3>3, <3>5 DEF OnlySound, Worlds
    <3>7. Played(h, w.Item, v.handle, v.Item, o, loop)
      BY <3>1, <3>4, <3>6 DEF Played, new, G
    <3> QED
      BY <1>3, <3>6, <3>7 DEF v, loop
  <2> QED
    BY <2>3, <2>4
<1> QED
  BY <1>5, <1>6

LEMMA SilenceMakes ==
  ASSUME NEW w \in Worlds, NEW o \in Owners
  PROVE  LET v == Silence(w, o)
         IN  OnlySound(w, v) /\ Silenced(w.handle, w.Item, v.handle, v.Item, o)
<1> DEFINE h == w.handle
           v == Silence(w, o)
<1>1. h \in [Owners -> Slots \cup {-1}] /\ w.Item \in Pools /\ h[o] \in Slots \cup {-1}
  BY DEF Worlds
<1>2. CASE h[o] = -1
  <2>1. v = w /\ [h EXCEPT ![o] = -1] = h
    BY <1>1, <1>2 DEF Silence
  <2> QED
    BY <1>1, <1>2, <2>1 DEF OnlySound, Silenced, Worlds
<1>3. CASE h[o] # -1
  <2> DEFINE p == ItemDelete(w.Item, "snd", h[o])
             g == [h EXCEPT ![o] = -1]
  <2>1. v = [w EXCEPT !.Item = p, !.handle = g]
    BY <1>3 DEF Silence, Worlds
  <2>2. h[o] \in Slots /\ w.Item[h[o]].type = "snd"
    BY <1>1, <1>3, LogicAssumption DEF Pools
  <2>3. /\ p \in Pools
        /\ \A j \in Slots : j # h[o] => p[j] = w.Item[j]
        /\ ~p[h[o]].active
    BY <1>1, <2>2 DEF ItemDelete, Matches, Pools
  <2>4. g \in [Owners -> Slots \cup {-1}]
    BY <1>1
  <2> HIDE DEF p, v, g
  <2>5. v.handle = g /\ v.Item = p /\ OnlySound(w, v)
    BY <2>1, <2>3, <2>4 DEF OnlySound, Worlds
  <2>6. Silenced(h, w.Item, v.handle, v.Item, o)
    BY <2>3, <2>5 DEF Silenced, g
  <2> QED
    BY <2>5, <2>6 DEF v
<1> QED
  BY <1>2, <1>3

\* The two halves of SoundsOwned, and both.
Owns(h, p, o) ==
  h[o] # -1 => LET i == p[h[o]] IN IsLive(i) /\ i.data = Loop(o)

Owned(h, p, i) == p[i].active /\ p[i].data.loop => h[p[i].data.owner] = i

Tuned(h, p) == (\A o \in Owners : Owns(h, p, o)) /\ (\A i \in Slots : Owned(h, p, i))

Handles == [Owners -> Slots \cup {-1}]

LEMMA SlotFacts == -1 \notin Slots /\ Slots \subseteq Nat
  BY PoolAssumption DEF Slots

LEMMA OwnerOf ==
  ASSUME NEW p \in Pools, NEW i \in Slots
  PROVE  p[i].data.owner \in Owners /\ p[i].active \in BOOLEAN /\ p[i].data.loop \in BOOLEAN
  BY LogicAssumption DEF Pools

\* A sound played for one who has none keeps every sound owned ...
LEMMA PlayedTuned ==
  ASSUME NEW h \in Handles, NEW p \in Pools, NEW g, NEW q, NEW o \in Owners,
         NEW loop \in BOOLEAN, Tuned(h, p), h[o] = -1, Played(h, p, g, q, o, loop)
  PROVE  Tuned(g, q)
<1>1. CASE q = p /\ g = [h EXCEPT ![o] = -1]
  <2>1. g = h
    BY <1>1 DEF Handles
  <2> QED
    BY <1>1, <2>1
<1>2. CASE ~(q = p /\ g = [h EXCEPT ![o] = -1])
  <2>1. PICK k \in Slots :
          /\ ~p[k].active
          /\ \A j \in Slots \ {k} : q[j] = p[j]
          /\ IsLive(q[k]) /\ q[k].data = [owner |-> o, loop |-> loop]
          /\ g = [h EXCEPT ![o] = IF loop THEN k ELSE -1]
    BY <1>2 DEF Played
  <2>2. ASSUME NEW e \in Owners PROVE Owns(g, q, e)
    <3>1. CASE e = o
      <4>1. g[e] = IF loop THEN k ELSE -1
        BY <2>1, <3>1 DEF Handles
      <4> QED
        BY <2>1, <3>1, <4>1 DEF Owns, Loop
    <3>2. CASE e # o
      <4>1. g[e] = h[e] /\ Owns(h, p, e)
        BY <2>1, <3>2 DEF Tuned, Handles
      <4>2. h[e] # -1 => h[e] \in Slots \ {k}
        BY <2>1, <4>1 DEF Owns, IsLive, Handles
      <4> QED
        BY <2>1, <4>1, <4>2 DEF Owns
    <3> QED
      BY <3>1, <3>2
  <2>3. ASSUME NEW i \in Slots PROVE Owned(g, q, i)
    <3>1. CASE i = k
      BY <2>1, <3>1 DEF Owned, Handles
    <3>2. CASE i # k
      <4>1. q[i] = p[i] /\ Owned(h, p, i) /\ p[i].data.owner \in Owners
        BY <2>1, <3>2, OwnerOf DEF Tuned
      <4>2. p[i].data.owner # o => g[p[i].data.owner] = h[p[i].data.owner]
        BY <2>1, <4>1 DEF Handles
      <4> QED
        BY <4>1, <4>2, SlotFacts DEF Owned
    <3> QED
      BY <3>1, <3>2
  <2> QED
    BY <2>2, <2>3 DEF Tuned
<1> QED
  BY <1>1, <1>2

\* ... and so does a sound deleted.
LEMMA SilencedTuned ==
  ASSUME NEW h \in Handles, NEW p \in Pools, NEW g, NEW q, NEW o \in Owners,
         Tuned(h, p), Silenced(h, p, g, q, o)
  PROVE  Tuned(g, q)
<1>1. Owns(h, p, o) /\ g[o] = -1 /\ \A e \in Owners \ {o} : g[e] = h[e]
  BY DEF Tuned, Silenced, Handles
<1>2. ASSUME NEW e \in Owners PROVE Owns(g, q, e)
  <2>1. CASE e = o
    BY <1>1, <2>1 DEF Owns
  <2>2. CASE e # o
    <3>1. g[e] = h[e] /\ Owns(h, p, e)
      BY <1>1, <2>2 DEF Tuned
    <3>2. h[e] # -1 => h[e] # h[o] /\ h[e] \in Slots
      BY <1>1, <2>2, <3>1 DEF Owns, Loop, Handles
    <3> QED
      BY <3>1, <3>2 DEF Owns, Silenced
  <2> QED
    BY <2>1, <2>2
<1>3. ASSUME NEW i \in Slots PROVE Owned(g, q, i)
  <2>1. CASE i = h[o]
    BY <2>1, SlotFacts DEF Owned, Silenced
  <2>2. CASE i # h[o]
    <3>1. q[i] = p[i] /\ Owned(h, p, i) /\ p[i].data.owner \in Owners
      BY <2>2, OwnerOf DEF Tuned, Silenced
    <3> QED
      BY <1>1, <2>2, <3>1 DEF Owned
  <2> QED
    BY <2>1, <2>2
<1> QED
  BY <1>2, <1>3 DEF Tuned

\* The effects that end are of no handle.
LEMMA SweptTuned ==
  ASSUME NEW h \in Handles, NEW p \in Pools, Tuned(h, p), NEW ends,
         ends \subseteq {i \in Processed(Swept(p)) : ~Swept(p)[i].data.loop}
  PROVE  LET q == Ended(Swept(p), ends) IN q \in Pools /\ Tuned(h, q)
<1> DEFINE s == Swept(p)
           q == Ended(s, ends)
<1>1. ASSUME NEW i \in Slots
      PROVE  /\ s[i] \in [active : BOOLEAN, type : EffTypes, data : Datas,
                          pause : BOOLEAN, removeNext : BOOLEAN]
             /\ s[i].data = p[i].data /\ (s[i].active => s[i] = p[i])
             /\ (IsLive(p[i]) => s[i] = p[i])
  BY DEF Swept, Pools, IsLive
<1>2. s \in Pools
  BY <1>1 DEF Swept, Pools
<1>3. DOMAIN q = Slots /\ q = [i \in Slots |-> q[i]]
  BY DEF Ended
<1>4. ASSUME NEW i \in Slots
      PROVE  q[i] = IF i \in ends THEN [s[i] EXCEPT !.removeNext = TRUE] ELSE s[i]
  BY DEF Ended
<1>5. \A i \in ends : ~s[i].data.loop
  OBVIOUS
<1> HIDE DEF s, q
<1>6. ASSUME NEW i \in Slots
      PROVE  /\ q[i] \in [active : BOOLEAN, type : EffTypes, data : Datas,
                          pause : BOOLEAN, removeNext : BOOLEAN]
             /\ q[i].data = s[i].data /\ q[i].active = s[i].active
             /\ (s[i].data.loop => q[i] = s[i])
  BY <1>2, <1>4, <1>5 DEF Pools
<1>7. q \in Pools
  BY <1>3, <1>6 DEF Pools
<1>8. ASSUME NEW o \in Owners PROVE Owns(h, q, o)
  <2>1. SUFFICES ASSUME h[o] # -1 PROVE IsLive(q[h[o]]) /\ q[h[o]].data = Loop(o)
    BY DEF Owns
  <2>2. h[o] \in Slots /\ IsLive(p[h[o]]) /\ p[h[o]].data = Loop(o)
    BY <2>1 DEF Tuned, Owns, Handles
  <2>3. s[h[o]] = p[h[o]]
    BY <1>1, <2>2
  <2>4. q[h[o]] = s[h[o]]
    BY <1>6, <2>2, <2>3 DEF Loop
  <2> QED
    BY <2>2, <2>3, <2>4
<1>9. ASSUME NEW i \in Slots PROVE Owned(h, q, i)
  <2>1. Owned(h, p, i)
    BY DEF Tuned
  <2>2. q[i].active => p[i].active /\ q[i].data = p[i].data
    BY <1>1, <1>6
  <2> QED
    BY <2>1, <2>2 DEF Owned
<1> QED
  BY <1>7, <1>8, <1>9 DEF Tuned, q, s

(***************************************************************************)
(* Who has a handle plays: a countdown while it counts, a trigger as long  *)
(* as it is animating, and if it is of T, which are those that have ticked *)
(* since the models did, as long as its model moves.                       *)
(***************************************************************************)
Sings(w, T, o) ==
  w.handle[o] # -1 =>
    IF o \in TimerNames THEN w.timer[o].active
    ELSE /\ o \in TriggerNames /\ w.trigger[o].inAnimation
         /\ o \in T => w.model[o].moving

Heard(w, T) == Tuned(w.handle, w.Item) /\ \A o \in Owners : Sings(w, T, o)

------------------------------------------------------------------------------
(* Triggers *)

LEMMA Kinds ==
  /\ Owners = TriggerNames \cup TimerNames \cup PickupNames
  /\ \A t \in TriggerNames : t \notin GateNames /\ t \notin TimerNames /\ t \notin PickupNames
                             /\ t \notin ModifierNames /\ t \notin ChangeNames
  /\ \A g \in GateNames : g \notin TimerNames /\ g \notin PickupNames
                          /\ g \notin ModifierNames /\ g \notin ChangeNames
  /\ \A c \in TimerNames : c \notin PickupNames /\ c \notin ModifierNames
                           /\ c \notin ChangeNames
  /\ \A p \in PickupNames : p \notin ModifierNames /\ p \notin ChangeNames
  /\ \A m \in ModifierNames : m \notin ChangeNames
  BY KindsAssumption DEF Owners, Signals

LEMMA TickIs ==
  ASSUME NEW w, NEW states
  PROVE  /\ \A t \in TriggerNames : Tick(w, t, states) = TickTrigger(w, t)
         /\ \A g \in GateNames : Tick(w, g, states) = TickGate(w, g, states)
         /\ \A p \in PickupNames : Tick(w, p, states) = TickPickupOf(w, p)
         /\ \A m \in ModifierNames : Tick(w, m, states) = TickModifier(w, m)
         /\ \A c \in TimerNames : Tick(w, c, states) = TickTimer(w, c)
         /\ \A h \in ChangeNames : Tick(w, h, states) = TickChange(w, h)
  BY Kinds DEF Tick

LEMMA StartType ==
  ASSUME NEW m \in ModelRecords
  PROVE  Start(m) \in ModelRecords /\ Start(m).moving
<1> DEFINE k == [m EXCEPT !.forward = TRUE, !.moving = TRUE, !.hasMoved = TRUE]
           l == [k EXCEPT !.time = 0]
<1>1. k \in ModelRecords /\ k.moving
  BY DEF ModelRecords
<1>2. Start(m) = [l EXCEPT !.start = 0]
  BY DEF Start
<1> HIDE DEF k
<1>3. l \in ModelRecords /\ l.moving
  BY <1>1 DEF ModelRecords
<1> HIDE DEF l
<1> QED
  BY <1>2, <1>3 DEF ModelRecords

\* What a tick makes of a trigger: the pulse, and then the end of its model's motion.
Ticked(s, c, moving) ==
  IF Pulsed(s, c).inAnimation /\ ~moving
  THEN [Pulsed(s, c) EXCEPT !.inAnimation = ~Rearms(Pulsed(s, c), c)]
  ELSE Pulsed(s, c)

LEMMA PulsedMakes ==
  ASSUME NEW s \in TriggerRecords, NEW c \in TriggerSettings, dt \in Nat
  PROVE  LET r == Pulsed(s, c)
         IN  /\ r \in TriggerRecords /\ r.inAnimation = s.inAnimation
             /\ r.state = Pulse(s, c).state /\ r.isHit = Pulse(s, c).isHit
             /\ r.time = Pulse(s, c).time
<1>1. Pulse(s, c) \in TriggerRecords /\ Pulse(s, c).inAnimation = s.inAnimation
  <2>1. CASE ~s.isHit
    BY <2>1 DEF Pulse
  <2>2. CASE s.isHit /\ s.state /\ s.time + dt >= c.on
    <3> DEFINE q == [s EXCEPT !.time = 0]
    <3>1. q \in TriggerRecords /\ q.inAnimation = s.inAnimation
      BY DEF TriggerRecords
    <3>2. Pulse(s, c) = [q EXCEPT !.state = FALSE]
      BY <2>2 DEF Pulse
    <3> HIDE DEF q
    <3> QED
      BY <3>1, <3>2 DEF TriggerRecords
  <2>3. CASE s.isHit /\ ~s.state /\ s.time + dt >= c.off
    <3> DEFINE q == [s EXCEPT !.time = 0]
    <3>1. q \in TriggerRecords /\ q.inAnimation = s.inAnimation
      BY DEF TriggerRecords
    <3>2. Pulse(s, c) = [q EXCEPT !.isHit = FALSE]
      BY <2>3 DEF Pulse
    <3> HIDE DEF q
    <3> QED
      BY <3>1, <3>2 DEF TriggerRecords
  <2>4. CASE /\ s.isHit /\ ~(s.state /\ s.time + dt >= c.on)
             /\ ~(~s.state /\ s.time + dt >= c.off)
    <3>1. Pulse(s, c) = [s EXCEPT !.time = s.time + dt] /\ s.time + dt \in Int
      BY <2>4 DEF Pulse, TriggerRecords
    <3> QED
      BY <3>1 DEF TriggerRecords
  <2> QED
    BY <2>1, <2>2, <2>3, <2>4
<1> DEFINE p == Pulse(s, c)
<1>2. CallBackLeft(s.callBack) \in Nat
  BY <1>1 DEF CallBackLeft, TriggerRecords
<1>3. Pulsed(s, c) = [p EXCEPT !.callBack = CallBackLeft(s.callBack)]
  BY DEF Pulsed
<1> DEFINE n == CallBackLeft(s.callBack)
<1> HIDE DEF p, n
<1> QED
  BY <1>1, <1>2, <1>3 DEF TriggerRecords, p, n

LEMMA TickedType ==
  ASSUME NEW s \in TriggerRecords, NEW c \in TriggerSettings, dt \in Nat, NEW moving
  PROVE  Ticked(s, c, moving) \in TriggerRecords
<1> DEFINE r == Pulsed(s, c)
<1>1. r \in TriggerRecords
  BY PulsedMakes
<1>2. (~Rearms(r, c)) \in BOOLEAN
  BY DEF Rearms
<1>3. Ticked(s, c, moving) = IF r.inAnimation /\ ~moving
                             THEN [r EXCEPT !.inAnimation = ~Rearms(r, c)] ELSE r
  BY DEF Ticked
<1> DEFINE b == ~Rearms(r, c)
<1> HIDE DEF r, b
<1> QED
  BY <1>1, <1>2, <1>3 DEF TriggerRecords, b

\* A tick of a trigger: it ends its sound when its model has come to rest.
LEMMA TickTriggerMakes ==
  ASSUME setup \in Setups, dt \in Nat, NEW w \in Worlds, NEW t \in TriggerNames
  PROVE  LET v == TickTrigger(w, t)
             r == Ticked(w.trigger[t], setup.trigger[t], w.model[t].moving)
             u == [w EXCEPT !.trigger[t] = r]
         IN  /\ u \in Worlds /\ OnlySound(u, v)
             /\ \/ /\ v.handle = w.handle /\ v.Item = w.Item
                   /\ w.trigger[t].inAnimation => w.model[t].moving
                   /\ r.inAnimation = w.trigger[t].inAnimation
                \/ Silenced(w.handle, w.Item, v.handle, v.Item, t)
<1> DEFINE c == setup.trigger[t]
           s == w.trigger[t]
           p == Pulsed(s, c)
           r == Ticked(s, c, w.model[t].moving)
           u == [w EXCEPT !.trigger[t] = r]
           x == [w EXCEPT !.trigger[t] = p]
           v == TickTrigger(w, t)
<1>1. s \in TriggerRecords /\ c \in TriggerSettings /\ t \in Owners
  BY SetupType, Kinds DEF Worlds
<1>2. /\ p \in TriggerRecords /\ p.inAnimation = s.inAnimation
      /\ r \in TriggerRecords
  BY <1>1, PulsedMakes, TickedType
<1>3. v = Stopped(x, t)
  BY DEF TickTrigger
<1>4. r = IF p.inAnimation /\ ~w.model[t].moving
          THEN [p EXCEPT !.inAnimation = ~Rearms(p, c)] ELSE p
  BY DEF Ticked
<1> HIDE DEF p, r, c
<1>5. x.trigger[t] = p /\ x.model = w.model
  BY <1>2 DEF Worlds
<1>6. u \in Worlds /\ u.handle = w.handle /\ u.Item = w.Item
  BY <1>2 DEF Worlds
<1>7. CASE p.inAnimation /\ ~w.model[t].moving
  <2>1. v = Silence([x EXCEPT !.trigger[t].inAnimation = ~Rearms(p, c)], t)
    BY <1>3, <1>5, <1>7 DEF Stopped, c
  <2>2. [x EXCEPT !.trigger[t].inAnimation = ~Rearms(p, c)] = u
    BY <1>4, <1>7 DEF Worlds
  <2>3. OnlySound(u, v) /\ Silenced(u.handle, u.Item, v.handle, v.Item, t)
    BY <1>1, <1>6, <2>1, <2>2, SilenceMakes
  <2> QED
    BY <1>6, <2>3 DEF u, r, s, c
<1>8. CASE ~(p.inAnimation /\ ~w.model[t].moving)
  <2>1. v = u /\ r = p
    BY <1>3, <1>4, <1>5, <1>8 DEF Stopped
  <2>2. OnlySound(u, v)
    BY <1>6, <2>1 DEF OnlySound, Worlds
  <2> QED
    BY <1>2, <1>6, <1>8, <2>1, <2>2 DEF u, r, s, c
<1> QED
  BY <1>7, <1>8

TickedOf(w, t) == Ticked(w.trigger[t], setup.trigger[t], w.model[t].moving)

\* Nothing but triggers and sounds changes.
TriggersOnly(w, v) ==
  /\ v.model = w.model /\ v.gate = w.gate /\ v.timer = w.timer /\ v.pickup = w.pickup
  /\ v.modifier = w.modifier /\ v.change = w.change /\ v.attribute = w.attribute
  /\ v.on = w.on

LEMMA TriggerTicks ==
  ASSUME setup \in Setups, dt \in Nat, NEW w \in Worlds, NEW t \in TriggerNames
  PROVE  LET v == TickTrigger(w, t)
         IN  /\ v \in Worlds /\ TriggersOnly(w, v)
             /\ v.trigger = [w.trigger EXCEPT ![t] = TickedOf(w, t)]
             /\ \A T : Heard(w, T) => Heard(v, T \cup {t})
<1> DEFINE r == TickedOf(w, t)
           u == [w EXCEPT !.trigger[t] = r]
           v == TickTrigger(w, t)
<1>1. /\ u \in Worlds /\ OnlySound(u, v)
      /\ \/ /\ v.handle = w.handle /\ v.Item = w.Item
            /\ w.trigger[t].inAnimation => w.model[t].moving
            /\ r.inAnimation = w.trigger[t].inAnimation
         \/ Silenced(w.handle, w.Item, v.handle, v.Item, t)
  BY TickTriggerMakes DEF TickedOf
<1> HIDE DEF v, r
<1>2. /\ u.trigger = [w.trigger EXCEPT ![t] = r] /\ TriggersOnly(w, u)
      /\ u.handle = w.handle /\ u.Item = w.Item
  BY DEF TriggersOnly, Worlds
<1> HIDE DEF u
<1>3. v \in Worlds /\ v.trigger = u.trigger /\ TriggersOnly(u, v) /\ v.timer = u.timer
      /\ v.model = u.model
  BY <1>1, OnlySoundFields DEF TriggersOnly
<1>4. TriggersOnly(w, v)
  BY <1>2, <1>3 DEF TriggersOnly
<1>5. ASSUME NEW T, Heard(w, T) PROVE Heard(v, T \cup {t})
  <2>1. w.handle \in Handles /\ w.Item \in Pools /\ t \in Owners
    BY Kinds DEF Worlds, Handles
  <2>2. Tuned(v.handle, v.Item)
    BY <1>1, <1>5, <2>1, SilencedTuned DEF Heard
  <2>3. ASSUME NEW o \in Owners, v.handle[o] # -1
        PROVE  /\ w.handle[o] # -1
               /\ o = t => /\ w.trigger[t].inAnimation => w.model[t].moving
                           /\ r.inAnimation = w.trigger[t].inAnimation
    BY <1>1, <2>1, <2>3 DEF Silenced, Handles
  <2>4. ASSUME NEW o \in Owners PROVE Sings(v, T \cup {t}, o)
    <3>1. SUFFICES ASSUME v.handle[o] # -1
                   PROVE  IF o \in TimerNames THEN v.timer[o].active
                          ELSE /\ o \in TriggerNames /\ v.trigger[o].inAnimation
                               /\ o \in T \cup {t} => v.model[o].moving
      BY DEF Sings
    <3>2. /\ w.handle[o] # -1 /\ Sings(w, T, o)
          /\ o = t => /\ w.trigger[t].inAnimation => w.model[t].moving
                      /\ r.inAnimation = w.trigger[t].inAnimation
      BY <1>5, <2>3, <3>1 DEF Heard
    <3>3. v.timer = w.timer /\ v.model = w.model
      BY <1>4 DEF TriggersOnly
    <3>4. CASE o = t
      <4>1. v.trigger[t] = r /\ t \notin TimerNames
        BY <1>2, <1>3, Kinds DEF Worlds
      <4> QED
        BY <3>2, <3>3, <3>4, <4>1 DEF Sings
    <3>5. CASE o # t
      <4>1. o \in TriggerNames => v.trigger[o] = w.trigger[o]
        BY <1>2, <1>3, <3>5 DEF Worlds
      <4> QED
        BY <3>2, <3>3, <3>5, <4>1 DEF Sings
    <3> QED
      BY <3>4, <3>5
  <2> QED
    BY <2>2, <2>4 DEF Heard
<1> QED
  BY <1>2, <1>3, <1>4, <1>5 DEF v, r

LEMMA OrderFacts ==
  ASSUME NEW s, NEW N, IsOrder(s, N)
  PROVE  /\ Len(s) \in Nat
         /\ \A n \in 1 .. Len(s) : s[n] \in N
         /\ \A i, j \in 1 .. Len(s) : s[i] = s[j] => i = j
  BY DEF IsOrder

LEMMA HeardFewer ==
  ASSUME NEW w, NEW T, NEW U, Heard(w, U), T \subseteq U
  PROVE  Heard(w, T)
  BY DEF Heard, Sings

\* Each trigger ticks once, and then none makes a sound that is at rest.
LEMMA TriggersRound ==
  ASSUME setup \in Setups, dt \in Nat, NEW w \in Worlds
  PROVE  LET v == TickAll(w, Triggers)
         IN  /\ v \in Worlds /\ TriggersOnly(w, v)
             /\ \A t \in TriggerNames : v.trigger[t] = TickedOf(w, t)
             /\ Heard(w, {}) => Heard(v, TriggerNames)
<1> DEFINE N == Len(Triggers)
           Done(n) == {Triggers[i] : i \in 1 .. n}
           P == [n \in 0 .. N |->
                   {u \in Worlds :
                      /\ TriggersOnly(w, u)
                      /\ \A t \in TriggerNames :
                           u.trigger[t] = IF t \in Done(n) THEN TickedOf(w, t)
                                          ELSE w.trigger[t]
                      /\ Heard(w, {}) => Heard(u, Done(n))}]
<1>1. /\ N \in Nat
      /\ \A n \in 1 .. N : Triggers[n] \in TriggerNames
      /\ \A i, j \in 1 .. N : Triggers[i] = Triggers[j] => i = j
  BY OrderAssumption, OrderFacts
<1>2. Done(0) = {} /\ w \in P[0]
  BY <1>1 DEF TriggersOnly
<1> HIDE DEF Done
<1>3. ASSUME NEW n \in 1 .. N, NEW u \in P[n - 1]
      PROVE  Tick(u, Triggers[n], StatesOf(w)) \in P[n]
  <2> DEFINE t == Triggers[n]
             v == TickTrigger(u, t)
  <2>1. /\ t \in TriggerNames /\ Tick(u, t, StatesOf(w)) = v
        /\ Done(n) = Done(n - 1) \cup {t} /\ t \notin Done(n - 1) /\ n - 1 \in 0 .. N
    <3>1. t \in TriggerNames /\ n - 1 \in 0 .. N
      BY <1>1
    <3>2. t \notin Done(n - 1)
      BY <1>1 DEF Done
    <3>3. Done(n) = Done(n - 1) \cup {t}
      <4>1. 1 .. n = (1 .. n - 1) \cup {n}
        BY <1>1
      <4> QED
        BY <4>1 DEF Done
    <3> QED
      BY <3>1, <3>2, <3>3, TickIs
  <2>2. /\ u \in Worlds /\ TriggersOnly(w, u)
        /\ \A x \in TriggerNames : u.trigger[x] = IF x \in Done(n - 1) THEN TickedOf(w, x)
                                                  ELSE w.trigger[x]
        /\ Heard(w, {}) => Heard(u, Done(n - 1))
    BY <2>1
  <2>3. /\ v \in Worlds /\ TriggersOnly(u, v)
        /\ v.trigger = [u.trigger EXCEPT ![t] = TickedOf(u, t)]
        /\ \A T : Heard(u, T) => Heard(v, T \cup {t})
    BY <2>1, <2>2, TriggerTicks
  <2>4. TickedOf(u, t) = TickedOf(w, t)
    BY <2>1, <2>2 DEF TickedOf, TriggersOnly
  <2> HIDE DEF v, t
  <2>5. TriggersOnly(w, v)
    BY <2>2, <2>3 DEF TriggersOnly
  <2>6. ASSUME NEW x \in TriggerNames
        PROVE  v.trigger[x] = IF x \in Done(n) THEN TickedOf(w, x) ELSE w.trigger[x]
    <3>1. u.trigger \in [TriggerNames -> TriggerRecords]
      BY <2>2 DEF Worlds
    <3>2. CASE x = t
      BY <2>1, <2>3, <2>4, <3>1, <3>2
    <3>3. CASE x # t
      BY <2>1, <2>2, <2>3, <3>1, <3>3
    <3> QED
      BY <3>2, <3>3
  <2>7. Heard(w, {}) => Heard(v, Done(n))
    BY <2>1, <2>2, <2>3
  <2>8. n \in 0 .. N
    BY <1>1
  <2>9. v \in P[n]
    BY <2>3, <2>5, <2>6, <2>7, <2>8
  <2> QED
    BY <2>1, <2>9 DEF t
<1> HIDE DEF P
<1>4. TickAll(w, Triggers) \in P[N]
  BY <1>1, <1>2, <1>3, RoundKeeps
<1>5. Done(N) = TriggerNames
  BY <1>1, OrderAssumption DEF TriggerNames, IsOrder, Done
<1>6. N \in 0 .. N
  BY <1>1
<1> QED
  BY <1>4, <1>5, <1>6 DEF P

------------------------------------------------------------------------------
(* Gates *)

LEMMA TriggerStateType ==
  ASSUME NEW w \in Worlds, NEW s
  PROVE  TriggerState(w, s) \in BOOLEAN
<1>1. CASE s \in TriggerNames
  <2>1. w.trigger[s] \in TriggerRecords
    BY <1>1 DEF Worlds
  <2> QED
    BY <1>1, <2>1, Kinds DEF TriggerState, TriggerRecords
<1>2. CASE s \in GateNames
  <2>1. w.gate[s] \in GateRecords /\ s \notin TriggerNames
    BY <1>2, Kinds DEF Worlds
  <2> QED
    BY <1>2, <2>1, Kinds DEF TriggerState, GateRecords
<1>3. CASE s \in TimerNames
  <2>1. w.timer[s] \in TimerRecords /\ s \notin TriggerNames /\ s \notin GateNames
    BY <1>3, Kinds DEF Worlds
  <2> QED
    BY <1>3, <2>1, Kinds DEF TriggerState, TimerRecords
<1>4. CASE s \in PickupNames
  <2>1. /\ w.pickup[s] \in PickupRecords /\ s \notin TriggerNames /\ s \notin GateNames
        /\ s \notin TimerNames
    BY <1>4, Kinds DEF Worlds
  <2> QED
    BY <1>4, <2>1, Kinds DEF TriggerState, PickupRecords
<1>5. CASE /\ s \notin TriggerNames /\ s \notin GateNames /\ s \notin TimerNames
           /\ s \notin PickupNames
  <2>1. TriggerState(w, s) = (s \in w.on)
    BY <1>5 DEF TriggerState
  <2> QED
    BY <2>1
<1> QED
  BY <1>1, <1>2, <1>3, <1>4, <1>5

LEMMA GateStateType ==
  ASSUME NEW w \in Worlds, NEW x \in Worlds, NEW s
  PROVE  GateState(w, StatesOf(x), s) \in BOOLEAN
<1>1. CASE s \in GateNames
  <2>1. x.gate[s].state \in BOOLEAN
    BY <1>1 DEF Worlds, GateRecords
  <2> QED
    BY <1>1, <2>1 DEF GateState, StatesOf
<1>2. CASE s \notin GateNames
  BY <1>2, TriggerStateType DEF GateState
<1> QED
  BY <1>1, <1>2

LEMMA GateState1 ==
  ASSUME NEW s \in GateRecords, NEW x \in BOOLEAN
  PROVE  [s EXCEPT !.state = x] \in GateRecords /\ [s EXCEPT !.old = x] \in GateRecords
  BY DEF GateRecords

LEMMA DelayTypes ==
  ASSUME NEW s \in GateRecords, NEW c \in GateSettings, NEW a \in BOOLEAN, dt \in Nat
  PROVE  Delayed(s, c, a) \in GateRecords /\ Held(s, c, a) \in GateRecords
<1> DEFINE later == [s EXCEPT !.time = s.time + dt]
           zero == [s EXCEPT !.time = 0, !.delaying = TRUE]
           over == [later EXCEPT !.delaying = FALSE]
<1>1. later \in GateRecords /\ s.old \in BOOLEAN
  BY DEF GateRecords
<1>2. zero \in GateRecords
  <2> DEFINE q == [s EXCEPT !.time = 0]
  <2>1. q \in GateRecords
    BY DEF GateRecords
  <2> HIDE DEF q
  <2>2. [q EXCEPT !.delaying = TRUE] \in GateRecords
    BY <2>1 DEF GateRecords
  <2> QED
    BY <2>2 DEF q
<1>3. over \in GateRecords
  <2> HIDE DEF later
  <2> QED
    BY <1>1 DEF GateRecords
<1>4. \/ Delayed(s, c, a) = s \/ Delayed(s, c, a) = [zero EXCEPT !.old = a]
      \/ Delayed(s, c, a) = later \/ Delayed(s, c, a) = [over EXCEPT !.state = s.old]
  BY DEF Delayed, GateRecords
<1>5. \/ Held(s, c, a) = s \/ Held(s, c, a) = [zero EXCEPT !.state = TRUE]
      \/ Held(s, c, a) = later \/ Held(s, c, a) = [over EXCEPT !.state = FALSE]
  BY DEF Held, GateRecords
<1> HIDE DEF later, zero, over
<1>6. [zero EXCEPT !.old = a] \in GateRecords /\ [over EXCEPT !.state = s.old] \in GateRecords
  BY <1>1, <1>2, <1>3, GateState1
<1>7. [zero EXCEPT !.state = TRUE] \in GateRecords /\ [over EXCEPT !.state = FALSE] \in GateRecords
  BY <1>2, <1>3, GateState1
<1> QED
  BY <1>1, <1>4, <1>5, <1>6, <1>7

LEMMA NextGateType ==
  ASSUME setup \in Setups, dt \in Nat, NEW w \in Worlds, NEW g \in GateNames,
         NEW a \in BOOLEAN, NEW b \in BOOLEAN
  PROVE  /\ NextGate(w, g, a, b) \in GateRecords
         /\ setup.gate[g].type = "flipflop" => NextGate(w, g, a, b) = Turned(w.gate[g], a)
<1> DEFINE s == w.gate[g]
           c == setup.gate[g]
           n == NextGate(w, g, a, b)
<1>1. s \in GateRecords /\ c \in GateSettings
  BY SetupType DEF Worlds
<1>2. c.type \in {"and", "delay", "not", "or", "xor", "flipflop", "callback", "hold", "has",
                  "stayon", "clear", "attribute"}
  BY <1>1 DEF GateSettings
<1>3. (a /\ b) \in BOOLEAN /\ (a \/ b) \in BOOLEAN /\ (a # b) \in BOOLEAN /\ (~a) \in BOOLEAN
      /\ CallBackState(w, c.in1) \in BOOLEAN /\ (s.state \/ a) \in BOOLEAN
      /\ (s.state # (a /\ ~s.old)) \in BOOLEAN
      /\ (w.attribute[c.in1].has /\ w.attribute[c.in1].value > c.amount) \in BOOLEAN
  BY DEF CallBackState
<1>4. /\ c.type = "and" => n = [s EXCEPT !.state = a /\ b]
      /\ c.type = "or" => n = [s EXCEPT !.state = a \/ b]
      /\ c.type = "xor" => n = [s EXCEPT !.state = a # b]
      /\ c.type = "not" => n = [s EXCEPT !.state = ~a]
      /\ c.type = "has" => n = [s EXCEPT !.state = a]
      /\ c.type = "callback" => n = [s EXCEPT !.state = CallBackState(w, c.in1)]
      /\ c.type = "stayon" => n = [s EXCEPT !.state = s.state \/ a]
      /\ c.type = "flipflop" => n = Turned(s, a)
      /\ c.type = "delay" => n = Delayed(s, c, a)
      /\ c.type = "hold" => n = Held(s, c, a)
      /\ c.type = "clear" => n = [s EXCEPT !.old = a]
      /\ c.type = "attribute" =>
           n = [s EXCEPT !.state = /\ w.attribute[c.in1].has
                                   /\ w.attribute[c.in1].value > c.amount]
  BY DEF NextGate
<1>5. Turned(s, a) \in GateRecords
  <2> DEFINE x == s.state # (a /\ ~s.old)
             q == [s EXCEPT !.state = x]
  <2>1. Turned(s, a) = [q EXCEPT !.old = a]
    BY DEF Turned
  <2> HIDE DEF x
  <2>2. q \in GateRecords
    BY <1>1, <1>3, GateState1 DEF x
  <2> HIDE DEF q
  <2> QED
    BY <2>1, <2>2, GateState1
<1>6. Delayed(s, c, a) \in GateRecords /\ Held(s, c, a) \in GateRecords
  BY <1>1, DelayTypes
<1> HIDE DEF s, c, n
<1>7. n \in GateRecords
  BY <1>1, <1>2, <1>3, <1>4, <1>5, <1>6, GateState1
<1> QED
  BY <1>4, <1>7 DEF n, s, c

\* Nothing but gates and inputs changes.
GatesOnly(w, v) ==
  /\ v.trigger = w.trigger /\ v.model = w.model /\ v.timer = w.timer /\ v.pickup = w.pickup
  /\ v.modifier = w.modifier /\ v.change = w.change /\ v.attribute = w.attribute
  /\ v.handle = w.handle /\ v.Item = w.Item

\* A gate that turns over whenever t fires.
FollowsBy(g, t) == setup.gate[g].type = "flipflop" /\ setup.gate[g].in1 = t

LEMMA GateTicks ==
  ASSUME setup \in Setups, dt \in Nat, NEW w \in Worlds, NEW x \in Worlds, NEW g \in GateNames
  PROVE  LET v == TickGate(w, g, StatesOf(x))
         IN  /\ v \in Worlds /\ GatesOnly(w, v)
             /\ \A e \in GateNames \ {g} : v.gate[e] = w.gate[e]
             /\ \A t \in TriggerNames : FollowsBy(g, t) =>
                  v.gate[g] = Turned(w.gate[g], w.trigger[t].state)
<1> DEFINE a == GateState(w, StatesOf(x), setup.gate[g].in1)
           b == GateState(w, StatesOf(x), setup.gate[g].in2)
           n == NextGate(w, g, a, b)
           o == w.on \ Cleared(w, g, a)
           v == TickGate(w, g, StatesOf(x))
<1>1. a \in BOOLEAN /\ b \in BOOLEAN
  BY GateStateType
<1>2. v = [w EXCEPT !.gate[g] = n, !.on = o]
  BY DEF TickGate
<1>3. \A t \in TriggerNames : FollowsBy(g, t) => a = w.trigger[t].state
  BY Kinds DEF FollowsBy, GateState, TriggerState
<1> HIDE DEF a, b
<1>4. n \in GateRecords /\ (setup.gate[g].type = "flipflop" => n = Turned(w.gate[g], a))
  BY <1>1, NextGateType
<1>5. o \in SUBSET Inputs
  BY DEF Worlds
<1> HIDE DEF n, o, v
<1>6. /\ v \in Worlds /\ GatesOnly(w, v) /\ v.gate = [w.gate EXCEPT ![g] = n]
  BY <1>2, <1>4, <1>5 DEF GatesOnly, Worlds
<1>7. v.gate[g] = n /\ \A e \in GateNames \ {g} : v.gate[e] = w.gate[e]
  BY <1>6 DEF Worlds
<1>8. ASSUME NEW t \in TriggerNames, FollowsBy(g, t)
      PROVE  v.gate[g] = Turned(w.gate[g], w.trigger[t].state)
  BY <1>3, <1>4, <1>7, <1>8 DEF FollowsBy
<1> QED
  BY <1>6, <1>7, <1>8 DEF v

\* Each gate ticks once.
LEMMA GatesRound ==
  ASSUME setup \in Setups, dt \in Nat, NEW w \in Worlds
  PROVE  LET v == TickAll(w, Gates)
         IN  /\ v \in Worlds /\ GatesOnly(w, v)
             /\ \A g \in GateNames, t \in TriggerNames : FollowsBy(g, t) =>
                  v.gate[g] = Turned(w.gate[g], w.trigger[t].state)
<1> DEFINE N == Len(Gates)
           Done(n) == {Gates[i] : i \in 1 .. n}
           P == [n \in 0 .. N |->
                   {u \in Worlds :
                      /\ GatesOnly(w, u)
                      /\ \A g \in GateNames \ Done(n) : u.gate[g] = w.gate[g]
                      /\ \A g \in Done(n), t \in TriggerNames : FollowsBy(g, t) =>
                           u.gate[g] = Turned(w.gate[g], w.trigger[t].state)}]
<1>1. /\ N \in Nat
      /\ \A n \in 1 .. N : Gates[n] \in GateNames
      /\ \A i, j \in 1 .. N : Gates[i] = Gates[j] => i = j
  BY OrderAssumption, OrderFacts
<1>2. Done(0) = {} /\ w \in P[0]
  BY <1>1 DEF GatesOnly
<1> HIDE DEF Done
<1>3. ASSUME NEW n \in 1 .. N, NEW u \in P[n - 1]
      PROVE  Tick(u, Gates[n], StatesOf(w)) \in P[n]
  <2> DEFINE g == Gates[n]
             v == TickGate(u, g, StatesOf(w))
  <2>1. /\ g \in GateNames /\ Tick(u, g, StatesOf(w)) = v
        /\ Done(n) = Done(n - 1) \cup {g} /\ g \notin Done(n - 1) /\ n - 1 \in 0 .. N
        /\ Done(n - 1) \subseteq GateNames
    <3>1. g \in GateNames /\ n - 1 \in 0 .. N
      BY <1>1
    <3>2. g \notin Done(n - 1) /\ Done(n - 1) \subseteq GateNames
      BY <1>1 DEF Done
    <3>3. Done(n) = Done(n - 1) \cup {g}
      <4>1. 1 .. n = (1 .. n - 1) \cup {n}
        BY <1>1
      <4> QED
        BY <4>1 DEF Done
    <3> QED
      BY <3>1, <3>2, <3>3, TickIs
  <2>2. /\ u \in Worlds /\ GatesOnly(w, u)
        /\ \A e \in GateNames \ Done(n - 1) : u.gate[e] = w.gate[e]
        /\ \A e \in Done(n - 1), t \in TriggerNames : FollowsBy(e, t) =>
             u.gate[e] = Turned(w.gate[e], w.trigger[t].state)
    BY <2>1
  <2>3. /\ v \in Worlds /\ GatesOnly(u, v)
        /\ \A e \in GateNames \ {g} : v.gate[e] = u.gate[e]
        /\ \A t \in TriggerNames : FollowsBy(g, t) =>
             v.gate[g] = Turned(u.gate[g], u.trigger[t].state)
    BY <2>1, <2>2, GateTicks
  <2> HIDE DEF v, g
  <2>4. GatesOnly(w, v) /\ u.trigger = w.trigger /\ u.gate[g] = w.gate[g]
    BY <2>1, <2>2, <2>3 DEF GatesOnly
  <2>5. \A e \in GateNames \ Done(n) : v.gate[e] = w.gate[e]
    BY <2>1, <2>2, <2>3
  <2>6. ASSUME NEW e \in Done(n), NEW t \in TriggerNames, FollowsBy(e, t)
        PROVE  v.gate[e] = Turned(w.gate[e], w.trigger[t].state)
    <3>1. CASE e = g
      BY <2>3, <2>4, <2>6, <3>1
    <3>2. CASE e # g
      BY <2>1, <2>2, <2>3, <2>6, <3>2
    <3> QED
      BY <3>1, <3>2
  <2>7. n \in 0 .. N
    BY <1>1
  <2>8. v \in P[n]
    BY <2>3, <2>4, <2>5, <2>6, <2>7
  <2> QED
    BY <2>1, <2>8 DEF g
<1> HIDE DEF P
<1>4. TickAll(w, Gates) \in P[N]
  BY <1>1, <1>2, <1>3, RoundKeeps
<1>5. Done(N) = GateNames
  BY <1>1, OrderAssumption DEF GateNames, IsOrder, Done
<1>6. N \in 0 .. N
  BY <1>1
<1> QED
  BY <1>4, <1>5, <1>6 DEF P

------------------------------------------------------------------------------
(* Pickups and what modifies attributes *)

LEMMA PickupType ==
  ASSUME NEW s \in PickupRecords, NEW c \in PickupSettings, NEW wanted \in BOOLEAN,
         dt \in Nat
  PROVE  TickPickup(s, c, wanted, dt) \in PickupRecords /\ Taken(s) \in PickupRecords
<1> DEFINE n == IF s.callBack = 0 THEN 0 ELSE s.callBack - 1
           told == [s EXCEPT !.callBack = n]
           r == Revives(s, c, dt)
           later == [told EXCEPT !.tick = s.tick + dt]
<1>1. n \in Nat /\ s.tick + dt \in Int
  BY DEF PickupRecords
<1>2. r \in BOOLEAN
  BY DEF Revives
<1> HIDE DEF n, r
<1>3. told \in PickupRecords /\ told.tick = s.tick
  BY <1>1 DEF PickupRecords
<1>4. \/ TickPickup(s, c, wanted, dt) = [told EXCEPT !.active = wanted]
      \/ TickPickup(s, c, wanted, dt) = [later EXCEPT !.alive = r]
      \/ TickPickup(s, c, wanted, dt) = told
  BY <1>3 DEF TickPickup, n, r
<1> HIDE DEF told
<1>5. later \in PickupRecords
  BY <1>1, <1>3 DEF PickupRecords
<1> HIDE DEF later
<1>6. [told EXCEPT !.active = wanted] \in PickupRecords
  BY <1>3 DEF PickupRecords
<1>7. [later EXCEPT !.alive = r] \in PickupRecords
  BY <1>2, <1>5 DEF PickupRecords
<1>8. Taken(s) \in PickupRecords
  BY DEF Taken, PickupRecords
<1> QED
  BY <1>3, <1>4, <1>6, <1>7, <1>8

LEMMA SetType ==
  ASSUME NEW a \in AttributeRecords, NEW n \in Int
  PROVE  Set(a, n) \in AttributeRecords /\ Modify(a, n) \in AttributeRecords
<1>1. ASSUME NEW m \in Int PROVE Set(a, m) \in AttributeRecords
  <2> DEFINE b == [a EXCEPT !.value = m]
  <2>1. b \in AttributeRecords
    BY DEF AttributeRecords
  <2>2. Set(a, m) = IF a.has THEN ClampValue(b) ELSE a
    BY DEF Set
  <2> HIDE DEF b
  <2>3. ClampValue(b) \in AttributeRecords
    BY <2>1 DEF ClampValue, AttributeRecords
  <2> QED
    BY <2>2, <2>3
<1>2. a.value + n \in Int
  BY DEF AttributeRecords
<1> QED
  BY <1>1, <1>2 DEF Modify

LEMMA GivenType ==
  ASSUME NEW a \in AttributeRecords, NEW g \in Gifts
  PROVE  Given(a, g) \in AttributeRecords
<1> DEFINE b == SetHighLimit(a, a.high + g.amount)
           r == IF g.powerUp THEN b ELSE a
<1>1. g.amount \in Int /\ a.high + g.amount \in Int
  BY DEF Gifts, AttributeRecords
<1>2. b \in AttributeRecords
  BY <1>1 DEF SetHighLimit, AttributeRecords
<1>3. Given(a, g) \in {Set(r, r.high), r, Modify(a, g.amount)}
  BY DEF Given
<1> HIDE DEF b
<1>4. r \in AttributeRecords
  BY <1>2
<1> HIDE DEF r
<1>5. r.high \in Int
  BY <1>4 DEF AttributeRecords
<1> QED
  BY <1>1, <1>3, <1>4, <1>5, SetType

\* Nothing but pickups and sounds changes.
PickupsOnly(w, v) ==
  /\ v.trigger = w.trigger /\ v.model = w.model /\ v.gate = w.gate /\ v.timer = w.timer
  /\ v.modifier = w.modifier /\ v.change = w.change /\ v.attribute = w.attribute
  /\ v.on = w.on

\* Sounds stay owned and are those of who was heard before.
HeardStill(w, v) == \A T : Heard(w, T) => Heard(v, T)

LEMMA SameHeard ==
  ASSUME NEW w, NEW v, v.handle = w.handle, v.Item = w.Item, v.trigger = w.trigger,
         v.timer = w.timer, v.model = w.model
  PROVE  HeardStill(w, v)
  BY DEF HeardStill, Heard, Sings

\* A pickup plays its sound once, and keeps no handle.
LEMMA PickupPlays ==
  ASSUME setup \in Setups, NEW w \in Worlds, NEW p \in PickupNames
  PROVE  LET v == PlaySound(w, p)
         IN  v \in Worlds /\ PickupsOnly(w, v) /\ v.pickup = w.pickup /\ HeardStill(w, v)
<1> DEFINE v == PlaySound(w, p)
<1>1. p \in Owners /\ p \notin TimerNames /\ p \notin TriggerNames
  BY Kinds
<1>2. setup.sound[p] # "loop"
  BY SetupType DEF Sounds
<1>3. OnlySound(w, v) /\ Played(w.handle, w.Item, v.handle, v.Item, p, FALSE)
  BY <1>1, <1>2, PlaySoundMakes
<1> HIDE DEF v
<1>4. v \in Worlds /\ PickupsOnly(w, v) /\ v.pickup = w.pickup
  BY <1>3, OnlySoundFields DEF PickupsOnly
<1>5. ASSUME NEW T, Heard(w, T) PROVE Heard(v, T)
  <2>1. w.handle \in Handles /\ w.Item \in Pools
    BY DEF Worlds, Handles
  <2>2. w.handle[p] = -1
    BY <1>1, <1>5 DEF Heard, Sings
  <2>3. Tuned(v.handle, v.Item)
    BY <1>1, <1>3, <1>5, <2>1, <2>2, PlayedTuned DEF Heard
  <2>4. v.handle = [w.handle EXCEPT ![p] = -1]
    BY <1>3 DEF Played
  <2>5. v.handle = w.handle
    BY <2>1, <2>2, <2>4 DEF Handles
  <2> QED
    BY <1>4, <1>5, <2>3, <2>5 DEF Heard, Sings, PickupsOnly
<1> QED
  BY <1>4, <1>5 DEF v, HeardStill

LEMMA PickupTicks ==
  ASSUME setup \in Setups, dt \in Nat, NEW w \in Worlds, NEW p \in PickupNames
  PROVE  LET v == TickPickupOf(w, p)
         IN  v \in Worlds /\ PickupsOnly(w, v) /\ HeardStill(w, v)
<1> DEFINE c == setup.pickup[p]
           wanted == c.by = None \/ TriggerState(w, c.by)
           r == TickPickup(w.pickup[p], c, wanted, dt)
           u == [w EXCEPT !.pickup[p] = r]
           v == TickPickupOf(w, p)
<1>1. v = IF Revives(w.pickup[p], c, dt) THEN PlaySound(u, p) ELSE u
  BY DEF TickPickupOf
<1>2. wanted \in BOOLEAN
  OBVIOUS
<1>3. w.pickup[p] \in PickupRecords /\ c \in PickupSettings
  BY SetupType DEF Worlds
<1> HIDE DEF wanted, c
<1>4. r \in PickupRecords
  BY <1>2, <1>3, PickupType
<1> HIDE DEF r
<1>5. u \in Worlds /\ PickupsOnly(w, u) /\ u.handle = w.handle /\ u.Item = w.Item
  BY <1>4 DEF Worlds, PickupsOnly
<1> HIDE DEF u
<1>6. HeardStill(w, u)
  BY <1>5, SameHeard DEF PickupsOnly
<1> DEFINE x == PlaySound(u, p)
<1>7. x \in Worlds /\ PickupsOnly(u, x) /\ HeardStill(u, x)
  BY <1>5, PickupPlays
<1> HIDE DEF x
<1>8. PickupsOnly(w, x) /\ HeardStill(w, x)
  BY <1>5, <1>6, <1>7 DEF PickupsOnly, HeardStill
<1>9. v = x \/ v = u
  BY <1>1 DEF x
<1> QED
  BY <1>5, <1>6, <1>7, <1>8, <1>9

LEMMA PickupsRound ==
  ASSUME setup \in Setups, dt \in Nat, NEW w \in Worlds
  PROVE  LET v == TickAll(w, Pickups)
         IN  v \in Worlds /\ PickupsOnly(w, v) /\ HeardStill(w, v)
<1> DEFINE N == Len(Pickups)
           S == {u \in Worlds : PickupsOnly(w, u) /\ HeardStill(w, u)}
           P == [n \in 0 .. N |-> S]
<1>1. N \in Nat /\ \A n \in 1 .. N : Pickups[n] \in PickupNames
  BY OrderAssumption, OrderFacts
<1>2. w \in S
  BY DEF PickupsOnly, HeardStill
<1>3. ASSUME NEW n \in 1 .. N, NEW u \in S PROVE Tick(u, Pickups[n], StatesOf(w)) \in S
  <2> DEFINE v == TickPickupOf(u, Pickups[n])
  <2>1. Tick(u, Pickups[n], StatesOf(w)) = v
    BY <1>1, TickIs
  <2>2. v \in Worlds /\ PickupsOnly(u, v) /\ HeardStill(u, v)
    BY <1>1, PickupTicks
  <2> HIDE DEF v
  <2>3. PickupsOnly(w, v) /\ HeardStill(w, v)
    BY <2>2 DEF PickupsOnly, HeardStill
  <2> QED
    BY <2>1, <2>2, <2>3
<1> HIDE DEF S
<1>4. P[0] = S /\ P[N] = S /\ \A n \in 1 .. N : P[n - 1] = S /\ P[n] = S
  BY <1>1
<1> HIDE DEF P
<1>5. TickAll(w, Pickups) \in P[N]
  BY <1>1, <1>2, <1>3, <1>4, RoundKeeps
<1> QED
  BY <1>4, <1>5 DEF S

\* Nothing but attributes changes.
AttributesOnly(w, v) ==
  /\ v.trigger = w.trigger /\ v.model = w.model /\ v.gate = w.gate /\ v.timer = w.timer
  /\ v.pickup = w.pickup /\ v.handle = w.handle /\ v.Item = w.Item /\ v.on = w.on

LEMMA ModifierTicks ==
  ASSUME setup \in Setups, NEW w \in Worlds, NEW m \in ModifierNames
  PROVE  LET v == TickModifier(w, m)
         IN  v \in Worlds /\ AttributesOnly(w, v) /\ v.change = w.change
<1> DEFINE c == setup.modifier[m]
           a == Given(w.attribute[c.name], c.gift)
           v == TickModifier(w, m)
<1>1. \/ v = w \/ v = [w EXCEPT !.modifier[m] = FALSE]
      \/ v = [w EXCEPT !.modifier[m] = TRUE, !.attribute[c.name] = a]
  BY DEF TickModifier
<1>2. c.name \in AttributeNames /\ c.gift \in Gifts
  BY SetupType DEF ModifierSettings
<1> HIDE DEF c
<1>3. w.attribute[c.name] \in AttributeRecords
  BY <1>2 DEF Worlds
<1>4. a \in AttributeRecords
  BY <1>2, <1>3, GivenType
<1> HIDE DEF a, v
<1>5. ASSUME v = w PROVE v \in Worlds /\ AttributesOnly(w, v) /\ v.change = w.change
  BY <1>5 DEF AttributesOnly
<1>6. ASSUME v = [w EXCEPT !.modifier[m] = FALSE]
      PROVE v \in Worlds /\ AttributesOnly(w, v) /\ v.change = w.change
  BY <1>6 DEF AttributesOnly, Worlds
<1>7. ASSUME v = [w EXCEPT !.modifier[m] = TRUE, !.attribute[c.name] = a]
      PROVE v \in Worlds /\ AttributesOnly(w, v) /\ v.change = w.change
  BY <1>2, <1>4, <1>7 DEF AttributesOnly, Worlds
<1> QED
  BY <1>1, <1>5, <1>6, <1>7 DEF v

LEMMA ModifiersRound ==
  ASSUME setup \in Setups, NEW w \in Worlds
  PROVE  LET v == TickAll(w, Modifiers)
         IN  v \in Worlds /\ AttributesOnly(w, v) /\ v.change = w.change
<1> DEFINE N == Len(Modifiers)
           S == {u \in Worlds : AttributesOnly(w, u) /\ u.change = w.change}
           P == [n \in 0 .. N |-> S]
<1>1. N \in Nat /\ \A n \in 1 .. N : Modifiers[n] \in ModifierNames
  BY OrderAssumption, OrderFacts
<1>2. w \in S
  BY DEF AttributesOnly
<1>3. ASSUME NEW n \in 1 .. N, NEW u \in S PROVE Tick(u, Modifiers[n], StatesOf(w)) \in S
  <2> DEFINE v == TickModifier(u, Modifiers[n])
  <2>1. Tick(u, Modifiers[n], StatesOf(w)) = v
    BY <1>1, TickIs
  <2>2. v \in Worlds /\ AttributesOnly(u, v) /\ v.change = u.change
    BY <1>1, ModifierTicks
  <2> HIDE DEF v
  <2>3. AttributesOnly(w, v) /\ v.change = w.change
    BY <2>2 DEF AttributesOnly
  <2> QED
    BY <2>1, <2>2, <2>3
<1> HIDE DEF S
<1>4. P[0] = S /\ P[N] = S /\ \A n \in 1 .. N : P[n - 1] = S /\ P[n] = S
  BY <1>1
<1> HIDE DEF P
<1>5. TickAll(w, Modifiers) \in P[N]
  BY <1>1, <1>2, <1>3, <1>4, RoundKeeps
<1> QED
  BY <1>4, <1>5 DEF S

------------------------------------------------------------------------------
(* Countdowns *)

\* Nothing but countdowns and sounds changes.
TimersOnly(w, v) ==
  /\ v.trigger = w.trigger /\ v.model = w.model /\ v.gate = w.gate /\ v.pickup = w.pickup
  /\ v.modifier = w.modifier /\ v.change = w.change /\ v.attribute = w.attribute
  /\ v.on = w.on

\* What a tick makes of a countdown s for an amount: stopped, counted, left or started.
Counted(s, x, amount) ==
  \/ ~x.active /\ ~x.state
  \/ /\ s.active /\ x.time = s.time - dt
     /\ IF x.time > 0 THEN x.active /\ x.state = s.state ELSE ~x.active /\ x.state
  \/ ~s.active /\ ~x.active /\ x.state = s.state
  \/ ~s.active /\ x.active /\ ~x.state /\ x.time = amount

\* The sounds of a countdown whose record becomes r.
CountSounds(w, v, c, r) ==
  \/ /\ v.handle = w.handle /\ v.Item = w.Item
     /\ w.timer[c].active => r.active
  \/ Silenced(w.handle, w.Item, v.handle, v.Item, c)
  \/ /\ ~w.timer[c].active /\ r.active
     /\ \E loop \in BOOLEAN : Played(w.handle, w.Item, v.handle, v.Item, c, loop)

LEMMA TickTimerMakes ==
  ASSUME setup \in Setups, dt \in Nat, NEW w \in Worlds, NEW c \in TimerNames
  PROVE  LET v == TickTimer(w, c)
         IN  \E r \in TimerRecords :
               /\ OnlySound([w EXCEPT !.timer[c] = r], v)
               /\ Counted(w.timer[c], r, setup.timer[c].amount)
               /\ CountSounds(w, v, c, r)
<1> DEFINE s == w.timer[c]
           k == setup.timer[c]
           u(r) == [w EXCEPT !.timer[c] = r]
           Good(v) == \E r \in TimerRecords : /\ OnlySound(u(r), v) /\ Counted(s, r, k.amount)
                                              /\ CountSounds(w, v, c, r)
<1>1. s \in TimerRecords /\ k \in TimerSettings /\ c \in Owners
  BY SetupType, Kinds DEF Worlds
<1>2. k.amount \in Nat /\ s.time - dt \in Int
  BY <1>1 DEF TimerSettings, TimerRecords
<1>3. ASSUME NEW r \in TimerRecords
      PROVE  u(r) \in Worlds /\ u(r).handle = w.handle /\ u(r).Item = w.Item
             /\ u(r).timer[c] = r /\ OnlySound(u(r), u(r))
  BY DEF Worlds, OnlySound
<1>4. ASSUME NEW r \in TimerRecords, Counted(s, r, k.amount)
      PROVE  /\ Good(Silence(u(r), c))
             /\ (s.active => r.active) => Good(u(r))
             /\ ~s.active /\ r.active => Good(PlaySound(u(r), c))
  <2> DEFINE y == u(r)
             p == PlaySound(y, c)
             q == Silence(y, c)
  <2>1. y \in Worlds /\ y.handle = w.handle /\ y.Item = w.Item /\ OnlySound(y, y)
    BY <1>3
  <2>2. OnlySound(y, q) /\ Silenced(w.handle, w.Item, q.handle, q.Item, c)
    <3> HIDE DEF y
    <3> QED
      BY <1>1, <2>1, SilenceMakes
  <2>3. OnlySound(y, p) /\ \E loop \in BOOLEAN : Played(w.handle, w.Item, p.handle, p.Item, c, loop)
    <3> HIDE DEF y
    <3> QED
      BY <1>1, <2>1, PlaySoundMakes
  <2> HIDE DEF p, q
  <2>4. Good(q)
    BY <1>4, <2>2 DEF CountSounds
  <2>5. (s.active => r.active) => Good(y)
    BY <1>4, <2>1 DEF CountSounds
  <2>6. ~s.active /\ r.active => Good(p)
    BY <1>4, <2>3 DEF CountSounds
  <2> QED
    BY <2>4, <2>5, <2>6 DEF p, q
<1>5. CASE k.stop # None /\ TriggerState(w, k.stop)
  <2> DEFINE a == [s EXCEPT !.active = FALSE]
             r == [a EXCEPT !.state = FALSE]
  <2>1. a \in TimerRecords /\ ~a.active
    BY <1>1 DEF TimerRecords
  <2>2. [w EXCEPT !.timer[c].active = FALSE, !.timer[c].state = FALSE] = u(r)
    BY DEF Worlds
  <2> HIDE DEF a
  <2>3. r \in TimerRecords /\ ~r.active /\ ~r.state
    BY <2>1 DEF TimerRecords
  <2>4. TickTimer(w, c) = Silence(u(r), c)
    BY <1>5, <2>2 DEF TickTimer, StopTimer
  <2> HIDE DEF r
  <2>5. Counted(s, r, k.amount)
    BY <2>3 DEF Counted
  <2> QED
    BY <1>4, <2>3, <2>4, <2>5
<1>6. CASE ~(k.stop # None /\ TriggerState(w, k.stop)) /\ s.active
  <2> DEFINE n == s.time - dt
             r == [s EXCEPT !.time = n]
             a == [r EXCEPT !.active = FALSE]
             b == [a EXCEPT !.state = TRUE]
  <2>1. r \in TimerRecords /\ r.time = n /\ r.active /\ r.state = s.state
    BY <1>1, <1>2, <1>6 DEF TimerRecords
  <2>2. TickTimer(w, c) = Count(w, c)
    BY <1>6 DEF TickTimer
  <2>3. [w EXCEPT !.timer[c].time = w.timer[c].time - dt] = u(r)
    BY DEF Worlds
  <2>4. u(r).timer[c].time = n
    BY <1>3, <2>1
  <2>5. [u(r) EXCEPT !.timer[c].active = FALSE, !.timer[c].state = TRUE] = u(b)
    BY DEF Worlds
  <2>6. Count(w, c) = IF n > 0 THEN u(r) ELSE Silence(u(b), c)
    BY <2>3, <2>4, <2>5 DEF Count
  <2> HIDE DEF r
  <2>7. a \in TimerRecords /\ ~a.active /\ a.time = n
    BY <2>1 DEF TimerRecords
  <2> HIDE DEF a
  <2>8. b \in TimerRecords /\ ~b.active /\ b.time = n /\ b.state
    BY <2>7 DEF TimerRecords
  <2> HIDE DEF b, n
  <2>9. CASE n > 0
    <3>1. Counted(s, r, k.amount)
      BY <1>6, <2>1, <2>9 DEF Counted, n
    <3> QED
      BY <1>4, <1>6, <2>1, <2>2, <2>6, <2>9, <3>1
  <2>10. CASE ~(n > 0)
    <3>1. Counted(s, b, k.amount)
      BY <1>6, <2>8, <2>10 DEF Counted, n
    <3> QED
      BY <1>4, <2>2, <2>6, <2>8, <2>10, <3>1
  <2> QED
    BY <2>9, <2>10
<1>7. CASE ~(k.stop # None /\ TriggerState(w, k.stop)) /\ ~s.active
  <2>1. TickTimer(w, c) = StartTimer(w, c)
    BY <1>7 DEF TickTimer
  <2>2. CASE k.by = None
    <3>1. StartTimer(w, c) = w /\ u(s) = w
      BY <2>2 DEF StartTimer, Worlds
    <3>2. Counted(s, s, k.amount)
      BY <1>7 DEF Counted
    <3>3. Good(u(s))
      BY <1>1, <1>4, <3>2
    <3> QED
      BY <2>1, <3>1, <3>3
  <2>3. CASE k.by # None
    <3> DEFINE o == TriggerState(w, k.by)
               a == [s EXCEPT !.old = o]
               b == [a EXCEPT !.time = k.amount]
               d == [b EXCEPT !.active = TRUE]
               e == [d EXCEPT !.state = FALSE]
    <3>1. o \in BOOLEAN
      BY TriggerStateType
    <3>2. [w EXCEPT !.timer[c].old = TriggerState(w, k.by)] = u(a)
      BY DEF Worlds
    <3>3. [u(a) EXCEPT !.timer[c].time = k.amount, !.timer[c].active = TRUE,
                       !.timer[c].state = FALSE] = u(e)
      <4> HIDE DEF a
      <4> DEFINE y == u(a)
      <4>1. y.timer = [w.timer EXCEPT ![c] = a] /\ y.timer[c] = a
        BY DEF Worlds
      <4>2. [y EXCEPT !.timer[c].time = k.amount, !.timer[c].active = TRUE,
                      !.timer[c].state = FALSE] = [y EXCEPT !.timer[c] = e]
        <5> HIDE DEF y
        <5> QED
          BY <4>1 DEF Worlds
      <4>3. [y EXCEPT !.timer[c] = e] = u(e)
        <5> HIDE DEF e
        <5> QED
          BY DEF Worlds
      <4> QED
        BY <4>2, <4>3
    <3>4. StartTimer(w, c) = IF ~(o /\ ~s.old) THEN u(a) ELSE PlaySound(u(e), c)
      BY <2>3, <3>2, <3>3 DEF StartTimer
    <3> HIDE DEF o
    <3>5. a \in TimerRecords /\ a.active = s.active /\ a.state = s.state
      BY <1>1, <3>1 DEF TimerRecords
    <3> HIDE DEF a
    <3>6. b \in TimerRecords /\ b.time = k.amount
      BY <1>2, <3>5 DEF TimerRecords
    <3> HIDE DEF b
    <3>7. d \in TimerRecords /\ d.time = k.amount /\ d.active
      BY <3>6 DEF TimerRecords
    <3> HIDE DEF d
    <3>8. e \in TimerRecords /\ e.time = k.amount /\ e.active /\ ~e.state
      BY <3>7 DEF TimerRecords
    <3> HIDE DEF e
    <3>9. Counted(s, a, k.amount) /\ Counted(s, e, k.amount)
      BY <1>7, <3>5, <3>8 DEF Counted
    <3>10. Good(u(a)) /\ Good(PlaySound(u(e), c))
      BY <1>4, <1>7, <3>5, <3>8, <3>9
    <3> QED
      BY <2>1, <3>4, <3>10
  <2> QED
    BY <2>2, <2>3
<1> QED
  BY <1>5, <1>6, <1>7

LEMMA TimerTicks ==
  ASSUME setup \in Setups, dt \in Nat, NEW w \in Worlds, NEW c \in TimerNames
  PROVE  LET v == TickTimer(w, c)
         IN  /\ v \in Worlds /\ TimersOnly(w, v)
             /\ \A e \in TimerNames \ {c} : v.timer[e] = w.timer[e]
             /\ Counted(w.timer[c], v.timer[c], setup.timer[c].amount)
             /\ HeardStill(w, v)
<1> DEFINE v == TickTimer(w, c)
<1>1. PICK r \in TimerRecords :
        /\ OnlySound([w EXCEPT !.timer[c] = r], v)
        /\ Counted(w.timer[c], r, setup.timer[c].amount)
        /\ CountSounds(w, v, c, r)
  BY TickTimerMakes
<1> HIDE DEF v
<1> DEFINE u == [w EXCEPT !.timer[c] = r]
<1>2. /\ u \in Worlds /\ TimersOnly(w, u) /\ u.timer[c] = r
      /\ \A e \in TimerNames \ {c} : u.timer[e] = w.timer[e]
  BY DEF Worlds, TimersOnly
<1>3. OnlySound(u, v)
  BY <1>1
<1> HIDE DEF u
<1>4. v \in Worlds /\ TimersOnly(u, v) /\ v.timer = u.timer
  BY <1>2, <1>3, OnlySoundFields DEF TimersOnly
<1>5. TimersOnly(w, v)
  BY <1>2, <1>4 DEF TimersOnly
<1>6. ASSUME NEW T, Heard(w, T) PROVE Heard(v, T)
  <2>1. w.handle \in Handles /\ w.Item \in Pools /\ c \in Owners
    BY Kinds DEF Worlds, Handles
  <2>2. ~w.timer[c].active => w.handle[c] = -1
    BY <1>6, <2>1 DEF Heard, Sings
  <2>3. Tuned(v.handle, v.Item)
    BY <1>1, <1>6, <2>1, <2>2, SilencedTuned, PlayedTuned DEF CountSounds, Heard
  <2>4. \A o \in Owners \ {c} : v.handle[o] = w.handle[o]
    BY <1>1, <2>1 DEF CountSounds, Silenced, Played, Handles
  <2>5. v.handle[c] # -1 => r.active
    BY <1>1, <2>1, <2>2 DEF CountSounds, Silenced, Handles
  <2>6. ASSUME NEW o \in Owners PROVE Sings(v, T, o)
    <3>1. CASE o = c
      BY <1>2, <1>4, <2>5, <3>1 DEF Sings
    <3>2. CASE o # c
      <4>1. Sings(w, T, o) /\ v.handle[o] = w.handle[o]
        BY <1>6, <2>4, <3>2 DEF Heard
      <4>2. o \in TimerNames => v.timer[o] = w.timer[o]
        BY <1>2, <1>4, <3>2
      <4> QED
        BY <1>5, <4>1, <4>2 DEF Sings, TimersOnly
    <3> QED
      BY <3>1, <3>2
  <2> QED
    BY <2>3, <2>6 DEF Heard
<1> QED
  BY <1>1, <1>2, <1>4, <1>5, <1>6 DEF v, HeardStill

\* Each countdown ticks once.
LEMMA TimersRound ==
  ASSUME setup \in Setups, dt \in Nat, NEW w \in Worlds
  PROVE  LET v == TickAll(w, Timers)
         IN  /\ v \in Worlds /\ TimersOnly(w, v) /\ HeardStill(w, v)
             /\ \A c \in TimerNames : Counted(w.timer[c], v.timer[c], setup.timer[c].amount)
<1> DEFINE N == Len(Timers)
           Done(n) == {Timers[i] : i \in 1 .. n}
           P == [n \in 0 .. N |->
                   {u \in Worlds :
                      /\ TimersOnly(w, u) /\ HeardStill(w, u)
                      /\ \A c \in TimerNames \ Done(n) : u.timer[c] = w.timer[c]
                      /\ \A c \in Done(n) :
                           Counted(w.timer[c], u.timer[c], setup.timer[c].amount)}]
<1>1. /\ N \in Nat
      /\ \A n \in 1 .. N : Timers[n] \in TimerNames
      /\ \A i, j \in 1 .. N : Timers[i] = Timers[j] => i = j
  BY OrderAssumption, OrderFacts
<1>2. Done(0) = {} /\ w \in P[0]
  BY <1>1 DEF TimersOnly, HeardStill
<1> HIDE DEF Done
<1>3. ASSUME NEW n \in 1 .. N, NEW u \in P[n - 1]
      PROVE  Tick(u, Timers[n], StatesOf(w)) \in P[n]
  <2> DEFINE c == Timers[n]
             v == TickTimer(u, c)
  <2>1. /\ c \in TimerNames /\ Tick(u, c, StatesOf(w)) = v
        /\ Done(n) = Done(n - 1) \cup {c} /\ c \notin Done(n - 1) /\ n - 1 \in 0 .. N
        /\ Done(n - 1) \subseteq TimerNames
    <3>1. c \in TimerNames /\ n - 1 \in 0 .. N
      BY <1>1
    <3>2. c \notin Done(n - 1) /\ Done(n - 1) \subseteq TimerNames
      BY <1>1 DEF Done
    <3>3. Done(n) = Done(n - 1) \cup {c}
      <4>1. 1 .. n = (1 .. n - 1) \cup {n}
        BY <1>1
      <4> QED
        BY <4>1 DEF Done
    <3> QED
      BY <3>1, <3>2, <3>3, TickIs
  <2>2. /\ u \in Worlds /\ TimersOnly(w, u) /\ HeardStill(w, u)
        /\ \A e \in TimerNames \ Done(n - 1) : u.timer[e] = w.timer[e]
        /\ \A e \in Done(n - 1) : Counted(w.timer[e], u.timer[e], setup.timer[e].amount)
    BY <2>1
  <2>3. /\ v \in Worlds /\ TimersOnly(u, v) /\ HeardStill(u, v)
        /\ \A e \in TimerNames \ {c} : v.timer[e] = u.timer[e]
        /\ Counted(u.timer[c], v.timer[c], setup.timer[c].amount)
    BY <2>1, <2>2, TimerTicks
  <2> HIDE DEF v, c
  <2>4. TimersOnly(w, v) /\ HeardStill(w, v) /\ u.timer[c] = w.timer[c]
    BY <2>1, <2>2, <2>3 DEF TimersOnly, HeardStill
  <2>5. \A e \in TimerNames \ Done(n) : v.timer[e] = w.timer[e]
    BY <2>1, <2>2, <2>3
  <2>6. ASSUME NEW e \in Done(n)
        PROVE  Counted(w.timer[e], v.timer[e], setup.timer[e].amount)
    <3>1. CASE e = c
      BY <2>3, <2>4, <3>1
    <3>2. CASE e # c
      <4>1. e \in Done(n - 1) /\ v.timer[e] = u.timer[e]
        BY <2>1, <2>3, <3>2
      <4> QED
        BY <2>2, <4>1
    <3> QED
      BY <3>1, <3>2
  <2>7. n \in 0 .. N
    BY <1>1
  <2>8. v \in P[n]
    BY <2>3, <2>4, <2>5, <2>6, <2>7
  <2> QED
    BY <2>1, <2>8 DEF c
<1> HIDE DEF P
<1>4. TickAll(w, Timers) \in P[N]
  BY <1>1, <1>2, <1>3, RoundKeeps
<1>5. Done(N) = TimerNames
  BY <1>1, OrderAssumption DEF TimerNames, IsOrder, Done
<1>6. N \in 0 .. N
  BY <1>1
<1> QED
  BY <1>4, <1>5, <1>6 DEF P

------------------------------------------------------------------------------
(* What changes an attribute over a time *)

LEMMA TruncatedFacts ==
  ASSUME NEW n \in Int, NEW k \in Nat \ {0}
  PROVE  LET t == Truncated(n, k)
         IN  t \in Int /\ n - t * k < k /\ -(n - t * k) < k
<1>1. ASSUME NEW a \in Nat
      PROVE  a \div k \in Int /\ (a \div k) * k <= a /\ a < (a \div k) * k + k
  OBVIOUS
<1>2. CASE n >= 0
  <2> DEFINE q == n \div k
  <2>1. q \in Int /\ q * k <= n /\ n < q * k + k
    BY <1>1, <1>2
  <2>2. Truncated(n, k) = q
    BY <1>2 DEF Truncated
  <2> HIDE DEF q
  <2> QED
    BY <2>1, <2>2
<1>3. CASE n < 0
  <2> DEFINE q == (-n) \div k
  <2>1. q \in Int /\ q * k <= -n /\ -n < q * k + k
    BY <1>1, <1>3
  <2>2. Truncated(n, k) = -q
    BY <1>3 DEF Truncated
  <2> HIDE DEF q
  <2> QED
    BY <2>1, <2>2
<1> QED
  BY <1>2, <1>3

\* How far total is from all that is due less what has been given, and that it is less than a
\* whole.
Due(s, c) ==
  LET owed == s.increment * (c.time - s.count) - s.given * Whole(c)
      off  == MaxError * (c.time - s.count)
  IN  /\ s.total - owed <= off /\ owed - s.total <= off
      /\ s.total < Whole(c) /\ -s.total < Whole(c)
      /\ s.active => s.count >= 0

LEMMA SummedFacts ==
  ASSUME NEW s \in ChangeRecords, NEW d \in Nat
  PROVE  /\ Summed(s, d) \in Int
         /\ Summed(s, d) - (s.total + d * s.increment) <= MaxError * d
         /\ (s.total + d * s.increment) - Summed(s, d) <= MaxError * d
<1> DEFINE exact == s.total + d * s.increment
           error == MaxError * d
           float == Float(s.total, d, s.increment)
<1>1. exact \in Int /\ error \in Nat
  BY FloatAssumption DEF ChangeRecords
<1>2. Summed(s, d) = IF float \in exact - error .. exact + error THEN float ELSE exact
  BY DEF Summed
<1> HIDE DEF exact, error, float
<1>3. /\ Summed(s, d) \in Int
      /\ Summed(s, d) - exact <= error /\ exact - Summed(s, d) <= error
  BY <1>1, <1>2
<1> QED
  BY <1>3 DEF exact, error

LEMMA RunChangeDue ==
  ASSUME NEW s \in ChangeRecords, NEW c \in ChangeSettings, dt \in Nat, Due(s, c)
  PROVE  RunChange(s, c, dt) \in ChangeRecords /\ Due(RunChange(s, c, dt), c)
         /\ Share(s, c, dt) \in Int
<1> DEFINE k == Whole(c)
           sum == Summed(s, dt)
           q == Share(s, c, dt)
           rest == sum - q * k
           r == RunChange(s, c, dt)
           left == s.count - dt
           on1 == Lasts(s, c, dt)
           all == s.given + q
<1>1. /\ k \in Nat \ {0} /\ c.time \in Nat \ {0} /\ s.total \in Int /\ s.increment \in Int
      /\ s.count \in Int /\ s.given \in Int /\ sum \in Int /\ MaxError \in Nat
  <2>1. sum \in Int
    BY SummedFacts
  <2> HIDE DEF sum
  <2> QED
    BY <2>1, FloatAssumption DEF Whole, ChangeSettings, ChangeRecords
<1>2. q = Truncated(sum, k)
  BY DEF Share
<1>3. on1 \in BOOLEAN /\ (on1 => left >= 0)
  BY <1>1 DEF Lasts
<1>4. /\ sum - (s.total + dt * s.increment) <= MaxError * dt
      /\ (s.total + dt * s.increment) - sum <= MaxError * dt
  BY SummedFacts
<1>5. r = [s EXCEPT !.total = rest, !.count = left, !.active = on1, !.given = all]
  BY DEF RunChange
<1> HIDE DEF q, sum, k, on1, r
<1>6. q \in Int /\ sum - q * k < k /\ -(sum - q * k) < k
  BY <1>1, <1>2, TruncatedFacts
<1>7. rest \in Int /\ left \in Int /\ all \in Int
  BY <1>1, <1>6
<1>8. /\ r \in ChangeRecords /\ r.total = rest /\ r.increment = s.increment
      /\ r.count = left /\ r.active = on1 /\ r.given = all
  <2> HIDE DEF rest, left, all
  <2> QED
    BY <1>3, <1>5, <1>7 DEF ChangeRecords
\* What the frame adds to the total, to what is due and to the error.
<1>9. /\ rest - (s.increment * (c.time - left) - all * k) <= MaxError * (c.time - left)
      /\ (s.increment * (c.time - left) - all * k) - rest <= MaxError * (c.time - left)
  <2> DEFINE i == s.increment
             n == s.count
             t == c.time
             g == s.given
             m == s.total
  <2>1. /\ m - (i * (t - n) - g * k) <= MaxError * (t - n)
        /\ (i * (t - n) - g * k) - m <= MaxError * (t - n)
    BY DEF Due, k
  <2>2. /\ i \in Int /\ n \in Int /\ t \in Int /\ g \in Int /\ k \in Int /\ q \in Int
        /\ dt \in Int /\ m \in Int /\ sum \in Int /\ MaxError \in Int
    BY <1>1, <1>6
  <2>3. sum - (m + dt * i) <= MaxError * dt /\ (m + dt * i) - sum <= MaxError * dt
    BY <1>4
  <2>4. rest = sum - q * k /\ left = n - dt /\ all = g + q
    OBVIOUS
  <2> HIDE DEF i, n, t, g, m, rest, left, all
  <2>5. i * (t - left) - all * k = (i * (t - n) - g * k) + dt * i - q * k
    BY <2>2, <2>4
  <2>6. MaxError * (t - left) = MaxError * (t - n) + MaxError * dt
    BY <2>2, <2>4
  <2> DEFINE due == i * (t - n) - g * k
             off == MaxError * (t - n)
             err == MaxError * dt
             add == dt * i
             cut == q * k
  <2>7. due \in Int /\ off \in Int /\ err \in Int /\ add \in Int /\ cut \in Int
    BY <2>2
  <2>8. /\ m - due <= off /\ due - m <= off
        /\ sum - (m + add) <= err /\ (m + add) - sum <= err
        /\ rest = sum - cut /\ i * (t - left) - all * k = due + add - cut
        /\ MaxError * (t - left) = off + err
    BY <2>1, <2>3, <2>4, <2>5, <2>6
  <2> HIDE DEF due, off, err, add, cut
  <2>9. /\ rest - (due + add - cut) <= off + err /\ (due + add - cut) - rest <= off + err
    BY <2>2, <2>7, <2>8
  <2> QED
    BY <2>8, <2>9 DEF i, t
<1>10. rest < k /\ -rest < k
  BY <1>6 DEF rest
<1> HIDE DEF rest, left, all
<1>11. Due(r, c)
  BY <1>3, <1>8, <1>9, <1>10 DEF Due, k
<1> QED
  BY <1>6, <1>8, <1>11 DEF r, q

LEMMA ChangeTicks ==
  ASSUME setup \in Setups, dt \in Nat, NEW w \in Worlds, NEW h \in ChangeNames,
         \A e \in ChangeNames : Due(w.change[e], setup.change[e])
  PROVE  LET v == TickChange(w, h)
         IN  /\ v \in Worlds /\ AttributesOnly(w, v)
             /\ \A e \in ChangeNames : Due(v.change[e], setup.change[e])
<1> DEFINE c == setup.change[h]
           s == w.change[h]
           asked == c.by # None /\ TriggerState(w, c.by)
           heard == IF c.by = None THEN s ELSE [s EXCEPT !.old = asked]
           held == w.attribute[c.name]
           v == TickChange(w, h)
           Good(x) == /\ x \in Worlds /\ AttributesOnly(w, x)
                      /\ \A e \in ChangeNames : Due(x.change[e], setup.change[e])
<1>1. /\ s \in ChangeRecords /\ c \in ChangeSettings /\ Due(s, c)
      /\ c.name \in AttributeNames /\ held \in AttributeRecords
  <2>1. c \in ChangeSettings /\ c.name \in AttributeNames
    BY SetupType DEF ChangeSettings
  <2> QED
    BY <2>1 DEF Worlds
<1>2. asked \in BOOLEAN
  OBVIOUS
<1>3. \/ v = [w EXCEPT !.change[h].active = FALSE]
      \/ v = [w EXCEPT !.change[h] = RunChange(heard, c, dt),
                       !.attribute[c.name] = Modify(held, Share(s, c, dt))]
      \/ v = [w EXCEPT !.change[h] = StartChange(heard, c, held)]
      \/ v = [w EXCEPT !.change[h] = heard]
  BY DEF TickChange
<1> HIDE DEF asked, c, held, v
<1>4. /\ heard \in ChangeRecords /\ Due(heard, c) /\ heard.total = s.total
      /\ heard.increment = s.increment
  <2>1. CASE c.by = None
    BY <1>1, <2>1
  <2>2. CASE c.by # None
    <3>1. heard = [s EXCEPT !.old = asked]
      BY <2>2
    <3> HIDE DEF heard
    <3> QED
      BY <1>1, <1>2, <3>1 DEF ChangeRecords, Due
  <2> QED
    BY <2>1, <2>2
<1> HIDE DEF heard
<1>5. ASSUME NEW r \in ChangeRecords, Due(r, c), NEW a \in AttributeRecords
      PROVE  Good([w EXCEPT !.change[h] = r])
             /\ Good([w EXCEPT !.change[h] = r, !.attribute[c.name] = a])
  <2> DEFINE x == [w EXCEPT !.change[h] = r]
             y == [x EXCEPT !.attribute[c.name] = a]
  <2>1. x \in Worlds /\ AttributesOnly(w, x) /\ x.change = [w.change EXCEPT ![h] = r]
    BY DEF Worlds, AttributesOnly
  <2>2. \A e \in ChangeNames : Due(x.change[e], setup.change[e])
    BY <1>5, <2>1 DEF Worlds, c
  <2> HIDE DEF x
  <2>3. y \in Worlds /\ AttributesOnly(x, y) /\ y.change = x.change
    BY <1>1, <2>1 DEF Worlds, AttributesOnly
  <2> HIDE DEF y
  <2>4. AttributesOnly(w, y)
    BY <2>1, <2>3 DEF AttributesOnly
  <2> QED
    BY <2>1, <2>2, <2>3, <2>4 DEF x, y
<1> DEFINE stopped == [s EXCEPT !.active = FALSE]
<1>6. [w EXCEPT !.change[h].active = FALSE] = [w EXCEPT !.change[h] = stopped]
  OBVIOUS
<1>7. stopped \in ChangeRecords /\ Due(stopped, c)
  BY <1>1 DEF ChangeRecords, Due
<1>8. /\ RunChange(heard, c, dt) \in ChangeRecords /\ Due(RunChange(heard, c, dt), c)
      /\ Share(heard, c, dt) \in Int /\ Share(heard, c, dt) = Share(s, c, dt)
  BY <1>1, <1>4, RunChangeDue DEF Share, Summed
<1>9. Modify(held, Share(s, c, dt)) \in AttributeRecords
  BY <1>1, <1>8, SetType
<1>10. StartChange(heard, c, held) \in ChangeRecords /\ Due(StartChange(heard, c, held), c)
  <2> DEFINE i == c.amount * (IF c.percentage THEN held.value ELSE 100)
             a == [heard EXCEPT !.active = TRUE]
             b == [a EXCEPT !.count = c.time]
             d == [b EXCEPT !.total = 0]
             e == [d EXCEPT !.given = 0]
             f == [e EXCEPT !.increment = i]
  <2>1. c.time \in Nat \ {0} /\ i \in Int /\ Whole(c) \in Nat \ {0}
    BY <1>1 DEF ChangeSettings, AttributeRecords, Whole
  <2>2. StartChange(heard, c, held) = f
    BY DEF StartChange
  <2> HIDE DEF i
  <2>3. a \in ChangeRecords /\ a.active
    BY <1>4 DEF ChangeRecords
  <2> HIDE DEF a
  <2>4. b \in ChangeRecords /\ b.count = c.time
    BY <2>1, <2>3 DEF ChangeRecords
  <2> HIDE DEF b
  <2>5. d \in ChangeRecords /\ d.count = c.time /\ d.total = 0
    BY <2>4 DEF ChangeRecords
  <2> HIDE DEF d
  <2>6. e \in ChangeRecords /\ e.count = c.time /\ e.total = 0 /\ e.given = 0
    BY <2>5 DEF ChangeRecords
  <2> HIDE DEF e
  <2>7. f \in ChangeRecords /\ f.count = c.time /\ f.total = 0 /\ f.given = 0 /\ f.increment = i
    BY <2>1, <2>6 DEF ChangeRecords
  <2> HIDE DEF f
  <2>8. /\ f.increment * (c.time - f.count) = 0 /\ f.given * Whole(c) = 0
        /\ MaxError * (c.time - f.count) = 0
    BY <2>1, <2>7, FloatAssumption
  <2>9. Due(f, c)
    BY <2>1, <2>7, <2>8 DEF Due
  <2> QED
    BY <2>2, <2>7, <2>9
<1>11. held \in AttributeRecords
  BY <1>1
<1> HIDE DEF stopped, Good
<1>12. Good(v)
  BY <1>3, <1>4, <1>5, <1>6, <1>7, <1>8, <1>9, <1>10, <1>11
<1> QED
  BY <1>12 DEF Good, v

LEMMA ChangesRound ==
  ASSUME setup \in Setups, dt \in Nat, NEW w \in Worlds,
         \A e \in ChangeNames : Due(w.change[e], setup.change[e])
  PROVE  LET v == TickAll(w, Changes)
         IN  /\ v \in Worlds /\ AttributesOnly(w, v)
             /\ \A e \in ChangeNames : Due(v.change[e], setup.change[e])
<1> DEFINE N == Len(Changes)
           S == {u \in Worlds : /\ AttributesOnly(w, u)
                                /\ \A e \in ChangeNames : Due(u.change[e], setup.change[e])}
           P == [n \in 0 .. N |-> S]
<1>1. N \in Nat /\ \A n \in 1 .. N : Changes[n] \in ChangeNames
  BY OrderAssumption, OrderFacts
<1>2. w \in S
  BY DEF AttributesOnly
<1>3. ASSUME NEW n \in 1 .. N, NEW u \in S PROVE Tick(u, Changes[n], StatesOf(w)) \in S
  <2> DEFINE v == TickChange(u, Changes[n])
  <2>1. Tick(u, Changes[n], StatesOf(w)) = v
    BY <1>1, TickIs
  <2>2. /\ v \in Worlds /\ AttributesOnly(u, v)
        /\ \A e \in ChangeNames : Due(v.change[e], setup.change[e])
    BY <1>1, ChangeTicks
  <2> HIDE DEF v
  <2>3. AttributesOnly(w, v)
    BY <2>2 DEF AttributesOnly
  <2> QED
    BY <2>1, <2>2, <2>3
<1> HIDE DEF S
<1>4. P[0] = S /\ P[N] = S /\ \A n \in 1 .. N : P[n - 1] = S /\ P[n] = S
  BY <1>1
<1> HIDE DEF P
<1>5. TickAll(w, Changes) \in P[N]
  BY <1>1, <1>2, <1>3, <1>4, RoundKeeps
<1> QED
  BY <1>4, <1>5 DEF S

------------------------------------------------------------------------------
(* What hits a trigger *)

\* What hitting a trigger makes of it: nothing but a refusal, or it fires.
HitMakes(s, r) ==
  \/ r.state = s.state /\ r.isHit = s.isHit /\ r.time = s.time /\ r.inAnimation = s.inAnimation
  \/ /\ ~s.isHit /\ ~s.inAnimation
     /\ r.state /\ r.isHit /\ r.time = 0 /\ r.inAnimation

LEMMA FireMakes ==
  ASSUME setup \in Setups, NEW w \in Worlds, NEW t \in TriggerNames, Ready(w, t)
  PROVE  LET v == Fire(w, t)
         IN  /\ v \in Worlds /\ HeardStill(w, v)
             /\ v.gate = w.gate /\ v.timer = w.timer /\ v.change = w.change
             /\ \A e \in TriggerNames \ {t} : v.trigger[e] = w.trigger[e]
             /\ HitMakes(w.trigger[t], v.trigger[t])
<1> DEFINE s == w.trigger[t]
           r == [s EXCEPT !.state = TRUE, !.isHit = TRUE, !.time = 0, !.inAnimation = TRUE]
           m == Start(w.model[t])
           u == [w EXCEPT !.trigger[t] = r, !.model[t] = m]
           v == Fire(w, t)
<1>1. s \in TriggerRecords /\ ~s.isHit /\ ~s.inAnimation /\ w.model[t] \in ModelRecords
  BY DEF Worlds, Ready
<1>2. m \in ModelRecords /\ m.moving
  BY <1>1, StartType
<1>3. v = PlaySound(u, t)
  BY DEF Fire
<1>4. r \in TriggerRecords /\ r.state /\ r.isHit /\ r.time = 0 /\ r.inAnimation
  <2> DEFINE a == [s EXCEPT !.state = TRUE]
             b == [a EXCEPT !.isHit = TRUE]
             d == [b EXCEPT !.time = 0]
             e == [d EXCEPT !.inAnimation = TRUE]
  <2>1. r = e
    BY <1>1 DEF TriggerRecords
  <2> HIDE DEF s, r
  <2>2. a \in TriggerRecords /\ a.state
    BY <1>1 DEF TriggerRecords
  <2> HIDE DEF a
  <2>3. b \in TriggerRecords /\ b.state /\ b.isHit
    BY <2>2 DEF TriggerRecords
  <2> HIDE DEF b
  <2>4. d \in TriggerRecords /\ d.state /\ d.isHit /\ d.time = 0
    BY <2>3 DEF TriggerRecords
  <2> HIDE DEF d
  <2>5. e \in TriggerRecords /\ e.state /\ e.isHit /\ e.time = 0 /\ e.inAnimation
    BY <2>4 DEF TriggerRecords
  <2> QED
    BY <2>1, <2>5
<1> HIDE DEF r, m, v
<1>5. /\ u \in Worlds /\ u.trigger = [w.trigger EXCEPT ![t] = r]
      /\ u.model = [w.model EXCEPT ![t] = m]
      /\ u.gate = w.gate /\ u.timer = w.timer /\ u.change = w.change
      /\ u.handle = w.handle /\ u.Item = w.Item
  <2> DEFINE x == [w EXCEPT !.trigger[t] = r]
  <2>1. x \in Worlds /\ x.trigger = [w.trigger EXCEPT ![t] = r] /\ x.model = w.model
        /\ x.gate = w.gate /\ x.timer = w.timer /\ x.change = w.change
        /\ x.handle = w.handle /\ x.Item = w.Item
    BY <1>4 DEF Worlds
  <2>2. u = [x EXCEPT !.model[t] = m]
    BY DEF Worlds
  <2> HIDE DEF x, u
  <2> QED
    BY <1>2, <2>1, <2>2 DEF Worlds
<1> HIDE DEF u
<1>6. t \in Owners /\ t \notin TimerNames
  BY Kinds
<1>7. PICK loop \in BOOLEAN : /\ OnlySound(u, v)
                              /\ Played(w.handle, w.Item, v.handle, v.Item, t, loop)
  BY <1>3, <1>5, <1>6, PlaySoundMakes
<1>8. /\ v \in Worlds /\ v.trigger = u.trigger /\ v.model = u.model /\ v.timer = w.timer
      /\ v.gate = w.gate /\ v.change = w.change
  BY <1>5, <1>7, OnlySoundFields
<1>9. /\ \A e \in TriggerNames \ {t} : v.trigger[e] = w.trigger[e] /\ v.model[e] = w.model[e]
      /\ v.trigger[t] = r /\ v.model[t] = m
  BY <1>5, <1>8 DEF Worlds
<1>10. ASSUME NEW T, Heard(w, T) PROVE Heard(v, T)
  <2>1. w.handle \in Handles /\ w.Item \in Pools
    BY DEF Worlds, Handles
  <2>2. w.handle[t] = -1
    BY <1>1, <1>6, <1>10 DEF Heard, Sings
  <2>3. Tuned(v.handle, v.Item)
    BY <1>6, <1>7, <1>10, <2>1, <2>2, PlayedTuned DEF Heard
  <2>4. \A o \in Owners \ {t} : v.handle[o] = w.handle[o]
    BY <1>6, <1>7, <2>1 DEF Played, Handles
  <2>5. ASSUME NEW o \in Owners PROVE Sings(v, T, o)
    <3>1. CASE o = t
      BY <1>2, <1>4, <1>6, <1>9, <3>1 DEF Sings
    <3>2. CASE o # t
      BY <1>8, <1>9, <1>10, <2>4, <3>2 DEF Sings, Heard
    <3> QED
      BY <3>1, <3>2
  <2> QED
    BY <2>3, <2>5 DEF Heard
<1>11. HitMakes(s, r)
  BY <1>1, <1>4 DEF HitMakes
<1> QED
  BY <1>8, <1>9, <1>10, <1>11 DEF HeardStill, v

LEMMA HitTypes ==
  ASSUME setup \in Setups, NEW w \in Worlds, NEW t \in TriggerNames
  PROVE  LET v == Hit(w, t)
         IN  /\ v \in Worlds /\ HeardStill(w, v)
             /\ v.gate = w.gate /\ v.timer = w.timer /\ v.change = w.change
             /\ \A e \in TriggerNames \ {t} : v.trigger[e] = w.trigger[e]
             /\ HitMakes(w.trigger[t], v.trigger[t])
<1> DEFINE s == w.trigger[t]
           r == [s EXCEPT !.callBack = 2]
           u == [w EXCEPT !.trigger[t] = r]
<1>1. r \in TriggerRecords /\ HitMakes(s, r) /\ HitMakes(s, s) /\ r.inAnimation = s.inAnimation
  BY DEF Worlds, TriggerRecords, HitMakes
<1>2. Refuse(w, t) = u
  BY DEF Refuse
<1> HIDE DEF r
<1>3. /\ u \in Worlds /\ u.trigger = [w.trigger EXCEPT ![t] = r] /\ u.gate = w.gate
      /\ u.timer = w.timer /\ u.change = w.change /\ u.handle = w.handle /\ u.Item = w.Item
      /\ u.model = w.model
  BY <1>1 DEF Worlds
<1> HIDE DEF u
<1>4. u.trigger[t] = r /\ \A e \in TriggerNames \ {t} : u.trigger[e] = w.trigger[e]
  BY <1>3 DEF Worlds
<1>5. HeardStill(w, u)
  BY <1>1, <1>3, <1>4, Kinds DEF HeardStill, Heard, Sings
<1>6. CASE ~Allowed(w, t)
  BY <1>1, <1>2, <1>3, <1>4, <1>5, <1>6 DEF Hit
<1>7. CASE Allowed(w, t) /\ Ready(w, t)
  BY <1>7, FireMakes DEF Hit
<1>8. CASE Allowed(w, t) /\ ~Ready(w, t)
  BY <1>1, <1>8 DEF Hit, HeardStill
<1> QED
  BY <1>6, <1>7, <1>8

------------------------------------------------------------------------------
(* A tick of a model: it stays a model *)

LEMMA Readings ==
  ASSUME NEW m \in ModelRecords, NEW c \in Motions
  PROVE  /\ Sign(m) \in Int /\ Far(m) \in Int /\ RunTime(m) \in Int /\ End \in Int
         /\ \A i \in Int : TimeList(c, i) \in Int
<1>1. m.time \in Int /\ m.start \in Int
  BY DEF ModelRecords
<1>2. Sign(m) \in Int /\ Far(m) \in Int /\ End \in Int
  BY MotionAssumption DEF Sign, Far
<1>3. RunTime(m) \in Int
  BY <1>1, <1>2 DEF RunTime
<1>4. ASSUME NEW i \in Int PROVE TimeList(c, i) \in Int
  <2>1. c.stops \in Seq(0 .. End) /\ ListMax \in Nat
    BY MotionAssumption DEF Motions
  <2>2. i \in 0 .. Len(c.stops) - 1 => c.stops[i + 1] \in Int
    BY <2>1, MotionAssumption
  <2> QED
    BY <2>1, <2>2 DEF TimeList, Terminator
<1> QED
  BY <1>2, <1>3, <1>4

\* The model comes to rest at a time, or goes on from there.
LEMMA PlacedType ==
  ASSUME NEW m \in ModelRecords, NEW t \in Int
  PROVE  /\ [m EXCEPT !.time = t] \in ModelRecords
         /\ [m EXCEPT !.time = t, !.moving = FALSE] \in ModelRecords
         /\ [m EXCEPT !.wrap = FALSE, !.time = t] \in ModelRecords
  BY DEF ModelRecords

LEMMA TimedType ==
  ASSUME NEW m \in ModelRecords, NEW c \in Motions
  PROVE  /\ TowardsTarget(m) \in ModelRecords /\ TimedRun(m, c) \in ModelRecords
         /\ WrapAround(m, c) \in ModelRecords
<1>1. m.target \in Int /\ m.start \in Int /\ m.time \in Int /\ c.each \in Int
  BY DEF ModelRecords, Motions
<1>2. m.start + Sign(m) * c.each \in Int /\ m.time - Sign(m) * End \in Int
  BY <1>1, Readings
<1> QED
  BY <1>1, <1>2, PlacedType DEF TowardsTarget, TimedRun, WrapAround

LEMMA ListStopType ==
  ASSUME NEW m \in ModelRecords, NEW c \in Motions
  PROVE  ListStop(m, c) \in ModelRecords
<1> DEFINE k == m.index + Sign(m)
           stop == TimeList(c, m.index)
           t == IF ~m.forward /\ c.looping /\ ~c.reverse /\ IsLastStop(m, c, k)
                THEN End ELSE stop
           i == IF m.forward THEN (IF k < 2 THEN 0 ELSE k - 2) ELSE k + 2
           j == IF m.forward THEN 0 ELSE ListMax - 1
           f == ~m.forward
           p == PassStop(m, c, k)
<1>1. m.index \in Int /\ k \in Int
  BY Readings DEF ModelRecords
<1>2. stop \in Int /\ t \in Int
  BY <1>1, Readings
<1>3. i \in Int /\ j \in Int /\ Bounded(k) \in Int /\ f \in BOOLEAN
  BY <1>1, MotionAssumption DEF Bounded
<1>4. \/ p = [m EXCEPT !.index = Bounded(k)]
      \/ p = [m EXCEPT !.index = i, !.forward = f]
      \/ p = [m EXCEPT !.index = j, !.wrap = TRUE]
  BY DEF PassStop
<1>5. ListStop(m, c) = m \/ ListStop(m, c) = [p EXCEPT !.time = t, !.moving = FALSE]
  BY DEF ListStop
<1> HIDE DEF p, t, i, j, f, k
<1>6. p \in ModelRecords
  BY <1>3, <1>4 DEF ModelRecords
<1> QED
  BY <1>2, <1>5, <1>6, PlacedType

LEMMA MotionEndType ==
  ASSUME NEW m \in ModelRecords, NEW c \in Motions, NEW ran \in Int
  PROVE  MotionEnd(m, c, ran) \in ModelRecords
<1> DEFINE far == Far(m)
           back == End - Far(m)
           f == ~m.forward
           a == Carried(m, c, far, -ran)
           b == Carried(m, c, back, ran)
<1>1. far \in Int /\ back \in Int /\ (f) \in BOOLEAN /\ a \in Int /\ b \in Int
  <2>1. far \in Int /\ Sign(m) \in Int /\ End \in Int /\ m.start \in Int
    BY Readings DEF ModelRecords
  <2>2. \A y, z \in Int : Carried(m, c, y, z) \in Int
    BY <2>1 DEF Carried
  <2>3. back \in Int /\ -ran \in Int
    BY <2>1
  <2> QED
    BY <2>1, <2>2, <2>3
<1>2. \/ MotionEnd(m, c, ran) = m
      \/ MotionEnd(m, c, ran) = [m EXCEPT !.forward = f, !.time = far, !.start = a]
      \/ MotionEnd(m, c, ran) = [m EXCEPT !.time = back, !.start = b]
      \/ MotionEnd(m, c, ran) = [m EXCEPT !.time = far, !.moving = FALSE]
  BY DEF MotionEnd
<1> HIDE DEF far, back, f, a, b
<1>3. /\ [m EXCEPT !.forward = f, !.time = far, !.start = a] \in ModelRecords
      /\ [m EXCEPT !.time = back, !.start = b] \in ModelRecords
  BY <1>1 DEF ModelRecords
<1> QED
  BY <1>1, <1>2, <1>3, PlacedType

LEMMA ModelTickType ==
  ASSUME NEW m \in ModelRecords, NEW c \in Motions, NEW d \in Int,
         NEW blocked \in BOOLEAN, NEW turned \in BOOLEAN
  PROVE  ProcessModelTick(m, c, d, blocked, turned) \in ModelRecords
<1> DEFINE s == m.time + Sign(m) * d
           t == [m EXCEPT !.time = s]
           r == TimedRun(t, c)
           l == WrapAround(r, c)
           a == Advance(m, c, d)
           f == IF c.turns /\ turned THEN ~a.forward ELSE a.forward
           n == ProcessModelTick(m, c, d, blocked, turned)
<1>1. s \in Int
  BY Readings DEF ModelRecords
<1>2. /\ Advance(m, c, d) =
           IF t.target >= 0 THEN TowardsTarget(t)
           ELSE IF c.stops # <<>> THEN ListStop(l, c)
           ELSE MotionEnd(r, c, RunTime(t))
  BY DEF Advance
<1>3. \/ n = m
      \/ n = [m EXCEPT !.moving = FALSE, !.hasMoved = FALSE]
      \/ n = [a EXCEPT !.colliding = blocked, !.forward = f]
  BY DEF ProcessModelTick
<1> HIDE DEF s
<1>4. t \in ModelRecords
  BY <1>1, PlacedType
<1> HIDE DEF t
<1>5. r \in ModelRecords /\ RunTime(t) \in Int /\ TowardsTarget(t) \in ModelRecords
  BY <1>4, TimedType, Readings
<1> HIDE DEF r
<1>6. l \in ModelRecords
  BY <1>5, TimedType
<1> HIDE DEF l
<1>7. a \in ModelRecords
  BY <1>2, <1>5, <1>6, ListStopType, MotionEndType
<1> HIDE DEF a
<1>8. f \in BOOLEAN
  BY <1>7 DEF ModelRecords
<1> HIDE DEF f, n
<1>9. n \in ModelRecords
  BY <1>3, <1>7, <1>8 DEF ModelRecords
<1> QED
  BY <1>9 DEF n

------------------------------------------------------------------------------
(* What the invariant says of each trigger, flip-flop and countdown *)

CycleOf(c) == c.on + c.off

(***************************************************************************)
(* A trigger s that fired q ago, with settings c, is in its cycle as long  *)
(* as it is hit: its time is how long it has been on, or off after that.   *)
(***************************************************************************)
PaceOf(s, q, c) ==
  /\ q \in Int /\ Never <= q /\ q <= CycleOf(c)
  /\ 0 <= s.time
  /\ s.state => s.isHit
  /\ s.isHit => q # Never
  /\ s.isHit /\ s.state => q >= Upto(s.time, CycleOf(c))
  /\ s.isHit /\ ~s.state => q >= Upto(c.on + s.time, CycleOf(c))
  /\ ~s.isHit => q = Never \/ q = CycleOf(c)
  /\ c.oneShot /\ q # Never => s.inAnimation

(***************************************************************************)
(* A flip-flop x has turned over for each time s fired, but for the time   *)
(* that it has not yet seen, when s has just come on.                      *)
(***************************************************************************)
FlipOf(s, x, odd) ==
  /\ ~s.state => ~x.old
  /\ s.state /\ ~x.old => s.time = 0
  /\ x.state = (odd # (s.state /\ ~x.old))

CountOf(x, ran, amount) ==
  /\ ran \in Int /\ 0 <= ran
  /\ x.active => /\ ~x.state /\ x.time = amount - ran
                 /\ ran < amount \/ amount = 0
  /\ x.state => ran = amount

Later(q, c) == IF q = Never THEN Never ELSE Upto(q + dt, CycleOf(c))

LEMMA HitPace ==
  ASSUME NEW s \in TriggerRecords, NEW r \in TriggerRecords, NEW c \in TriggerSettings, NEW q,
         PaceOf(s, q, c), HitMakes(s, r)
  PROVE  LET fires == r.state /\ ~s.state
         IN  /\ PaceOf(r, IF fires THEN 0 ELSE q, c)
             /\ fires => q = Never \/ (q = CycleOf(c) /\ ~c.oneShot)
             /\ s.state => r.state
<1>1. c.on \in Nat /\ c.off \in Nat
  BY DEF TriggerSettings
<1> USE DEF PaceOf, CycleOf, Upto, Never
<1>2. CASE /\ r.state = s.state /\ r.isHit = s.isHit /\ r.time = s.time
           /\ r.inAnimation = s.inAnimation
  BY <1>2
<1>3. CASE /\ ~s.isHit /\ ~s.inAnimation
           /\ r.state /\ r.isHit /\ r.time = 0 /\ r.inAnimation
  BY <1>1, <1>3
<1> QED
  BY <1>2, <1>3 DEF HitMakes

LEMMA TickedMakes ==
  ASSUME NEW s \in TriggerRecords, NEW c \in TriggerSettings, dt \in Nat, NEW moving
  PROVE  LET r == Ticked(s, c, moving)
         IN  /\ r \in TriggerRecords
             /\ r.state = Pulse(s, c).state /\ r.isHit = Pulse(s, c).isHit
             /\ r.time = Pulse(s, c).time
             /\ r.inAnimation = s.inAnimation \/ r.inAnimation = ~Rearms(Pulse(s, c), c)
<1> DEFINE p == Pulsed(s, c)
           k == ~Rearms(p, c)
           r == Ticked(s, c, moving)
<1>1. /\ p \in TriggerRecords /\ p.inAnimation = s.inAnimation
      /\ p.state = Pulse(s, c).state /\ p.isHit = Pulse(s, c).isHit
      /\ p.time = Pulse(s, c).time
  BY PulsedMakes
<1>2. r = IF p.inAnimation /\ ~moving THEN [p EXCEPT !.inAnimation = k] ELSE p
  BY DEF Ticked
<1>3. (k) \in BOOLEAN /\ k = ~Rearms(Pulse(s, c), c)
  BY <1>1 DEF Rearms
<1>4. r \in TriggerRecords
  BY TickedType
<1> HIDE DEF p, k
<1> QED
  BY <1>1, <1>2, <1>3, <1>4 DEF TriggerRecords

LEMMA PulseIs ==
  ASSUME NEW s \in TriggerRecords, NEW c \in TriggerSettings, dt \in Nat
  PROVE  LET p == Pulse(s, c)
             time == s.time + dt
         IN  \/ ~s.isHit /\ p = s
             \/ s.isHit /\ s.state /\ time >= c.on /\ p.time = 0 /\ ~p.state /\ p.isHit
             \/ s.isHit /\ ~s.state /\ time >= c.off /\ p.time = 0 /\ ~p.state /\ ~p.isHit
             \/ /\ s.isHit /\ p.time = time /\ p.state = s.state /\ p.isHit
                /\ IF s.state THEN time < c.on ELSE time < c.off
<1> DEFINE time == s.time + dt
<1>1. time \in Int /\ c.on \in Nat /\ c.off \in Nat
  BY DEF TriggerSettings, TriggerRecords
<1>2. Pulse(s, c) = IF ~s.isHit THEN s
                    ELSE IF s.state /\ time >= c.on
                         THEN [s EXCEPT !.time = 0, !.state = FALSE]
                    ELSE IF ~s.state /\ time >= c.off
                         THEN [s EXCEPT !.time = 0, !.isHit = FALSE]
                    ELSE [s EXCEPT !.time = time]
  BY DEF Pulse
<1> HIDE DEF time
<1> DEFINE p == Pulse(s, c)
<1>3. \/ ~s.isHit /\ p = s
      \/ s.isHit /\ s.state /\ time >= c.on /\ p = [s EXCEPT !.time = 0, !.state = FALSE]
      \/ s.isHit /\ ~s.state /\ time >= c.off /\ p = [s EXCEPT !.time = 0, !.isHit = FALSE]
      \/ /\ s.isHit /\ p = [s EXCEPT !.time = time]
         /\ IF s.state THEN time < c.on ELSE time < c.off
  BY <1>1, <1>2
<1> HIDE DEF p
<1>4. \/ ~s.isHit /\ p = s
      \/ s.isHit /\ s.state /\ time >= c.on /\ p.time = 0 /\ ~p.state /\ p.isHit
      \/ s.isHit /\ ~s.state /\ time >= c.off /\ p.time = 0 /\ ~p.state /\ ~p.isHit
      \/ /\ s.isHit /\ p.time = time /\ p.state = s.state /\ p.isHit
         /\ IF s.state THEN time < c.on ELSE time < c.off
  BY <1>3 DEF TriggerRecords
<1> QED
  BY <1>4 DEF time, p

LEMMA TickedPace ==
  ASSUME NEW s \in TriggerRecords, NEW c \in TriggerSettings, dt \in Nat, NEW moving, NEW q,
         PaceOf(s, q, c)
  PROVE  LET r == Ticked(s, c, moving)
         IN  /\ PaceOf(r, Later(q, c), c)
             /\ r.state => s.state
             /\ s.state /\ ~r.state => Later(q, c) >= c.on
<1> DEFINE r == Ticked(s, c, moving)
           p == Pulse(s, c)
           t == s.time + dt
           k == CycleOf(c)
           l == Later(q, c)
<1>1. c.on \in Nat /\ c.off \in Nat /\ s.time \in Int /\ q \in Int /\ k = c.on + c.off
  BY DEF TriggerSettings, TriggerRecords, PaceOf, CycleOf
<1>2. /\ r \in TriggerRecords /\ r.state = p.state /\ r.isHit = p.isHit /\ r.time = p.time
      /\ r.inAnimation = s.inAnimation \/ r.inAnimation = ~Rearms(p, c)
  BY TickedMakes
<1>3. \/ ~s.isHit /\ p = s
      \/ s.isHit /\ s.state /\ t >= c.on /\ p.time = 0 /\ ~p.state /\ p.isHit
      \/ s.isHit /\ ~s.state /\ t >= c.off /\ p.time = 0 /\ ~p.state /\ ~p.isHit
      \/ s.isHit /\ p.time = t /\ p.state = s.state /\ p.isHit
  BY PulseIs
<1>4. c.oneShot /\ l # Never => r.inAnimation
  <2>1. c.oneShot => ~Rearms(p, c)
    BY DEF Rearms
  <2> QED
    BY <1>2, <2>1 DEF PaceOf, Later
<1>5. /\ l \in Int /\ Never <= l /\ l <= k
      /\ q = Never => l = Never
      /\ q # Never => l = Upto(q + dt, k)
  BY <1>1 DEF Later, PaceOf, Upto, Never
<1> HIDE DEF r, p, k, l
<1>6. PaceOf(r, l, c) /\ (r.state => s.state) /\ (s.state /\ ~r.state => l >= c.on)
  <2>1. CASE ~s.isHit /\ p = s
    BY <1>1, <1>2, <1>4, <1>5, <2>1 DEF PaceOf, Upto, Never, k
  <2>2. CASE s.isHit /\ s.state /\ t >= c.on /\ p.time = 0 /\ ~p.state /\ p.isHit
    BY <1>1, <1>2, <1>4, <1>5, <2>2 DEF PaceOf, Upto, Never, k
  <2>3. CASE s.isHit /\ ~s.state /\ t >= c.off /\ p.time = 0 /\ ~p.state /\ ~p.isHit
    BY <1>1, <1>2, <1>4, <1>5, <2>3 DEF PaceOf, Upto, Never, k
  <2>4. CASE s.isHit /\ p.time = t /\ p.state = s.state /\ p.isHit
    BY <1>1, <1>2, <1>4, <1>5, <2>4 DEF PaceOf, Upto, Never, k
  <2> QED
    BY <1>3, <2>1, <2>2, <2>3, <2>4
<1> QED
  BY <1>6 DEF r, l

LEMMA HitFlip ==
  ASSUME NEW s \in TriggerRecords, NEW r \in TriggerRecords, NEW x \in GateRecords,
         NEW odd \in BOOLEAN, s.state => s.isHit, HitMakes(s, r), FlipOf(s, x, odd)
  PROVE  FlipOf(r, x, odd # (r.state /\ ~s.state))
<1>1. /\ s.state \in BOOLEAN /\ r.state \in BOOLEAN /\ x.state \in BOOLEAN /\ x.old \in BOOLEAN
  BY DEF TriggerRecords, GateRecords
<1>2. CASE r.state = s.state /\ r.time = s.time
  <2>1. (odd # (r.state /\ ~s.state)) = odd
    BY <1>1, <1>2
  <2> QED
    BY <1>2, <2>1 DEF FlipOf
<1>3. CASE ~s.isHit /\ r.state /\ r.time = 0
  <2>1. ~s.state /\ ~x.old /\ x.state = odd
    BY <1>1, <1>3 DEF FlipOf
  <2>2. ((odd # (r.state /\ ~s.state)) # (r.state /\ ~x.old)) = odd
    BY <1>1, <1>3, <2>1
  <2> QED
    BY <1>3, <2>1, <2>2 DEF FlipOf
<1> QED
  BY <1>2, <1>3 DEF HitMakes

LEMMA TurnedIs ==
  ASSUME NEW x \in GateRecords, NEW a \in BOOLEAN
  PROVE  Turned(x, a).state = (x.state # (a /\ ~x.old)) /\ Turned(x, a).old = a
  BY DEF Turned, GateRecords

LEMMA TickedFlip ==
  ASSUME NEW s \in TriggerRecords, NEW c \in TriggerSettings, dt \in Nat, dt < c.on,
         NEW moving, NEW x \in GateRecords, NEW odd \in BOOLEAN,
         s.state => s.isHit, FlipOf(s, x, odd)
  PROVE  LET r == Ticked(s, c, moving) IN FlipOf(r, Turned(x, r.state), odd)
<1> DEFINE r == Ticked(s, c, moving)
           p == Pulse(s, c)
           y == Turned(x, r.state)
<1>1. r \in TriggerRecords /\ r.state = p.state
  BY TickedMakes
<1>2. /\ s.state \in BOOLEAN /\ r.state \in BOOLEAN /\ x.state \in BOOLEAN /\ x.old \in BOOLEAN
      /\ s.time \in Int /\ c.on \in Nat
  BY <1>1 DEF TriggerRecords, GateRecords, TriggerSettings
<1>3. y.state = (x.state # (r.state /\ ~x.old)) /\ y.old = r.state
  BY <1>2, TurnedIs
<1>4. ~s.state => ~r.state
  BY <1>1, <1>2, PulseIs
<1>5. s.state /\ ~x.old => r.state
  <2> SUFFICES ASSUME s.state, ~x.old PROVE r.state
    OBVIOUS
  <2>1. s.time = 0 /\ s.isHit
    BY DEF FlipOf
  <2>2. s.time + dt < c.on
    BY <1>2, <2>1
  <2> QED
    BY <1>1, <1>2, <2>1, <2>2, PulseIs
<1>6. (r.state /\ ~x.old) = (s.state /\ ~x.old)
  BY <1>2, <1>4, <1>5
<1>7. y.state = odd
  BY <1>2, <1>3, <1>6 DEF FlipOf
<1> HIDE DEF r, y
<1>8. ~(r.state /\ ~y.old)
  BY <1>3
<1>9. y.state = (odd # (r.state /\ ~y.old))
  BY <1>7, <1>8
<1> QED
  BY <1>3, <1>8, <1>9 DEF FlipOf, r, y

LEMMA CountTicks ==
  ASSUME NEW s \in TimerRecords, NEW x \in TimerRecords, NEW amount \in Nat, dt \in Nat,
         NEW ran, CountOf(s, ran, amount), Counted(s, x, amount)
  PROVE  CountOf(x, IF x.active /\ ~s.active THEN 0
                    ELSE IF s.active THEN Upto(ran + dt, amount) ELSE ran, amount)
<1>1. s.time \in Int /\ x.time \in Int /\ ran \in Int
  BY DEF TimerRecords, CountOf
<1> USE <1>1 DEF CountOf, Upto
<1>2. CASE ~x.active /\ ~x.state
  BY <1>2
<1>3. CASE /\ s.active /\ x.time = s.time - dt
           /\ IF x.time > 0 THEN x.active /\ x.state = s.state ELSE ~x.active /\ x.state
  <2>1. CASE x.time > 0
    BY <1>3, <2>1
  <2>2. CASE ~(x.time > 0)
    BY <1>3, <2>2
  <2> QED
    BY <2>1, <2>2
<1>4. CASE ~s.active /\ ~x.active /\ x.state = s.state
  BY <1>4
<1>5. CASE ~s.active /\ x.active /\ ~x.state /\ x.time = amount
  BY <1>5
<1> QED
  BY <1>2, <1>3, <1>4, <1>5 DEF Counted

------------------------------------------------------------------------------
(* The invariant *)

PastRecords == [since : [TriggerNames -> Int], odd : [TriggerNames -> BOOLEAN],
                ran : [TimerNames -> Int]]

\* No frame is as long as t is on.
IsLong(t) == \A d \in Steps : d < setup.trigger[t].on

Paces == \A t \in TriggerNames : PaceOf(trigger[t], past.since[t], setup.trigger[t])

Flips == \A g \in GateNames, t \in TriggerNames :
           FollowsBy(g, t) /\ IsLong(t) => FlipOf(trigger[t], gate[g], past.odd[t])

Counts == \A c \in TimerNames : CountOf(timer[c], past.ran[c], setup.timer[c].amount)

Dues == \A h \in ChangeNames : Due(change[h], setup.change[h])

\* The triggers that have ticked since the models did.
TickedSince(p) == IF p = "models" THEN {} ELSE TriggerNames

IInv ==
  /\ setup \in Setups
  /\ phase \in {"none", "models", "logic", "attributes"}
  /\ dt \in Nat /\ (phase # "none" => dt \in Steps)
  /\ past \in PastRecords
  /\ World \in Worlds
  /\ Heard(World, TickedSince(phase))
  /\ Paces /\ Flips /\ Counts /\ Dues

\* What Paced says of a step.
PacedStep ==
  \A t \in TriggerNames :
    /\ Fires(t) => \/ past.since[t] = Never
                   \/ past.since[t] = Cycle(t) /\ ~setup.trigger[t].oneShot
    /\ trigger[t].state /\ ~trigger'[t].state => past'.since[t] >= setup.trigger[t].on

LEMMA BecomesIs ==
  ASSUME NEW w \in Worlds, Becomes(w)
  PROVE  /\ World' = w
         /\ trigger' = w.trigger /\ gate' = w.gate /\ timer' = w.timer /\ change' = w.change
<1>1. w = [trigger |-> w.trigger, model |-> w.model, gate |-> w.gate, timer |-> w.timer,
           pickup |-> w.pickup, modifier |-> w.modifier, change |-> w.change,
           attribute |-> w.attribute, handle |-> w.handle, Item |-> w.Item, on |-> w.on]
  BY DEF Worlds
<1> QED
  BY <1>1 DEF Becomes, World

LEMMA WorldIs ==
  /\ World.trigger = trigger /\ World.model = model /\ World.gate = gate
  /\ World.timer = timer /\ World.pickup = pickup /\ World.modifier = modifier
  /\ World.change = change /\ World.attribute = attribute /\ World.handle = handle
  /\ World.Item = Item /\ World.on = on
  BY DEF World

\* A step that leaves triggers, gates, countdowns and changes as they are.
LEMMA OthersStay ==
  ASSUME IInv, UNCHANGED <<setup, trigger, gate, timer, change, past>>
  PROVE  Paces' /\ Flips' /\ Counts' /\ Dues' /\ PacedStep
<1>1. Paces' /\ Flips' /\ Counts' /\ Dues'
  BY DEF IInv, Paces, Flips, Counts, Dues, FollowsBy, IsLong
<1>2. PacedStep
  BY DEF PacedStep, Fires
<1> QED
  BY <1>1, <1>2

LEMMA InitHolds ==
  ASSUME Init
  PROVE  IInv
<1>1. /\ setup \in Setups /\ phase = "none" /\ dt = 0
      /\ trigger = [t \in TriggerNames |-> [state |-> FALSE, isHit |-> FALSE, time |-> 0,
                                            inAnimation |-> FALSE, callBack |-> 0]]
      /\ model = [t \in TriggerNames |-> FreshModel]
      /\ gate = [g \in GateNames |-> [state |-> FALSE, old |-> FALSE, delaying |-> FALSE,
                                      time |-> 0]]
      /\ timer = [c \in TimerNames |-> [active |-> FALSE, state |-> FALSE, old |-> FALSE,
                                        time |-> 0]]
      /\ pickup = [p \in PickupNames |-> FreshPickup]
      /\ modifier = [m \in ModifierNames |-> FALSE]
      /\ change = [h \in ChangeNames |-> FreshChange]
      /\ attribute = setup.attribute
      /\ handle = [o \in Owners |-> -1]
      /\ on = {}
  BY DEF Init
<1>2. past = [since |-> [t \in TriggerNames |-> Never],
              odd |-> [t \in TriggerNames |-> FALSE], ran |-> [c \in TimerNames |-> 0]]
  BY DEF Init
<1>3. past \in PastRecords
  BY <1>2 DEF PastRecords, Never
<1>4. World \in Worlds
  <2>1. trigger \in [TriggerNames -> TriggerRecords]
    BY <1>1 DEF TriggerRecords
  <2>2. model \in [TriggerNames -> ModelRecords]
    BY <1>1 DEF ModelRecords, FreshModel, NoTarget
  <2>3. gate \in [GateNames -> GateRecords] /\ timer \in [TimerNames -> TimerRecords]
    BY <1>1 DEF GateRecords, TimerRecords
  <2>4. pickup \in [PickupNames -> PickupRecords] /\ modifier \in [ModifierNames -> BOOLEAN]
    BY <1>1 DEF PickupRecords, FreshPickup
  <2>5. change \in [ChangeNames -> ChangeRecords]
    BY <1>1 DEF ChangeRecords, FreshChange
  <2>6. attribute \in [AttributeNames -> AttributeRecords]
    BY <1>1, SetupType
  <2>7. handle \in [Owners -> Slots \cup {-1}] /\ on \in SUBSET Inputs
    BY <1>1
  <2>8. Item \in Pools
    <3> DEFINE d == [owner |-> CHOOSE o \in Owners : TRUE, loop |-> FALSE]
    <3>1. d \in Datas
      BY LogicAssumption
    <3>2. Item = FreshPool("snd", d)
      BY DEF Init
    <3> HIDE DEF d
    <3> QED
      BY <3>1, <3>2, LogicAssumption DEF FreshPool, Pools
  <2> QED
    BY <2>1, <2>2, <2>3, <2>4, <2>5, <2>6, <2>7, <2>8 DEF World, Worlds
<1>5. Heard(World, TickedSince(phase))
  <2>1. \A i \in Slots : ~Item[i].active
    BY DEF Init, FreshPool
  <2>2. \A o \in Owners : handle[o] = -1
    BY <1>1
  <2> QED
    BY <2>1, <2>2, WorldIs DEF Heard, Tuned, Owns, Owned, Sings
<1>6. Paces
  <2> SUFFICES ASSUME NEW t \in TriggerNames
               PROVE  PaceOf(trigger[t], past.since[t], setup.trigger[t])
    BY DEF Paces
  <2>1. /\ ~trigger[t].state /\ ~trigger[t].isHit /\ trigger[t].time = 0
        /\ past.since[t] = Never
    BY <1>1, <1>2
  <2>2. setup.trigger[t].on \in Nat /\ setup.trigger[t].off \in Nat
    BY <1>1, SetupType DEF TriggerSettings
  <2> QED
    BY <2>1, <2>2 DEF PaceOf, Never, CycleOf
<1>7. Flips
  BY <1>1, <1>2 DEF Flips, FlipOf
<1>8. Counts
  BY <1>1, <1>2 DEF Counts, CountOf
<1>9. Dues
  <2> SUFFICES ASSUME NEW h \in ChangeNames PROVE Due(change[h], setup.change[h])
    BY DEF Dues
  <2> DEFINE s == change[h]
             c == setup.change[h]
  <2>1. s.total = 0 /\ s.increment = 0 /\ s.given = 0 /\ s.count = 0 /\ ~s.active
    BY <1>1 DEF FreshChange
  <2>2. c.time \in Nat \ {0}
    BY <1>1, SetupType DEF ChangeSettings
  <2>3. Whole(c) \in Nat \ {0}
    BY <2>2 DEF Whole
  <2> HIDE DEF s, c
  <2>4. /\ s.increment * (c.time - s.count) = 0 /\ s.given * Whole(c) = 0
        /\ MaxError * (c.time - s.count) \in Nat
    BY <2>1, <2>2, <2>3, FloatAssumption
  <2>5. Due(s, c)
    BY <2>1, <2>3, <2>4 DEF Due
  <2> QED
    BY <2>5 DEF s, c
<1> QED
  BY <1>1, <1>3, <1>4, <1>5, <1>6, <1>7, <1>8, <1>9 DEF IInv

------------------------------------------------------------------------------
(* The steps *)

LEMMA RememberIs ==
  ASSUME past \in PastRecords, Remember, \A t \in TriggerNames : (Fires(t)) \in BOOLEAN
  PROVE  /\ past' \in PastRecords /\ past'.ran = past.ran
         /\ \A t \in TriggerNames :
              /\ past'.since[t] = IF Fires(t) THEN 0 ELSE past.since[t]
              /\ past'.odd[t] = (past.odd[t] # Fires(t))
<1> DEFINE q == [t \in TriggerNames |-> IF Fires(t) THEN 0 ELSE past.since[t]]
           o == [t \in TriggerNames |-> past.odd[t] # Fires(t)]
<1>1. past' = [past EXCEPT !.since = q, !.odd = o]
  BY DEF Remember
<1>2. q \in [TriggerNames -> Int] /\ o \in [TriggerNames -> BOOLEAN]
  BY DEF PastRecords
<1>3. \A t \in TriggerNames : /\ q[t] = IF Fires(t) THEN 0 ELSE past.since[t]
                              /\ o[t] = (past.odd[t] # Fires(t))
  OBVIOUS
<1> HIDE DEF q, o
<1>4. past' \in PastRecords /\ past'.ran = past.ran /\ past'.since = q /\ past'.odd = o
  BY <1>1, <1>2 DEF PastRecords
<1> QED
  BY <1>3, <1>4

\* A trigger is hit.
LEMMA HitStep ==
  ASSUME IInv, NEW t \in TriggerNames, Becomes(Hit(World, t)), Remember,
         UNCHANGED <<setup, phase, dt>>
  PROVE  IInv' /\ PacedStep
<1> DEFINE v == Hit(World, t)
<1>1. /\ setup \in Setups /\ World \in Worlds /\ past \in PastRecords
      /\ Heard(World, TickedSince(phase))
  BY DEF IInv
<1>2. /\ v \in Worlds /\ HeardStill(World, v)
      /\ v.gate = gate /\ v.timer = timer /\ v.change = change
      /\ \A e \in TriggerNames \ {t} : v.trigger[e] = trigger[e]
      /\ HitMakes(trigger[t], v.trigger[t])
  BY <1>1, HitTypes, WorldIs
<1> HIDE DEF v
<1>3. World' = v /\ trigger' = v.trigger /\ gate' = gate /\ timer' = timer /\ change' = change
  BY <1>2, BecomesIs DEF v
<1>4. /\ \A e \in TriggerNames : /\ trigger[e] \in TriggerRecords
                                 /\ trigger'[e] \in TriggerRecords
                                 /\ setup.trigger[e] \in TriggerSettings
      /\ \A g \in GateNames : gate[g] \in GateRecords
      /\ \A e \in TriggerNames : past.odd[e] \in BOOLEAN
  BY <1>1, <1>2, <1>3, SetupType, WorldIs DEF Worlds, PastRecords
<1>5. \A e \in TriggerNames : HitMakes(trigger[e], trigger'[e])
  BY <1>2, <1>3 DEF HitMakes
<1>6. \A e \in TriggerNames : Fires(e) = (trigger'[e].state /\ ~trigger[e].state)
  BY DEF Fires
<1>7. /\ past' \in PastRecords /\ past'.ran = past.ran
      /\ \A e \in TriggerNames :
           /\ past'.since[e] = IF Fires(e) THEN 0 ELSE past.since[e]
           /\ past'.odd[e] = (past.odd[e] # Fires(e))
  BY <1>1, <1>4, <1>6, RememberIs
<1>8. ASSUME NEW e \in TriggerNames
      PROVE  /\ PaceOf(trigger'[e], past'.since[e], setup.trigger[e])
             /\ Fires(e) => \/ past.since[e] = Never
                            \/ past.since[e] = Cycle(e) /\ ~setup.trigger[e].oneShot
             /\ trigger[e].state => trigger'[e].state
             /\ trigger[e].state => trigger[e].isHit
  <2>1. PaceOf(trigger[e], past.since[e], setup.trigger[e])
    BY DEF IInv, Paces
  <2>2. Cycle(e) = CycleOf(setup.trigger[e])
    BY DEF Cycle, CycleOf
  <2> DEFINE fires == trigger'[e].state /\ ~trigger[e].state
             q == IF fires THEN 0 ELSE past.since[e]
  <2>3. /\ PaceOf(trigger'[e], q, setup.trigger[e])
        /\ fires => \/ past.since[e] = Never
                    \/ past.since[e] = CycleOf(setup.trigger[e]) /\ ~setup.trigger[e].oneShot
        /\ trigger[e].state => trigger'[e].state
    BY <1>4, <1>5, <2>1, HitPace
  <2>4. q = past'.since[e]
    BY <1>6, <1>7
  <2> HIDE DEF q
  <2>5. PaceOf(trigger'[e], past'.since[e], setup.trigger[e])
    BY <2>3, <2>4
  <2> QED
    BY <1>6, <2>1, <2>2, <2>3, <2>5 DEF PaceOf
<1>9. ASSUME NEW g \in GateNames, NEW e \in TriggerNames, FollowsBy(g, e), IsLong(e)
      PROVE  FlipOf(trigger'[e], gate[g], past'.odd[e])
  <2>1. FlipOf(trigger[e], gate[g], past.odd[e])
    BY <1>9 DEF IInv, Flips
  <2>2. FlipOf(trigger'[e], gate[g], past.odd[e] # (trigger'[e].state /\ ~trigger[e].state))
    BY <1>4, <1>5, <1>8, <2>1, HitFlip
  <2> QED
    BY <1>6, <1>7, <2>2
<1>10. Paces' /\ Flips'
  <2>1. Paces'
    BY <1>8 DEF Paces
  <2>2. ASSUME NEW g \in GateNames, NEW e \in TriggerNames, FollowsBy(g, e)', IsLong(e)'
        PROVE  FlipOf(trigger'[e], gate'[g], past'.odd[e])
    <3>1. FollowsBy(g, e) /\ IsLong(e)
      BY <2>2 DEF FollowsBy, IsLong
    <3> QED
      BY <1>3, <1>9, <3>1
  <2> QED
    BY <2>1, <2>2 DEF Flips
<1>11. Counts' /\ Dues'
  BY <1>3, <1>7 DEF Counts, Dues, IInv
<1>12. Heard(World, TickedSince(phase))'
  BY <1>1, <1>2, <1>3 DEF HeardStill, TickedSince
<1>13. PacedStep
  BY <1>8 DEF PacedStep
<1>14. World' \in Worlds /\ past' \in PastRecords
  BY <1>2, <1>3, <1>7
<1> QED
  BY <1>10, <1>11, <1>12, <1>13, <1>14 DEF IInv

LEMMA ModelsTickStep ==
  ASSUME IInv, ModelsTick
  PROVE  IInv' /\ PacedStep
<1>1. Paces' /\ Flips' /\ Counts' /\ Dues' /\ PacedStep
  BY OthersStay DEF ModelsTick, attributes
<1>2. /\ setup' = setup /\ phase' = "models" /\ dt' \in Steps /\ past' = past
      /\ trigger' = trigger /\ gate' = gate /\ timer' = timer /\ pickup' = pickup
      /\ modifier' = modifier /\ change' = change /\ attribute' = attribute
      /\ handle' = handle /\ Item' = Item /\ on' = on
  BY DEF ModelsTick, attributes
<1>7. model' = [t \in TriggerNames |->
                  ProcessModelTick(model[t], setup.trigger[t].motion, dt', FALSE, FALSE)]
  BY DEF ModelsTick
<1>3. dt' \in Nat
  BY <1>2, LogicAssumption
<1>4. World \in Worlds /\ setup \in Setups /\ Heard(World, TickedSince(phase))
  BY DEF IInv
<1>5. World' \in Worlds
  <2>1. ASSUME NEW t \in TriggerNames PROVE model'[t] \in ModelRecords
    <3>1. model[t] \in ModelRecords /\ setup.trigger[t].motion \in Motions
      BY <1>4, SetupType, WorldIs DEF Worlds, TriggerSettings
    <3> DEFINE n == ProcessModelTick(model[t], setup.trigger[t].motion, dt', FALSE, FALSE)
    <3>2. model'[t] = n
      BY <1>7
    <3>3. FALSE \in BOOLEAN /\ dt' \in Int
      BY <1>3
    <3>4. n \in ModelRecords
      BY <3>1, <3>3, ModelTickType, Zenon
    <3> QED
      BY <3>2, <3>4
  <2>2. model' \in [TriggerNames -> ModelRecords]
    BY <1>7, <2>1
  <2>3. World' = [World EXCEPT !.model = model']
    BY <1>2 DEF World
  <2> QED
    BY <1>4, <2>2, <2>3 DEF Worlds
<1>6. Heard(World, TickedSince(phase))'
  BY <1>2, <1>4, Kinds DEF Heard, Sings, TickedSince, World
<1> QED
  BY <1>1, <1>2, <1>3, <1>4, <1>5, <1>6 DEF IInv

LEMMA RememberLogicIs ==
  ASSUME past \in PastRecords, setup \in Setups, dt \in Nat, RememberLogic
  PROVE  /\ past' \in PastRecords /\ past'.ran = past.ran /\ past'.odd = past.odd
         /\ \A t \in TriggerNames : past'.since[t] = Later(past.since[t], setup.trigger[t])
<1> DEFINE q == [t \in TriggerNames |-> IF past.since[t] = Never THEN Never
                                        ELSE Upto(past.since[t] + dt, Cycle(t))]
<1>1. past' = [past EXCEPT !.since = q]
  BY DEF RememberLogic
<1>2. \A t \in TriggerNames : q[t] = Later(past.since[t], setup.trigger[t])
  BY DEF Later, Cycle, CycleOf
<1>3. q \in [TriggerNames -> Int]
  <2>1. ASSUME NEW t \in TriggerNames PROVE q[t] \in Int
    <3>1. past.since[t] \in Int /\ Cycle(t) \in Int
      BY SetupType DEF PastRecords, Cycle, TriggerSettings
    <3> QED
      BY <3>1 DEF Upto, Never
  <2> QED
    BY <2>1
<1> HIDE DEF q
<1>4. past' \in PastRecords /\ past'.ran = past.ran /\ past'.odd = past.odd /\ past'.since = q
  BY <1>1, <1>3 DEF PastRecords
<1> QED
  BY <1>2, <1>4

\* The effects, of which some end.
LEMMA EffectsTick ==
  ASSUME IInv, phase = "models", NEW ends,
         ends \subseteq {i \in Processed(Swept(Item)) : ~Swept(Item)[i].data.loop}
  PROVE  LET w == [World EXCEPT !.Item = Ended(Swept(Item), ends)]
         IN  /\ w \in Worlds /\ Heard(w, {})
             /\ w.trigger = trigger /\ w.model = model /\ w.gate = gate
             /\ w.timer = timer /\ w.change = change
<1> DEFINE q == Ended(Swept(Item), ends)
           w == [World EXCEPT !.Item = q]
<1>1. World \in Worlds /\ Heard(World, {})
  BY DEF IInv, TickedSince
<1>2. handle \in Handles /\ Item \in Pools /\ Tuned(handle, Item)
  BY <1>1, WorldIs DEF Worlds, Handles, Heard
<1>3. q \in Pools /\ Tuned(handle, q)
  BY <1>2, SweptTuned
<1> HIDE DEF q
<1>4. /\ w \in Worlds /\ w.trigger = trigger /\ w.model = model /\ w.gate = gate
      /\ w.timer = timer /\ w.change = change /\ w.handle = handle /\ w.Item = q
  BY <1>1, <1>3, WorldIs DEF Worlds
<1> HIDE DEF w
<1>5. Heard(w, {})
  BY <1>1, <1>3, <1>4, WorldIs DEF Heard, Sings
<1> QED
  BY <1>4, <1>5 DEF w, q

LEMMA LogicTickStep ==
  ASSUME IInv, NEW ends, LogicTick(ends)
  PROVE  IInv' /\ PacedStep
<1> DEFINE w == [World EXCEPT !.Item = Ended(Swept(Item), ends)]
           u == TickAll(w, Triggers)
           v == TickAll(u, Gates)
<1>1. /\ setup \in Setups /\ past \in PastRecords /\ dt \in Nat /\ dt \in Steps
      /\ World \in Worlds /\ phase = "models" /\ phase' = "logic" /\ RememberLogic
      /\ setup' = setup /\ dt' = dt
  BY DEF IInv, LogicTick
<1>2. /\ ends \subseteq {i \in Processed(Swept(Item)) : ~Swept(Item)[i].data.loop}
      /\ Becomes(v)
  <2> DEFINE swept == [World EXCEPT !.Item = Swept(@)]
             heard == [swept EXCEPT !.Item = Ended(@, ends)]
  <2>1. /\ ends \subseteq {i \in Processed(swept.Item) : ~swept.Item[i].data.loop}
        /\ Becomes(TickAll(TickAll(heard, Triggers), Gates))
    BY DEF LogicTick
  <2>2. swept.Item = Swept(Item) /\ heard = w
    BY <1>1, WorldIs DEF Worlds
  <2> HIDE DEF swept, heard
  <2> QED
    BY <2>1, <2>2
<1>3. /\ w \in Worlds /\ Heard(w, {}) /\ w.trigger = trigger /\ w.model = model
      /\ w.gate = gate /\ w.timer = timer /\ w.change = change
  BY <1>1, <1>2, EffectsTick
<1> HIDE DEF w
<1>4. /\ u \in Worlds /\ TriggersOnly(w, u) /\ Heard(u, TriggerNames)
      /\ \A t \in TriggerNames : u.trigger[t] = TickedOf(w, t)
  BY <1>1, <1>3, TriggersRound
<1> HIDE DEF u
<1>5. /\ v \in Worlds /\ GatesOnly(u, v)
      /\ \A g \in GateNames, t \in TriggerNames : FollowsBy(g, t) =>
           v.gate[g] = Turned(u.gate[g], u.trigger[t].state)
  BY <1>1, <1>4, GatesRound
<1> HIDE DEF v
<1>6. World' = v /\ trigger' = v.trigger /\ gate' = v.gate /\ timer' = v.timer
      /\ change' = v.change
  BY <1>2, <1>5, BecomesIs
<1>7. /\ trigger' = u.trigger /\ timer' = timer /\ change' = change
      /\ u.gate = gate /\ Heard(v, TriggerNames)
  BY <1>3, <1>4, <1>5, <1>6 DEF TriggersOnly, GatesOnly, Heard, Sings
<1>8. /\ past' \in PastRecords /\ past'.ran = past.ran /\ past'.odd = past.odd
      /\ \A t \in TriggerNames : past'.since[t] = Later(past.since[t], setup.trigger[t])
  BY <1>1, RememberLogicIs
<1>9. ASSUME NEW t \in TriggerNames
      PROVE  /\ trigger[t] \in TriggerRecords /\ setup.trigger[t] \in TriggerSettings
             /\ trigger'[t] = Ticked(trigger[t], setup.trigger[t], model[t].moving)
             /\ PaceOf(trigger[t], past.since[t], setup.trigger[t])
             /\ trigger[t].state => trigger[t].isHit
  <2>1. PaceOf(trigger[t], past.since[t], setup.trigger[t])
    BY DEF IInv, Paces
  <2>2. trigger[t] \in TriggerRecords /\ setup.trigger[t] \in TriggerSettings
    BY <1>1, SetupType, WorldIs DEF Worlds
  <2>3. trigger'[t] = Ticked(trigger[t], setup.trigger[t], model[t].moving)
    BY <1>3, <1>4, <1>7 DEF TickedOf
  <2> QED
    BY <2>1, <2>2, <2>3 DEF PaceOf
<1>10. ASSUME NEW t \in TriggerNames
       PROVE  /\ PaceOf(trigger'[t], past'.since[t], setup.trigger[t])
              /\ trigger'[t].state => trigger[t].state
              /\ trigger[t].state /\ ~trigger'[t].state =>
                   past'.since[t] >= setup.trigger[t].on
  <2> DEFINE c == setup.trigger[t]
             s == trigger[t]
             q == past.since[t]
             r == Ticked(s, c, model[t].moving)
  <2>1. PaceOf(r, Later(q, c), c) /\ (r.state => s.state)
        /\ (s.state /\ ~r.state => Later(q, c) >= c.on)
    BY <1>1, <1>9, TickedPace
  <2>2. r = trigger'[t] /\ Later(q, c) = past'.since[t]
    BY <1>8, <1>9
  <2> HIDE DEF r
  <2> QED
    BY <2>1, <2>2
<1>11. Paces' /\ PacedStep
  BY <1>1, <1>10 DEF Paces, PacedStep, Fires
<1>12. Flips'
  <2> SUFFICES ASSUME NEW g \in GateNames, NEW t \in TriggerNames,
                      FollowsBy(g, t)', IsLong(t)'
               PROVE  FlipOf(trigger'[t], gate'[g], past'.odd[t])
    BY DEF Flips
  <2>1. FollowsBy(g, t) /\ IsLong(t)
    BY <1>1 DEF FollowsBy, IsLong
  <2>2. FlipOf(trigger[t], gate[g], past.odd[t]) /\ dt < setup.trigger[t].on
    BY <1>1, <2>1 DEF IInv, Flips, IsLong
  <2>3. gate[g] \in GateRecords /\ past.odd[t] \in BOOLEAN
    BY <1>1, WorldIs DEF Worlds, PastRecords
  <2>4. gate'[g] = Turned(gate[g], trigger'[t].state)
    BY <1>5, <1>6, <1>7, <2>1
  <2> DEFINE r == Ticked(trigger[t], setup.trigger[t], model[t].moving)
  <2>5. FlipOf(r, Turned(gate[g], r.state), past.odd[t])
    BY <1>1, <1>9, <2>2, <2>3, TickedFlip
  <2> QED
    BY <1>8, <1>9, <2>4, <2>5
<1>13. Counts' /\ Dues'
  BY <1>1, <1>7, <1>8 DEF Counts, Dues, IInv
<1>14. Heard(World, TickedSince(phase))'
  BY <1>1, <1>6, <1>7 DEF TickedSince
<1> QED
  BY <1>1, <1>5, <1>6, <1>8, <1>11, <1>12, <1>13, <1>14 DEF IInv

LEMMA AttributesTickStep ==
  ASSUME IInv, AttributesTick
  PROVE  IInv' /\ PacedStep
<1> DEFINE u == TickAll(World, Pickups)
           v == TickAll(u, Modifiers)
<1>1. /\ setup \in Setups /\ past \in PastRecords /\ dt \in Nat /\ dt \in Steps
      /\ World \in Worlds /\ Heard(World, TickedSince(phase)) /\ phase = "logic"
      /\ phase' = "attributes" /\ setup' = setup /\ dt' = dt /\ past' = past /\ Becomes(v)
  BY DEF IInv, AttributesTick
<1>2. u \in Worlds /\ PickupsOnly(World, u) /\ HeardStill(World, u)
  BY <1>1, PickupsRound
<1> HIDE DEF u
<1>3. v \in Worlds /\ AttributesOnly(u, v) /\ v.change = u.change
  BY <1>1, <1>2, ModifiersRound
<1> HIDE DEF v
<1>4. HeardStill(u, v)
  BY <1>3, SameHeard DEF AttributesOnly
<1>5. World' = v /\ trigger' = v.trigger /\ gate' = v.gate /\ timer' = v.timer
      /\ change' = v.change
  BY <1>1, <1>3, BecomesIs
<1>6. trigger' = trigger /\ gate' = gate /\ timer' = timer /\ change' = change
  BY <1>2, <1>3, <1>5, WorldIs DEF PickupsOnly, AttributesOnly
<1>7. Paces' /\ Flips' /\ Counts' /\ Dues' /\ PacedStep
  BY <1>1, <1>6, OthersStay
<1>8. Heard(World, TickedSince(phase))'
  BY <1>1, <1>2, <1>4, <1>5 DEF HeardStill, TickedSince
<1> QED
  BY <1>1, <1>3, <1>5, <1>7, <1>8 DEF IInv

LEMMA RememberTimersIs ==
  ASSUME past \in PastRecords, setup \in Setups, dt \in Nat, RememberTimers
  PROVE  /\ past' \in PastRecords /\ past'.since = past.since /\ past'.odd = past.odd
         /\ \A c \in TimerNames :
              past'.ran[c] = IF timer'[c].active /\ ~timer[c].active THEN 0
                             ELSE IF timer[c].active
                                  THEN Upto(past.ran[c] + dt, setup.timer[c].amount)
                             ELSE past.ran[c]
<1> DEFINE Ran(c) == IF timer'[c].active /\ ~timer[c].active THEN 0
                     ELSE IF timer[c].active
                          THEN Upto(past.ran[c] + dt, setup.timer[c].amount)
                     ELSE past.ran[c]
           r == [c \in TimerNames |-> Ran(c)]
<1>1. past' = [past EXCEPT !.ran = r]
  BY DEF RememberTimers
<1>2. ASSUME NEW c \in TimerNames PROVE Ran(c) \in Int
  <2>1. past.ran[c] \in Int /\ setup.timer[c].amount \in Nat
    BY SetupType DEF PastRecords, TimerSettings
  <2> QED
    BY <2>1 DEF Upto
<1>3. \A c \in TimerNames : r[c] = Ran(c)
  OBVIOUS
<1> HIDE DEF Ran
<1>4. r \in [TimerNames -> Int]
  BY <1>2
<1> HIDE DEF r
<1>5. /\ past' \in PastRecords /\ past'.since = past.since /\ past'.odd = past.odd
      /\ past'.ran = r
  BY <1>1, <1>4 DEF PastRecords
<1> QED
  BY <1>3, <1>5 DEF Ran

LEMMA TimersTickStep ==
  ASSUME IInv, TimersTick
  PROVE  IInv' /\ PacedStep
<1> DEFINE u == TickAll(World, Timers)
           v == TickAll(u, Changes)
<1>1. /\ setup \in Setups /\ past \in PastRecords /\ dt \in Nat
      /\ World \in Worlds /\ Heard(World, TickedSince(phase)) /\ phase = "attributes"
      /\ phase' = "none" /\ setup' = setup /\ dt' = 0 /\ Becomes(v) /\ RememberTimers
      /\ \A h \in ChangeNames : Due(change[h], setup.change[h])
  BY DEF IInv, TimersTick, Dues
<1>2. /\ u \in Worlds /\ TimersOnly(World, u) /\ HeardStill(World, u)
      /\ \A c \in TimerNames : Counted(timer[c], u.timer[c], setup.timer[c].amount)
  BY <1>1, TimersRound, WorldIs
<1> HIDE DEF u
<1>3. \A h \in ChangeNames : Due(u.change[h], setup.change[h])
  BY <1>1, <1>2, WorldIs DEF TimersOnly
<1>4. /\ v \in Worlds /\ AttributesOnly(u, v)
      /\ \A h \in ChangeNames : Due(v.change[h], setup.change[h])
  BY <1>1, <1>2, <1>3, ChangesRound
<1> HIDE DEF v
<1>5. HeardStill(u, v)
  BY <1>4, SameHeard DEF AttributesOnly
<1>6. World' = v /\ trigger' = v.trigger /\ gate' = v.gate /\ timer' = v.timer
      /\ change' = v.change
  BY <1>1, <1>4, BecomesIs
<1>7. trigger' = trigger /\ gate' = gate /\ timer' = u.timer
  BY <1>2, <1>4, <1>6, WorldIs DEF TimersOnly, AttributesOnly
<1>8. /\ past' \in PastRecords /\ past'.since = past.since /\ past'.odd = past.odd
      /\ \A c \in TimerNames :
           past'.ran[c] = IF timer'[c].active /\ ~timer[c].active THEN 0
                          ELSE IF timer[c].active
                               THEN Upto(past.ran[c] + dt, setup.timer[c].amount)
                          ELSE past.ran[c]
  BY <1>1, RememberTimersIs
<1>9. Paces' /\ Flips' /\ PacedStep
  BY <1>1, <1>7, <1>8 DEF IInv, Paces, Flips, FollowsBy, IsLong, PacedStep, Fires
<1>10. Counts'
  <2> SUFFICES ASSUME NEW c \in TimerNames
               PROVE  CountOf(timer'[c], past'.ran[c], setup.timer[c].amount)
    BY <1>1 DEF Counts
  <2>1. CountOf(timer[c], past.ran[c], setup.timer[c].amount)
    BY DEF IInv, Counts
  <2>2. /\ timer[c] \in TimerRecords /\ timer'[c] \in TimerRecords
        /\ setup.timer[c].amount \in Nat
    BY <1>1, <1>2, <1>7, SetupType, WorldIs DEF Worlds, TimerSettings
  <2>3. Counted(timer[c], timer'[c], setup.timer[c].amount)
    BY <1>2, <1>7
  <2> QED
    BY <1>1, <1>8, <2>1, <2>2, <2>3, CountTicks
<1>11. Dues'
  BY <1>1, <1>4, <1>6 DEF Dues
<1>12. Heard(World, TickedSince(phase))'
  BY <1>1, <1>2, <1>5, <1>6 DEF HeardStill, TickedSince
<1>13. dt' \in Nat
  BY <1>1
<1> QED
  BY <1>1, <1>4, <1>6, <1>8, <1>9, <1>10, <1>11, <1>12, <1>13 DEF IInv

\* A step that makes v of the world, in which triggers, gates, countdowns and changes are as
\* they were, and so is who is heard.
LEMMA QuietStep ==
  ASSUME IInv, NEW v \in Worlds, Becomes(v), UNCHANGED <<setup, phase, dt, past>>,
         v.trigger = trigger, v.gate = gate, v.timer = timer, v.change = change,
         HeardStill(World, v)
  PROVE  IInv' /\ PacedStep
<1>1. /\ World' = v /\ trigger' = v.trigger /\ gate' = v.gate /\ timer' = v.timer
      /\ change' = v.change
  BY BecomesIs
<1>2. Paces' /\ Flips' /\ Counts' /\ Dues' /\ PacedStep
  BY <1>1, OthersStay
<1>3. Heard(World, TickedSince(phase))'
  BY <1>1 DEF IInv, HeardStill, TickedSince
<1> QED
  BY <1>1, <1>2, <1>3 DEF IInv

\* What is left of a pickup that somebody takes.
LEMMA TakenMakes ==
  ASSUME NEW w \in Worlds, NEW p \in PickupNames
  PROVE  LET v == [w EXCEPT !.pickup[p] = Taken(w.pickup[p])]
         IN  v \in Worlds /\ PickupsOnly(w, v) /\ HeardStill(w, v)
<1> DEFINE r == Taken(w.pickup[p])
           v == [w EXCEPT !.pickup[p] = r]
<1>1. r \in PickupRecords
  BY DEF Taken, PickupRecords
<1> HIDE DEF r
<1>2. v \in Worlds /\ PickupsOnly(w, v) /\ v.handle = w.handle /\ v.Item = w.Item
  BY <1>1 DEF Worlds, PickupsOnly
<1> HIDE DEF v
<1>3. HeardStill(w, v)
  BY <1>2, SameHeard DEF PickupsOnly
<1> QED
  BY <1>2, <1>3 DEF v, r

\* What an attribute becomes when a pickup gives to it.
LEMMA GivesMakes ==
  ASSUME NEW w \in Worlds, NEW a \in AttributeNames, NEW g \in Gifts
  PROVE  LET v == [w EXCEPT !.attribute[a] = Given(w.attribute[a], g)]
         IN  v \in Worlds /\ AttributesOnly(w, v) /\ v.change = w.change
<1> DEFINE r == Given(w.attribute[a], g)
<1>1. r \in AttributeRecords
  BY GivenType DEF Worlds
<1> HIDE DEF r
<1>2. LET v == [w EXCEPT !.attribute[a] = r]
      IN  v \in Worlds /\ AttributesOnly(w, v) /\ v.change = w.change
  BY <1>1 DEF Worlds, AttributesOnly
<1> QED
  BY <1>2 DEF r

LEMMA PawnTakesStep ==
  ASSUME IInv, NEW p \in PickupNames, PawnTakes(p)
  PROVE  IInv' /\ PacedStep
<1> DEFINE u == [World EXCEPT !.pickup[p] = Taken(pickup[p])]
           v == PlaySound(u, p)
<1>1. setup \in Setups /\ World \in Worlds /\ UNCHANGED <<setup, phase, dt, past>>
  BY DEF IInv, PawnTakes
<1>2. Becomes(v)
  BY WorldIs DEF PawnTakes
<1>3. u \in Worlds /\ PickupsOnly(World, u) /\ HeardStill(World, u)
  BY <1>1, TakenMakes, WorldIs
<1> HIDE DEF u
<1>4. v \in Worlds /\ PickupsOnly(u, v) /\ HeardStill(u, v)
  BY <1>1, <1>3, PickupPlays
<1> HIDE DEF v
<1>5. /\ v.trigger = trigger /\ v.gate = gate /\ v.timer = timer /\ v.change = change
      /\ HeardStill(World, v)
  BY <1>3, <1>4, WorldIs DEF PickupsOnly, HeardStill
<1> QED
  BY <1>1, <1>2, <1>4, <1>5, QuietStep

LEMMA TakePickupStep ==
  ASSUME IInv, NEW p \in PickupNames, NEW use, TakePickup(p, use)
  PROVE  IInv' /\ PacedStep
<1> DEFINE c == setup.pickup[p]
           left == [World EXCEPT !.pickup[p] = Taken(pickup[p])]
           one == [left EXCEPT !.attribute[c.name] = Given(left.attribute[c.name], c.gift)]
           two == [left EXCEPT !.attribute[c.altName] =
                                  Given(left.attribute[c.altName], c.altGift)]
           first == Useful(attribute[c.name], c.gift)
           u == IF first THEN one ELSE two
           v == PlaySound(u, p)
<1>1. setup \in Setups /\ World \in Worlds /\ UNCHANGED <<setup, phase, dt, past>>
  BY DEF IInv, TakePickup
<1>2. Becomes(v) /\ (~first => c.altName # None)
  BY WorldIs DEF TakePickup
<1>3. /\ c.name \in AttributeNames /\ c.altName \in AttributeNames \cup {None}
      /\ c.gift \in Gifts /\ c.altGift \in Gifts
  BY <1>1, SetupType DEF PickupSettings
<1>4. left \in Worlds /\ PickupsOnly(World, left) /\ HeardStill(World, left)
  BY <1>1, TakenMakes, WorldIs
<1> HIDE DEF left, first, c
<1>5. one \in Worlds /\ AttributesOnly(left, one) /\ one.change = left.change
  BY <1>3, <1>4, GivesMakes
<1>6. ~first => two \in Worlds /\ AttributesOnly(left, two) /\ two.change = left.change
  BY <1>2, <1>3, <1>4, GivesMakes
<1> HIDE DEF one, two
<1>7. u \in Worlds /\ AttributesOnly(left, u) /\ u.change = left.change
  BY <1>5, <1>6
<1> HIDE DEF u
<1>8. HeardStill(left, u)
  BY <1>7, SameHeard DEF AttributesOnly
<1>9. v \in Worlds /\ PickupsOnly(u, v) /\ HeardStill(u, v)
  BY <1>1, <1>7, PickupPlays
<1> HIDE DEF v
<1>10. /\ v.trigger = trigger /\ v.gate = gate /\ v.timer = timer /\ v.change = change
       /\ HeardStill(World, v)
  BY <1>4, <1>7, <1>8, <1>9, WorldIs DEF PickupsOnly, AttributesOnly, HeardStill
<1> QED
  BY <1>1, <1>2, <1>9, <1>10, QuietStep

LEMMA HurtStep ==
  ASSUME IInv, NEW a \in AttributeNames, NEW n \in Hurts, Hurt(a, n)
  PROVE  IInv' /\ PacedStep
<1> DEFINE r == Modify(attribute[a], n)
           v == [World EXCEPT !.attribute[a] = r]
<1>1. World \in Worlds /\ n \in Int
  BY LogicAssumption DEF IInv
<1>2. r \in AttributeRecords
  BY <1>1, SetType, WorldIs DEF Worlds
<1>3. attribute' = [attribute EXCEPT ![a] = r]
      /\ UNCHANGED <<setup, trigger, model, gate, timer, pickup, modifier, change, handle, Item,
                     on, phase, dt, past>>
  BY DEF Hurt
<1> HIDE DEF r
<1>4. /\ v \in Worlds /\ v.trigger = trigger /\ v.model = model /\ v.gate = gate
      /\ v.timer = timer /\ v.pickup = pickup /\ v.modifier = modifier /\ v.change = change
      /\ v.attribute = [attribute EXCEPT ![a] = r] /\ v.handle = handle /\ v.Item = Item
      /\ v.on = on
  BY <1>1, <1>2, WorldIs DEF Worlds
<1> HIDE DEF v
<1>5. Becomes(v)
  BY <1>3, <1>4 DEF Becomes
<1>6. HeardStill(World, v)
  BY <1>4, SameHeard, WorldIs
<1> QED
  BY <1>3, <1>4, <1>5, <1>6, QuietStep

LEMMA InputFlipsStep ==
  ASSUME IInv, NEW x \in Inputs, InputFlips(x)
  PROVE  IInv' /\ PacedStep
<1> DEFINE s == IF x \in on THEN on \ {x} ELSE on \cup {x}
           v == [World EXCEPT !.on = s]
<1>1. World \in Worlds /\ on \in SUBSET Inputs
  BY WorldIs DEF IInv, Worlds
<1>2. s \in SUBSET Inputs
  BY <1>1
<1>3. on' = s
      /\ UNCHANGED <<setup, trigger, model, gate, timer, attributes, handle, Item, phase, dt,
                     past>>
  BY DEF InputFlips
<1> HIDE DEF s
<1>4. /\ v \in Worlds /\ v.trigger = trigger /\ v.model = model /\ v.gate = gate
      /\ v.timer = timer /\ v.pickup = pickup /\ v.modifier = modifier /\ v.change = change
      /\ v.attribute = attribute /\ v.handle = handle /\ v.Item = Item /\ v.on = s
  BY <1>1, <1>2, WorldIs DEF Worlds
<1> HIDE DEF v
<1>5. Becomes(v)
  BY <1>3, <1>4 DEF Becomes, attributes
<1>6. HeardStill(World, v)
  BY <1>4, SameHeard, WorldIs
<1> QED
  BY <1>3, <1>4, <1>5, <1>6, QuietStep

LEMMA SaveAndLoadStep ==
  ASSUME IInv, SaveAndLoad
  PROVE  IInv' /\ PacedStep
<1> DEFINE h == [o \in Owners |-> -1]
           m == [t \in TriggerNames |-> [model[t] EXCEPT !.target = NoTarget]]
           d == [owner |-> CHOOSE o \in Owners : TRUE, loop |-> FALSE]
           q == FreshPool("snd", d)
           f == [e \in ModifierNames |-> FALSE]
           a == [World EXCEPT !.handle = h]
           b == [a EXCEPT !.model = m]
           e == [b EXCEPT !.Item = q]
           v == [e EXCEPT !.modifier = f]
<1>1. World \in Worlds
  BY DEF IInv
<1>2. /\ handle' = h /\ model' = m /\ Item' = q /\ modifier' = f
      /\ UNCHANGED <<setup, trigger, gate, timer, pickup, change, attribute, on, phase, dt,
                     past>>
  BY DEF SaveAndLoad
<1>3. h \in [Owners -> Slots \cup {-1}] /\ f \in [ModifierNames -> BOOLEAN]
  OBVIOUS
<1>4. m \in [TriggerNames -> ModelRecords]
  BY <1>1, WorldIs DEF Worlds, ModelRecords, NoTarget
<1>5. q \in Pools /\ \A i \in Slots : ~q[i].active
  <2>1. d \in Datas
    BY LogicAssumption
  <2> HIDE DEF d
  <2> QED
    BY <2>1, LogicAssumption DEF FreshPool, Pools
<1>6. \A o \in Owners : h[o] = -1
  OBVIOUS
<1> HIDE DEF h, m, q, f
<1>7. /\ a \in Worlds /\ a.trigger = trigger /\ a.gate = gate /\ a.timer = timer
      /\ a.pickup = pickup /\ a.change = change /\ a.attribute = attribute /\ a.on = on
      /\ a.handle = h
  BY <1>1, <1>3, WorldIs DEF Worlds
<1> HIDE DEF a
<1>8. /\ b \in Worlds /\ b.trigger = trigger /\ b.gate = gate /\ b.timer = timer
      /\ b.pickup = pickup /\ b.change = change /\ b.attribute = attribute /\ b.on = on
      /\ b.handle = h /\ b.model = m
  BY <1>4, <1>7 DEF Worlds
<1> HIDE DEF b
<1>9. /\ e \in Worlds /\ e.trigger = trigger /\ e.gate = gate /\ e.timer = timer
      /\ e.pickup = pickup /\ e.change = change /\ e.attribute = attribute /\ e.on = on
      /\ e.handle = h /\ e.model = m /\ e.Item = q
  BY <1>5, <1>8 DEF Worlds
<1> HIDE DEF e
<1>10. /\ v \in Worlds /\ v.trigger = trigger /\ v.gate = gate /\ v.timer = timer
       /\ v.pickup = pickup /\ v.change = change /\ v.attribute = attribute /\ v.on = on
       /\ v.handle = h /\ v.model = m /\ v.Item = q /\ v.modifier = f
  BY <1>3, <1>9 DEF Worlds
<1> HIDE DEF v
<1>11. Becomes(v)
  BY <1>2, <1>10 DEF Becomes
<1>12. HeardStill(World, v)
  BY <1>5, <1>6, <1>10 DEF HeardStill, Heard, Tuned, Owns, Owned, Sings
<1> QED
  BY <1>2, <1>10, <1>11, <1>12, QuietStep

LEMMA NextKeeps ==
  ASSUME IInv, Next
  PROVE  IInv' /\ PacedStep
<1>1. ASSUME NEW t \in TriggerNames, NEW shot \in BOOLEAN, NEW use \in BOOLEAN,
             NEW player \in BOOLEAN, HandleCollision(t, shot, use, player)
      PROVE  IInv' /\ PacedStep
  BY <1>1, HitStep DEF HandleCollision
<1>2. ASSUME NEW t \in TriggerNames, HandleTriggerEvent(t) PROVE IInv' /\ PacedStep
  BY <1>2, HitStep DEF HandleTriggerEvent
<1>3. CASE ModelsTick
  BY <1>3, ModelsTickStep
<1>4. ASSUME NEW ends \in SUBSET Slots, LogicTick(ends) PROVE IInv' /\ PacedStep
  BY <1>4, LogicTickStep
<1>5. CASE AttributesTick
  BY <1>5, AttributesTickStep
<1>6. CASE TimersTick
  BY <1>6, TimersTickStep
<1>7. ASSUME NEW p \in PickupNames, PawnTakes(p) PROVE IInv' /\ PacedStep
  BY <1>7, PawnTakesStep
<1>8. ASSUME NEW p \in PickupNames, NEW use \in BOOLEAN, TakePickup(p, use)
      PROVE  IInv' /\ PacedStep
  BY <1>8, TakePickupStep
<1>9. ASSUME NEW a \in AttributeNames, NEW n \in Hurts, Hurt(a, n)
      PROVE  IInv' /\ PacedStep
  BY <1>9, HurtStep
<1>10. ASSUME NEW x \in Inputs, InputFlips(x) PROVE IInv' /\ PacedStep
  BY <1>10, InputFlipsStep
<1>11. CASE SaveAndLoad
  BY <1>11, SaveAndLoadStep
<1> QED
  BY <1>1, <1>2, <1>3, <1>4, <1>5, <1>6, <1>7, <1>8, <1>9, <1>10, <1>11 DEF Next

LEMMA StutterKeeps ==
  ASSUME IInv, UNCHANGED vars
  PROVE  IInv'
<1>1. /\ World' = World /\ setup' = setup /\ phase' = phase /\ dt' = dt /\ past' = past
      /\ trigger' = trigger /\ gate' = gate /\ timer' = timer /\ change' = change
  BY DEF vars, level, attributes, World
<1>2. Paces' /\ Flips' /\ Counts' /\ Dues'
  BY <1>1, OthersStay
<1> QED
  BY <1>1, <1>2 DEF IInv, TickedSince

------------------------------------------------------------------------------
(* The theorems *)

LEMMA IInvImpliesSounds ==
  ASSUME IInv
  PROVE  SoundsOwned
<1>1. /\ World \in Worlds /\ Item \in Pools /\ Tuned(handle, Item)
      /\ \A o \in Owners : Sings(World, TickedSince(phase), o)
  BY WorldIs DEF IInv, Worlds, Heard
<1>2. ASSUME NEW o \in Owners, handle[o] # -1
      PROVE  LET i == Item[handle[o]] IN IsLive(i) /\ i.data = [owner |-> o, loop |-> TRUE]
  BY <1>1, <1>2 DEF Tuned, Owns, Loop
<1>3. ASSUME NEW i \in Slots, Item[i].active, Item[i].data.loop
      PROVE  LET o == Item[i].data.owner
             IN  /\ handle[o] = i
                 /\ IF o \in TimerNames THEN timer[o].active
                    ELSE phase = "models" \/ model[o].moving
  <2> DEFINE o == Item[i].data.owner
  <2>1. o \in Owners
    BY <1>1, OwnerOf
  <2>2. handle[o] = i /\ handle[o] # -1
    BY <1>1, <1>3, SlotFacts DEF Tuned, Owned
  <2> HIDE DEF o
  <2>3. IF o \in TimerNames THEN timer[o].active ELSE phase = "models" \/ model[o].moving
    BY <1>1, <2>1, <2>2, WorldIs DEF Sings, TickedSince
  <2> QED
    BY <2>2, <2>3 DEF o
<1> QED
  BY <1>2, <1>3 DEF SoundsOwned

LEMMA IInvImpliesCounts ==
  ASSUME IInv
  PROVE  CountsExactly
<1>1. /\ \A c \in TimerNames : CountOf(timer[c], past.ran[c], setup.timer[c].amount)
      /\ \A h \in ChangeNames : Due(change[h], setup.change[h])
  BY DEF IInv, Counts, Dues
<1>2. ASSUME NEW h \in ChangeNames
      PROVE  LET c    == setup.change[h]
                 s    == change[h]
                 owed == s.increment * (c.time - s.count) - s.given * Whole(c)
                 off  == MaxError * (c.time - s.count)
             IN  /\ owed < Whole(c) + off /\ -owed < Whole(c) + off
                 /\ s.active => s.count >= 0
  <2> DEFINE c == setup.change[h]
             s == change[h]
             owed == s.increment * (c.time - s.count) - s.given * Whole(c)
             off == MaxError * (c.time - s.count)
  <2>1. s \in ChangeRecords /\ c \in ChangeSettings
    <3>1. change \in [ChangeNames -> ChangeRecords]
      BY DEF IInv, Worlds, World
    <3>2. setup.change[h] \in ChangeSettings
      BY SetupType DEF IInv
    <3> QED
      BY <3>1, <3>2
  <2>2. Due(s, c)
    BY <1>1
  <2>3. owed \in Int /\ off \in Int /\ s.total \in Int /\ Whole(c) \in Int
    BY <2>1, FloatAssumption DEF ChangeRecords, ChangeSettings, Whole
  <2>4. /\ s.total - owed <= off /\ owed - s.total <= off
        /\ s.total < Whole(c) /\ -s.total < Whole(c) /\ (s.active => s.count >= 0)
    BY <2>2 DEF Due
  <2> HIDE DEF owed, off, s, c
  <2>5. owed < Whole(c) + off /\ -owed < Whole(c) + off
    BY <2>3, <2>4
  <2> QED
    BY <2>4, <2>5 DEF owed, off, s, c
<1> QED
  BY <1>1, <1>2 DEF CountsExactly, CountOf

LEMMA IInvImpliesFlips ==
  ASSUME IInv
  PROVE  FlipFlopExact
<1>1. \A g \in GateNames, t \in TriggerNames :
        FollowsBy(g, t) /\ IsLong(t) => FlipOf(trigger[t], gate[g], past.odd[t])
  BY DEF IInv, Flips
<1> QED
  BY <1>1 DEF FlipFlopExact, FollowsBy, IsLong, FlipOf

\* The invariant is inductive: every state of every level satisfies it.
THEOREM AlwaysInvariant == Spec => []IInv
<1>1. IInv /\ [Next]_vars => IInv'
  BY NextKeeps, StutterKeeps
<1> QED
  BY <1>1, InitHolds, PTL DEF Spec

\* Whoever keeps the handle of a sound is the one who plays it, whatever else was added to
\* the pool or ended in it, and no looping sound outlives what it belongs to
\* (CTriggers::Tick, CCountDown::Tick).
THEOREM SoundsAlwaysOwned == Spec => []SoundsOwned
BY AlwaysInvariant, IInvImpliesSounds, PTL

\* Countdowns last as long as they should, and changes give what they should, to less than
\* one, however the frames fall (CCountDown::Tick, CChangeAttribute::Tick).
THEOREM AlwaysCountsExactly == Spec => []CountsExactly
BY AlwaysInvariant, IInvImpliesCounts, PTL

\* A flip-flop behind a trigger misses no pulse and takes none for two (CLogic::Tick).
THEOREM FlipFlopsAlwaysExact == Spec => []FlipFlopExact
BY AlwaysInvariant, IInvImpliesFlips, PTL

\* No trigger fires again before its cycle is over, or is on for less than TimeOn, and a
\* one-shot fires once (CTriggers::Tick, HandleCollision).
THEOREM TriggersKeepPace == Spec => Paced
<1>1. IInv /\ [Next]_vars => [PacedStep]_vars
  BY NextKeeps
<1> QED
  BY <1>1, AlwaysInvariant, PTL DEF Spec, Paced, PacedStep
==============================================================================

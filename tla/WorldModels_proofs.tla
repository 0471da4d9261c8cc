------------------------- MODULE WorldModels_proofs -------------------------
(***************************************************************************)
(* Proofs about WorldModels, for any number of movers and any links        *)
(* between them, any level, and a pool of effects of any size.             *)
(***************************************************************************)
EXTENDS WorldModels, WellFoundedInduction, TLAPS

------------------------------------------------------------------------------
(* What repeats: the calls of TriggerNextDoor and the ticks of a frame *)

\* A set of natural numbers that holds 0 and the successors of its members holds all.
LEMMA Induct ==
  ASSUME NEW S, 0 \in S, \A n \in Nat : n \in S => n + 1 \in S
  PROVE  \A n \in Nat : n \in S
<1> DEFINE T == {n \in Nat : n \notin S}
           R == OpToRel(<, Nat)
<1>1. SUFFICES ASSUME T # {} PROVE FALSE
  OBVIOUS
<1>2. IsWellFoundedOn(R, Nat)
  BY NatLessThanWellFounded, Zenon
<1> HIDE DEF R
<1>3. PICK x \in T : \A y \in T : <<y, x>> \notin R
  BY <1>1, <1>2, WFMin
<1>4. x \in Nat \ {0} /\ x - 1 \in Nat /\ <<x - 1, x>> \in R
  BY DEF R, OpToRel
<1> QED
  BY <1>3, <1>4

\* The calls of TriggerNextDoor: what each call makes of the one before.
IsChain(f, m, w, d, shot) ==
  f = [n \in 0 .. m |-> IF n = 0 THEN [w |-> w, at |-> Linked(d)] ELSE Call(f[n - 1], shot)]

LEMMA ChainExists ==
  ASSUME NEW w, NEW d, NEW shot
  PROVE  \A m \in Nat : \E f : IsChain(f, m, w, d, shot)
<1> DEFINE S == {m \in Nat : \E f : IsChain(f, m, w, d, shot)}
           s == [w |-> w, at |-> Linked(d)]
<1>1. 0 \in S
  <2>1. IsChain([n \in 0 .. 0 |-> s], 0, w, d, shot)
    BY DEF IsChain
  <2> QED
    BY <2>1
<1>2. ASSUME NEW m \in Nat, m \in S PROVE m + 1 \in S
  <2>1. PICK f : IsChain(f, m, w, d, shot)
    BY <1>2
  <2> DEFINE g == [n \in 0 .. m + 1 |-> IF n = m + 1 THEN Call(f[m], shot) ELSE f[n]]
  <2>2. ASSUME NEW n \in 0 .. m + 1
        PROVE  g[n] = IF n = 0 THEN s ELSE Call(g[n - 1], shot)
    <3>1. CASE n = m + 1
      <4>1. g[n] = Call(f[m], shot) /\ g[n - 1] = f[m]
        BY <3>1
      <4> QED
        BY <4>1, <3>1
    <3>2. CASE n # m + 1
      <4>1. n \in 0 .. m
        BY <3>2
      <4>2. f[n] = IF n = 0 THEN s ELSE Call(f[n - 1], shot)
        BY <2>1, <4>1 DEF IsChain
      <4>3. g[n] = f[n] /\ (n # 0 => g[n - 1] = f[n - 1])
        BY <4>1
      <4> QED
        BY <4>2, <4>3
    <3> QED
      BY <3>1, <3>2
  <2>3. DOMAIN g = 0 .. m + 1 /\ g = [n \in 0 .. m + 1 |-> g[n]]
    OBVIOUS
  <2> HIDE DEF g, s
  <2>4. g = [n \in 0 .. m + 1 |-> IF n = 0 THEN s ELSE Call(g[n - 1], shot)]
    BY <2>2, <2>3
  <2>5. IsChain(g, m + 1, w, d, shot)
    BY <2>4 DEF IsChain, s
  <2> QED
    BY <2>5
<1> HIDE DEF S
<1>3. \A m \in Nat : m \in S
  BY <1>1, <1>2, Induct
<1> QED
  BY <1>3 DEF S

\* What holds after the first call, and after every call if it held before it, holds of
\* what the movers linked to d make of w.
LEMMA FollowKeeps ==
  ASSUME NEW w, NEW d, NEW shot, NEW P,
         Call([w |-> w, at |-> Linked(d)], shot) \in P,
         \A s \in P : Call(s, shot) \in P
  PROVE  Follow(w, d, shot) \in P
<1> DEFINE N == Len(Movers) + 1
           s == [w |-> w, at |-> Linked(d)]
<1>1. N \in Nat \ {0}
  BY WorldAssumption
<1>2. PICK f : IsChain(f, N, w, d, shot)
  BY <1>1, ChainExists
<1> DEFINE A == CHOOSE h : IsChain(h, N, w, d, shot)
<1>3. IsChain(A, N, w, d, shot)
  BY <1>2
<1>4. Follow(w, d, shot) = A[N]
  BY DEF Follow, IsChain
<1> HIDE DEF A, N
<1>5. A[0] = s /\ \A n \in 1 .. N : A[n] = Call(A[n - 1], shot)
  BY <1>1, <1>3 DEF IsChain
<1> DEFINE S == {n \in Nat : n < N => A[n + 1] \in P}
<1>6. 0 \in S
  <2>1. A[1] = Call(A[0], shot)
    BY <1>1, <1>5
  <2> QED
    BY <2>1, <1>5
<1>7. ASSUME NEW n \in Nat, n \in S PROVE n + 1 \in S
  <2>1. SUFFICES ASSUME n + 1 < N PROVE A[n + 1 + 1] \in P
    OBVIOUS
  <2>2. A[n + 1] \in P
    BY <1>1, <1>7, <2>1
  <2>3. A[n + 1 + 1] = Call(A[n + 1], shot)
    BY <1>1, <1>5, <2>1
  <2> QED
    BY <2>2, <2>3
<1> HIDE DEF S
<1>8. N - 1 \in S
  BY <1>1, <1>6, <1>7, Induct
<1> QED
  BY <1>1, <1>4, <1>8 DEF S

\* The same of the ticks of the movers in their order.
IsRound(f, m, w) ==
  f = [n \in 0 .. m |-> IF n = 0 THEN w ELSE TickMover(f[n - 1], Movers[n])]

LEMMA RoundExists ==
  ASSUME NEW w
  PROVE  \A m \in Nat : \E f : IsRound(f, m, w)
<1> DEFINE S == {m \in Nat : \E f : IsRound(f, m, w)}
<1>1. 0 \in S
  <2>1. IsRound([n \in 0 .. 0 |-> w], 0, w)
    BY DEF IsRound
  <2> QED
    BY <2>1
<1>2. ASSUME NEW m \in Nat, m \in S PROVE m + 1 \in S
  <2>1. PICK f : IsRound(f, m, w)
    BY <1>2
  <2> DEFINE g == [n \in 0 .. m + 1 |->
                     IF n = m + 1 THEN TickMover(f[m], Movers[m + 1]) ELSE f[n]]
  <2>2. ASSUME NEW n \in 0 .. m + 1
        PROVE  g[n] = IF n = 0 THEN w ELSE TickMover(g[n - 1], Movers[n])
    <3>1. CASE n = m + 1
      <4>1. g[n] = TickMover(f[m], Movers[m + 1]) /\ g[n - 1] = f[m]
        BY <3>1
      <4> QED
        BY <4>1, <3>1
    <3>2. CASE n # m + 1
      <4>1. n \in 0 .. m
        BY <3>2
      <4>2. f[n] = IF n = 0 THEN w ELSE TickMover(f[n - 1], Movers[n])
        BY <2>1, <4>1 DEF IsRound
      <4>3. g[n] = f[n] /\ (n # 0 => g[n - 1] = f[n - 1])
        BY <4>1
      <4> QED
        BY <4>2, <4>3
    <3> QED
      BY <3>1, <3>2
  <2>3. DOMAIN g = 0 .. m + 1 /\ g = [n \in 0 .. m + 1 |-> g[n]]
    OBVIOUS
  <2> HIDE DEF g
  <2>4. g = [n \in 0 .. m + 1 |-> IF n = 0 THEN w ELSE TickMover(g[n - 1], Movers[n])]
    BY <2>2, <2>3
  <2>5. IsRound(g, m + 1, w)
    BY <2>4 DEF IsRound
  <2> QED
    BY <2>5
<1> HIDE DEF S
<1>3. \A m \in Nat : m \in S
  BY <1>1, <1>2, Induct
<1> QED
  BY <1>3 DEF S

\* What holds before the first mover ticks, P[0], and by each tick becomes what holds
\* then, P[n], holds in the end.
LEMMA RoundKeeps ==
  ASSUME NEW w, NEW P, w \in P[0],
         \A n \in 1 .. Len(Movers) : \A v \in P[n - 1] : TickMover(v, Movers[n]) \in P[n]
  PROVE  TickMovers(w) \in P[Len(Movers)]
<1> DEFINE N == Len(Movers)
<1>1. N \in Nat
  BY WorldAssumption
<1>2. PICK f : IsRound(f, N, w)
  BY <1>1, RoundExists
<1> DEFINE A == CHOOSE h : IsRound(h, N, w)
<1>3. IsRound(A, N, w)
  BY <1>2
<1>4. TickMovers(w) = A[N]
  BY DEF TickMovers, IsRound
<1> HIDE DEF A
<1>5. A[0] = w /\ \A n \in 1 .. N : A[n] = TickMover(A[n - 1], Movers[n])
  BY <1>1, <1>3 DEF IsRound
<1> DEFINE S == {n \in Nat : n <= N => A[n] \in P[n]}
<1>6. 0 \in S
  BY <1>5
<1>7. ASSUME NEW n \in Nat, n \in S PROVE n + 1 \in S
  <2>1. SUFFICES ASSUME n + 1 <= N PROVE A[n + 1] \in P[n + 1]
    OBVIOUS
  <2>2. A[n] \in P[n]
    BY <1>1, <1>7, <2>1
  <2>3. A[n + 1] = TickMover(A[n], Movers[n + 1]) /\ n + 1 \in 1 .. N /\ n + 1 - 1 = n
    BY <1>1, <1>5, <2>1
  <2> QED
    BY <2>2, <2>3
<1> HIDE DEF S
<1>8. N \in S
  BY <1>1, <1>6, <1>7, Induct
<1> QED
  BY <1>1, <1>4, <1>8 DEF S

------------------------------------------------------------------------------
(* What the handlers work on, and the sounds *)

MoverRecords == [inAnimation : BOOLEAN, trigger : BOOLEAN, callBack : 0 .. 2,
                 handle : Slots \cup {-1}]

ModelRecords == [moving : BOOLEAN, forward : BOOLEAN, hasMoved : BOOLEAN, time : Int,
                 start : Int, target : Int, index : Int, wrap : BOOLEAN,
                 colliding : BOOLEAN]

Worlds == [mover : [Names -> MoverRecords], model : [Names -> ModelRecords], Item : Pools]

Loop(d) == [owner |-> d, loop |-> TRUE]

\* Item_Add has a place to go, or none.
LEMMA FirstFreeExists ==
  ASSUME NEW p
  PROVE  \E i \in Slots \cup {-1} : IsFirstFree(p, i)
<1> DEFINE T == {j \in Slots : ~p[j].active}
           R == OpToRel(<, Nat)
<1>1. CASE T = {}
  <2>1. IsFirstFree(p, -1)
    BY <1>1 DEF IsFirstFree
  <2> QED
    BY <2>1
<1>2. CASE T # {}
  <2>1. IsWellFoundedOn(R, Nat) /\ T \subseteq Nat
    <3>1. IsWellFoundedOn(R, Nat)
      BY NatLessThanWellFounded, Zenon
    <3>2. T \subseteq Nat
      BY PoolAssumption DEF Slots
    <3> QED
      BY <3>1, <3>2
  <2> HIDE DEF R
  <2>2. PICK i \in T : \A j \in T : <<j, i>> \notin R
    BY <1>2, <2>1, WFMin
  <2>3. ASSUME NEW j \in Slots, j < i PROVE p[j].active
    <3>1. i \in Nat /\ j \in Nat
      BY PoolAssumption DEF Slots
    <3>2. <<j, i>> \in R
      BY <3>1, <2>3 DEF R, OpToRel
    <3> QED
      BY <2>2, <3>2
  <2>4. IsFirstFree(p, i)
    BY <2>3 DEF IsFirstFree
  <2> QED
    BY <2>4
<1> QED
  BY <1>1, <1>2

\* Playing a sound for d either adds nothing and forgets the handle, or takes a place
\* that was free and keeps its number when the sound loops.
Played(w, v, d, loop) ==
  \/ v.Item = w.Item /\ v.mover[d].handle = -1
  \/ \E i \in Slots :
       /\ ~w.Item[i].active
       /\ \A j \in Slots \ {i} : v.Item[j] = w.Item[j]
       /\ IsLive(v.Item[i]) /\ v.Item[i].data = [owner |-> d, loop |-> loop]
       /\ v.mover[d].handle = IF loop THEN i ELSE -1

\* Only the handle of d and the sounds change.
OnlySound(w, v, d) ==
  /\ v \in Worlds /\ v.model = w.model
  /\ \A e \in Names \ {d} : v.mover[e] = w.mover[e]
  /\ v.mover[d].inAnimation = w.mover[d].inAnimation
  /\ v.mover[d].trigger = w.mover[d].trigger
  /\ v.mover[d].callBack = w.mover[d].callBack

LEMMA SetupType ==
  ASSUME setup \in Setups, NEW d \in Names
  PROVE  setup[d] \in Settings
  BY WorldAssumption

LEMMA PlaySoundMakes ==
  ASSUME setup \in Setups, NEW w \in Worlds, NEW d \in Names
  PROVE  LET v == PlaySound(w, d)
         IN  OnlySound(w, v, d) /\ \E loop \in BOOLEAN : Played(w, v, d, loop)
<1> DEFINE loop == setup[d].sound = "loop"
           i == CHOOSE j \in Slots \cup {-1} : IsFirstFree(w.Item, j)
           v == PlaySound(w, d)
           new == [owner |-> d, loop |-> loop]
<1>1. i \in Slots \cup {-1} /\ IsFirstFree(w.Item, i)
  BY FirstFreeExists
<1>2. v = IF setup[d].sound = "none" THEN [w EXCEPT !.mover[d].handle = -1]
          ELSE [w EXCEPT !.Item = ItemAdd(@, i, "snd", new),
                         !.mover[d].handle = IF loop THEN i ELSE -1]
  BY DEF PlaySound
<1>3. new \in Datas /\ loop \in BOOLEAN
  BY WorldAssumption
<1>4. ItemAdd(w.Item, i, "snd", new) \in Pools
  <2>1. CASE i = -1
    BY <2>1 DEF ItemAdd, Worlds
  <2>2. CASE i # -1
    <3>1. i \in Slots /\ "snd" \in EffTypes /\ w.Item \in Pools
      BY <1>1, <2>2, WorldAssumption DEF Worlds
    <3> HIDE DEF i, new
    <3>2. ItemAdd(w.Item, i, "snd", new)
            = [w.Item EXCEPT ![i] = [@ EXCEPT !.active = TRUE, !.removeNext = FALSE,
                                              !.type = "snd", !.data = new]]
      BY <2>2 DEF ItemAdd
    <3> QED
      BY <1>3, <3>1, <3>2 DEF Pools
  <2> QED
    BY <2>1, <2>2
<1> HIDE DEF i, v, new, loop
<1>5. CASE setup[d].sound = "none"
  <2>1. v = [w EXCEPT !.mover[d].handle = -1]
    BY <1>2, <1>5
  <2>2. OnlySound(w, v, d)
    BY <2>1 DEF OnlySound, Worlds, MoverRecords
  <2>3. Played(w, v, d, FALSE)
    BY <2>1 DEF Played, Worlds, MoverRecords
  <2> QED
    BY <2>2, <2>3 DEF v
<1>6. CASE setup[d].sound # "none"
  <2> DEFINE p == ItemAdd(w.Item, i, "snd", new)
  <2>1. v = [w EXCEPT !.Item = p, !.mover[d].handle = IF loop THEN i ELSE -1]
    BY <1>2, <1>6 DEF Worlds
  <2>2. p \in Pools
    BY <1>4
  <2>3. CASE i = -1
    <3>1. p = w.Item
      BY <2>3 DEF ItemAdd
    <3>2. v = [w EXCEPT !.mover[d].handle = -1]
      BY <2>1, <2>3, <3>1 DEF Worlds
    <3>3. OnlySound(w, v, d)
      BY <3>2 DEF OnlySound, Worlds, MoverRecords
    <3>4. Played(w, v, d, loop)
      BY <3>2 DEF Played, Worlds, MoverRecords
    <3> QED
      BY <3>3, <3>4, <1>3 DEF v
  <2>4. CASE i # -1
    <3>1. i \in Slots /\ ~w.Item[i].active
      BY <1>1, <2>4 DEF IsFirstFree
    <3>2. p = [w.Item EXCEPT ![i] = [@ EXCEPT !.active = TRUE, !.removeNext = FALSE,
                                              !.type = "snd", !.data = new]]
      BY <2>4 DEF ItemAdd
    <3>3. /\ \A j \in Slots \ {i} : p[j] = w.Item[j]
          /\ IsLive(p[i]) /\ p[i].data = new
      BY <3>1, <3>2 DEF IsLive, Worlds, Pools
    <3> DEFINE k == IF loop THEN i ELSE -1
    <3>4. k \in Slots \cup {-1} /\ v = [w EXCEPT !.Item = p, !.mover[d].handle = k]
      BY <2>1, <3>1
    <3> HIDE DEF p, k
    <3>5. OnlySound(w, v, d)
      BY <2>2, <3>4 DEF OnlySound, Worlds, MoverRecords
    <3>6. v.Item = p /\ v.mover[d].handle = k
      BY <3>4 DEF Worlds, MoverRecords
    <3>7. Played(w, v, d, loop)
      BY <3>1, <3>3, <3>6 DEF Played, new, k
    <3> QED
      BY <3>5, <3>7, <1>3 DEF v
  <2> QED
    BY <2>3, <2>4
<1> QED
  BY <1>5, <1>6

\* The sound of d is deleted and its handle forgotten, if it has one.
LEMMA SilenceMakes ==
  ASSUME NEW w \in Worlds, NEW d \in Names
  PROVE  LET v == Silence(w, d)
         IN  /\ OnlySound(w, v, d) /\ v.mover[d].handle = -1
             /\ \A j \in Slots : j # w.mover[d].handle => v.Item[j] = w.Item[j]
             /\ w.mover[d].handle # -1 =>
                  LET h == w.mover[d].handle
                  IN  ~v.Item[h].active
<1> DEFINE h == w.mover[d].handle
           v == Silence(w, d)
<1>1. h \in Slots \cup {-1}
  BY DEF Worlds, MoverRecords
<1>2. CASE h = -1
  BY <1>2 DEF Silence, OnlySound
<1>3. CASE h # -1
  <2> DEFINE p == ItemDelete(w.Item, "snd", h)
  <2>1. v = [w EXCEPT !.Item = p, !.mover[d].handle = -1]
    BY <1>3 DEF Silence, Worlds
  <2>2. h \in Slots /\ w.Item[h].type = "snd"
    BY <1>1, <1>3, WorldAssumption DEF Worlds, Pools
  <2>3. /\ p \in Pools
        /\ \A j \in Slots : j # h => p[j] = w.Item[j]
        /\ ~p[h].active
    BY <2>2 DEF ItemDelete, Matches, Worlds, Pools
  <2> HIDE DEF p, v, h
  <2>4. v.Item = p /\ v.mover[d].handle = -1
    BY <2>1 DEF Worlds, MoverRecords
  <2>5. OnlySound(w, v, d)
    BY <2>1, <2>3 DEF OnlySound, Worlds, MoverRecords
  <2> QED
    BY <2>3, <2>4, <2>5 DEF v, h
<1> QED
  BY <1>2, <1>3

------------------------------------------------------------------------------
(* What starting and stopping a mover changes *)

\* Start and ReStart, by GoesOn.
Begun(m, d) == IF GoesOn(d) /\ m.hasMoved THEN ReStart(m) ELSE Start(m)

LEMMA ModelOps ==
  ASSUME NEW m \in ModelRecords, NEW d
  PROVE  /\ Begun(m, d) \in ModelRecords /\ Begun(m, d).moving /\ Begun(m, d).hasMoved
         /\ Stop(m) \in ModelRecords /\ ~Stop(m).moving
         /\ Stop(m).hasMoved = m.hasMoved /\ Stop(m).time = m.time
<1>1. Start(m) \in ModelRecords /\ Start(m).moving /\ Start(m).hasMoved
  <2> DEFINE k == [m EXCEPT !.forward = TRUE, !.moving = TRUE, !.hasMoved = TRUE]
  <2>1. k \in ModelRecords /\ k.moving /\ k.hasMoved
    BY DEF ModelRecords
  <2> DEFINE l == [k EXCEPT !.time = 0]
  <2>2. Start(m) = [l EXCEPT !.start = 0]
    BY DEF Start
  <2> HIDE DEF k
  <2>3. l \in ModelRecords /\ l.moving /\ l.hasMoved
    BY <2>1 DEF ModelRecords
  <2> HIDE DEF l
  <2> QED
    BY <2>2, <2>3 DEF ModelRecords
<1>2. /\ ReStart(m) \in ModelRecords /\ ReStart(m).moving
      /\ ReStart(m).hasMoved = m.hasMoved
  BY DEF ReStart, ModelRecords
<1>3. /\ Stop(m) \in ModelRecords /\ ~Stop(m).moving
      /\ Stop(m).hasMoved = m.hasMoved /\ Stop(m).time = m.time
  BY DEF Stop, ModelRecords
<1> QED
  BY <1>1, <1>2, <1>3 DEF Begun

\* Nothing happens to the other movers.
Elsewhere(w, v, d) ==
  \A e \in Names \ {d} : v.mover[e] = w.mover[e] /\ v.model[e] = w.model[e]

LEMMA ActivateMakes ==
  ASSUME setup \in Setups, NEW w \in Worlds, NEW d \in Names
  PROVE  LET v == Activate(w, d)
         IN  /\ v \in Worlds /\ Elsewhere(w, v, d)
             /\ v.mover[d].inAnimation /\ v.mover[d].trigger
             /\ v.mover[d].callBack = w.mover[d].callBack
             /\ v.model[d] = Begun(w.model[d], d)
             /\ \E loop \in BOOLEAN : Played(w, v, d, loop)
<1> DEFINE b == Begun(w.model[d], d)
           u == [w EXCEPT !.mover[d].trigger = TRUE, !.mover[d].inAnimation = TRUE,
                          !.model[d] = b]
           v == PlaySound(u, d)
<1>1. Activate(w, d) = v
  BY DEF Activate, Begun
<1>2. b \in ModelRecords
  BY ModelOps DEF Worlds
<1> HIDE DEF b
<1>3. /\ u \in Worlds /\ Elsewhere(w, u, d) /\ u.Item = w.Item
      /\ u.mover[d].inAnimation /\ u.mover[d].trigger
      /\ u.mover[d].callBack = w.mover[d].callBack /\ u.model[d] = b
  <2> DEFINE r == [w.mover[d] EXCEPT !.trigger = TRUE, !.inAnimation = TRUE]
  <2>1. r \in MoverRecords /\ r.inAnimation /\ r.trigger /\ r.callBack = w.mover[d].callBack
    BY DEF Worlds, MoverRecords
  <2>2. u = [w EXCEPT !.mover = [@ EXCEPT ![d] = r], !.model = [@ EXCEPT ![d] = b]]
    BY DEF Worlds, MoverRecords
  <2> HIDE DEF r, u
  <2> QED
    BY <1>2, <2>1, <2>2 DEF Worlds, Elsewhere
<1> HIDE DEF u
<1>4. OnlySound(u, v, d) /\ \E loop \in BOOLEAN : Played(u, v, d, loop)
  BY <1>3, PlaySoundMakes
<1> HIDE DEF v
<1>5. PICK loop \in BOOLEAN : Played(u, v, d, loop)
  BY <1>4
<1>6. Played(w, v, d, loop)
  BY <1>3, <1>5 DEF Played
<1>7. Elsewhere(w, v, d)
  BY <1>3, <1>4 DEF Elsewhere, OnlySound
<1> QED
  BY <1>1, <1>3, <1>4, <1>6, <1>7 DEF OnlySound, b

\* The sound of d has ended, and d has forgotten it.
Silenced(w, v, d) ==
  /\ v.mover[d].handle = -1
  /\ \A j \in Slots : j # w.mover[d].handle => v.Item[j] = w.Item[j]
  /\ w.mover[d].handle # -1 => LET h == w.mover[d].handle IN ~v.Item[h].active

LEMMA UntriggerMakes ==
  ASSUME setup \in Setups, NEW w \in Worlds, NEW d \in Names
  PROVE  LET v == Untrigger(w, d)
         IN  /\ v \in Worlds /\ Elsewhere(w, v, d) /\ Silenced(w, v, d)
             /\ v.mover[d].inAnimation = w.mover[d].inAnimation /\ ~v.mover[d].trigger
             /\ v.mover[d].callBack = w.mover[d].callBack
             /\ v.model[d] = Stop(w.model[d])
<1> DEFINE b == Stop(w.model[d])
           u == [w EXCEPT !.mover[d].trigger = FALSE, !.model[d] = b]
           v == Silence(u, d)
<1>1. Untrigger(w, d) = v
  BY DEF Untrigger
<1>2. b \in ModelRecords
  BY ModelOps DEF Worlds
<1> HIDE DEF b
<1>3. /\ u \in Worlds /\ Elsewhere(w, u, d) /\ u.Item = w.Item
      /\ u.mover[d].handle = w.mover[d].handle
      /\ u.mover[d].inAnimation = w.mover[d].inAnimation /\ ~u.mover[d].trigger
      /\ u.mover[d].callBack = w.mover[d].callBack /\ u.model[d] = b
  BY <1>2 DEF Worlds, MoverRecords, Elsewhere
<1> HIDE DEF u
<1>4. OnlySound(u, v, d) /\ Silenced(u, v, d)
  BY <1>3, SilenceMakes DEF Silenced
<1> HIDE DEF v
<1>5. Silenced(w, v, d)
  BY <1>3, <1>4 DEF Silenced
<1>6. Elsewhere(w, v, d)
  BY <1>3, <1>4 DEF Elsewhere, OnlySound
<1> QED
  BY <1>1, <1>3, <1>4, <1>5, <1>6 DEF OnlySound, b

LEMMA TickStoppedMakes ==
  ASSUME setup \in Setups, NEW w \in Worlds, NEW d \in Names
  PROVE  LET v == TickStopped(w, d)
         IN  /\ v \in Worlds /\ Elsewhere(w, v, d) /\ v.model[d] = w.model[d]
             /\ v = w \/ /\ Silenced(w, v, d)
                         /\ w.mover[d].inAnimation /\ ~w.model[d].moving
                         /\ v.mover[d].inAnimation = setup[d].oneShot
                         /\ v.mover[d].trigger
                              = (w.mover[d].trigger /\ setup[d].oneShot)
             /\ w.mover[d].inAnimation /\ ~w.model[d].moving =>
                  /\ v.mover[d].inAnimation = setup[d].oneShot
                  /\ v.mover[d].trigger = (w.mover[d].trigger /\ setup[d].oneShot)
<1> DEFINE one == setup[d].oneShot
           u == [w EXCEPT !.mover[d].inAnimation = one, !.mover[d].trigger = @ /\ one]
           v == Silence(u, d)
<1>1. CASE ~w.mover[d].inAnimation \/ w.model[d].moving
  BY <1>1 DEF TickStopped, Elsewhere
<1>2. CASE w.mover[d].inAnimation /\ ~w.model[d].moving
  <2>1. TickStopped(w, d) = v
    BY <1>2 DEF TickStopped
  <2>2. one \in BOOLEAN
    BY SetupType DEF Settings
  <2> HIDE DEF one
  <2>3. /\ u \in Worlds /\ Elsewhere(w, u, d) /\ u.Item = w.Item
        /\ u.mover[d].handle = w.mover[d].handle /\ u.model = w.model
        /\ u.mover[d].inAnimation = one
        /\ u.mover[d].trigger = (w.mover[d].trigger /\ one)
    BY <2>2 DEF Worlds, MoverRecords, Elsewhere
  <2> HIDE DEF u
  <2>4. OnlySound(u, v, d) /\ Silenced(u, v, d)
    BY <2>3, SilenceMakes DEF Silenced
  <2> HIDE DEF v
  <2>5. Silenced(w, v, d)
    BY <2>3, <2>4 DEF Silenced
  <2>6. Elsewhere(w, v, d)
    BY <2>3, <2>4 DEF Elsewhere, OnlySound
  <2> QED
    BY <1>2, <2>1, <2>3, <2>4, <2>5, <2>6 DEF OnlySound, one
<1> QED
  BY <1>1, <1>2 DEF Worlds, MoverRecords, ModelRecords

------------------------------------------------------------------------------
(***************************************************************************)
(* The invariant, of a world between two steps of a handler.  T are the    *)
(* movers that have ticked in this frame: until then the model of a mover  *)
(* may have stopped and its sound go on.                                   *)
(***************************************************************************)

\* NeverStuck
Rearmed(w, d) == w.mover[d].trigger /\ ~w.mover[d].inAnimation => setup[d].auto

\* A mover that may be started is at rest, and makes no sound: the handle that PlaySound
\* overwrites is that of no sound.
AtRest(w, d) ==
  ~setup[d].scripted /\ Idle(w, d) => ~w.model[d].moving /\ w.mover[d].handle = -1

\* The movers OneShotOnce is about.
Once(d) == /\ setup[d].oneShot /\ ~setup[d].scripted
           /\ setup[d].auto => setup[d].trigger = "none"

\* Once it has moved, such a mover is never idle again ...
Spent(w, d) == Once(d) /\ w.model[d].hasMoved => ~Idle(w, d)

\* ... and if it was at rest when the step began, it is where it was.
Stays(w, d) ==
  Once(d) /\ model[d].hasMoved /\ ~model[d].moving =>
    w.model[d].hasMoved /\ ~w.model[d].moving /\ w.model[d].time = model[d].time

Armed(w, d) == Rearmed(w, d) /\ AtRest(w, d) /\ Spent(w, d) /\ Stays(w, d)

\* The two halves of SoundsOwned.
Owns(w, d) ==
  w.mover[d].handle # -1 =>
    LET i == w.Item[w.mover[d].handle] IN IsLive(i) /\ i.data = Loop(d)

Owned(w, T, i) ==
  w.Item[i].active /\ w.Item[i].data.loop =>
    LET d == w.Item[i].data.owner
    IN  setup[d].scripted \/ (w.mover[d].handle = i /\ (d \in T => w.model[d].moving))

Heard(w, T) == (\A d \in Names : Owns(w, d)) /\ (\A i \in Slots : Owned(w, T, i))

Good(w, T) == w \in Worlds /\ (\A d \in Names : Armed(w, d)) /\ Heard(w, T)

Inv == setup \in Setups /\ on \subseteq Triggers /\ Good(World, Names)

\* A sound played for a mover that has none keeps every sound owned.
LEMMA PlayedKeeps ==
  ASSUME NEW w \in Worlds, NEW v \in Worlds, NEW d \in Names, NEW T,
         Heard(w, T), \A e \in Names \ {d} : v.mover[e] = w.mover[e] /\ v.model[e] = w.model[e],
         setup[d].scripted \/ w.mover[d].handle = -1,
         setup[d].scripted \/ v.model[d].moving,
         NEW loop \in BOOLEAN, Played(w, v, d, loop)
  PROVE  Heard(v, T)
<1>1. CASE v.Item = w.Item /\ v.mover[d].handle = -1
  <2>1. ASSUME NEW e \in Names PROVE Owns(v, e)
    BY <1>1 DEF Heard, Owns
  <2>2. ASSUME NEW i \in Slots PROVE Owned(v, T, i)
    <3>1. Owned(w, T, i) /\ w.Item[i].data.owner \in Names
      BY WorldAssumption DEF Heard, Worlds, Pools
    <3>2. -1 \notin Slots
      BY PoolAssumption DEF Slots
    <3> QED
      BY <1>1, <3>1, <3>2 DEF Owned
  <2> QED
    BY <2>1, <2>2 DEF Heard
<1>2. CASE ~(v.Item = w.Item /\ v.mover[d].handle = -1)
  <2>1. PICK k \in Slots :
          /\ ~w.Item[k].active
          /\ \A j \in Slots \ {k} : v.Item[j] = w.Item[j]
          /\ IsLive(v.Item[k]) /\ v.Item[k].data = [owner |-> d, loop |-> loop]
          /\ v.mover[d].handle = IF loop THEN k ELSE -1
    BY <1>2 DEF Played
  <2>2. ASSUME NEW e \in Names PROVE Owns(v, e)
    <3>1. CASE e = d
      BY <2>1, <3>1 DEF Owns, Loop
    <3>2. CASE e # d
      <4>1. v.mover[e].handle = w.mover[e].handle /\ Owns(w, e)
        BY <3>2 DEF Heard
      <4>2. w.mover[e].handle # -1 => w.mover[e].handle \in Slots \ {k}
        BY <2>1, <4>1 DEF Owns, IsLive, Worlds, MoverRecords
      <4> QED
        BY <2>1, <4>1, <4>2 DEF Owns
    <3> QED
      BY <3>1, <3>2
  <2>3. ASSUME NEW i \in Slots PROVE Owned(v, T, i)
    <3>1. CASE i = k
      BY <2>1, <3>1 DEF Owned
    <3>2. CASE i # k
      <4>1. v.Item[i] = w.Item[i] /\ Owned(w, T, i) /\ w.Item[i].data.owner \in Names
        BY <2>1, <3>2, WorldAssumption DEF Heard, Worlds, Pools
      <4>2. -1 \notin Slots
        BY PoolAssumption DEF Slots
      <4> QED
        BY <4>1, <4>2 DEF Owned
    <3> QED
      BY <3>1, <3>2
  <2> QED
    BY <2>2, <2>3 DEF Heard
<1> QED
  BY <1>1, <1>2

\* So does silencing a mover, whose model need not move then.
LEMMA SilencedKeeps ==
  ASSUME NEW w \in Worlds, NEW v \in Worlds, NEW d \in Names, NEW T,
         Heard(w, T), \A e \in Names \ {d} : v.mover[e] = w.mover[e] /\ v.model[e] = w.model[e],
         Silenced(w, v, d)
  PROVE  Heard(v, T \cup {d})
<1> DEFINE h == w.mover[d].handle
<1>1. h \in Slots \cup {-1} /\ -1 \notin Slots
  BY PoolAssumption DEF Worlds, MoverRecords, Slots
<1>2. Owns(w, d)
  BY DEF Heard
<1>3. ASSUME NEW e \in Names PROVE Owns(v, e)
  <2>1. CASE e = d
    BY <2>1 DEF Owns, Silenced
  <2>2. CASE e # d
    <3>1. v.mover[e].handle = w.mover[e].handle /\ Owns(w, e)
      BY <2>2 DEF Heard
    <3>2. w.mover[e].handle # -1 => w.mover[e].handle # h /\ w.mover[e].handle \in Slots
      BY <1>2, <2>2, <3>1 DEF Owns, Loop, Worlds, MoverRecords
    <3> QED
      BY <3>1, <3>2 DEF Owns, Silenced
  <2> QED
    BY <2>1, <2>2
<1>4. ASSUME NEW i \in Slots PROVE Owned(v, T \cup {d}, i)
  <2>1. CASE i = h
    BY <1>1, <2>1 DEF Owned, Silenced
  <2>2. CASE i # h
    <3>1. v.Item[i] = w.Item[i] /\ Owned(w, T, i) /\ w.Item[i].data.owner \in Names
      BY <2>2, WorldAssumption DEF Heard, Worlds, Pools, Silenced
    <3> QED
      BY <2>2, <3>1 DEF Owned
  <2> QED
    BY <2>1, <2>2
<1> QED
  BY <1>3, <1>4 DEF Heard

LEMMA HeardFewer ==
  ASSUME NEW w, NEW T, NEW U, T \subseteq U, Heard(w, U)
  PROVE  Heard(w, T)
  BY DEF Heard, Owned

\* Starting a mover that may be started keeps the invariant.
LEMMA ActivateKeeps ==
  ASSUME setup \in Setups, NEW w, NEW T, Good(w, T), NEW d \in Names, Idle(w, d)
  PROVE  Good(Activate(w, d), T)
<1> DEFINE v == Activate(w, d)
<1>1. w \in Worlds /\ Armed(w, d) /\ Heard(w, T)
  BY DEF Good
<1>2. /\ v \in Worlds /\ Elsewhere(w, v, d)
      /\ v.mover[d].inAnimation /\ v.mover[d].trigger
      /\ v.model[d].moving
      /\ \E loop \in BOOLEAN : Played(w, v, d, loop)
  <2>1. w.model[d] \in ModelRecords
    BY <1>1 DEF Worlds
  <2>2. Begun(w.model[d], d).moving
    BY <2>1, ModelOps
  <2> QED
    BY <1>1, <2>2, ActivateMakes
<1> HIDE DEF v
<1>3. Heard(v, T)
  BY <1>1, <1>2, PlayedKeeps DEF Elsewhere, Armed, AtRest
<1>4. ASSUME NEW e \in Names PROVE Armed(v, e)
  <2>1. CASE e = d
    <3>1. ~(Once(d) /\ model[d].hasMoved /\ ~model[d].moving)
      BY <1>1 DEF Armed, Stays, Spent
    <3> QED
      BY <1>2, <2>1, <3>1 DEF Armed, Rearmed, AtRest, Spent, Stays, Idle
  <2>2. CASE e # d
    <3>1. v.mover[e] = w.mover[e] /\ v.model[e] = w.model[e] /\ Armed(w, e)
      BY <1>2, <2>2 DEF Elsewhere, Good
    <3> QED
      BY <3>1 DEF Armed, Rearmed, AtRest, Spent, Stays, Idle
  <2> QED
    BY <2>1, <2>2
<1> QED
  BY <1>2, <1>3, <1>4 DEF Good, v

\* So does what a trigger stops: a mover that is animating, or a platform with a trigger.
LEMMA UntriggerKeeps ==
  ASSUME setup \in Setups, NEW w, NEW T, Good(w, T), NEW d \in Names,
         setup[d].trigger # "none"
  PROVE  Good(Untrigger(w, d), T)
<1> DEFINE v == Untrigger(w, d)
<1>1. w \in Worlds /\ Armed(w, d) /\ Heard(w, T)
  BY DEF Good
<1>2. /\ v \in Worlds /\ Elsewhere(w, v, d) /\ Silenced(w, v, d)
      /\ v.mover[d].inAnimation = w.mover[d].inAnimation /\ ~v.mover[d].trigger
      /\ ~v.model[d].moving /\ v.model[d].hasMoved = w.model[d].hasMoved
      /\ v.model[d].time = w.model[d].time
  <2>1. w.model[d] \in ModelRecords
    BY <1>1 DEF Worlds
  <2> DEFINE m == Stop(w.model[d])
  <2>2. ~m.moving /\ m.hasMoved = w.model[d].hasMoved /\ m.time = w.model[d].time
    BY <2>1, ModelOps
  <2> QED
    BY <1>1, <2>2, UntriggerMakes
<1> HIDE DEF v
<1>3. Heard(v, T)
  <2>1. Heard(v, T \cup {d})
    BY <1>1, <1>2, SilencedKeeps DEF Elsewhere
  <2> QED
    BY <2>1, HeardFewer
<1>4. ASSUME NEW e \in Names PROVE Armed(v, e)
  <2>1. CASE e = d
    <3>1. Spent(v, d)
      BY <1>1, <1>2 DEF Armed, Spent, Rearmed, Once, Idle
    <3>2. Stays(v, d)
      BY <1>1, <1>2 DEF Armed, Stays
    <3> QED
      BY <1>2, <2>1, <3>1, <3>2 DEF Armed, Rearmed, AtRest, Silenced
  <2>2. CASE e # d
    <3>1. v.mover[e] = w.mover[e] /\ v.model[e] = w.model[e] /\ Armed(w, e)
      BY <1>2, <2>2 DEF Elsewhere, Good
    <3> QED
      BY <3>1 DEF Armed, Rearmed, AtRest, Spent, Stays, Idle
  <2> QED
    BY <2>1, <2>2
<1> QED
  BY <1>2, <1>3, <1>4 DEF Good, v

LEMMA LinkedType ==
  ASSUME NEW d \in Names
  PROVE  Linked(d) \in Names \cup {"none"}
  BY WorldAssumption DEF Linked

\* So do the movers that follow when d has started.
LEMMA FollowGood ==
  ASSUME setup \in Setups, NEW w, NEW T, Good(w, T), NEW d \in Names, NEW shot
  PROVE  Good(TriggerNext(w, d, shot), T)
<1> DEFINE P == {s \in [w : Worlds, at : Names \cup {"none"}] : Good(s.w, T)}
<1>1. ASSUME NEW s \in P PROVE Call(s, shot) \in P
  <2>1. CASE s.at # "none" /\ CanFollow(s.w, s.at, shot)
    <3> DEFINE v == Activate(s.w, s.at)
    <3>1. s.at \in Names /\ Idle(s.w, s.at) /\ Good(s.w, T)
      BY <2>1 DEF CanFollow
    <3>2. Good(v, T) /\ Linked(s.at) \in Names \cup {"none"}
      BY <3>1, ActivateKeeps, LinkedType
    <3>3. Call(s, shot) = [w |-> v, at |-> Linked(s.at)]
      BY <2>1 DEF Call
    <3> HIDE DEF v
    <3> QED
      BY <3>2, <3>3 DEF Good
  <2>2. CASE ~(s.at # "none" /\ CanFollow(s.w, s.at, shot))
    <3>1. Call(s, shot) = [s EXCEPT !.at = "none"]
      BY <2>2 DEF Call
    <3> QED
      BY <3>1
  <2> QED
    BY <2>1, <2>2
<1>2. [w |-> w, at |-> Linked(d)] \in P
  BY LinkedType DEF Good
<1>3. Call([w |-> w, at |-> Linked(d)], shot) \in P
  BY <1>1, <1>2
<1> HIDE DEF P
<1>4. Follow(w, d, shot) \in P
  BY <1>1, <1>3, FollowKeeps
<1> QED
  BY <1>4 DEF P, TriggerNext

\* Nothing depends on the animation of a callback.
LEMMA CallBackKeeps ==
  ASSUME NEW w, NEW T, Good(w, T), NEW d \in Names, NEW n \in 0 .. 2
  PROVE  Good([w EXCEPT !.mover[d].callBack = n], T)
<1> DEFINE v == [w EXCEPT !.mover[d].callBack = n]
<1>1. /\ v \in Worlds /\ v.model = w.model /\ v.Item = w.Item
      /\ \A e \in Names : /\ v.mover[e].inAnimation = w.mover[e].inAnimation
                          /\ v.mover[e].trigger = w.mover[e].trigger
                          /\ v.mover[e].handle = w.mover[e].handle
  BY DEF Good, Worlds, MoverRecords
<1> HIDE DEF v
<1>2. Heard(v, T)
  <2>1. \A e \in Names : Owns(v, e)
    BY <1>1 DEF Good, Heard, Owns
  <2>2. ASSUME NEW i \in Slots PROVE Owned(v, T, i)
    <3>1. Owned(w, T, i) /\ w.Item[i].data.owner \in Names
      BY WorldAssumption DEF Good, Heard, Worlds, Pools
    <3> QED
      BY <1>1, <3>1 DEF Owned
  <2> QED
    BY <2>1, <2>2 DEF Heard
<1>3. \A e \in Names : Armed(v, e)
  BY <1>1 DEF Good, Armed, Rearmed, AtRest, Spent, Stays, Idle
<1> QED
  BY <1>1, <1>2, <1>3 DEF Good, v

LEMMA CollisionKeeps ==
  ASSUME setup \in Setups, NEW w, NEW T, Good(w, T), NEW d \in Names, NEW shot
  PROVE  Good(Collision(w, d, shot), T)
<1>1. CASE ~StateOf(d)
  <2>1. Collision(w, d, shot) = [w EXCEPT !.mover[d].callBack = 2] /\ 2 \in 0 .. 2
    BY <1>1 DEF Collision
  <2>2. Good([w EXCEPT !.mover[d].callBack = 2], T)
    BY <2>1, CallBackKeeps
  <2> QED
    BY <2>1, <2>2
<1>2. CASE StateOf(d)
  <2>1. Good(IF Idle(w, d) THEN Activate(w, d) ELSE w, T)
    BY ActivateKeeps
  <2> QED
    BY <1>2, <2>1, FollowGood DEF Collision
<1> QED
  BY <1>1, <1>2

LEMMA TickTriggerKeeps ==
  ASSUME setup \in Setups, NEW w, NEW T, Good(w, T), NEW d \in Names
  PROVE  Good(TickTrigger(w, d), T)
<1>1. CASE setup[d].trigger = "none"
  BY <1>1 DEF TickTrigger
<1>2. CASE setup[d].trigger # "none" /\ StateOf(d)
  <2>1. Good(Triggered(w, d), T)
    <3>1. CASE Idle(w, d)
      BY <1>2, <3>1, ActivateKeeps, FollowGood, UntriggerKeeps DEF Triggered
    <3>2. CASE ~Idle(w, d)
      BY <1>2, <3>2, UntriggerKeeps DEF Triggered
    <3> QED
      BY <3>1, <3>2
  <2> QED
    BY <1>2, <2>1 DEF TickTrigger
<1>3. CASE setup[d].trigger # "none" /\ ~StateOf(d)
  BY <1>3, UntriggerKeeps DEF TickTrigger, Untriggered
<1> QED
  BY <1>1, <1>2, <1>3

LEMMA TickCallBackKeeps ==
  ASSUME NEW w, NEW T, Good(w, T), NEW d \in Names
  PROVE  Good(TickCallBack(w, d), T)
<1> DEFINE n == IF w.mover[d].callBack = 0 THEN 0 ELSE w.mover[d].callBack - 1
<1>1. n \in 0 .. 2
  BY DEF Good, Worlds, MoverRecords
<1>2. TickCallBack(w, d) = [w EXCEPT !.mover[d].callBack = n]
  BY DEF TickCallBack
<1> HIDE DEF n
<1>3. Good([w EXCEPT !.mover[d].callBack = n], T)
  BY <1>1, CallBackKeeps
<1> QED
  BY <1>2, <1>3

LEMMA TickStoppedKeeps ==
  ASSUME setup \in Setups, NEW w, NEW T, Good(w, T), NEW d \in Names
  PROVE  Good(TickStopped(w, d), T)
<1> DEFINE v == TickStopped(w, d)
<1>1. w \in Worlds /\ Armed(w, d) /\ Heard(w, T)
  BY DEF Good
<1>2. /\ v \in Worlds /\ Elsewhere(w, v, d) /\ v.model[d] = w.model[d]
      /\ v = w \/ /\ Silenced(w, v, d)
                  /\ w.mover[d].inAnimation /\ ~w.model[d].moving
                  /\ v.mover[d].inAnimation = setup[d].oneShot
                  /\ v.mover[d].trigger = (w.mover[d].trigger /\ setup[d].oneShot)
  BY <1>1, TickStoppedMakes
<1> HIDE DEF v
<1>3. CASE v = w
  BY <1>3 DEF v
<1>4. CASE v # w
  <2>1. Heard(v, T)
    <3>1. Heard(v, T \cup {d})
      BY <1>1, <1>2, <1>4, SilencedKeeps DEF Elsewhere
    <3> QED
      BY <3>1, HeardFewer
  <2>2. ASSUME NEW e \in Names PROVE Armed(v, e)
    <3>1. CASE e = d
      BY <1>1, <1>2, <1>4, <3>1
      DEF Armed, Rearmed, AtRest, Spent, Stays, Idle, Once, Silenced
    <3>2. CASE e # d
      <4>1. v.mover[e] = w.mover[e] /\ v.model[e] = w.model[e] /\ Armed(w, e)
        BY <1>2, <3>2 DEF Elsewhere, Good
      <4> QED
        BY <4>1 DEF Armed, Rearmed, AtRest, Spent, Stays, Idle
    <3> QED
      BY <3>1, <3>2
  <2> QED
    BY <1>2, <2>1, <2>2 DEF Good, v
<1> QED
  BY <1>3, <1>4

\* When d has ticked, its model moves or it makes no sound.
LEMMA TickSoundKeeps ==
  ASSUME setup \in Setups, NEW w, NEW T, Good(w, T), NEW d \in Names
  PROVE  Good(TickSound(w, d), T \cup {d})
<1> DEFINE v == TickSound(w, d)
<1>1. w \in Worlds /\ Heard(w, T)
  BY DEF Good
<1>2. CASE w.model[d].moving
  <2>1. /\ OnlySound(w, v, d)
        /\ v = w \/ /\ w.mover[d].handle = -1
                    /\ \E loop \in BOOLEAN : Played(w, v, d, loop)
    BY <1>1, <1>2, PlaySoundMakes DEF TickSound, OnlySound
  <2> HIDE DEF v
  <2>2. v \in Worlds /\ v.model = w.model
    BY <2>1 DEF OnlySound
  <2>3. Heard(v, T)
    BY <1>1, <1>2, <2>1, <2>2, PlayedKeeps DEF OnlySound
  <2>4. Heard(v, T \cup {d})
    <3>1. ASSUME NEW i \in Slots PROVE Owned(v, T \cup {d}, i)
      BY <1>2, <2>2, <2>3 DEF Heard, Owned
    <3> QED
      BY <2>3, <3>1 DEF Heard
  <2>5. ASSUME NEW e \in Names PROVE Armed(v, e)
    <3>1. Armed(w, e)
      BY DEF Good
    <3> QED
      BY <1>2, <2>1, <2>2, <3>1
      DEF OnlySound, Armed, Rearmed, AtRest, Spent, Stays, Idle
  <2> QED
    BY <2>2, <2>4, <2>5 DEF Good, v
<1>3. CASE ~w.model[d].moving
  <2>1. OnlySound(w, v, d) /\ Silenced(w, v, d)
    BY <1>1, <1>3, SilenceMakes DEF TickSound, Silenced
  <2> HIDE DEF v
  <2>2. v \in Worlds /\ v.model = w.model
    BY <2>1 DEF OnlySound
  <2>3. Heard(v, T \cup {d})
    BY <1>1, <2>1, <2>2, SilencedKeeps DEF OnlySound
  <2>4. ASSUME NEW e \in Names PROVE Armed(v, e)
    <3>1. Armed(w, e)
      BY DEF Good
    <3> QED
      BY <1>3, <2>1, <2>2, <3>1
      DEF OnlySound, Silenced, Armed, Rearmed, AtRest, Spent, Stays, Idle
  <2> QED
    BY <2>2, <2>3, <2>4 DEF Good, v
<1> QED
  BY <1>2, <1>3

LEMMA TickMoverKeeps ==
  ASSUME setup \in Setups, NEW w, NEW T, Good(w, T), NEW d \in Names
  PROVE  Good(TickMover(w, d), T \cup {d})
<1>1. Good(TickTrigger(w, d), T)
  BY TickTriggerKeeps
<1>2. Good(TickCallBack(TickTrigger(w, d), d), T)
  BY <1>1, TickCallBackKeeps
<1>3. Good(TickStopped(TickCallBack(TickTrigger(w, d), d), d), T)
  BY <1>2, TickStoppedKeeps
<1> QED
  BY <1>3, TickSoundKeeps DEF TickMover

------------------------------------------------------------------------------
(***************************************************************************)
(* What a tick makes of a model.  A tick starts no model, and reads of     *)
(* whether it collides nothing at all: Bump(m, x) is m but for that.       *)
(***************************************************************************)
Bump(m, x) == [m EXCEPT !.colliding = x]

\* n is what becomes of m.
Ticked(m, n) == n \in ModelRecords /\ n.hasMoved = m.hasMoved /\ (n.moving => m.moving)

LEMMA BumpType ==
  ASSUME NEW m \in ModelRecords, NEW x \in BOOLEAN
  PROVE  /\ Bump(m, x) \in ModelRecords
         /\ Bump(m, x).moving = m.moving /\ Bump(m, x).forward = m.forward
         /\ Bump(m, x).time = m.time /\ Bump(m, x).start = m.start
         /\ Bump(m, x).target = m.target /\ Bump(m, x).index = m.index
         /\ Bump(m, x).wrap = m.wrap /\ Bump(m, x).hasMoved = m.hasMoved
  BY DEF Bump, ModelRecords

\* The operators that only read the model.
LEMMA Readings ==
  ASSUME NEW m \in ModelRecords, NEW x \in BOOLEAN, NEW c \in Motions
  PROVE  /\ Sign(m) \in Int /\ Far(m) \in Int /\ RunTime(m) \in Int
         /\ Sign(Bump(m, x)) = Sign(m) /\ Far(Bump(m, x)) = Far(m)
         /\ RunTime(Bump(m, x)) = RunTime(m)
         /\ \A i \in Int : TimeList(c, i) \in Int
         /\ \A s : Reached(Bump(m, x), s) = Reached(m, s)
         /\ \A k : IsLastStop(Bump(m, x), c, k) = IsLastStop(m, c, k)
<1>1. Bump(m, x).forward = m.forward /\ Bump(m, x).time = m.time /\ Bump(m, x).start = m.start
  BY BumpType
<1>2. m.time \in Int /\ m.start \in Int
  BY DEF ModelRecords
<1> HIDE DEF Bump
<1>3. Sign(m) \in Int /\ Far(m) \in Int
  BY MotionAssumption DEF Sign, Far
<1>4. RunTime(m) \in Int
  BY <1>2, <1>3 DEF RunTime
<1>5. Sign(Bump(m, x)) = Sign(m) /\ Far(Bump(m, x)) = Far(m)
  BY <1>1 DEF Sign, Far
<1>6. RunTime(Bump(m, x)) = RunTime(m)
  BY <1>1, <1>5 DEF RunTime
<1>7. ASSUME NEW i \in Int PROVE TimeList(c, i) \in Int
  <2>1. c.stops \in Seq(0 .. End) /\ ListMax \in Nat
    BY MotionAssumption DEF Motions
  <2>2. i \in 0 .. Len(c.stops) - 1 => c.stops[i + 1] \in Int
    BY <2>1, MotionAssumption
  <2> QED
    BY <2>1, <2>2 DEF TimeList, Terminator
<1>8. \A s : Reached(Bump(m, x), s) = Reached(m, s)
  BY <1>1, <1>5 DEF Reached
<1>9. \A k : IsLastStop(Bump(m, x), c, k) = IsLastStop(m, c, k)
  BY <1>1 DEF IsLastStop
<1> QED
  BY <1>3, <1>4, <1>5, <1>6, <1>7, <1>8, <1>9

\* The model comes to rest at t.
LEMMA PlacedMakes ==
  ASSUME NEW m \in ModelRecords, NEW t \in Int, NEW x \in BOOLEAN
  PROVE  /\ Ticked(m, [m EXCEPT !.time = t, !.moving = FALSE])
         /\ [Bump(m, x) EXCEPT !.time = t, !.moving = FALSE]
              = Bump([m EXCEPT !.time = t, !.moving = FALSE], x)
<1>1. Ticked(m, [m EXCEPT !.time = t, !.moving = FALSE])
  BY DEF Ticked, ModelRecords
<1>2. [Bump(m, x) EXCEPT !.time = t, !.moving = FALSE]
              = Bump([m EXCEPT !.time = t, !.moving = FALSE], x)
  BY DEF Bump, ModelRecords
<1> QED
  BY <1>1, <1>2

LEMMA TowardsTargetMakes ==
  ASSUME NEW m \in ModelRecords, NEW c \in Motions, NEW x \in BOOLEAN
  PROVE  /\ Ticked(m, TowardsTarget(m))
         /\ TowardsTarget(Bump(m, x)) = Bump(TowardsTarget(m), x)
<1>1. m.target \in Int
  BY DEF ModelRecords
<1>2. /\ Reached(Bump(m, x), m.target) = Reached(m, m.target)
      /\ Bump(m, x).time = m.time /\ Bump(m, x).target = m.target
  BY Readings, BumpType
<1>3. Ticked(m, m)
  BY DEF Ticked
<1> QED
  BY <1>1, <1>2, <1>3, PlacedMakes DEF TowardsTarget

LEMMA TimedRunMakes ==
  ASSUME NEW m \in ModelRecords, NEW c \in Motions, NEW x \in BOOLEAN
  PROVE  /\ Ticked(m, TimedRun(m, c))
         /\ TimedRun(Bump(m, x), c) = Bump(TimedRun(m, c), x)
<1> DEFINE t == m.start + Sign(m) * c.each
<1>1. t \in Int
  <2>1. Sign(m) \in Int /\ c.each \in Int /\ m.start \in Int
    BY Readings DEF Motions, ModelRecords
  <2> QED
    BY <2>1
<1>2. /\ RunTime(Bump(m, x)) = RunTime(m) /\ Sign(Bump(m, x)) = Sign(m)
      /\ Bump(m, x).start = m.start
  BY Readings, BumpType
<1>3. TimedRun(m, c) = IF c.each = Untimed \/ RunTime(m) < c.each THEN m
                       ELSE [m EXCEPT !.time = t, !.moving = FALSE]
  BY DEF TimedRun
<1>4. TimedRun(Bump(m, x), c) = IF c.each = Untimed \/ RunTime(m) < c.each THEN Bump(m, x)
                                ELSE [Bump(m, x) EXCEPT !.time = t, !.moving = FALSE]
  BY <1>2 DEF TimedRun
<1>5. Ticked(m, m)
  BY DEF Ticked
<1> HIDE DEF t
<1>6. /\ Ticked(m, [m EXCEPT !.time = t, !.moving = FALSE])
      /\ [Bump(m, x) EXCEPT !.time = t, !.moving = FALSE]
           = Bump([m EXCEPT !.time = t, !.moving = FALSE], x)
  BY <1>1, PlacedMakes
<1> QED
  BY <1>3, <1>4, <1>5, <1>6

LEMMA WrapAroundMakes ==
  ASSUME NEW m \in ModelRecords, NEW c \in Motions, NEW x \in BOOLEAN
  PROVE  /\ Ticked(m, WrapAround(m, c))
         /\ WrapAround(Bump(m, x), c) = Bump(WrapAround(m, c), x)
<1> DEFINE t == m.time - Sign(m) * End
           go == m.wrap /\ Reached(m, TimeList(c, m.index)) /\ Reached(m, Far(m))
<1>1. t \in Int
  <2>1. Sign(m) \in Int /\ End \in Int /\ m.time \in Int
    BY Readings, MotionAssumption DEF ModelRecords
  <2> QED
    BY <2>1
<1>2. /\ Sign(Bump(m, x)) = Sign(m) /\ Far(Bump(m, x)) = Far(m)
      /\ \A s : Reached(Bump(m, x), s) = Reached(m, s)
      /\ Bump(m, x).time = m.time /\ Bump(m, x).wrap = m.wrap
      /\ Bump(m, x).index = m.index
  BY Readings, BumpType
<1>3. WrapAround(m, c) = IF go THEN [m EXCEPT !.wrap = FALSE, !.time = t] ELSE m
  BY DEF WrapAround
<1>4. WrapAround(Bump(m, x), c)
        = IF go THEN [Bump(m, x) EXCEPT !.wrap = FALSE, !.time = t] ELSE Bump(m, x)
  BY <1>2 DEF WrapAround
<1>5. Ticked(m, m)
  BY DEF Ticked
<1> HIDE DEF t, go
<1>6. Ticked(m, [m EXCEPT !.wrap = FALSE, !.time = t])
  BY <1>1 DEF Ticked, ModelRecords
<1>7. [Bump(m, x) EXCEPT !.wrap = FALSE, !.time = t]
        = Bump([m EXCEPT !.wrap = FALSE, !.time = t], x)
  BY DEF Bump, ModelRecords
<1> QED
  BY <1>3, <1>4, <1>5, <1>6, <1>7

LEMMA PassStopMakes ==
  ASSUME NEW m \in ModelRecords, NEW c \in Motions, NEW x \in BOOLEAN, NEW k \in Int
  PROVE  /\ Ticked(m, PassStop(m, c, k))
         /\ PassStop(Bump(m, x), c, k) = Bump(PassStop(m, c, k), x)
<1> DEFINE i == IF m.forward THEN (IF k < 2 THEN 0 ELSE k - 2) ELSE k + 2
           j == IF m.forward THEN 0 ELSE ListMax - 1
           f == ~m.forward
           last == IsLastStop(m, c, k)
<1>1. i \in Int /\ j \in Int /\ Bounded(k) \in Int /\ f \in BOOLEAN
  BY MotionAssumption DEF ModelRecords, Bounded
<1>2. IsLastStop(Bump(m, x), c, k) = last /\ Bump(m, x).forward = m.forward
  BY Readings, BumpType
<1>3. PassStop(m, c, k) =
        IF ~last \/ ~c.looping THEN [m EXCEPT !.index = Bounded(k)]
        ELSE IF c.reverse THEN [m EXCEPT !.index = i, !.forward = f]
        ELSE [m EXCEPT !.index = j, !.wrap = TRUE]
  BY DEF PassStop
<1>4. PassStop(Bump(m, x), c, k) =
        IF ~last \/ ~c.looping THEN [Bump(m, x) EXCEPT !.index = Bounded(k)]
        ELSE IF c.reverse THEN [Bump(m, x) EXCEPT !.index = i, !.forward = f]
        ELSE [Bump(m, x) EXCEPT !.index = j, !.wrap = TRUE]
  BY <1>2 DEF PassStop
<1> HIDE DEF i, j, f, last
<1>5. /\ Ticked(m, [m EXCEPT !.index = Bounded(k)])
      /\ Ticked(m, [m EXCEPT !.index = i, !.forward = f])
      /\ Ticked(m, [m EXCEPT !.index = j, !.wrap = TRUE])
  BY <1>1 DEF Ticked, ModelRecords
<1>6. /\ [Bump(m, x) EXCEPT !.index = Bounded(k)] = Bump([m EXCEPT !.index = Bounded(k)], x)
      /\ [Bump(m, x) EXCEPT !.index = i, !.forward = f]
           = Bump([m EXCEPT !.index = i, !.forward = f], x)
      /\ [Bump(m, x) EXCEPT !.index = j, !.wrap = TRUE]
           = Bump([m EXCEPT !.index = j, !.wrap = TRUE], x)
  BY DEF Bump, ModelRecords
<1> QED
  BY <1>3, <1>4, <1>5, <1>6

LEMMA ListStopMakes ==
  ASSUME NEW m \in ModelRecords, NEW c \in Motions, NEW x \in BOOLEAN
  PROVE  /\ Ticked(m, ListStop(m, c))
         /\ ListStop(Bump(m, x), c) = Bump(ListStop(m, c), x)
<1> DEFINE stop == TimeList(c, m.index)
           k == m.index + Sign(m)
           t == IF ~m.forward /\ c.looping /\ ~c.reverse /\ IsLastStop(m, c, k)
                THEN End ELSE stop
           p == PassStop(m, c, k)
           still == m.wrap \/ ~Reached(m, stop)
<1>1. k \in Int /\ stop \in Int /\ t \in Int
  <2>1. m.index \in Int /\ Sign(m) \in Int /\ End \in Int
    BY Readings, MotionAssumption DEF ModelRecords
  <2> QED
    BY <2>1, Readings
<1>2. /\ Sign(Bump(m, x)) = Sign(m)
      /\ \A s : Reached(Bump(m, x), s) = Reached(m, s)
      /\ \A s : IsLastStop(Bump(m, x), c, s) = IsLastStop(m, c, s)
      /\ Bump(m, x).forward = m.forward /\ Bump(m, x).wrap = m.wrap
      /\ Bump(m, x).index = m.index
  BY Readings, BumpType
<1>3. ListStop(m, c) = IF still THEN m ELSE [p EXCEPT !.time = t, !.moving = FALSE]
  BY DEF ListStop
<1>4. ListStop(Bump(m, x), c)
        = IF still THEN Bump(m, x)
          ELSE [PassStop(Bump(m, x), c, k) EXCEPT !.time = t, !.moving = FALSE]
  BY <1>2 DEF ListStop
<1>5. Ticked(m, p) /\ PassStop(Bump(m, x), c, k) = Bump(p, x)
  BY <1>1, PassStopMakes
<1>6. Ticked(m, m)
  BY DEF Ticked
<1> HIDE DEF stop, k, t, p, still
<1>7. p \in ModelRecords
  BY <1>5 DEF Ticked
<1>8. /\ Ticked(p, [p EXCEPT !.time = t, !.moving = FALSE])
      /\ [Bump(p, x) EXCEPT !.time = t, !.moving = FALSE]
           = Bump([p EXCEPT !.time = t, !.moving = FALSE], x)
  BY <1>1, <1>7, PlacedMakes
<1> QED
  BY <1>3, <1>4, <1>5, <1>6, <1>8 DEF Ticked

LEMMA MotionEndMakes ==
  ASSUME NEW m \in ModelRecords, NEW c \in Motions, NEW x \in BOOLEAN, NEW ran \in Int
  PROVE  /\ Ticked(m, MotionEnd(m, c, ran))
         /\ MotionEnd(Bump(m, x), c, ran) = Bump(MotionEnd(m, c, ran), x)
<1> DEFINE far == Far(m)
           back == End - Far(m)
           f == ~m.forward
           a == Carried(m, c, far, -ran)
           b == Carried(m, c, back, ran)
<1>1. far \in Int /\ back \in Int /\ f \in BOOLEAN /\ a \in Int /\ b \in Int
  <2>1. far \in Int /\ Sign(m) \in Int /\ End \in Int /\ m.start \in Int
    BY Readings, MotionAssumption DEF ModelRecords
  <2>2. \A y, z \in Int : Carried(m, c, y, z) \in Int
    BY <2>1 DEF Carried
  <2>3. back \in Int /\ -ran \in Int
    BY <2>1
  <2> QED
    BY <2>1, <2>2, <2>3
<1>2. /\ Sign(Bump(m, x)) = Sign(m) /\ Far(Bump(m, x)) = Far(m)
      /\ \A s : Reached(Bump(m, x), s) = Reached(m, s)
      /\ Bump(m, x).forward = m.forward /\ Bump(m, x).start = m.start
  BY Readings, BumpType
<1>3. \A y, z : Carried(Bump(m, x), c, y, z) = Carried(m, c, y, z)
  BY <1>2 DEF Carried
<1>4. MotionEnd(m, c, ran) =
        IF ~Reached(m, far) THEN m
        ELSE IF c.reverse /\ (m.forward \/ c.looping)
             THEN [m EXCEPT !.forward = f, !.time = far, !.start = a]
        ELSE IF ~c.reverse /\ c.looping THEN [m EXCEPT !.time = back, !.start = b]
        ELSE [m EXCEPT !.time = far, !.moving = FALSE]
  BY DEF MotionEnd
<1>5. MotionEnd(Bump(m, x), c, ran) =
        IF ~Reached(m, far) THEN Bump(m, x)
        ELSE IF c.reverse /\ (m.forward \/ c.looping)
             THEN [Bump(m, x) EXCEPT !.forward = f, !.time = far, !.start = a]
        ELSE IF ~c.reverse /\ c.looping THEN [Bump(m, x) EXCEPT !.time = back, !.start = b]
        ELSE [Bump(m, x) EXCEPT !.time = far, !.moving = FALSE]
  BY <1>2, <1>3 DEF MotionEnd
<1>6. Ticked(m, m)
  BY DEF Ticked
<1> HIDE DEF far, back, f, a, b
<1>7. /\ Ticked(m, [m EXCEPT !.forward = f, !.time = far, !.start = a])
      /\ Ticked(m, [m EXCEPT !.time = back, !.start = b])
  BY <1>1 DEF Ticked, ModelRecords
<1>8. /\ [Bump(m, x) EXCEPT !.forward = f, !.time = far, !.start = a]
           = Bump([m EXCEPT !.forward = f, !.time = far, !.start = a], x)
      /\ [Bump(m, x) EXCEPT !.time = back, !.start = b]
           = Bump([m EXCEPT !.time = back, !.start = b], x)
  BY DEF Bump, ModelRecords
<1>9. /\ Ticked(m, [m EXCEPT !.time = far, !.moving = FALSE])
      /\ [Bump(m, x) EXCEPT !.time = far, !.moving = FALSE]
           = Bump([m EXCEPT !.time = far, !.moving = FALSE], x)
  BY <1>1, PlacedMakes
<1> QED
  BY <1>4, <1>5, <1>6, <1>7, <1>8, <1>9

LEMMA AdvanceMakes ==
  ASSUME NEW m \in ModelRecords, NEW c \in Motions, NEW x \in BOOLEAN, NEW dt \in Int
  PROVE  /\ Ticked(m, Advance(m, c, dt))
         /\ Advance(Bump(m, x), c, dt) = Bump(Advance(m, c, dt), x)
<1> DEFINE t == [m EXCEPT !.time = m.time + Sign(m) * dt]
           u == [Bump(m, x) EXCEPT !.time = Bump(m, x).time + Sign(Bump(m, x)) * dt]
<1>1. t \in ModelRecords /\ Ticked(m, t) /\ u = Bump(t, x)
  <2> DEFINE s == m.time + Sign(m) * dt
  <2>1. s \in Int
    <3>1. m.time \in Int /\ Sign(m) \in Int
      BY Readings DEF ModelRecords
    <3> QED
      BY <3>1
  <2>2. Bump(m, x).time + Sign(Bump(m, x)) * dt = s
    BY Readings, BumpType
  <2> HIDE DEF s
  <2>3. t = [m EXCEPT !.time = s] /\ u = [Bump(m, x) EXCEPT !.time = s]
    BY <2>2 DEF s
  <2> HIDE DEF t, u
  <2>4. Ticked(m, t)
    BY <2>1, <2>3 DEF Ticked, ModelRecords
  <2>5. u = Bump(t, x)
    BY <2>3 DEF Bump, ModelRecords
  <2> QED
    BY <2>4, <2>5 DEF Ticked
<1> DEFINE b == Bump(t, x)
           ran == RunTime(t)
<1>2. b.target = t.target /\ RunTime(b) = ran /\ ran \in Int
  BY <1>1, Readings, BumpType
<1>3. Advance(m, c, dt) =
        IF t.target >= 0 THEN TowardsTarget(t)
        ELSE IF c.stops # <<>> THEN ListStop(WrapAround(TimedRun(t, c), c), c)
        ELSE MotionEnd(TimedRun(t, c), c, ran)
  BY DEF Advance
<1>4. Advance(Bump(m, x), c, dt) =
        IF t.target >= 0 THEN TowardsTarget(b)
        ELSE IF c.stops # <<>> THEN ListStop(WrapAround(TimedRun(b, c), c), c)
        ELSE MotionEnd(TimedRun(b, c), c, ran)
  <2>1. Advance(Bump(m, x), c, dt) =
          IF u.target >= 0 THEN TowardsTarget(u)
          ELSE IF c.stops # <<>> THEN ListStop(WrapAround(TimedRun(u, c), c), c)
          ELSE MotionEnd(TimedRun(u, c), c, RunTime(u))
    BY DEF Advance
  <2> HIDE DEF t, u
  <2> QED
    BY <1>1, <1>2, <2>1
<1> HIDE DEF t, u, ran
<1>5. Ticked(t, TowardsTarget(t)) /\ TowardsTarget(b) = Bump(TowardsTarget(t), x)
  BY <1>1, TowardsTargetMakes
<1> DEFINE r == TimedRun(t, c)
           l == WrapAround(r, c)
<1>6. Ticked(t, r) /\ TimedRun(b, c) = Bump(r, x)
  BY <1>1, TimedRunMakes
<1> HIDE DEF r, b
<1>7. Ticked(r, MotionEnd(r, c, ran))
      /\ MotionEnd(Bump(r, x), c, ran) = Bump(MotionEnd(r, c, ran), x)
  BY <1>2, <1>6, MotionEndMakes DEF Ticked
<1>8. Ticked(r, l) /\ WrapAround(Bump(r, x), c) = Bump(l, x)
  BY <1>6, WrapAroundMakes DEF Ticked
<1> HIDE DEF l
<1>9. Ticked(l, ListStop(l, c)) /\ ListStop(Bump(l, x), c) = Bump(ListStop(l, c), x)
  BY <1>8, ListStopMakes DEF Ticked
<1>10. Ticked(m, TowardsTarget(t)) /\ Ticked(m, MotionEnd(r, c, ran)) /\ Ticked(m, ListStop(l, c))
  BY <1>1, <1>5, <1>6, <1>7, <1>8, <1>9 DEF Ticked
<1>11. CASE t.target >= 0
  BY <1>3, <1>4, <1>5, <1>10, <1>11
<1>12. CASE ~(t.target >= 0) /\ c.stops # <<>>
  BY <1>3, <1>4, <1>6, <1>8, <1>9, <1>10, <1>12 DEF r, l
<1>13. CASE ~(t.target >= 0) /\ c.stops = <<>>
  BY <1>3, <1>4, <1>6, <1>7, <1>10, <1>13 DEF r
<1> QED
  BY <1>11, <1>12, <1>13

\* A tick starts no model and leaves one that does not move alone; and it forgets that a
\* model has moved only when it stops the model, which is not animated.
LEMMA ModelTickMakes ==
  ASSUME NEW m \in ModelRecords, NEW c \in Motions, NEW dt \in Int,
         NEW blocked \in BOOLEAN, NEW turned \in BOOLEAN
  PROVE  LET n == ProcessModelTick(m, c, dt, blocked, turned)
         IN  /\ n \in ModelRecords /\ (n.moving => m.moving) /\ (n.hasMoved => m.hasMoved)
             /\ ~m.moving => n = m
<1> DEFINE n == ProcessModelTick(m, c, dt, blocked, turned)
           a == Advance(m, c, dt)
<1>1. CASE ~m.moving
  BY <1>1 DEF ProcessModelTick
<1>2. CASE m.moving /\ ~c.animated
  <2>1. n = [m EXCEPT !.moving = FALSE, !.hasMoved = FALSE]
    BY <1>2 DEF ProcessModelTick
  <2> HIDE DEF n
  <2>2. n \in ModelRecords /\ ~n.moving /\ ~n.hasMoved
    BY <2>1 DEF ModelRecords
  <2> QED
    BY <1>2, <2>2 DEF n
<1>3. CASE m.moving /\ c.animated
  <2>1. Ticked(m, a)
    BY AdvanceMakes
  <2> DEFINE f == IF c.turns /\ turned THEN ~a.forward ELSE a.forward
  <2>2. n = [a EXCEPT !.colliding = blocked, !.forward = f]
    BY <1>3 DEF ProcessModelTick
  <2>3. f \in BOOLEAN
    BY <2>1 DEF Ticked, ModelRecords
  <2> HIDE DEF n, a, f
  <2>4. n \in ModelRecords /\ n.moving = a.moving /\ n.hasMoved = a.hasMoved
    BY <2>1, <2>2, <2>3 DEF Ticked, ModelRecords
  <2> QED
    BY <1>3, <2>1, <2>4 DEF Ticked, n
<1> QED
  BY <1>1, <1>2, <1>3

\* Models that differ in whether they collide, and do not turn for it, differ in nothing
\* else after a tick.
Alike(m, n) == Bump(m, FALSE) = Bump(n, FALSE)

LEMMA ModelTickAlike ==
  ASSUME NEW m \in ModelRecords, NEW n \in ModelRecords, Alike(m, n),
         NEW c \in Motions, ~c.turns, NEW dt \in Int,
         NEW b1 \in BOOLEAN, NEW b2 \in BOOLEAN, NEW t1 \in BOOLEAN, NEW t2 \in BOOLEAN
  PROVE  Alike(ProcessModelTick(m, c, dt, b1, t1), ProcessModelTick(n, c, dt, b2, t2))
<1> DEFINE k == Bump(m, FALSE)
           a == Advance(m, c, dt)
           b == Advance(n, c, dt)
<1>1. k = Bump(n, FALSE) /\ k.moving = m.moving /\ k.moving = n.moving
  BY BumpType DEF Alike
<1>2. CASE ~k.moving
  BY <1>1, <1>2 DEF ProcessModelTick, Alike
<1>3. CASE k.moving /\ ~c.animated
  <2>1. ProcessModelTick(m, c, dt, b1, t1) = [m EXCEPT !.moving = FALSE, !.hasMoved = FALSE]
    BY <1>1, <1>3 DEF ProcessModelTick
  <2>2. ProcessModelTick(n, c, dt, b2, t2) = [n EXCEPT !.moving = FALSE, !.hasMoved = FALSE]
    BY <1>1, <1>3 DEF ProcessModelTick
  <2>3. \A l \in ModelRecords :
          Bump([l EXCEPT !.moving = FALSE, !.hasMoved = FALSE], FALSE)
            = [Bump(l, FALSE) EXCEPT !.moving = FALSE, !.hasMoved = FALSE]
    BY DEF Bump, ModelRecords
  <2> QED
    BY <1>1, <2>1, <2>2, <2>3 DEF Alike
<1>4. CASE k.moving /\ c.animated
  <2>1. a \in ModelRecords /\ b \in ModelRecords /\ Bump(a, FALSE) = Bump(b, FALSE)
    <3>1. Ticked(m, a) /\ Advance(k, c, dt) = Bump(a, FALSE)
      BY AdvanceMakes
    <3>2. Ticked(n, b) /\ Advance(Bump(n, FALSE), c, dt) = Bump(b, FALSE)
      BY AdvanceMakes
    <3> HIDE DEF a, b, k
    <3> QED
      BY <1>1, <3>1, <3>2 DEF Ticked
  <2>2. /\ ProcessModelTick(m, c, dt, b1, t1) = [a EXCEPT !.colliding = b1, !.forward = @]
        /\ ProcessModelTick(n, c, dt, b2, t2) = [b EXCEPT !.colliding = b2, !.forward = @]
    BY <1>1, <1>4 DEF ProcessModelTick
  <2> HIDE DEF a, b
  <2>3. \A l \in ModelRecords, x \in BOOLEAN :
          Bump([l EXCEPT !.colliding = x, !.forward = @], FALSE) = Bump(l, FALSE)
    BY DEF Bump, ModelRecords
  <2>4. /\ Bump(ProcessModelTick(m, c, dt, b1, t1), FALSE) = Bump(a, FALSE)
        /\ Bump(ProcessModelTick(n, c, dt, b2, t2), FALSE) = Bump(b, FALSE)
    BY <2>1, <2>2, <2>3
  <2> QED
    BY <2>1, <2>4 DEF Alike
<1> QED
  BY <1>2, <1>3, <1>4

------------------------------------------------------------------------------
(* The invariant of the specification *)

Start0 == FreshPool("snd", [owner |-> Movers[1], loop |-> FALSE])

LEMMA FreshPoolType == Start0 \in Pools /\ \A i \in Slots : ~Start0[i].active
<1>1. Movers[1] \in Names
  BY WorldAssumption DEF Names
<1>2. "snd" \in EffTypes /\ [owner |-> Movers[1], loop |-> FALSE] \in Datas
  BY <1>1, WorldAssumption
<1> QED
  BY <1>2 DEF Start0, FreshPool, Pools

LEMMA InitGood == Init => Inv
<1> SUFFICES ASSUME Init PROVE Inv
  OBVIOUS
<1>1. setup \in Setups /\ on = {} /\ Item = Start0
  BY DEF Init, Start0
<1>2. \A d \in Names : setup[d].auto \in BOOLEAN
  BY <1>1, SetupType DEF Settings
<1>3. FreshModel \in ModelRecords /\ ~FreshModel.moving /\ ~FreshModel.hasMoved
  BY DEF FreshModel, ModelRecords, NoTarget
<1>4. Start(FreshModel) \in ModelRecords
  <2>1. Begun(FreshModel, 0) = Start(FreshModel)
    BY <1>3 DEF Begun
  <2> QED
    BY <1>3, <2>1, ModelOps
<1> DEFINE mo == [d \in Names |-> IF setup[d].auto THEN Start(FreshModel) ELSE FreshModel]
           mv == [d \in Names |-> [inAnimation |-> FALSE, callBack |-> 0, handle |-> -1,
                                   trigger |-> setup[d].auto]]
<1>5. mover = mv /\ model = mo
  BY DEF Init
<1>6. mo \in [Names -> ModelRecords]
  BY <1>3, <1>4
<1>7. mv \in [Names -> MoverRecords]
  BY <1>2 DEF MoverRecords
<1>8. World \in Worlds
  BY <1>1, <1>5, <1>6, <1>7, FreshPoolType DEF World, Worlds
<1>9. ASSUME NEW d \in Names PROVE Armed(World, d)
  <2>1. /\ ~mover[d].inAnimation /\ mover[d].trigger = setup[d].auto
        /\ mover[d].handle = -1
        /\ ~setup[d].auto => ~model[d].moving /\ ~model[d].hasMoved
    BY <1>3, <1>5
  <2> QED
    BY <2>1 DEF World, Armed, Rearmed, AtRest, Spent, Stays, Idle
<1>10. Heard(World, Names)
  BY <1>1, <1>5, FreshPoolType DEF World, Heard, Owns, Owned
<1> QED
  BY <1>1, <1>8, <1>9, <1>10 DEF Inv, Good

\* What a step makes of the world is the world of the next state, and the one-shot movers
\* at rest have stayed.
OnceStep ==
  \A d \in Names :
    Once(d) /\ model[d].hasMoved /\ ~model[d].moving =>
      ~model'[d].moving /\ model'[d].time = model[d].time

LEMMA StepGood ==
  ASSUME Inv, NEW w, Good(w, Names), Becomes(w), setup' = setup, on' \subseteq Triggers
  PROVE  Inv' /\ OnceStep
<1>1. w \in Worlds /\ mover' = w.mover /\ model' = w.model /\ Item' = w.Item
  BY DEF Good, Becomes
<1>2. World' = w
  BY <1>1 DEF World, Worlds
<1>3. ASSUME NEW d \in Names PROVE Armed(World, d)'
  <2>1. Armed(w, d)
    BY DEF Good
  <2> QED
    BY <1>1, <1>2, <2>1 DEF Armed, Rearmed, AtRest, Spent, Stays, Idle, Once, World
<1>4. Heard(World, Names)'
  BY <1>2 DEF Good, Heard, Owns, Owned, IsLive, Loop
<1>5. Inv'
  BY <1>1, <1>2, <1>3, <1>4 DEF Inv, Good
<1>6. OnceStep
  BY <1>1 DEF OnceStep, Good, Armed, Stays
<1> QED
  BY <1>5, <1>6

LEMMA WorldFields == World.mover = mover /\ World.model = model /\ World.Item = Item
  BY DEF World

\* After the models have moved no mover has ticked yet.
LEMMA TickModelsGood ==
  ASSUME Inv, NEW dt \in Steps, NEW blocked, NEW turned
  PROVE  Good([World EXCEPT !.model = TickModels(dt, blocked, turned)], {})
<1> DEFINE ms == TickModels(dt, blocked, turned)
           w == [World EXCEPT !.model = ms]
<1>1. Good(World, Names) /\ World \in Worlds /\ setup \in Setups
  BY DEF Inv, Good
<1>2. w.mover = mover /\ w.model = ms /\ w.Item = Item
  BY DEF World
<1>3. ASSUME NEW d \in Names
      PROVE  /\ ms[d] \in ModelRecords
             /\ ms[d].moving => model[d].moving
             /\ ms[d].hasMoved => model[d].hasMoved
             /\ ~model[d].moving => ms[d] = model[d]
  <2>1. ms[d] = ProcessModelTick(model[d], setup[d].motion, dt, d \in blocked, d \in turned)
    BY DEF TickModels
  <2>2. model[d] \in ModelRecords /\ setup[d].motion \in Motions /\ dt \in Int
    BY <1>1, SetupType, WorldAssumption, WorldFields DEF Worlds, Settings
  <2> DEFINE b == d \in blocked
             t == d \in turned
             m == ProcessModelTick(model[d], setup[d].motion, dt, b, t)
  <2>3. b \in BOOLEAN /\ t \in BOOLEAN
    OBVIOUS
  <2>4. ms[d] = m
    BY <2>1
  <2> HIDE DEF ms, b, t
  <2>5. /\ m \in ModelRecords /\ (m.moving => model[d].moving)
        /\ (m.hasMoved => model[d].hasMoved)
        /\ ~model[d].moving => m = model[d]
    BY <2>2, <2>3, ModelTickMakes
  <2> QED
    BY <2>4, <2>5
<1>4. ms \in [Names -> ModelRecords]
  BY <1>3 DEF TickModels
<1>5. w \in Worlds
  <2> HIDE DEF ms
  <2> QED
    BY <1>1, <1>4 DEF Worlds, World
<1> HIDE DEF w, ms
<1>6. ASSUME NEW d \in Names PROVE Armed(w, d)
  <2>1. Armed(World, d)
    BY <1>1 DEF Good
  <2> QED
    BY <1>2, <1>3, <2>1, WorldFields DEF Armed, Rearmed, AtRest, Spent, Stays, Idle
<1>7. Heard(w, {})
  BY <1>1, <1>2, WorldFields DEF Good, Heard, Owns, Owned
<1> QED
  BY <1>5, <1>6, <1>7 DEF Good, w, ms

LEMMA FrameGood ==
  ASSUME Inv, NEW dt \in Steps, NEW blocked, NEW turned
  PROVE  Good(TickMovers([World EXCEPT !.model = TickModels(dt, blocked, turned)]), Names)
<1> DEFINE N == Len(Movers)
           T(n) == {Movers[i] : i \in 1 .. n}
           P == [n \in 0 .. N |-> {w \in Worlds : Good(w, T(n))}]
           w0 == [World EXCEPT !.model = TickModels(dt, blocked, turned)]
<1>1. N \in Nat /\ T(N) = Names /\ T(0) = {}
  BY WorldAssumption DEF Names
<1>2. Good(w0, {})
  BY TickModelsGood
<1> HIDE DEF w0
<1>3. w0 \in P[0]
  <2>1. P[0] = {w \in Worlds : Good(w, T(0))}
    BY <1>1
  <2>2. w0 \in Worlds /\ Good(w0, T(0))
    BY <1>1, <1>2 DEF Good
  <2> HIDE DEF P
  <2> QED
    BY <2>1, <2>2
<1>4. ASSUME NEW n \in 1 .. N, NEW v \in P[n - 1] PROVE TickMover(v, Movers[n]) \in P[n]
  <2>1. n - 1 \in 0 .. N /\ n \in 0 .. N
    OBVIOUS
  <2>2. Good(v, T(n - 1))
    BY <2>1
  <2>3. Movers[n] \in Names /\ T(n) = T(n - 1) \cup {Movers[n]}
    BY WorldAssumption DEF Names
  <2>4. Good(TickMover(v, Movers[n]), T(n))
    BY <2>2, <2>3, TickMoverKeeps DEF Inv
  <2> QED
    BY <2>1, <2>4 DEF Good
<1> HIDE DEF P
<1>5. TickMovers(w0) \in P[N]
  BY <1>3, <1>4, RoundKeeps
<1>6. Good(TickMovers(w0), T(N))
  BY <1>1, <1>5 DEF P
<1> QED
  BY <1>1, <1>6 DEF w0

LEMMA CommandGood ==
  ASSUME Inv, NEW d \in Names, NEW t \in Targets, Command(d, t)
  PROVE  \E w : Good(w, Names) /\ Becomes(w)
<1> DEFINE m == model[d]
           a == SetTargetTime(m, t)
           b == SetToTargetTime(m, t)
<1>1. /\ Good(World, Names) /\ m \in ModelRecords /\ t \in Int
      /\ setup[d].scripted /\ mover' = mover /\ Item' = Item
  BY WorldFields, WorldAssumption DEF Inv, Good, Worlds, Command
<1>2. a \in ModelRecords
  <2>1. CASE t < 0
    <3>1. a = [m EXCEPT !.moving = FALSE, !.target = t]
      BY <2>1 DEF SetTargetTime
    <3> HIDE DEF m, a
    <3> QED
      BY <1>1, <3>1 DEF ModelRecords
  <2>2. CASE ~(t < 0) /\ m.hasMoved
    <3> DEFINE r == ReStart(m)
    <3>1. r \in ModelRecords
      BY <1>1 DEF ReStart, ModelRecords
    <3>2. a = [r EXCEPT !.target = t, !.forward = (t >= m.time)]
      BY <2>2 DEF SetTargetTime
    <3>3. (t >= m.time) \in BOOLEAN
      OBVIOUS
    <3> HIDE DEF r, a
    <3> QED
      BY <1>1, <3>1, <3>2, <3>3 DEF ModelRecords
  <2>3. CASE ~(t < 0) /\ ~m.hasMoved
    <3> DEFINE r == Start(m)
    <3>1. r \in ModelRecords
      <4>1. Begun(m, d) = r
        BY <2>3 DEF Begun
      <4> QED
        BY <1>1, <4>1, ModelOps
    <3>2. a = [r EXCEPT !.target = t]
      BY <2>3 DEF SetTargetTime
    <3> HIDE DEF r, a
    <3> QED
      BY <1>1, <3>1, <3>2 DEF ModelRecords
  <2> QED
    BY <2>1, <2>2, <2>3
<1>3. b \in ModelRecords
  <2>1. b = IF t < 0 THEN a ELSE [a EXCEPT !.time = t]
    BY DEF SetToTargetTime
  <2> HIDE DEF a, b
  <2> QED
    BY <1>1, <1>2, <2>1 DEF ModelRecords
<1>4. PICK n \in {a, b} : model' = [model EXCEPT ![d] = n]
  BY DEF Command
<1> HIDE DEF a, b, m
<1> DEFINE w == [World EXCEPT !.model = [model EXCEPT ![d] = n]]
<1>5. w.mover = mover /\ w.model = model' /\ w.Item = Item
  BY <1>4 DEF World
<1>6. w \in Worlds
  <2>1. [model EXCEPT ![d] = n] \in [Names -> ModelRecords]
    BY <1>1, <1>2, <1>3, <1>4, WorldFields DEF Good, Worlds
  <2> QED
    BY <1>1, <2>1 DEF Good, Worlds, World
<1> HIDE DEF w
<1>7. \A e \in Names : e # d => model'[e] = model[e]
  BY <1>1, <1>4, WorldFields DEF Good, Worlds
<1>8. ASSUME NEW e \in Names PROVE Armed(w, e)
  BY <1>1, <1>5, <1>7, WorldFields
  DEF Good, Armed, Rearmed, AtRest, Spent, Stays, Idle, Once
<1>9. Heard(w, Names)
  <2>1. \A e \in Names : Owns(w, e)
    BY <1>1, <1>5, WorldFields DEF Good, Heard, Owns
  <2>2. ASSUME NEW i \in Slots PROVE Owned(w, Names, i)
    <3>1. Owned(World, Names, i) /\ Item[i].data.owner \in Names
      BY <1>1, WorldFields, WorldAssumption DEF Good, Heard, Worlds, Pools
    <3> QED
      BY <1>1, <1>5, <1>7, <3>1, WorldFields DEF Owned
  <2> QED
    BY <2>1, <2>2 DEF Heard
<1>10. Becomes(w)
  BY <1>1, <1>5 DEF Becomes
<1> QED
  BY <1>6, <1>8, <1>9, <1>10 DEF Good

LEMMA EffectsTickGood ==
  ASSUME Inv, NEW ends, EffectsTick(ends)
  PROVE  \E w : Good(w, Names) /\ Becomes(w)
<1> DEFINE w == [World EXCEPT !.Item = Item']
<1>1. /\ Good(World, Names) /\ Item \in Pools /\ mover' = mover /\ model' = model
      /\ Item' = Ended(Swept(Item), ends)
      /\ \A i \in ends : ~Item[i].data.loop
  BY WorldFields DEF Inv, Good, Worlds, EffectsTick
<1>2. w.mover = mover /\ w.model = model /\ w.Item = Item'
  BY DEF World
<1>3. /\ Swept(Item) \in Pools
      /\ \A i \in Slots : /\ Swept(Item)[i].data = Item[i].data
                          /\ Swept(Item)[i].active => Item[i].active
                          /\ IsLive(Item[i]) => Swept(Item)[i] = Item[i]
  <2>1. ASSUME NEW i \in Slots
        PROVE  LET r == IF Item[i].active /\ Item[i].removeNext
                        THEN [Item[i] EXCEPT !.active = FALSE, !.removeNext = FALSE]
                        ELSE Item[i]
               IN  /\ r \in [active : BOOLEAN, type : EffTypes, data : Datas,
                             pause : BOOLEAN, removeNext : BOOLEAN]
                   /\ r.data = Item[i].data /\ (r.active => Item[i].active)
                   /\ IsLive(Item[i]) => r = Item[i]
    BY <1>1 DEF Pools, IsLive
  <2> QED
    BY <2>1 DEF Swept, Pools
<1> DEFINE s == Swept(Item)
<1> HIDE DEF s
<1>4. /\ Ended(s, ends) \in Pools
      /\ \A i \in Slots : /\ Ended(s, ends)[i].data = s[i].data
                          /\ Ended(s, ends)[i].active = s[i].active
                          /\ i \notin ends => Ended(s, ends)[i] = s[i]
  <2>1. s \in Pools
    BY <1>3 DEF s
  <2>2. ASSUME NEW i \in Slots
        PROVE  LET r == IF i \in ends THEN [s[i] EXCEPT !.removeNext = TRUE] ELSE s[i]
               IN  /\ r \in [active : BOOLEAN, type : EffTypes, data : Datas,
                             pause : BOOLEAN, removeNext : BOOLEAN]
                   /\ r.data = s[i].data /\ r.active = s[i].active
                   /\ i \notin ends => r = s[i]
    BY <2>1 DEF Pools
  <2> QED
    BY <2>2 DEF Ended, Pools
<1>5. /\ Item' \in Pools
      /\ \A i \in Slots : /\ Item'[i].data = Item[i].data
                          /\ Item'[i].active => Item[i].active
                          /\ IsLive(Item[i]) /\ Item[i].data.loop => Item'[i] = Item[i]
  BY <1>1, <1>3, <1>4 DEF s
<1>6. w \in Worlds
  BY <1>1, <1>5 DEF Good, Worlds, World
<1> HIDE DEF w
<1>7. \A e \in Names : Armed(w, e)
  BY <1>1, <1>2, WorldFields DEF Good, Armed, Rearmed, AtRest, Spent, Stays, Idle
<1>8. Heard(w, Names)
  <2>1. ASSUME NEW e \in Names PROVE Owns(w, e)
    <3>1. Owns(World, e) /\ mover[e].handle \in Slots \cup {-1}
      BY <1>1, WorldFields DEF Good, Heard, Worlds, MoverRecords
    <3> QED
      BY <1>2, <1>5, <3>1, WorldFields DEF Owns, Loop
  <2>2. ASSUME NEW i \in Slots PROVE Owned(w, Names, i)
    <3>1. Owned(World, Names, i)
      BY <1>1 DEF Good, Heard
    <3> QED
      BY <1>2, <1>5, <3>1, WorldFields DEF Owned
  <2> QED
    BY <2>1, <2>2 DEF Heard
<1>9. Becomes(w)
  BY <1>1, <1>2 DEF Becomes
<1> QED
  BY <1>6, <1>7, <1>8, <1>9 DEF Good

LEMMA SaveAndLoadGood ==
  ASSUME Inv, SaveAndLoad
  PROVE  \E w : Good(w, Names) /\ Becomes(w)
<1> DEFINE w == [mover |-> mover', model |-> model', Item |-> Item']
<1>1. Good(World, Names) /\ Item' = Start0
  BY DEF Inv, SaveAndLoad, Start0
<1>2. ASSUME NEW d \in Names
      PROVE  /\ mover'[d] \in MoverRecords
             /\ mover'[d].handle = -1
             /\ mover'[d].inAnimation = mover[d].inAnimation
             /\ mover'[d].trigger = mover[d].trigger
  <2>1. mover[d] \in MoverRecords /\ mover'[d] = [mover[d] EXCEPT !.handle = -1]
    BY <1>1, WorldFields DEF Good, Worlds, SaveAndLoad
  <2> QED
    BY <2>1 DEF MoverRecords
<1>3. ASSUME NEW d \in Names
      PROVE  /\ model'[d] \in ModelRecords
             /\ model'[d].moving = model[d].moving
             /\ model'[d].hasMoved = model[d].hasMoved
             /\ model'[d].time = model[d].time
  <2>1. /\ model[d] \in ModelRecords
        /\ model'[d] = [model[d] EXCEPT !.target = NoTarget, !.colliding = FALSE]
    BY <1>1, WorldFields DEF Good, Worlds, SaveAndLoad
  <2> DEFINE m == model[d]
             n == [m EXCEPT !.target = -1]
  <2>2. n \in ModelRecords /\ n.moving = m.moving /\ n.hasMoved = m.hasMoved /\ n.time = m.time
    BY <2>1 DEF ModelRecords
  <2>3. model'[d] = [n EXCEPT !.colliding = FALSE]
    BY <2>1 DEF NoTarget
  <2> HIDE DEF m, n
  <2>4. /\ model'[d] \in ModelRecords
        /\ model'[d].moving = m.moving /\ model'[d].hasMoved = m.hasMoved
        /\ model'[d].time = m.time
    BY <2>2, <2>3 DEF ModelRecords
  <2> QED
    BY <2>4 DEF m
<1>4. w \in Worlds
  <2>1. mover' \in [Names -> MoverRecords] /\ model' \in [Names -> ModelRecords]
    BY <1>2, <1>3 DEF SaveAndLoad
  <2> QED
    BY <1>1, <2>1, FreshPoolType DEF Worlds
<1>5. ASSUME NEW d \in Names PROVE Armed(w, d)
  <2>1. Armed(World, d)
    BY <1>1 DEF Good
  <2> QED
    BY <1>2, <1>3, <2>1, WorldFields DEF Armed, Rearmed, AtRest, Spent, Stays, Idle
<1>6. Heard(w, Names)
  BY <1>1, <1>2, FreshPoolType DEF Heard, Owns, Owned
<1>7. Becomes(w)
  BY DEF Becomes
<1> QED
  BY <1>4, <1>5, <1>6, <1>7 DEF Good

\* Every step keeps the invariant, and leaves the spent movers where they are.
LEMMA NextGood == Inv /\ [Next]_vars => Inv' /\ OnceStep
<1> SUFFICES ASSUME Inv, [Next]_vars PROVE Inv' /\ OnceStep
  OBVIOUS
<1>1. Good(World, Names) /\ setup \in Setups /\ on \subseteq Triggers
  BY DEF Inv
<1>2. ASSUME NEW d \in Names, NEW shot \in BOOLEAN, NEW use \in BOOLEAN,
             NEW player \in BOOLEAN, HandleCollision(d, shot, use, player)
      PROVE  Inv' /\ OnceStep
  BY <1>1, <1>2, CollisionKeeps, StepGood DEF HandleCollision
<1>3. CASE NextFrame
  <2>1. PICK dt \in Steps, blocked \in SUBSET Names, turned \in SUBSET Names :
          Frame(dt, blocked, turned)
    BY <1>3 DEF NextFrame
  <2> QED
    BY <1>1, <2>1, FrameGood, StepGood DEF Frame
<1>4. ASSUME NEW t \in Triggers, TriggerFlips(t) PROVE Inv' /\ OnceStep
  <2>1. Becomes(World) /\ setup' = setup /\ on' \subseteq Triggers
    BY <1>1, <1>4, WorldFields DEF TriggerFlips, Becomes
  <2> QED
    BY <1>1, <2>1, StepGood
<1>5. ASSUME NEW d \in Names, NEW t \in Targets, Command(d, t) PROVE Inv' /\ OnceStep
  BY <1>1, <1>5, CommandGood, StepGood DEF Command
<1>6. ASSUME NEW ends, EffectsTick(ends) PROVE Inv' /\ OnceStep
  BY <1>1, <1>6, EffectsTickGood, StepGood DEF EffectsTick
<1>7. CASE SaveAndLoad
  BY <1>1, <1>7, SaveAndLoadGood, StepGood DEF SaveAndLoad
<1>8. CASE UNCHANGED vars
  <2>1. Becomes(World) /\ setup' = setup /\ on' = on
    BY <1>8, WorldFields DEF vars, Becomes
  <2> QED
    BY <1>1, <2>1, StepGood
<1> QED
  BY <1>2, <1>3, <1>4, <1>5, <1>6, <1>7, <1>8 DEF Next

LEMMA Invariant == Spec => []Inv
<1>1. Inv /\ [Next]_vars => Inv'
  BY NextGood
<1> QED
  BY <1>1, InitGood, PTL DEF Spec

(***************************************************************************)
(* Whatever the doors and platforms of a level are, and however they are   *)
(* linked: the handle a mover keeps is that of its own looping sound, and  *)
(* a looping sound is played only while its mover's model moves.           *)
(***************************************************************************)
THEOREM OwnSounds == Spec => []SoundsOwned
<1>1. Inv => SoundsOwned
  <2> SUFFICES ASSUME Inv PROVE SoundsOwned
    OBVIOUS
  <2>1. Good(World, Names) /\ \A i \in Slots : Item[i].data.owner \in Names
    BY WorldFields, WorldAssumption DEF Inv, Good, Worlds, Pools
  <2> QED
    BY <2>1, WorldFields DEF SoundsOwned, Good, Heard, Owns, Owned, Loop
<1> QED
  BY <1>1, Invariant, PTL

\* No mover but an automatic platform is left triggered and not animating.
THEOREM NoneStuck == Spec => []NeverStuck
<1>1. Inv => NeverStuck
  BY WorldFields DEF Inv, Good, Armed, Rearmed, NeverStuck
<1> QED
  BY <1>1, Invariant, PTL

\* A one-shot mover that has moved and come to rest stays where it is.
THEOREM OneShotsOnce == Spec => OneShotOnce
<1>1. Inv /\ [Next]_vars
        => [\A d \in Names :
              /\ setup[d].oneShot /\ ~setup[d].scripted
              /\ setup[d].auto => setup[d].trigger = "none"
              /\ model[d].hasMoved /\ ~model[d].moving
              => ~model'[d].moving /\ model'[d].time = model[d].time]_vars
  BY NextGood DEF OnceStep, Once
<1> QED
  BY <1>1, Invariant, PTL DEF Spec, OneShotOnce

------------------------------------------------------------------------------
(* Double doors *)

Pair(d, e) == d \in Names /\ e \in Names /\ d # e /\ Double(d, e)

\* The two doors differ in nothing but their sounds, their callbacks and collisions.
InStep(w, d, e) ==
  /\ w.mover[d].inAnimation = w.mover[e].inAnimation
  /\ w.mover[d].trigger = w.mover[e].trigger
  /\ Alike(w.model[d], w.model[e])

\* Nothing of that happens to d.
Same(w, v, d) ==
  /\ v.mover[d].inAnimation = w.mover[d].inAnimation
  /\ v.mover[d].trigger = w.mover[d].trigger
  /\ v.model[d] = w.model[d]

LEMMA PairSymmetric ==
  ASSUME NEW d, NEW e, Pair(d, e)
  PROVE  /\ Pair(e, d) /\ setup[e] = setup[d] /\ Linked(d) = e /\ Linked(e) = d
         /\ \A x \in Names \ {d, e} : Linked(x) \notin {d, e}
  BY DEF Pair, Double, Linked

LEMMA InStepSymmetric ==
  ASSUME NEW w, NEW d, NEW e, InStep(w, d, e)
  PROVE  InStep(w, e, d)
  BY DEF InStep, Alike

LEMMA AlikeReads ==
  ASSUME NEW m \in ModelRecords, NEW n \in ModelRecords, Alike(m, n)
  PROVE  m.moving = n.moving /\ m.time = n.time /\ m.hasMoved = n.hasMoved
<1>1. Bump(m, FALSE) = Bump(n, FALSE)
  BY DEF Alike
<1>2. /\ Bump(m, FALSE).moving = m.moving /\ Bump(m, FALSE).time = m.time
      /\ Bump(m, FALSE).hasMoved = m.hasMoved
  BY BumpType
<1>3. /\ Bump(n, FALSE).moving = n.moving /\ Bump(n, FALSE).time = n.time
      /\ Bump(n, FALSE).hasMoved = n.hasMoved
  BY BumpType
<1> QED
  BY <1>1, <1>2, <1>3

LEMMA OpsAlike ==
  ASSUME NEW m \in ModelRecords, NEW n \in ModelRecords, Alike(m, n),
         NEW d, NEW e, setup[d] = setup[e]
  PROVE  Alike(Stop(m), Stop(n)) /\ Alike(Begun(m, d), Begun(n, e))
<1> DEFINE k == Bump(m, FALSE)
<1>1. k = Bump(n, FALSE)
  BY DEF Alike
<1>2. ASSUME NEW l \in ModelRecords
      PROVE  /\ Bump(Stop(l), FALSE) = Stop(Bump(l, FALSE))
             /\ Bump(Start(l), FALSE) = Start(Bump(l, FALSE))
             /\ Bump(ReStart(l), FALSE) = ReStart(Bump(l, FALSE))
  <2>1. Bump(Stop(l), FALSE) = Stop(Bump(l, FALSE))
    BY DEF Bump, Stop, ModelRecords
  <2>2. Bump(Start(l), FALSE) = Start(Bump(l, FALSE))
    BY DEF Bump, Start, ModelRecords
  <2>3. Bump(ReStart(l), FALSE) = ReStart(Bump(l, FALSE))
    <3>1. ReStart(Bump(l, FALSE)) = [Bump(l, FALSE) EXCEPT !.moving = TRUE, !.start = l.time]
      BY BumpType DEF ReStart
    <3> QED
      BY <3>1 DEF Bump, ReStart, ModelRecords
  <2> QED
    BY <2>1, <2>2, <2>3
<1> HIDE DEF k
<1>3. Alike(Stop(m), Stop(n)) /\ Alike(Start(m), Start(n)) /\ Alike(ReStart(m), ReStart(n))
  BY <1>1, <1>2 DEF Alike, k
<1>4. m.hasMoved = n.hasMoved /\ GoesOn(d) = GoesOn(e)
  BY AlikeReads DEF GoesOn
<1> QED
  BY <1>3, <1>4 DEF Begun

\* The chain of a mover apart from the pair never comes to it.
LEMMA FollowApart ==
  ASSUME setup \in Setups, NEW w \in Worlds, NEW d, NEW e, Pair(d, e),
         NEW x \in Names \ {d, e}, NEW shot
  PROVE  LET v == TriggerNext(w, x, shot) IN Same(w, v, d) /\ Same(w, v, e)
<1> DEFINE P == {s \in [w : Worlds, at : Names \cup {"none"}] :
                   s.at \notin {d, e} /\ Same(w, s.w, d) /\ Same(w, s.w, e)}
<1>1. /\ d \in Names /\ e \in Names /\ "none" \notin Names
      /\ \A y \in Names \ {d, e} : Linked(y) \in (Names \cup {"none"}) \ {d, e}
  BY PairSymmetric, LinkedType, WorldAssumption DEF Pair
<1>2. ASSUME NEW s \in P PROVE Call(s, shot) \in P
  <2>1. CASE s.at # "none" /\ CanFollow(s.w, s.at, shot)
    <3> DEFINE v == Activate(s.w, s.at)
    <3>1. s.at \in Names \ {d, e} /\ s.w \in Worlds
      BY <2>1
    <3>2. v \in Worlds /\ Elsewhere(s.w, v, s.at)
      BY <3>1, ActivateMakes
    <3>3. Call(s, shot) = [w |-> v, at |-> Linked(s.at)]
      BY <2>1 DEF Call
    <3> HIDE DEF v
    <3>4. Same(w, v, d) /\ Same(w, v, e)
      BY <1>1, <3>1, <3>2 DEF Elsewhere, Same
    <3>5. Linked(s.at) \in (Names \cup {"none"}) \ {d, e}
      BY <1>1, <3>1
    <3> QED
      BY <3>2, <3>3, <3>4, <3>5
  <2>2. CASE ~(s.at # "none" /\ CanFollow(s.w, s.at, shot))
    <3>1. Call(s, shot) = [s EXCEPT !.at = "none"]
      BY <2>2 DEF Call
    <3> QED
      BY <1>1, <3>1
  <2> QED
    BY <2>1, <2>2
<1>3. [w |-> w, at |-> Linked(x)] \in P
  BY <1>1 DEF Same
<1>4. Call([w |-> w, at |-> Linked(x)], shot) \in P
  BY <1>2, <1>3
<1> HIDE DEF P
<1>5. Follow(w, x, shot) \in P
  BY <1>2, <1>4, FollowKeeps
<1> QED
  BY <1>5 DEF P, TriggerNext

\* The chain of a door that has started starts the other if it has not, and ends.
LEMMA FollowPair ==
  ASSUME setup \in Setups, NEW w \in Worlds, NEW d, NEW e, Pair(d, e),
         NEW shot, StateOf(d), shot => setup[d].shoot, ~Idle(w, d),
         \/ InStep(w, d, e)
         \/ /\ w.mover[d].inAnimation /\ w.mover[d].trigger /\ Idle(w, e)
            /\ Alike(w.model[d], Begun(w.model[e], e))
  PROVE  LET v == TriggerNext(w, d, shot) IN InStep(v, d, e) /\ Same(w, v, d)
<1> DEFINE P == {s \in [w : Worlds, at : {d, e, "none"}] :
                   InStep(s.w, d, e) /\ Same(w, s.w, d)}
           s0 == [w |-> w, at |-> Linked(d)]
<1>1. /\ d \in Names /\ e \in Names /\ d # e /\ "none" \notin Names
      /\ Linked(d) = e /\ Linked(e) = d /\ setup[e] = setup[d]
  BY PairSymmetric, WorldAssumption DEF Pair
<1>2. ASSUME NEW s \in P PROVE Call(s, shot) \in P
  <2>1. ~Idle(s.w, d) /\ ~Idle(s.w, e)
    BY DEF InStep, Same, Idle
  <2>2. Call(s, shot) = [s EXCEPT !.at = "none"]
    BY <1>1, <2>1 DEF Call, CanFollow
  <2> QED
    BY <2>2
<1>3. Call(s0, shot) \in P
  <2>1. CASE InStep(w, d, e)
    <3>1. s0 \in P
      BY <1>1, <2>1 DEF Same
    <3> HIDE DEF P, s0
    <3> QED
      BY <1>2, <3>1
  <2>2. CASE ~InStep(w, d, e)
    <3> DEFINE v == Activate(w, e)
    <3>1. CanFollow(w, e, shot)
      BY <1>1, <2>2 DEF CanFollow, StateOf
    <3>2. Call(s0, shot) = [w |-> v, at |-> d]
      BY <1>1, <3>1 DEF Call
    <3>3. /\ v \in Worlds /\ Elsewhere(w, v, e)
          /\ v.mover[e].inAnimation /\ v.mover[e].trigger
          /\ v.model[e] = Begun(w.model[e], e)
      BY <1>1, ActivateMakes
    <3> HIDE DEF v
    <3>4. Same(w, v, d)
      BY <1>1, <3>3 DEF Elsewhere, Same
    <3>5. v.mover[d].inAnimation \in BOOLEAN /\ v.mover[e].inAnimation \in BOOLEAN
          /\ v.mover[d].trigger \in BOOLEAN /\ v.mover[e].trigger \in BOOLEAN
      BY <1>1, <3>3 DEF Worlds, MoverRecords
    <3>6. InStep(v, d, e)
      BY <2>2, <3>3, <3>4, <3>5 DEF InStep, Same
    <3> QED
      BY <3>2, <3>3, <3>4, <3>6
  <2> QED
    BY <2>1, <2>2
<1> HIDE DEF P
<1>4. Follow(w, d, shot) \in P
  BY <1>2, <1>3, FollowKeeps
<1> QED
  BY <1>4 DEF P, TriggerNext

\* A door is started, and the other with it.
LEMMA StartPair ==
  ASSUME setup \in Setups, NEW w \in Worlds, NEW d, NEW e, Pair(d, e), InStep(w, d, e),
         NEW shot, StateOf(d), shot => setup[d].shoot, Idle(w, d)
  PROVE  LET v == TriggerNext(Activate(w, d), d, shot)
         IN  /\ InStep(v, d, e) /\ v.mover[d].inAnimation /\ v.mover[d].trigger
             /\ v.model[d].moving
<1> DEFINE u == Activate(w, d)
<1>1. d \in Names /\ e \in Names /\ d # e /\ setup[d] = setup[e]
  BY PairSymmetric DEF Pair
<1>2. /\ u \in Worlds /\ Elsewhere(w, u, d)
      /\ u.mover[d].inAnimation /\ u.mover[d].trigger
      /\ u.model[d] = Begun(w.model[d], d)
  BY <1>1, ActivateMakes
<1>3. w.model[d] \in ModelRecords /\ w.model[e] \in ModelRecords
  BY <1>1 DEF Worlds
<1> HIDE DEF u
<1>4. u.mover[e] = w.mover[e] /\ u.model[e] = w.model[e]
  BY <1>1, <1>2 DEF Elsewhere
<1>5. Alike(u.model[d], Begun(u.model[e], e))
  BY <1>1, <1>2, <1>3, <1>4, OpsAlike DEF InStep
<1>6. Idle(u, e) /\ ~Idle(u, d)
  BY <1>2, <1>4 DEF InStep, Idle
<1> DEFINE v == TriggerNext(u, d, shot)
<1>7. InStep(v, d, e) /\ Same(u, v, d)
  BY <1>2, <1>5, <1>6, FollowPair
<1>8. u.model[d].moving
  BY <1>2, <1>3, ModelOps
<1> QED
  BY <1>2, <1>7, <1>8 DEF Same, u

LEMMA CollisionInStep ==
  ASSUME setup \in Setups, NEW w, Good(w, Names), NEW d, NEW e, Pair(d, e),
         InStep(w, d, e), NEW x \in Names, NEW shot, shot => setup[x].shoot
  PROVE  InStep(Collision(w, x, shot), d, e)
<1>1. w \in Worlds /\ d \in Names /\ e \in Names /\ d # e
  BY DEF Pair, Good
<1>2. CASE ~StateOf(x)
  <2> DEFINE v == [w EXCEPT !.mover[x].callBack = 2]
  <2>1. Same(w, v, d) /\ Same(w, v, e)
    BY <1>1 DEF Same, Worlds, MoverRecords
  <2>2. Collision(w, x, shot) = v
    BY <1>2 DEF Collision
  <2> HIDE DEF v
  <2> QED
    BY <2>1, <2>2 DEF InStep, Same
<1>3. CASE StateOf(x) /\ x \notin {d, e}
  <2> DEFINE u == IF Idle(w, x) THEN Activate(w, x) ELSE w
  <2>1. u \in Worlds /\ Same(w, u, d) /\ Same(w, u, e)
    <3>1. CASE Idle(w, x)
      BY <1>1, <1>3, <3>1, ActivateMakes DEF Elsewhere, Same
    <3>2. CASE ~Idle(w, x)
      BY <1>1, <3>2 DEF Same
    <3> QED
      BY <3>1, <3>2
  <2>2. Collision(w, x, shot) = TriggerNext(u, x, shot)
    BY <1>3 DEF Collision
  <2> HIDE DEF u
  <2> DEFINE v == TriggerNext(u, x, shot)
  <2>3. Same(u, v, d) /\ Same(u, v, e)
    BY <1>3, <2>1, FollowApart
  <2> HIDE DEF v
  <2>4. InStep(v, d, e)
    BY <2>1, <2>3 DEF InStep, Same
  <2> QED
    BY <2>2, <2>4 DEF v
<1>4. ASSUME NEW a, NEW b, Pair(a, b), InStep(w, a, b), StateOf(a), shot => setup[a].shoot
      PROVE  InStep(Collision(w, a, shot), a, b)
  <2>1. CASE Idle(w, a)
    BY <1>1, <1>4, <2>1, StartPair DEF Collision
  <2>2. CASE ~Idle(w, a)
    BY <1>1, <1>4, <2>2, FollowPair DEF Collision
  <2> QED
    BY <2>1, <2>2
<1>5. CASE StateOf(x) /\ x = d
  BY <1>4, <1>5
<1>6. CASE StateOf(x) /\ x = e
  BY <1>4, <1>6, PairSymmetric, InStepSymmetric
<1> QED
  BY <1>2, <1>3, <1>5, <1>6

\* The trigger starts the door, in its tick; or stops it.
Starts(w, d) ==
  /\ setup[d].trigger # "none" /\ StateOf(d) /\ Idle(w, d)
  /\ setup[d].noCollide /\ ~setup[d].useKey

Halts(w, d) ==
  /\ setup[d].trigger # "none" /\ ~StateOf(d)
  /\ w.mover[d].inAnimation /\ w.mover[d].trigger
  /\ setup[d].noCollide /\ setup[d].whileTrig

\* The tick of a door that the trigger does not start, from w to v.
Settles(w, v, d) ==
  LET halts == Halts(w, d)
      over  == w.mover[d].inAnimation /\ (halts \/ ~w.model[d].moving)
      trig  == w.mover[d].trigger /\ ~halts
  IN  /\ v.mover[d].inAnimation = IF over THEN setup[d].oneShot ELSE w.mover[d].inAnimation
      /\ v.mover[d].trigger = IF over THEN trig /\ setup[d].oneShot ELSE trig
      /\ v.model[d] = IF halts THEN Stop(w.model[d]) ELSE w.model[d]

\* After TickTrigger: the flags change when the animation is over, the model no more.
LEMMA RestOfTick ==
  ASSUME setup \in Setups, NEW w, NEW T, Good(w, T), NEW d \in Names
  PROVE  LET u == TickTrigger(w, d)
             v == TickMover(w, d)
             over == u.mover[d].inAnimation /\ ~u.model[d].moving
         IN  /\ \A e \in Names \ {d} : Same(u, v, e)
             /\ v.mover[d].inAnimation
                  = IF over THEN setup[d].oneShot ELSE u.mover[d].inAnimation
             /\ v.mover[d].trigger
                  = IF over THEN u.mover[d].trigger /\ setup[d].oneShot
                    ELSE u.mover[d].trigger
             /\ v.model[d] = u.model[d]
<1> DEFINE u == TickTrigger(w, d)
           c == TickCallBack(u, d)
           s == TickStopped(c, d)
           v == TickSound(s, d)
<1>1. TickMover(w, d) = v
  BY DEF TickMover
<1>2. Good(u, T)
  BY TickTriggerKeeps
<1> HIDE DEF u
<1>3. Good(c, T)
  BY <1>2, TickCallBackKeeps
<1>4. \A e \in Names : Same(u, c, e)
  BY <1>2 DEF Same, TickCallBack, Good, Worlds, MoverRecords
<1> HIDE DEF c
<1>5. c \in Worlds
  BY <1>3 DEF Good
<1>6. /\ s \in Worlds /\ Elsewhere(c, s, d) /\ s.model[d] = c.model[d]
      /\ s = c \/ /\ c.mover[d].inAnimation /\ ~c.model[d].moving
                  /\ s.mover[d].inAnimation = setup[d].oneShot
                  /\ s.mover[d].trigger = (c.mover[d].trigger /\ setup[d].oneShot)
      /\ c.mover[d].inAnimation /\ ~c.model[d].moving =>
           /\ s.mover[d].inAnimation = setup[d].oneShot
           /\ s.mover[d].trigger = (c.mover[d].trigger /\ setup[d].oneShot)
  BY <1>5, TickStoppedMakes
<1> HIDE DEF s
<1>7. OnlySound(s, v, d)
  <2>1. CASE ~s.model[d].moving
    BY <1>6, <2>1, SilenceMakes DEF TickSound
  <2>2. CASE s.model[d].moving /\ ~s.mover[d].inAnimation /\ s.mover[d].handle = -1
    BY <1>6, <2>2, PlaySoundMakes DEF TickSound
  <2>3. CASE s.model[d].moving /\ ~(~s.mover[d].inAnimation /\ s.mover[d].handle = -1)
    BY <1>6, <2>3 DEF TickSound, OnlySound
  <2> QED
    BY <2>1, <2>2, <2>3
<1> HIDE DEF v
<1>8. ASSUME NEW e \in Names \ {d} PROVE Same(u, v, e)
  BY <1>4, <1>6, <1>7 DEF Same, Elsewhere, OnlySound
<1>9. v.model[d] = u.model[d]
  BY <1>4, <1>6, <1>7 DEF Same, OnlySound
<1>10. CASE u.mover[d].inAnimation /\ ~u.model[d].moving
  BY <1>1, <1>4, <1>6, <1>7, <1>8, <1>9, <1>10 DEF Same, OnlySound, u
<1>11. CASE ~(u.mover[d].inAnimation /\ ~u.model[d].moving)
  <2>1. s = c
    BY <1>4, <1>6, <1>11 DEF Same
  <2> QED
    BY <1>1, <1>4, <1>7, <1>8, <1>9, <1>11, <2>1 DEF Same, OnlySound, u
<1> QED
  BY <1>10, <1>11

\* A door that the trigger does not start: nobody else is touched.
LEMMA TickSettles ==
  ASSUME setup \in Setups, NEW w, NEW T, Good(w, T), NEW d \in Names,
         setup[d].kind = "door", ~Starts(w, d)
  PROVE  LET v == TickMover(w, d)
         IN  Settles(w, v, d) /\ \A e \in Names \ {d} : Same(w, v, e)
<1> DEFINE u == TickTrigger(w, d)
           v == TickMover(w, d)
<1>1. w \in Worlds /\ w.model[d] \in ModelRecords
  BY DEF Good, Worlds
<1>2. /\ u.mover[d].inAnimation = w.mover[d].inAnimation
      /\ u.mover[d].trigger = (w.mover[d].trigger /\ ~Halts(w, d))
      /\ u.model[d] = IF Halts(w, d) THEN Stop(w.model[d]) ELSE w.model[d]
      /\ \A e \in Names \ {d} : Same(w, u, e)
  <2>1. CASE Halts(w, d)
    <3>1. u = Untrigger(w, d)
      BY <2>1 DEF Halts, TickTrigger, Untriggered
    <3> HIDE DEF u
    <3>2. /\ u \in Worlds /\ Elsewhere(w, u, d) /\ u.model[d] = Stop(w.model[d])
          /\ u.mover[d].inAnimation = w.mover[d].inAnimation /\ ~u.mover[d].trigger
      BY <1>1, <3>1, UntriggerMakes
    <3>3. u.mover[d].trigger \in BOOLEAN
      BY <3>2 DEF Worlds, MoverRecords
    <3> QED
      BY <2>1, <3>2, <3>3 DEF Elsewhere, Same
  <2>2. CASE ~Halts(w, d)
    <3>1. u = w
      BY <2>2 DEF Starts, Halts, TickTrigger, Triggered, Untriggered
    <3>2. w.mover[d].trigger \in BOOLEAN
      BY <1>1 DEF Worlds, MoverRecords
    <3> HIDE DEF u
    <3> QED
      BY <2>2, <3>1, <3>2 DEF Same
  <2> QED
    BY <2>1, <2>2
<1>3. /\ \A e \in Names \ {d} : Same(u, v, e)
      /\ v.mover[d].inAnimation
           = IF u.mover[d].inAnimation /\ ~u.model[d].moving THEN setup[d].oneShot
             ELSE u.mover[d].inAnimation
      /\ v.mover[d].trigger
           = IF u.mover[d].inAnimation /\ ~u.model[d].moving
             THEN u.mover[d].trigger /\ setup[d].oneShot ELSE u.mover[d].trigger
      /\ v.model[d] = u.model[d]
  BY RestOfTick
<1>4. Stop(w.model[d]).moving = FALSE
  BY <1>1, ModelOps DEF ModelRecords, Stop
<1> HIDE DEF u, v
<1>5. Settles(w, v, d)
  BY <1>2, <1>3, <1>4 DEF Settles
<1>6. \A e \in Names \ {d} : Same(w, v, e)
  BY <1>2, <1>3 DEF Same
<1> QED
  BY <1>5, <1>6 DEF v

\* A mover apart from the pair ticks.
LEMMA TickApart ==
  ASSUME setup \in Setups, NEW w, NEW T, Good(w, T), NEW d, NEW e, Pair(d, e),
         NEW x \in Names \ {d, e}
  PROVE  LET v == TickMover(w, x) IN Same(w, v, d) /\ Same(w, v, e)
<1> DEFINE u == TickTrigger(w, x)
           v == TickMover(w, x)
<1>1. w \in Worlds /\ d \in Names \ {x} /\ e \in Names \ {x}
  BY DEF Good, Pair
<1>2. Same(u, v, d) /\ Same(u, v, e)
  BY <1>1, RestOfTick
<1> HIDE DEF v
<1>3. Same(w, u, d) /\ Same(w, u, e)
  <2> DEFINE a == Activate(w, x)
             f == TriggerNext(a, x, FALSE)
             h == Untrigger(w, x)
  <2>1. u \in {w, f, h}
    BY DEF TickTrigger, Triggered, Untriggered
  <2> HIDE DEF u
  <2>2. a \in Worlds /\ Elsewhere(w, a, x)
    BY <1>1, ActivateMakes
  <2> HIDE DEF a
  <2>3. Same(a, f, d) /\ Same(a, f, e)
    BY <2>2, FollowApart
  <2> HIDE DEF f
  <2>4. Elsewhere(w, h, x)
    BY <1>1, UntriggerMakes
  <2> HIDE DEF h
  <2>5. /\ Same(w, w, d) /\ Same(w, h, d) /\ Same(w, f, d)
        /\ Same(w, w, e) /\ Same(w, h, e) /\ Same(w, f, e)
    BY <1>1, <2>2, <2>3, <2>4 DEF Elsewhere, Same
  <2> QED
    BY <2>1, <2>5
<1> QED
  BY <1>2, <1>3 DEF Same, v

\* The first door of the pair, d, has ticked in this frame, and the second has yet to:
\* it will not be started, and will be as the first is now.
Ahead(w, d, e) ==
  /\ ~Starts(w, e)
  /\ LET halts == Halts(w, e)
         over  == w.mover[e].inAnimation /\ (halts \/ ~w.model[e].moving)
         trig  == w.mover[e].trigger /\ ~halts
     IN  /\ w.mover[d].inAnimation
              = IF over THEN setup[e].oneShot ELSE w.mover[e].inAnimation
         /\ w.mover[d].trigger = IF over THEN trig /\ setup[e].oneShot ELSE trig
         /\ Alike(w.model[d], IF halts THEN Stop(w.model[e]) ELSE w.model[e])

LEMMA FirstTicks ==
  ASSUME setup \in Setups, NEW w, NEW T, Good(w, T), NEW d, NEW e, Pair(d, e),
         InStep(w, d, e)
  PROVE  Ahead(TickMover(w, d), d, e)
<1> DEFINE v == TickMover(w, d)
<1>1. /\ w \in Worlds /\ d \in Names /\ e \in Names /\ d # e /\ setup[e] = setup[d]
      /\ setup[d].kind = "door" /\ w.model[d] \in ModelRecords /\ w.model[e] \in ModelRecords
  BY PairSymmetric DEF Pair, Double, Good, Worlds
<1>2. w.model[d].moving = w.model[e].moving
  BY <1>1, AlikeReads DEF InStep
<1>3. CASE ~Starts(w, d)
  <2>1. Settles(w, v, d) /\ Same(w, v, e)
    BY <1>1, <1>3, TickSettles
  <2> HIDE DEF v
  <2>2. /\ Starts(v, e) = Starts(w, d) /\ Halts(v, e) = Halts(w, d)
        /\ Starts(v, e) \in BOOLEAN
    BY <1>1, <2>1 DEF Same, InStep, Starts, Halts, StateOf, Idle
  <2>3. Alike(v.model[d], IF Halts(w, d) THEN Stop(v.model[e]) ELSE v.model[e])
    <3>1. Alike(Stop(w.model[d]), Stop(w.model[e])) /\ Alike(w.model[d], w.model[e])
      BY <1>1, OpsAlike DEF InStep
    <3> QED
      BY <2>1, <3>1 DEF Settles, Same
  <2>4. /\ v.mover[e].inAnimation = w.mover[d].inAnimation
        /\ v.mover[e].trigger = w.mover[d].trigger
        /\ v.model[e].moving = w.model[d].moving
    BY <1>2, <2>1 DEF Same, InStep
  <2>5. Ahead(v, d, e)
    BY <1>1, <1>3, <2>1, <2>2, <2>3, <2>4 DEF Ahead, Settles
  <2> QED
    BY <2>5 DEF v
<1>4. CASE Starts(w, d)
  <2> DEFINE u == TickTrigger(w, d)
  <2>1. u = TriggerNext(Activate(w, d), d, FALSE)
    BY <1>1, <1>4 DEF Starts, TickTrigger, Triggered
  <2>2. InStep(u, d, e) /\ u.mover[d].inAnimation /\ u.mover[d].trigger /\ u.model[d].moving
    BY <1>1, <1>4, <2>1, StartPair DEF Starts
  <2>3. Same(u, v, d) /\ Same(u, v, e)
    <3>1. /\ \A x \in Names \ {d} : Same(u, v, x)
          /\ v.mover[d].inAnimation
               = IF u.mover[d].inAnimation /\ ~u.model[d].moving THEN setup[d].oneShot
                 ELSE u.mover[d].inAnimation
          /\ v.mover[d].trigger
               = IF u.mover[d].inAnimation /\ ~u.model[d].moving
                 THEN u.mover[d].trigger /\ setup[d].oneShot ELSE u.mover[d].trigger
          /\ v.model[d] = u.model[d]
      BY <1>1, RestOfTick
    <3> HIDE DEF u, v
    <3> QED
      BY <1>1, <2>2, <3>1 DEF Same
  <2>4. u.model[d] \in ModelRecords /\ u.model[e] \in ModelRecords
    BY <1>1, TickTriggerKeeps DEF Good, Worlds
  <2> HIDE DEF u, v
  <2>5. u.model[e].moving
    BY <2>2, <2>4, AlikeReads DEF InStep
  <2>6. /\ InStep(v, d, e) /\ v.mover[e].inAnimation /\ v.mover[e].trigger
        /\ v.model[e].moving
    BY <2>2, <2>3, <2>5 DEF InStep, Same
  <2>7. ~Starts(v, e) /\ ~Halts(v, e)
    BY <1>1, <1>4, <2>6 DEF Starts, Halts, Idle, StateOf
  <2>8. v.mover[d].inAnimation = v.mover[e].inAnimation
        /\ v.mover[d].trigger = (v.mover[e].trigger /\ ~Halts(v, e))
    BY <2>2, <2>3, <2>6, <2>7 DEF Same, InStep
  <2>9. Ahead(v, d, e)
    BY <2>6, <2>7, <2>8 DEF Ahead, InStep
  <2> QED
    BY <2>9 DEF v
<1> QED
  BY <1>3, <1>4

LEMMA SecondTicks ==
  ASSUME setup \in Setups, NEW w, NEW T, Good(w, T), NEW d, NEW e, Pair(d, e),
         Ahead(w, d, e)
  PROVE  InStep(TickMover(w, e), d, e)
<1> DEFINE v == TickMover(w, e)
<1>1. d \in Names \ {e} /\ e \in Names /\ setup[e].kind = "door"
  BY PairSymmetric DEF Pair, Double
<1>2. Settles(w, v, e) /\ Same(w, v, d)
  BY <1>1, TickSettles DEF Ahead
<1> HIDE DEF v
<1>3. InStep(v, d, e)
  BY <1>2 DEF Ahead, Settles, Same, InStep
<1> QED
  BY <1>3 DEF v

\* Where the pair is when the movers T have ticked.
Stage(w, T, d, e) ==
  /\ (d \in T) = (e \in T) => InStep(w, d, e)
  /\ d \in T /\ e \notin T => Ahead(w, d, e)
  /\ e \in T /\ d \notin T => Ahead(w, e, d)

LEMMA TickStage ==
  ASSUME setup \in Setups, NEW w, NEW T, Good(w, T), NEW d, NEW e, Pair(d, e),
         Stage(w, T, d, e), NEW x \in Names, x \notin T
  PROVE  Stage(TickMover(w, x), T \cup {x}, d, e)
<1> DEFINE v == TickMover(w, x)
<1>1. d \in Names /\ e \in Names /\ d # e /\ Pair(e, d) /\ setup[d] = setup[e]
  BY PairSymmetric DEF Pair
<1>2. CASE x \notin {d, e}
  <2>1. Same(w, v, d) /\ Same(w, v, e)
    BY <1>2, TickApart
  <2> HIDE DEF v
  <2>2. InStep(w, d, e) => InStep(v, d, e)
    BY <2>1 DEF InStep, Same
  <2>3. (Ahead(w, d, e) => Ahead(v, d, e)) /\ (Ahead(w, e, d) => Ahead(v, e, d))
    BY <2>1 DEF Ahead, Same, Starts, Halts, Idle
  <2> QED
    BY <1>2, <2>2, <2>3 DEF Stage, v
<1>3. CASE x = d
  <2>1. CASE e \notin T
    <3>1. InStep(w, d, e)
      BY <1>3, <2>1 DEF Stage
    <3>2. Ahead(v, d, e)
      BY <1>3, <3>1, FirstTicks
    <3> HIDE DEF v
    <3> QED
      BY <1>1, <1>3, <2>1, <3>2 DEF Stage, v
  <2>2. CASE e \in T
    <3>1. Ahead(w, e, d)
      BY <1>3, <2>2 DEF Stage
    <3>2. InStep(v, e, d)
      BY <1>1, <1>3, <3>1, SecondTicks
    <3> HIDE DEF v
    <3>3. InStep(v, d, e)
      BY <3>2, InStepSymmetric
    <3> QED
      BY <1>1, <1>3, <2>2, <3>3 DEF Stage, v
  <2> QED
    BY <2>1, <2>2
<1>4. CASE x = e
  <2>1. CASE d \notin T
    <3>1. InStep(w, e, d)
      BY <1>4, <2>1, InStepSymmetric DEF Stage
    <3>2. Ahead(v, e, d)
      BY <1>1, <1>4, <3>1, FirstTicks
    <3> HIDE DEF v
    <3> QED
      BY <1>1, <1>4, <2>1, <3>2 DEF Stage, v
  <2>2. CASE d \in T
    <3>1. Ahead(w, d, e)
      BY <1>4, <2>2 DEF Stage
    <3>2. InStep(v, d, e)
      BY <1>1, <1>4, <3>1, SecondTicks
    <3> HIDE DEF v
    <3> QED
      BY <1>1, <1>4, <2>2, <3>2 DEF Stage, v
  <2> QED
    BY <2>1, <2>2
<1> QED
  BY <1>2, <1>3, <1>4

LEMMA FrameInStep ==
  ASSUME Inv, NEW d, NEW e, Pair(d, e), InStep(World, d, e),
         NEW dt \in Steps, NEW blocked, NEW turned
  PROVE  InStep(TickMovers([World EXCEPT !.model = TickModels(dt, blocked, turned)]), d, e)
<1> DEFINE N == Len(Movers)
           T(n) == {Movers[i] : i \in 1 .. n}
           P == [n \in 0 .. N |-> {w \in Worlds : Good(w, T(n)) /\ Stage(w, T(n), d, e)}]
           ms == TickModels(dt, blocked, turned)
           w0 == [World EXCEPT !.model = ms]
<1>1. N \in Nat /\ T(N) = Names /\ T(0) = {}
  BY WorldAssumption DEF Names
<1>2. Good(w0, {}) /\ setup \in Setups
  BY TickModelsGood DEF Inv
<1>3. Stage(w0, {}, d, e)
  <2>1. /\ d \in Names /\ e \in Names /\ setup[d].motion = setup[e].motion
        /\ ~setup[d].motion.turns
    BY DEF Pair, Double
  <2>2. /\ model[d] \in ModelRecords /\ model[e] \in ModelRecords
        /\ setup[d].motion \in Motions /\ dt \in Int /\ Alike(model[d], model[e])
    BY <1>2, <2>1, SetupType, WorldFields, WorldAssumption
    DEF Inv, Good, Worlds, Settings, InStep
  <2> DEFINE b1 == d \in blocked  b2 == e \in blocked  t1 == d \in turned  t2 == e \in turned
  <2>3. b1 \in BOOLEAN /\ b2 \in BOOLEAN /\ t1 \in BOOLEAN /\ t2 \in BOOLEAN
    OBVIOUS
  <2>4. /\ ms[d] = ProcessModelTick(model[d], setup[d].motion, dt, b1, t1)
        /\ ms[e] = ProcessModelTick(model[e], setup[d].motion, dt, b2, t2)
    BY <2>1 DEF TickModels
  <2>5. w0.mover = World.mover /\ w0.model = ms
    BY DEF World
  <2> HIDE DEF b1, b2, t1, t2, ms, w0
  <2>6. Alike(ms[d], ms[e])
    BY <2>1, <2>2, <2>3, <2>4, ModelTickAlike
  <2>7. InStep(w0, d, e)
    BY <2>5, <2>6 DEF InStep
  <2> QED
    BY <2>7 DEF Stage
<1> HIDE DEF w0, ms
<1>4. w0 \in P[0]
  <2>1. P[0] = {w \in Worlds : Good(w, T(0)) /\ Stage(w, T(0), d, e)}
    BY <1>1
  <2>2. w0 \in Worlds /\ Good(w0, T(0)) /\ Stage(w0, T(0), d, e)
    BY <1>1, <1>2, <1>3 DEF Good
  <2> HIDE DEF P
  <2> QED
    BY <2>1, <2>2
<1>5. ASSUME NEW n \in 1 .. N, NEW v \in P[n - 1] PROVE TickMover(v, Movers[n]) \in P[n]
  <2>1. n - 1 \in 0 .. N /\ n \in 0 .. N
    OBVIOUS
  <2>2. Good(v, T(n - 1)) /\ Stage(v, T(n - 1), d, e)
    BY <2>1
  <2>3. /\ Movers[n] \in Names /\ T(n) = T(n - 1) \cup {Movers[n]}
        /\ Movers[n] \notin T(n - 1)
    BY WorldAssumption DEF Names
  <2>4. Good(TickMover(v, Movers[n]), T(n))
    BY <1>2, <2>2, <2>3, TickMoverKeeps
  <2>5. Stage(TickMover(v, Movers[n]), T(n), d, e)
    BY <1>2, <2>2, <2>3, TickStage
  <2> QED
    BY <2>1, <2>4, <2>5 DEF Good
<1> HIDE DEF P
<1>6. TickMovers(w0) \in P[N]
  BY <1>4, <1>5, RoundKeeps
<1>7. Stage(TickMovers(w0), Names, d, e)
  BY <1>1, <1>6 DEF P
<1> QED
  BY <1>7 DEF Stage, Pair, w0, ms

Paired == \A d, e \in Names : Pair(d, e) => InStep(World, d, e)

\* A step of which the world w comes.
LEMMA PairedStep ==
  ASSUME Inv, NEW w, Good(w, Names), Becomes(w), setup' = setup,
         \A d, e \in Names : Pair(d, e) => InStep(w, d, e)
  PROVE  Paired'
<1>1. World' = w
  BY DEF Good, Becomes, World, Worlds
<1>2. ASSUME NEW d, NEW e PROVE Pair(d, e)' = Pair(d, e)
  BY DEF Pair, Double, Linked
<1> QED
  BY <1>1, <1>2 DEF Paired, InStep, Alike

LEMMA PairedInit == Init => Paired
<1> SUFFICES ASSUME Init, NEW d \in Names, NEW e \in Names, Pair(d, e)
             PROVE  InStep(World, d, e)
  BY DEF Paired
<1>1. setup[d] = setup[e]
  BY DEF Pair, Double
<1>2. mover[d] = mover[e] /\ model[d] = model[e]
  BY <1>1 DEF Init
<1> QED
  BY <1>2, WorldFields DEF InStep, Alike

LEMMA PairedNext == Inv /\ Paired /\ [Next]_vars => Paired'
<1> SUFFICES ASSUME Inv, Paired, [Next]_vars PROVE Paired'
  OBVIOUS
<1>1. /\ Good(World, Names) /\ setup \in Setups
      /\ \A d, e \in Names : Pair(d, e) => InStep(World, d, e)
  BY DEF Inv, Paired
<1>2. ASSUME NEW x \in Names, NEW shot \in BOOLEAN, NEW use \in BOOLEAN,
             NEW player \in BOOLEAN, HandleCollision(x, shot, use, player)
      PROVE  Paired'
  <2> DEFINE w == Collision(World, x, shot)
  <2>1. Good(w, Names) /\ Becomes(w) /\ setup' = setup
    BY <1>1, <1>2, CollisionKeeps DEF HandleCollision
  <2>2. shot => setup[x].shoot
    BY <1>2 DEF HandleCollision, Reacts
  <2>3. ASSUME NEW d \in Names, NEW e \in Names, Pair(d, e) PROVE InStep(w, d, e)
    BY <1>1, <2>2, <2>3, CollisionInStep
  <2> HIDE DEF w
  <2> QED
    BY <2>1, <2>3, PairedStep
<1>3. CASE NextFrame
  <2>1. PICK dt \in Steps, blocked \in SUBSET Names, turned \in SUBSET Names :
          Frame(dt, blocked, turned)
    BY <1>3 DEF NextFrame
  <2> DEFINE w == TickMovers([World EXCEPT !.model = TickModels(dt, blocked, turned)])
  <2>2. Good(w, Names) /\ Becomes(w) /\ setup' = setup
    BY <2>1, FrameGood DEF Frame
  <2>3. ASSUME NEW d \in Names, NEW e \in Names, Pair(d, e) PROVE InStep(w, d, e)
    BY <1>1, <2>3, FrameInStep
  <2> HIDE DEF w
  <2> QED
    BY <2>2, <2>3, PairedStep
<1>4. CASE \/ \E t \in Triggers : TriggerFlips(t)
           \/ \E ends \in SUBSET Slots : EffectsTick(ends)
           \/ UNCHANGED vars
  <2>1. mover' = mover /\ model' = model /\ setup' = setup
    BY <1>4 DEF TriggerFlips, EffectsTick, vars
  <2>2. ASSUME NEW d, NEW e PROVE Pair(d, e)' = Pair(d, e)
    BY <2>1 DEF Pair, Double, Linked
  <2>3. ASSUME NEW d, NEW e PROVE InStep(World, d, e)' = InStep(World, d, e)
    BY <2>1 DEF InStep, Alike, World
  <2> QED
    BY <1>1, <2>2, <2>3 DEF Paired
<1>5. ASSUME NEW x \in Names, NEW t \in Targets, Command(x, t) PROVE Paired'
  <2>1. PICK w : Good(w, Names) /\ Becomes(w)
    BY <1>5, CommandGood
  <2>2. /\ setup[x].scripted /\ mover' = mover /\ setup' = setup
        /\ \A y \in Names : y # x => model'[y] = model[y]
    BY <1>1, <1>5, WorldFields DEF Command, Good, Worlds
  <2>3. ASSUME NEW d \in Names, NEW e \in Names, Pair(d, e) PROVE InStep(w, d, e)
    <3>1. d # x /\ e # x
      BY <2>2, <2>3 DEF Pair, Double
    <3> QED
      BY <1>1, <2>1, <2>2, <2>3, <3>1, WorldFields DEF Becomes, InStep
  <2> QED
    BY <2>1, <2>2, <2>3, PairedStep
<1>6. CASE SaveAndLoad
  <2>1. PICK w : Good(w, Names) /\ Becomes(w)
    BY <1>6, SaveAndLoadGood
  <2>2. ASSUME NEW d \in Names, NEW e \in Names, Pair(d, e) PROVE InStep(w, d, e)
    <3>1. /\ InStep(World, d, e) /\ model[d] \in ModelRecords /\ model[e] \in ModelRecords
          /\ mover[d] \in MoverRecords /\ mover[e] \in MoverRecords
      BY <1>1, <2>2, WorldFields DEF Good, Worlds
    <3>2. /\ w.mover[d] = [mover[d] EXCEPT !.handle = -1]
          /\ w.mover[e] = [mover[e] EXCEPT !.handle = -1]
          /\ w.model[d] = [model[d] EXCEPT !.target = NoTarget, !.colliding = FALSE]
          /\ w.model[e] = [model[e] EXCEPT !.target = NoTarget, !.colliding = FALSE]
      BY <1>6, <2>1 DEF Becomes, SaveAndLoad
    <3>3. \A m \in ModelRecords :
            Bump([m EXCEPT !.target = NoTarget, !.colliding = FALSE], FALSE)
              = [Bump(m, FALSE) EXCEPT !.target = NoTarget]
      BY DEF Bump, ModelRecords
    <3>4. Alike(w.model[d], w.model[e])
      <4>1. /\ Bump(w.model[d], FALSE) = [Bump(model[d], FALSE) EXCEPT !.target = NoTarget]
            /\ Bump(w.model[e], FALSE) = [Bump(model[e], FALSE) EXCEPT !.target = NoTarget]
        BY <3>1, <3>2, <3>3
      <4>2. Bump(model[d], FALSE) = Bump(model[e], FALSE)
        BY <3>1, WorldFields DEF InStep, Alike
      <4> QED
        BY <4>1, <4>2 DEF Alike
    <3> QED
      BY <3>1, <3>2, <3>4, WorldFields DEF InStep, MoverRecords
  <2>3. setup' = setup
    BY <1>6 DEF SaveAndLoad
  <2> QED
    BY <2>1, <2>2, <2>3, PairedStep
<1> QED
  BY <1>2, <1>3, <1>4, <1>5, <1>6 DEF Next

\* Two doors that are alike and linked to each other stay in step.
THEOREM DoorsInStep == Spec => []DoubleDoors
<1>1. Inv /\ Paired => DoubleDoors
  <2> SUFFICES ASSUME Inv, Paired, NEW d \in Names, NEW e \in Names, Double(d, e)
               PROVE  /\ model[d].time = model[e].time
                      /\ model[d].moving = model[e].moving
                      /\ mover[d].inAnimation = mover[e].inAnimation
    BY DEF DoubleDoors
  <2>1. CASE d = e
    BY <2>1
  <2>2. CASE d # e
    <3>1. /\ InStep(World, d, e) /\ model[d] \in ModelRecords /\ model[e] \in ModelRecords
      BY <2>2, WorldFields DEF Inv, Good, Worlds, Paired, Pair
    <3> QED
      BY <3>1, AlikeReads, WorldFields DEF InStep
  <2> QED
    BY <2>1, <2>2
<1>2. Spec => [](Inv /\ Paired)
  <2>1. Init => Inv /\ Paired
    BY InitGood, PairedInit
  <2>2. (Inv /\ Paired) /\ [Next]_vars => (Inv /\ Paired)'
    BY NextGood, PairedNext
  <2> QED
    BY <2>1, <2>2, PTL DEF Spec
<1> QED
  BY <1>1, <1>2, PTL

===============================================================================

------------------------------ MODULE Pawn_proofs ------------------------------
(***************************************************************************)
(* Proofs about Pawn, for every script that keeps ScriptAssumption.        *)
(*                                                                         *)
(* The order at the bottom, the one nothing has interrupted, is never one  *)
(* that is written to be called, and nothing in its queue is a Return:     *)
(* every way to replace it leads to an order that is not called either,    *)
(* and called orders are entered by a Push only.  This is Bottom, and the  *)
(* other conjuncts of IInv say of the places orders come from (the list of *)
(* triggers, the delayed trigger, the settings, the queues, and what is    *)
(* saved on the stack) that no called order gets into them.                *)
(***************************************************************************)
EXTENDS Pawn, SequenceTheorems, TLAPS

\* An order that is not written to be called, as the pawn works on it.
Calm(f) == f.order \notin Called /\ \A i \in 1 .. Len(f.queue) : Plain(f.queue[i])

GoodFrame(f) ==
  /\ f \in Frames /\ f.index <= Len(f.queue)
  /\ f.dist \notin Called
  /\ \A i \in 1 .. Len(f.queue) : Tame(f.queue[i])
GoodStack == stack \in Seq(Frames) /\ \A i \in 1 .. Len(stack) : GoodFrame(stack[i])
Bottom == IF stack = <<>> THEN Calm(cur) ELSE Calm(stack[1])

Triggers == [name : Names, order : Orders \ Called, delay : 0 .. MaxDelay]
Ears ==
  /\ armed \in Seq(Triggers) /\ dangling \subseteq Names
  /\ wait \in [on : BOOLEAN, time : 0 .. MaxDelay, order : Orders] /\ wait.order \notin Called
Set ==
  /\ set \in [find : Named, point : Named, pain : Named, dead : Named, avoid : Named]
  /\ set.find \notin Called /\ set.point \notin Called /\ set.dead \notin Called
Life ==
  /\ body \in [spawned : BOOLEAN, alive : BOOLEAN, actor : BOOLEAN, high : BOOLEAN]
  /\ health \in 0 .. MaxHealth /\ old \in 0 .. MaxHealth
Flags ==
  /\ pc \in {"rest", "triggers", "point", "target", "dist", "pain", "run", "advance", "act",
            "fault"}
  /\ again \in BOOLEAN /\ runOrder \in BOOLEAN /\ active \in BOOLEAN /\ deaf \in BOOLEAN
  /\ answer \in {"none", "taken", "run", "overruled"}

IInv ==
  /\ Flags /\ Life /\ Ears /\ Set
  /\ GoodFrame(cur) /\ GoodStack /\ Bottom
  /\ DeafMeansInterrupted

USE PawnAssumption, ScriptAssumption

(***************************************************************************)
(* What becomes of the order, of whatever action that is a part.           *)
(***************************************************************************)
LEMMA NoneNotCalled == None \notin Orders /\ None \notin Called
OBVIOUS

LEMMA FreshGood ==
  ASSUME GoodFrame(cur), NEW o \in Orders, NEW d \in Named, d \notin Called
  PROVE  /\ GoodFrame([Fresh(o) EXCEPT !.dist = d]) /\ GoodFrame(Fresh(o))
         /\ o \notin Called => Calm([Fresh(o) EXCEPT !.dist = d]) /\ Calm(Fresh(o))
<1> DEFINE f == [Fresh(o) EXCEPT !.dist = d]
<1>0. <<>> \in Seq(Actions) /\ cur \in Frames
  BY EmptySeq DEF GoodFrame
<1>1. /\ Fresh(o) \in Frames /\ Fresh(o).order = o /\ Fresh(o).queue = <<>>
      /\ Fresh(o).index = 0 /\ Fresh(o).dist = cur.dist
  BY <1>0 DEF Fresh, Frames
<1>2. f \in Frames /\ f.order = o /\ f.queue = <<>> /\ f.index = 0 /\ f.dist = d
  BY <1>1 DEF Frames
<1>3. Len(<<>>) = 0 /\ \A i \in 1 .. Len(<<>>) : FALSE
  OBVIOUS
<1> HIDE DEF f
<1>4. GoodFrame(f) /\ GoodFrame(Fresh(o))
  BY <1>1, <1>2, <1>3 DEF GoodFrame
<1>5. o \notin Called => Calm(f) /\ Calm(Fresh(o))
  BY <1>1, <1>2, <1>3 DEF Calm
<1> QED  BY <1>4, <1>5 DEF f

LEMMA TakeGood ==
  ASSUME IInv, NEW o \in Orders, stack = <<>> => o \notin Called, Take(o), stack' = stack
  PROVE  GoodFrame(cur)' /\ GoodStack' /\ Bottom' /\ runOrder' = TRUE /\ active' = FALSE
<1>1. GoodFrame(cur') /\ (o \notin Called => Calm(cur'))
  BY FreshGood DEF IInv, Take, GoodFrame, Frames
<1>2. Bottom'
  BY <1>1 DEF IInv, Bottom, Calm
<1> QED  BY <1>1, <1>2 DEF IInv, Take, GoodStack, GoodFrame

LEMMA InterruptGood ==
  ASSUME IInv, NEW o \in Orders, NEW d \in Named, d \notin Called, Interrupt(o, d)
  PROVE  /\ GoodFrame(cur)' /\ GoodStack' /\ Bottom' /\ stack' # <<>>
         /\ runOrder' = TRUE /\ active' = FALSE
<1>1. GoodFrame(cur')
  BY FreshGood DEF IInv, Interrupt
<1>2. cur \in Frames /\ stack \in Seq(Frames)
  BY DEF IInv, GoodFrame, GoodStack
<1>3. /\ stack' \in Seq(Frames) /\ Len(stack') = Len(stack) + 1
      /\ \A i \in 1 .. Len(stack) : stack'[i] = stack[i]
      /\ stack'[Len(stack) + 1] = cur
  BY <1>2, AppendProperties DEF Interrupt
<1>4. Len(stack) \in Nat
  BY <1>2
<1>5. ASSUME NEW i \in 1 .. Len(stack') PROVE GoodFrame(stack'[i])
  <2>1. CASE i = Len(stack) + 1
    <3>1. stack'[i] = cur
      BY <2>1, <1>3
    <3> QED  BY <3>1 DEF IInv
  <2>2. CASE i # Len(stack) + 1
    <3>1. i \in 1 .. Len(stack) /\ stack'[i] = stack[i]
      BY <2>2, <1>3, <1>4
    <3> QED  BY <3>1 DEF IInv, GoodStack
  <2> QED  BY <2>1, <2>2
<1>6. stack' # <<>>
  BY <1>3, <1>4
<1>7. Calm(stack'[1])
  <2>1. CASE stack = <<>>
    BY <2>1, <1>3 DEF IInv, Bottom
  <2>2. CASE stack # <<>>
    BY <2>2, <1>2, <1>3, <1>4, EmptySeq DEF IInv, Bottom
  <2> QED  BY <2>1, <2>2
<1> QED  BY <1>1, <1>3, <1>5, <1>6, <1>7 DEF GoodStack, Bottom, Interrupt, GoodFrame, Calm

LEMMA ResumeGood ==
  ASSUME IInv, stack # <<>>, Resume
  PROVE  /\ GoodFrame(cur)' /\ GoodStack' /\ Bottom' /\ deaf' = FALSE /\ active' = TRUE
<1>1. stack \in Seq(Frames) /\ Len(stack) \in Nat /\ Len(stack) > 0
  BY EmptySeq DEF IInv, GoodStack
<1>2. GoodFrame(cur')
  BY <1>1 DEF IInv, GoodStack, Resume
<1>3. /\ stack' \in Seq(Frames) /\ Len(stack') = Len(stack) - 1
      /\ \A i \in 1 .. Len(stack) - 1 : stack'[i] = stack[i]
  <2> DEFINE n == Len(stack) - 1
  <2>1. n \in Int /\ n >= 0 /\ \A i \in 1 .. n : stack[i] \in Frames
    BY <1>1
  <2> HIDE DEF n
  <2>2. /\ SubSeq(stack, 1, n) \in Seq(Frames)
        /\ Len(SubSeq(stack, 1, n)) = IF 1 <= n THEN n - 1 + 1 ELSE 0
        /\ \A i \in 1 .. n - 1 + 1 : SubSeq(stack, 1, n)[i] = stack[1 + i - 1]
    BY <2>1, SubSeqProperties
  <2>3. Len(SubSeq(stack, 1, n)) = n /\ \A i \in 1 .. n : SubSeq(stack, 1, n)[i] = stack[i]
    BY <2>1, <2>2
  <2> QED  BY <2>2, <2>3 DEF n, Resume
<1>4. \A i \in 1 .. Len(stack') : GoodFrame(stack'[i])
  BY <1>1, <1>3 DEF IInv, GoodStack
<1>5. Bottom'
  <2>1. CASE Len(stack) = 1
    <3>1. stack' = <<>> /\ cur' = stack[1]
      BY <2>1, <1>1, <1>3, EmptySeq DEF Resume
    <3> QED  BY <3>1 DEF IInv, Bottom, Calm
  <2>2. CASE Len(stack) # 1
    <3>1. Len(stack') > 0 /\ 1 \in 1 .. Len(stack) - 1
      BY <2>2, <1>1, <1>3
    <3>2. stack' # <<>> /\ stack'[1] = stack[1]
      BY <3>1, <1>3, EmptySeq
    <3> QED  BY <3>2 DEF IInv, Bottom, Calm
  <2> QED  BY <2>1, <2>2
<1> QED  BY <1>2, <1>3, <1>4, <1>5 DEF GoodStack, Resume, GoodFrame

(***************************************************************************)
(* The steps.  Each action leaves alone what its lemma does not mention.   *)
(***************************************************************************)
LEMMA InitIInv == Init => IInv
<1> SUFFICES ASSUME Init PROVE IInv
  OBVIOUS
<1>0. None \notin Called /\ <<>> \in Seq(Actions) /\ \A i \in 1 .. Len(<<>>) : FALSE
  BY NoneNotCalled, EmptySeq
<1>1. GoodFrame(cur) /\ Bottom
  BY <1>0 DEF Init, GoodFrame, Bottom, Calm, Frames, Named
<1>2. GoodStack /\ Ears
  BY EmptySeq DEF Init, GoodStack, Ears
<1>3. Set
  BY <1>0 DEF Init, Set, Named
<1>4. Life
  BY DEF Init, Life
<1>5. Flags /\ DeafMeansInterrupted
  BY DEF Init, Flags, DeafMeansInterrupted
<1> QED  BY <1>1, <1>2, <1>3, <1>4, <1>5 DEF IInv

\* A frame and a stack that nothing touches stay good.
LEMMA OrderKept ==
  ASSUME IInv, cur' = cur, stack' = stack
  PROVE  GoodFrame(cur)' /\ GoodStack' /\ Bottom'
BY DEF IInv, GoodFrame, GoodStack, Bottom, Calm

\* The current action is one of the script's.
LEMMA ActionGood ==
  ASSUME IInv, cur.index # 0
  PROVE  /\ Action \in Actions /\ Tame(Action)
         /\ stack = <<>> => Plain(Action)
<1>1. /\ cur.queue \in Seq(Actions) /\ Len(cur.queue) \in Nat
      /\ cur.index \in 1 .. Len(cur.queue)
  BY DEF IInv, GoodFrame, Frames
<1>2. Action \in Actions
  BY <1>1 DEF Action
<1> QED  BY <1>1, <1>2 DEF IInv, GoodFrame, Bottom, Calm, Action

(***************************************************************************)
(* The actions that leave the order and the stack alone.                   *)
(***************************************************************************)
LEMMA QuietSteps ==
  ASSUME IInv,
         \/ Spawn \/ ChangeHealth \/ LowStops \/ Quiet \/ Bears \/ NoRun \/ Stays \/ Idles
         \/ GoesOn \/ Ends \/ Instant \/ NoNextOrder \/ AvoidOrder \/ Remove
  PROVE  IInv'
<1>1. cur' = cur /\ stack' = stack /\ armed' = armed /\ dangling' = dangling /\ wait' = wait
      /\ deaf' = deaf
  BY DEF Spawn, ChangeHealth, LowStops, Quiet, Bears, NoRun, Stays, Idles, GoesOn, Ends,
         Instant, NoNextOrder, AvoidOrder, Remove, Finish, ears, triggers, life
<1>2. GoodFrame(cur)' /\ GoodStack' /\ Bottom'
  BY <1>1, OrderKept
<1>3. Ears' /\ DeafMeansInterrupted'
  BY <1>1 DEF IInv, Ears, DeafMeansInterrupted
<1>4. CASE AvoidOrder
  <2>1. Action \in Actions
    BY <1>4, ActionGood DEF AvoidOrder, At
  <2>2. Set'
    BY <1>4, <2>1 DEF IInv, Set, AvoidOrder, Actions
  <2>3. Flags' /\ Life'
    BY <1>4 DEF IInv, Flags, Life, AvoidOrder, At, Finish, PassEnds, ears, triggers, life
  <2> QED  BY <2>2, <2>3, <1>2, <1>3 DEF IInv
<1>5. CASE Spawn
  <2>1. Flags'
    BY <1>5 DEF IInv, Flags, Spawn, ears, triggers
  <2>2. Life' /\ Set'
    BY <1>5 DEF IInv, Life, Set, Spawn, ears, triggers
  <2> QED  BY <2>1, <2>2, <1>2, <1>3 DEF IInv
<1>6. CASE ChangeHealth
  <2>1. Flags'
    BY <1>6 DEF IInv, Flags, ChangeHealth, ears, triggers
  <2>2. Life' /\ Set'
    BY <1>6 DEF IInv, Life, Set, ChangeHealth, ears, triggers
  <2> QED  BY <2>1, <2>2, <1>2, <1>3 DEF IInv
<1>7. CASE LowStops
  <2>1. Flags'
    BY <1>7 DEF IInv, Flags, LowStops, ears, triggers, Awake
  <2>2. Life' /\ Set'
    BY <1>7 DEF IInv, Life, Set, LowStops, ears, triggers
  <2> QED  BY <2>1, <2>2, <1>2, <1>3 DEF IInv
<1>8. CASE Quiet
  <2>1. Flags'
    BY <1>8 DEF IInv, Flags, Quiet, ears, triggers, life
  <2>2. Life' /\ Set'
    BY <1>8 DEF IInv, Life, Set, Quiet, ears, triggers, life
  <2> QED  BY <2>1, <2>2, <1>2, <1>3 DEF IInv
<1>9. CASE Bears
  <2>1. Flags'
    BY <1>9 DEF IInv, Flags, Bears, ears, triggers
  <2>2. Life' /\ Set'
    BY <1>9 DEF IInv, Life, Set, Bears, ears, triggers
  <2> QED  BY <2>1, <2>2, <1>2, <1>3 DEF IInv
<1>10. CASE NoRun
  <2>1. Flags'
    BY <1>10 DEF IInv, Flags, NoRun, ears, triggers, life
  <2>2. Life' /\ Set'
    BY <1>10 DEF IInv, Life, Set, NoRun, ears, triggers, life
  <2> QED  BY <2>1, <2>2, <1>2, <1>3 DEF IInv
<1>11. CASE Stays
  <2>1. Flags'
    BY <1>11 DEF IInv, Flags, Stays, ears, triggers, life
  <2>2. Life' /\ Set'
    BY <1>11 DEF IInv, Life, Set, Stays, ears, triggers, life
  <2> QED  BY <2>1, <2>2, <1>2, <1>3 DEF IInv
<1>12. CASE Idles
  <2>1. Flags'
    BY <1>12 DEF IInv, Flags, Idles, PassEnds, ears, triggers, life
  <2>2. Life' /\ Set'
    BY <1>12 DEF IInv, Life, Set, Idles, ears, triggers, life
  <2> QED  BY <2>1, <2>2, <1>2, <1>3 DEF IInv
<1>13. CASE GoesOn
  <2>1. Flags'
    BY <1>13 DEF IInv, Flags, GoesOn, At, PassEnds, ears, triggers, life
  <2>2. Life' /\ Set'
    BY <1>13 DEF IInv, Life, Set, GoesOn, ears, triggers, life
  <2> QED  BY <2>1, <2>2, <1>2, <1>3 DEF IInv
<1>14. CASE Ends
  <2>1. Flags'
    BY <1>14 DEF IInv, Flags, Ends, At, Finish, PassEnds, ears, triggers, life
  <2>2. Life' /\ Set'
    BY <1>14 DEF IInv, Life, Set, Ends, Finish, ears, triggers, life
  <2> QED  BY <2>1, <2>2, <1>2, <1>3 DEF IInv
<1>15. CASE Instant
  <2>1. Flags'
    BY <1>15 DEF IInv, Flags, Instant, At, Finish, PassEnds, ears, triggers, life
  <2>2. Life' /\ Set'
    BY <1>15 DEF IInv, Life, Set, Instant, Finish, ears, triggers, life
  <2> QED  BY <2>1, <2>2, <1>2, <1>3 DEF IInv
<1>16. CASE NoNextOrder
  <2>1. Flags'
    BY <1>16 DEF IInv, Flags, NoNextOrder, At, Finish, PassEnds, ears, triggers, life
  <2>2. Life' /\ Set'
    BY <1>16 DEF IInv, Life, Set, NoNextOrder, Finish, ears, triggers, life
  <2> QED  BY <2>1, <2>2, <1>2, <1>3 DEF IInv
<1>17. CASE Remove
  <2>1. Flags'
    BY <1>17 DEF IInv, Flags, Remove, At, Finish, PassEnds, ears, triggers
  <2>2. Life' /\ Set'
    BY <1>17 DEF IInv, Life, Set, Remove, Finish, ears, triggers
  <2> QED  BY <2>1, <2>2, <1>2, <1>3 DEF IInv
<1> QED  BY <1>4, <1>5, <1>6, <1>7, <1>8, <1>9, <1>10, <1>11, <1>12, <1>13, <1>14, <1>15, <1>16, <1>17

(***************************************************************************)
(* The actions that may replace the order or touch its queue.              *)
(***************************************************************************)
LEMMA FrameStep == IInv /\ Frame => IInv'
<1> SUFFICES ASSUME IInv, Frame PROVE IInv'
  OBVIOUS
<1>1. GoodFrame(cur)' /\ GoodStack' /\ Bottom'
  <2>1. CASE cur' = cur
    BY <2>1, OrderKept DEF Frame
  <2>2. CASE Take(set.dead) /\ set.dead # None
    <3>1. set.dead \in Orders /\ set.dead \notin Called
      BY <2>2 DEF IInv, Set, Named
    <3> QED  BY <2>2, <3>1, TakeGood DEF Frame
  <2> QED  BY <2>1, <2>2 DEF Frame
<1>2. Flags'
  BY DEF IInv, Flags, Frame, Take, ears, triggers, life, Awake
<1>3. Set'
  BY NoneNotCalled DEF IInv, Set, Frame, Named
<1>4. Life' /\ Ears' /\ DeafMeansInterrupted'
  BY DEF IInv, Life, Ears, DeafMeansInterrupted, Frame, Take, ears, triggers, life
<1> QED  BY <1>1, <1>2, <1>3, <1>4 DEF IInv

LEMMA WaitingStep == IInv /\ Waiting => IInv'
<1> SUFFICES ASSUME IInv, Waiting PROVE IInv'
  OBVIOUS
<1>1. GoodFrame(cur)' /\ GoodStack' /\ Bottom'
  <2>1. CASE cur' = cur
    BY <2>1, OrderKept DEF Waiting
  <2>2. CASE Take(wait.order)
    <3>1. wait.order \in Orders /\ wait.order \notin Called
      BY DEF IInv, Ears
    <3> QED  BY <2>2, <3>1, TakeGood DEF Waiting
  <2> QED  BY <2>1, <2>2 DEF Waiting
<1>2. Flags'
  BY DEF IInv, Flags, Waiting, Take, life
<1>3. Ears'
  <2>1. MaxDelay \in Nat /\ wait \in [on : BOOLEAN, time : 0 .. MaxDelay, order : Orders]
    BY DEF IInv, Ears
  <2>2. /\ wait' \in [on : BOOLEAN, time : 0 .. MaxDelay, order : Orders]
        /\ wait'.order = wait.order
    <3> DEFINE t == IF wait.time = 0 THEN 0 ELSE wait.time - 1
    <3>1. t \in 0 .. MaxDelay /\ 0 \in 0 .. MaxDelay
      BY <2>1
    <3>2. wait' = [wait EXCEPT !.on = FALSE, !.time = 0] \/ wait' = [wait EXCEPT !.time = t]
      BY DEF Waiting
    <3> HIDE DEF t
    <3> QED  BY <2>1, <3>1, <3>2
  <2> QED  BY <2>2 DEF IInv, Ears, Waiting
<1>4. Life' /\ Set' /\ DeafMeansInterrupted'
  BY DEF IInv, Life, Set, DeafMeansInterrupted, Waiting, Take, life
<1> QED  BY <1>1, <1>2, <1>3, <1>4 DEF IInv

LEMMA PointStep == IInv /\ Point => IInv'
<1> SUFFICES ASSUME IInv, Point PROVE IInv'
  OBVIOUS
<1>1. GoodFrame(cur)' /\ GoodStack' /\ Bottom'
  <2>1. CASE cur' = cur
    BY <2>1, OrderKept DEF Point
  <2>2. CASE Take(set.point) /\ set.point # None
    <3>1. set.point \in Orders /\ set.point \notin Called
      BY <2>2 DEF IInv, Set, Named
    <3> QED  BY <2>2, <3>1, TakeGood DEF Point
  <2> QED  BY <2>1, <2>2 DEF Point
<1>2. Flags'
  BY DEF IInv, Flags, Point, Settles, Take, ears, triggers, life
<1>3. Set'
  BY NoneNotCalled DEF IInv, Set, Point, Named
<1>4. Life' /\ Ears' /\ DeafMeansInterrupted'
  BY DEF IInv, Life, Ears, DeafMeansInterrupted, Point, Take, ears, triggers, life
<1> QED  BY <1>1, <1>2, <1>3, <1>4 DEF IInv

LEMMA TargetStep == IInv /\ Target => IInv'
<1> SUFFICES ASSUME IInv, Target PROVE IInv'
  OBVIOUS
<1>1. GoodFrame(cur)' /\ GoodStack' /\ Bottom'
  <2>1. CASE cur' = cur
    BY <2>1, OrderKept DEF Target
  <2>2. CASE Take(set.find) /\ set.find # None
    <3>1. set.find \in Orders /\ set.find \notin Called
      BY <2>2 DEF IInv, Set, Named
    <3> QED  BY <2>2, <3>1, TakeGood DEF Target
  <2> QED  BY <2>1, <2>2 DEF Target
<1>2. Flags'
  BY DEF IInv, Flags, Target, Settles, Take, ears, triggers, life
<1>3. Set'
  BY NoneNotCalled DEF IInv, Set, Target, Named
<1>4. Life' /\ Ears' /\ DeafMeansInterrupted'
  BY DEF IInv, Life, Ears, DeafMeansInterrupted, Target, Take, ears, triggers, life
<1> QED  BY <1>1, <1>2, <1>3, <1>4 DEF IInv

LEMMA DistStep == IInv /\ Dist => IInv'
<1> SUFFICES ASSUME IInv, Dist PROVE IInv'
  OBVIOUS
<1>1. GoodFrame(cur)' /\ GoodStack' /\ Bottom'
  <2>1. CASE cur' = cur
    BY <2>1, OrderKept DEF Dist
  <2>2. CASE cur.dist # None /\ cur' = [Fresh(cur.dist) EXCEPT !.dist = None]
    <3>1. cur.dist \in Orders /\ cur.dist \notin Called /\ None \in Named /\ None \notin Called
      BY <2>2, NoneNotCalled DEF IInv, GoodFrame, Frames, Named
    <3>2. GoodFrame(cur') /\ Calm(cur')
      BY <2>2, <3>1, FreshGood DEF IInv
    <3>3. stack' = stack
      BY DEF Dist
    <3> QED  BY <3>2, <3>3 DEF IInv, GoodFrame, GoodStack, Bottom, Calm
  <2> QED  BY <2>1, <2>2 DEF Dist
<1>2. Flags'
  BY DEF IInv, Flags, Dist, Settles, ears, triggers, life
<1>3. Life' /\ Ears' /\ Set' /\ DeafMeansInterrupted'
  BY DEF IInv, Life, Ears, Set, DeafMeansInterrupted, Dist, ears, triggers, life
<1> QED  BY <1>1, <1>2, <1>3 DEF IInv

LEMMA HurtsStep == IInv /\ Hurts => IInv'
<1> SUFFICES ASSUME IInv, Hurts PROVE IInv'
  OBVIOUS
<1>1. GoodFrame(cur)' /\ GoodStack' /\ Bottom'
  <2>1. set.pain \in Orders /\ cur.dist \in Named /\ cur.dist \notin Called
    BY DEF IInv, Set, Named, Hurts, GoodFrame, Frames
  <2> QED  BY <2>1, InterruptGood DEF Hurts
<1>2. Flags'
  BY DEF IInv, Flags, Hurts, Settles, Interrupt, ears, triggers
<1>3. DeafMeansInterrupted'
  <2>1. set.pain \in Orders /\ cur.dist \in Named /\ cur.dist \notin Called
    BY DEF IInv, Set, Named, Hurts, GoodFrame, Frames
  <2>2. stack' # <<>>
    BY <2>1, InterruptGood DEF Hurts
  <2> QED  BY <2>2 DEF DeafMeansInterrupted
<1>4. Life' /\ Ears' /\ Set'
  BY DEF IInv, Life, Ears, Set, Hurts, Interrupt, ears, triggers
<1> QED  BY <1>1, <1>2, <1>3, <1>4 DEF IInv

LEMMA FallsBackStep == IInv /\ FallsBack => IInv'
<1> SUFFICES ASSUME IInv, FallsBack PROVE IInv'
  OBVIOUS
<1>1. GoodFrame(cur)' /\ GoodStack' /\ Bottom'
  BY ResumeGood DEF FallsBack
<1>2. Flags'
  BY DEF IInv, Flags, FallsBack, Resume, ears, triggers, life
<1>3. DeafMeansInterrupted'
  BY DEF DeafMeansInterrupted, FallsBack, Resume
<1>4. Life' /\ Ears' /\ Set'
  BY DEF IInv, Life, Ears, Set, FallsBack, Resume, ears, triggers, life
<1> QED  BY <1>1, <1>2, <1>3, <1>4 DEF IInv

LEMMA ReturnStep == IInv /\ Return => IInv'
<1> SUFFICES ASSUME IInv, Return PROVE IInv'
  OBVIOUS
<1>1. GoodFrame(cur)' /\ GoodStack' /\ Bottom'
  <2>1. CASE stack # <<>>
    BY <2>1, ResumeGood DEF Return
  <2>2. CASE stack = <<>>
    BY <2>2, OrderKept DEF Return
  <2> QED  BY <2>1, <2>2
<1>2. Flags'
  BY DEF IInv, Flags, Return, At, PassEnds, Resume, ears, triggers, life
<1>3. DeafMeansInterrupted'
  <2>1. CASE stack # <<>>
    BY <2>1 DEF DeafMeansInterrupted, Return, Resume
  <2>2. CASE stack = <<>>
    BY <2>2 DEF IInv, DeafMeansInterrupted, Return
  <2> QED  BY <2>1, <2>2
<1>4. Life' /\ Ears' /\ Set'
  BY DEF IInv, Life, Ears, Set, Return, Resume, ears, triggers, life
<1> QED  BY <1>1, <1>2, <1>3, <1>4 DEF IInv

LEMMA AvoidsStep == IInv /\ Avoids => IInv'
<1> SUFFICES ASSUME IInv, Avoids PROVE IInv'
  OBVIOUS
<1>1. GoodFrame(cur)' /\ GoodStack' /\ Bottom'
  <2>1. set.avoid \in Orders /\ None \in Named /\ None \notin Called
    BY NoneNotCalled DEF IInv, Set, Named, Avoids
  <2> QED  BY <2>1, InterruptGood DEF Avoids
<1>2. Flags'
  BY DEF IInv, Flags, Avoids, At, PassEnds, Interrupt, ears, triggers, life
<1>3. DeafMeansInterrupted'
  <2>1. set.avoid \in Orders /\ None \in Named /\ None \notin Called
    BY NoneNotCalled DEF IInv, Set, Named, Avoids
  <2>2. stack' # <<>>
    BY <2>1, InterruptGood DEF Avoids
  <2> QED  BY <2>2 DEF DeafMeansInterrupted
<1>4. Life' /\ Ears' /\ Set'
  BY DEF IInv, Life, Ears, Set, Avoids, Interrupt, ears, triggers, life
<1> QED  BY <1>1, <1>2, <1>3, <1>4 DEF IInv

LEMMA NewOrderStep == IInv /\ NewOrder => IInv'
<1> SUFFICES ASSUME IInv, NewOrder PROVE IInv'
  OBVIOUS
<1>1. GoodFrame(cur)' /\ GoodStack' /\ Bottom'
  <2>1. Action.kind \in {"new", "next"} /\ cur.index # 0
    BY DEF NewOrder, At
  <2>2. Action.order \in Orders /\ (stack = <<>> => Action.order \notin Called)
    BY <2>1, ActionGood DEF Tame, Plain
  <2> QED  BY <2>2, TakeGood DEF NewOrder
<1>2. Flags'
  BY DEF IInv, Flags, NewOrder, At, PassEnds, Take, ears, triggers, life
<1>3. Life' /\ Ears' /\ Set' /\ DeafMeansInterrupted'
  BY DEF IInv, Life, Ears, Set, DeafMeansInterrupted, NewOrder, Take, ears, triggers, life
<1> QED  BY <1>1, <1>2, <1>3 DEF IInv

LEMMA RestartOrderStep == IInv /\ RestartOrder => IInv'
<1> SUFFICES ASSUME IInv, RestartOrder PROVE IInv'
  OBVIOUS
<1>1. GoodFrame(cur)' /\ GoodStack' /\ Bottom'
  <2>1. cur.order \in Orders /\ (stack = <<>> => cur.order \notin Called)
    BY DEF IInv, GoodFrame, Frames, Bottom, Calm
  <2> QED  BY <2>1, TakeGood DEF RestartOrder
<1>2. Flags'
  BY DEF IInv, Flags, RestartOrder, At, PassEnds, Take, ears, triggers, life
<1>3. Life' /\ Ears' /\ Set' /\ DeafMeansInterrupted'
  BY DEF IInv, Life, Ears, Set, DeafMeansInterrupted, RestartOrder, Take, ears, triggers, life
<1> QED  BY <1>1, <1>2, <1>3 DEF IInv

LEMMA TestDamageOrderStep == IInv /\ TestDamageOrder => IInv'
<1> SUFFICES ASSUME IInv, TestDamageOrder PROVE IInv'
  OBVIOUS
<1>1. GoodFrame(cur)' /\ GoodStack' /\ Bottom'
  <2>1. Action.kind = "damage" /\ cur.index # 0
    BY DEF TestDamageOrder, At
  <2>2. Action.order \in Orders /\ (stack = <<>> => Action.order \notin Called)
    BY <2>1, ActionGood DEF Tame, Plain
  <2>3. CASE Take(Action.order)
    BY <2>2, <2>3, TakeGood DEF TestDamageOrder, Finish
  <2>4. CASE Finish
    BY <2>4, OrderKept DEF Finish
  <2> QED  BY <2>3, <2>4 DEF TestDamageOrder
<1>2. Flags'
  BY DEF IInv, Flags, TestDamageOrder, At, Finish, Take, ears, triggers, life
<1>3. Life' /\ Ears' /\ Set' /\ DeafMeansInterrupted'
  BY DEF IInv, Life, Ears, Set, DeafMeansInterrupted, TestDamageOrder, Finish, Take, ears, triggers, life
<1> QED  BY <1>1, <1>2, <1>3 DEF IInv

LEMMA LowLevelStep == IInv /\ LowLevel => IInv'
<1> SUFFICES ASSUME IInv, LowLevel PROVE IInv'
  OBVIOUS
<1>1. GoodFrame(cur)' /\ GoodStack' /\ Bottom'
  <2>1. Action.kind = "low" /\ cur.index # 0
    BY DEF LowLevel, At
  <2>2. Action.order \in Orders /\ Action.order \notin Called
    BY <2>1, ActionGood DEF Tame
  <2>3. cur.dist \in Named /\ cur.dist \notin Called /\ GoodFrame(cur)
    BY DEF IInv, GoodFrame, Frames
  <2>4. GoodFrame(cur') /\ Calm(cur') /\ stack' = stack
    BY <2>2, <2>3, FreshGood DEF LowLevel
  <2> QED  BY <2>4 DEF IInv, GoodFrame, GoodStack, Bottom, Calm
<1>2. Flags'
  BY DEF IInv, Flags, LowLevel, At, PassEnds, ears, triggers
<1>3. Life' /\ Ears' /\ Set' /\ DeafMeansInterrupted'
  BY DEF IInv, Life, Ears, Set, DeafMeansInterrupted, LowLevel, ears, triggers
<1> QED  BY <1>1, <1>2, <1>3 DEF IInv

LEMMA LowReturnsStep == IInv /\ LowReturns => IInv'
<1> SUFFICES ASSUME IInv, LowReturns PROVE IInv'
  OBVIOUS
<1>1. GoodFrame(cur)' /\ GoodStack' /\ Bottom'
  <2> PICK o \in LowExits : cur' = [cur EXCEPT !.order = o]
    BY DEF LowReturns
  <2>1. o \in Orders /\ o \notin Called /\ cur \in Frames
    BY DEF IInv, GoodFrame
  <2>2. cur' \in Frames /\ cur'.queue = cur.queue /\ cur'.order = o
        /\ cur'.index = cur.index /\ cur'.dist = cur.dist
    BY <2>1 DEF Frames
  <2>3. GoodFrame(cur') /\ stack' = stack
    BY <2>2 DEF IInv, GoodFrame, LowReturns
  <2> QED  BY <2>1, <2>2, <2>3 DEF IInv, GoodFrame, GoodStack, Bottom, Calm
<1>2. Flags'
  BY DEF IInv, Flags, LowReturns, ears, triggers, Awake
<1>3. Life' /\ Ears' /\ Set' /\ DeafMeansInterrupted'
  BY DEF IInv, Life, Ears, Set, DeafMeansInterrupted, LowReturns, ears, triggers
<1> QED  BY <1>1, <1>2, <1>3 DEF IInv

LEMMA AttributeOrderStep == IInv /\ AttributeOrder => IInv'
<1> SUFFICES ASSUME IInv, AttributeOrder PROVE IInv'
  OBVIOUS
<1>1. GoodFrame(cur)' /\ GoodStack' /\ Bottom'
  BY OrderKept DEF AttributeOrder, Finish
<1>2. Flags'
  BY DEF IInv, Flags, AttributeOrder, At, Finish, PassEnds, ears, triggers
<1>3. Life'
  BY DEF IInv, Life, AttributeOrder
<1>4. Set'
  <2>1. Action.kind = "attribute" /\ cur.index # 0
    BY DEF AttributeOrder, At
  <2>2. Action.order \in Orders /\ Action.order \notin Called
    BY <2>1, ActionGood DEF Tame
  <2> QED  BY <2>2 DEF IInv, Set, Named, AttributeOrder
<1>5. Ears' /\ DeafMeansInterrupted'
  BY DEF IInv, Ears, DeafMeansInterrupted, AttributeOrder, Finish, ears, triggers
<1> QED  BY <1>1, <1>2, <1>3, <1>4, <1>5 DEF IInv

\* Taking an entry off the list of triggers.
LEMMA UnlinkGood ==
  ASSUME IInv, NEW i \in DOMAIN armed, Unlink(i)
  PROVE  armed' \in Seq(Triggers) /\ dangling' \subseteq Names /\ armed[i] \in Triggers
<1>1. armed \in Seq(Triggers) /\ dangling \subseteq Names /\ Len(armed) \in Nat
  BY DEF IInv, Ears
<1>2. i \in 1 .. Len(armed) /\ \A j \in 1 .. Len(armed) : armed[j] \in Triggers
  BY <1>1
<1>3. SubSeq(armed, 1, i - 1) \in Seq(Triggers)
  <2>1. i - 1 \in Int /\ \A j \in 1 .. i - 1 : armed[j] \in Triggers
    BY <1>1, <1>2
  <2> QED  BY <2>1, SubSeqProperties
<1>4. SubSeq(armed, i + 1, Len(armed)) \in Seq(Triggers)
  <2>1. /\ i + 1 \in Int /\ Len(armed) \in Int
        /\ \A j \in i + 1 .. Len(armed) : armed[j] \in Triggers
    BY <1>1, <1>2
  <2> QED  BY <2>1, SubSeqProperties
<1>5. armed' \in Seq(Triggers)
  BY <1>3, <1>4, ConcatProperties DEF Unlink
<1>6. dangling' \subseteq Names
  <2>1. i < Len(armed) => armed[i + 1] \in Triggers
    BY <1>1, <1>2
  <2>2. (IF i < Len(armed) THEN {armed[i + 1].name} ELSE {}) \subseteq Names
    BY <2>1 DEF Triggers
  <2> QED  BY <1>1, <2>2 DEF Unlink
<1> QED  BY <1>2, <1>5, <1>6

LEMMA TriggeredStep == IInv /\ Triggered => IInv'
<1> SUFFICES ASSUME IInv, Triggered PROVE IInv'
  OBVIOUS
<1>1. GoodFrame(cur)' /\ GoodStack' /\ Bottom'
  <2> PICK i \in DOMAIN armed :
         /\ IF armed[i].delay > 0
            THEN /\ wait' = [on |-> TRUE, time |-> armed[i].delay, order |-> armed[i].order]
                 /\ UNCHANGED <<cur, runOrder, active>>
            ELSE Take(armed[i].order) /\ UNCHANGED wait
         /\ Unlink(i)
    BY DEF Triggered
  <2>1. armed[i].order \in Orders /\ armed[i].order \notin Called
    BY UnlinkGood DEF Triggers
  <2>2. CASE cur' = cur
    BY <2>2, OrderKept DEF Triggered
  <2>3. CASE Take(armed[i].order)
    BY <2>1, <2>3, TakeGood DEF Triggered
  <2> QED  BY <2>2, <2>3
<1>2. Flags'
  BY DEF IInv, Flags, Triggered, Take, life
<1>3. Ears'
  <2> PICK i \in DOMAIN armed :
         /\ IF armed[i].delay > 0
            THEN /\ wait' = [on |-> TRUE, time |-> armed[i].delay, order |-> armed[i].order]
                 /\ UNCHANGED <<cur, runOrder, active>>
            ELSE Take(armed[i].order) /\ UNCHANGED wait
         /\ Unlink(i)
    BY DEF Triggered
  <2>1. armed[i] \in Triggers /\ armed' \in Seq(Triggers) /\ dangling' \subseteq Names
    BY UnlinkGood
  <2>2. /\ wait' \in [on : BOOLEAN, time : 0 .. MaxDelay, order : Orders]
        /\ wait'.order \notin Called
    <3>1. CASE wait' = [on |-> TRUE, time |-> armed[i].delay, order |-> armed[i].order]
      BY <2>1, <3>1 DEF Triggers
    <3>2. CASE wait' = wait
      BY <3>2 DEF IInv, Ears
    <3> QED  BY <3>1, <3>2
  <2> QED  BY <2>1, <2>2 DEF Ears
<1>4. Life' /\ Set' /\ DeafMeansInterrupted'
  BY DEF IInv, Life, Set, DeafMeansInterrupted, Triggered, Take, life
<1> QED  BY <1>1, <1>2, <1>3, <1>4 DEF IInv

LEMMA DelTriggerOrderStep == IInv /\ DelTriggerOrder => IInv'
<1> SUFFICES ASSUME IInv, DelTriggerOrder PROVE IInv'
  OBVIOUS
<1>1. GoodFrame(cur)' /\ GoodStack' /\ Bottom'
  BY OrderKept DEF DelTriggerOrder, Finish
<1>2. Flags'
  BY DEF IInv, Flags, DelTriggerOrder, At, Finish, PassEnds, life
<1>3. Ears'
  <2>1. CASE UNCHANGED <<armed, dangling>>
    BY <2>1 DEF IInv, Ears, DelTriggerOrder
  <2>2. CASE \E i \in DOMAIN armed : Unlink(i)
    BY <2>2, UnlinkGood DEF IInv, Ears, DelTriggerOrder
  <2> QED  BY <2>1, <2>2 DEF DelTriggerOrder
<1>4. Life' /\ Set' /\ DeafMeansInterrupted'
  BY DEF IInv, Life, Set, DeafMeansInterrupted, DelTriggerOrder, Finish, life
<1> QED  BY <1>1, <1>2, <1>3, <1>4 DEF IInv

LEMMA AddTriggerOrderStep == IInv /\ AddTriggerOrder => IInv'
<1> SUFFICES ASSUME IInv, AddTriggerOrder PROVE IInv'
  OBVIOUS
<1>1. GoodFrame(cur)' /\ GoodStack' /\ Bottom'
  BY OrderKept DEF AddTriggerOrder, Finish
<1>2. Flags'
  BY DEF IInv, Flags, AddTriggerOrder, At, Finish, PassEnds, life
<1>3. Ears'
  <2> DEFINE entry == [name |-> Action.name, order |-> Action.order, delay |-> Action.delay]
  <2>1. Action.kind = "arm" /\ cur.index # 0
    BY DEF AddTriggerOrder, At
  <2>2. entry \in Triggers
    BY <2>1, ActionGood DEF Tame, Triggers, Actions
  <2>3. armed \in Seq(Triggers) /\ <<entry>> \in Seq(Triggers)
    BY <2>2 DEF IInv, Ears
  <2>4. \/ armed' = <<entry>> \o armed
        \/ armed' = [i \in DOMAIN armed |->
                      IF armed[i].name = Action.name THEN entry ELSE armed[i]]
    BY DEF AddTriggerOrder
  <2> HIDE DEF entry
  <2>5. armed' \in Seq(Triggers)
    <3>1. CASE armed' = <<entry>> \o armed
      BY <2>3, <3>1, ConcatProperties
    <3>2. CASE armed' = [i \in DOMAIN armed |->
                           IF armed[i].name = Action.name THEN entry ELSE armed[i]]
      <4>1. armed' \in [1 .. Len(armed) -> Triggers] /\ Len(armed) \in Nat
        BY <2>2, <2>3, <3>2, LenProperties
      <4> QED  BY <4>1
    <3> QED  BY <2>4, <3>1, <3>2
  <2> QED  BY <2>5 DEF IInv, Ears, AddTriggerOrder
<1>4. Life' /\ Set' /\ DeafMeansInterrupted'
  BY DEF IInv, Life, Set, DeafMeansInterrupted, AddTriggerOrder, Finish, life
<1> QED  BY <1>1, <1>2, <1>3, <1>4 DEF IInv

LEMMA AdvanceStep == IInv /\ Advance => IInv'
<1> SUFFICES ASSUME IInv, Advance PROVE IInv'
  OBVIOUS
<1>1. GoodFrame(cur)' /\ GoodStack' /\ Bottom'
  <2>1. Next1 \in 0 .. Len(cur.queue) /\ Next1 \in Nat
    BY EmptySeq DEF IInv, GoodFrame, Frames, Next1
  <2>2. /\ cur' \in Frames /\ cur'.queue = cur.queue /\ cur'.order = cur.order
        /\ cur'.dist = cur.dist /\ cur'.index = Next1
    BY <2>1 DEF IInv, GoodFrame, Frames, Advance
  <2>3. GoodFrame(cur') /\ stack' = stack
    BY <2>1, <2>2 DEF IInv, GoodFrame, Advance, Frames
  <2> QED  BY <2>2, <2>3 DEF IInv, GoodFrame, GoodStack, Bottom, Calm
<1>2. Flags'
  BY DEF IInv, Flags, Advance, ears, triggers, life
<1>3. Life' /\ Ears' /\ Set' /\ DeafMeansInterrupted'
  BY DEF IInv, Life, Ears, Set, DeafMeansInterrupted, Advance, ears, triggers, life
<1> QED  BY <1>1, <1>2, <1>3 DEF IInv

\* The method of an order queues actions of the script.
LEMMA QueueGood ==
  ASSUME GoodFrame(cur), NEW acts \in Seq(Actions), NEW d \in Named, d \notin Called,
         \A i \in 1 .. Len(acts) : Tame(acts[i]),
         NEW f, f = [cur EXCEPT !.queue = @ \o acts, !.index = 0, !.dist = d]
  PROVE  /\ GoodFrame(f)
         /\ Calm(cur) /\ (\A i \in 1 .. Len(acts) : Plain(acts[i])) => Calm(f)
<1> DEFINE q == cur.queue \o acts
<1>1. cur \in Frames /\ cur.queue \in Seq(Actions) /\ Len(cur.queue) \in Nat /\ Len(acts) \in Nat
  BY DEF GoodFrame, Frames
<1>2. /\ q \in Seq(Actions) /\ Len(q) = Len(cur.queue) + Len(acts)
      /\ \A i \in 1 .. Len(cur.queue) + Len(acts) :
           q[i] = IF i <= Len(cur.queue) THEN cur.queue[i] ELSE acts[i - Len(cur.queue)]
  BY <1>1, ConcatProperties
<1>3. \A i \in 1 .. Len(q) : \/ \E j \in 1 .. Len(cur.queue) : q[i] = cur.queue[j]
                            \/ \E j \in 1 .. Len(acts) : q[i] = acts[j]
  <2> TAKE i \in 1 .. Len(q)
  <2>1. CASE i <= Len(cur.queue)
    BY <2>1, <1>1, <1>2
  <2>2. CASE i > Len(cur.queue)
    <3>1. i - Len(cur.queue) \in 1 .. Len(acts) /\ q[i] = acts[i - Len(cur.queue)]
      BY <2>2, <1>1, <1>2
    <3> QED  BY <3>1
  <2> QED  BY <2>1, <2>2, <1>1, <1>2
<1>4. f = [cur EXCEPT !.queue = q, !.index = 0, !.dist = d]
  OBVIOUS
<1> HIDE DEF q
<1>5. f \in Frames /\ f.queue = q /\ f.index = 0 /\ f.dist = d /\ f.order = cur.order
  <2> DEFINE g == [cur EXCEPT !.queue = q, !.index = 0, !.dist = d]
  <2>1. g \in Frames /\ g.queue = q /\ g.index = 0 /\ g.dist = d /\ g.order = cur.order
    BY <1>1, <1>2 DEF Frames
  <2> QED  BY <2>1, <1>4
<1>6. GoodFrame(f)
  <2>1. \A i \in 1 .. Len(q) : Tame(q[i])
    BY <1>3 DEF GoodFrame
  <2>2. 0 <= Len(q)
    BY <1>1, <1>2
  <2> QED  BY <1>5, <2>1, <2>2 DEF GoodFrame
<1>7. Calm(cur) /\ (\A i \in 1 .. Len(acts) : Plain(acts[i])) => Calm(f)
  <2> SUFFICES ASSUME Calm(cur), \A i \in 1 .. Len(acts) : Plain(acts[i]) PROVE Calm(f)
    OBVIOUS
  <2>1. \A i \in 1 .. Len(q) : Plain(q[i])
    BY <1>3 DEF Calm
  <2> QED  BY <1>5, <2>1 DEF Calm
<1> QED  BY <1>6, <1>7 DEF q

\* What running an order may arm and queue.
LEMMA ScriptGood ==
  ASSUME NEW o \in Orders
  PROVE  /\ Script[o].sets \in Settings /\ Script[o].acts \in Seq(Actions)
         /\ \A i \in 1 .. Len(Script[o].acts) : Tame(Script[o].acts[i])
         /\ o \notin Called => \A i \in 1 .. Len(Script[o].acts) : Plain(Script[o].acts[i])
         /\ Script[o].sets.dist \notin Called /\ Script[o].sets.find \notin Called
         /\ Script[o].sets.point \notin Called
<1>1. Script[o] \in [sets : Settings, acts : Seq(Actions)]
  OBVIOUS
<1> QED  BY <1>1

LEMMA RunStep == IInv /\ Run => IInv'
<1> SUFFICES ASSUME IInv, Run PROVE IInv'
  OBVIOUS
<1>1. GoodFrame(cur)' /\ GoodStack' /\ Bottom'
  <2> DEFINE o == cur.order
             d == Given(Script[o].sets.dist, cur.dist)
  <2>1. o \in Orders /\ cur.dist \in Named /\ cur.dist \notin Called /\ GoodFrame(cur)
    BY DEF IInv, GoodFrame, Frames
  <2>2. Script[o].sets.dist \in Named \cup {Same} /\ Script[o].sets.dist \notin Called
    BY <2>1, ScriptGood DEF Settings
  <2>3. d \in Named /\ d \notin Called
    BY <2>1, <2>2 DEF Given
  <2>4. cur' = [cur EXCEPT !.queue = @ \o Script[o].acts, !.index = 0, !.dist = d] /\ stack' = stack
    BY DEF Run
  <2> HIDE DEF o, d
  <2>5. GoodFrame(cur')
    BY <2>1, <2>3, <2>4, ScriptGood, QueueGood
  <2>6. stack = <<>> => Calm(cur')
    <3> SUFFICES ASSUME stack = <<>> PROVE Calm(cur')
      OBVIOUS
    <3>1. Calm(cur) /\ o \notin Called
      BY DEF IInv, Bottom, Calm, o
    <3> QED  BY <2>1, <2>3, <2>4, <3>1, ScriptGood, QueueGood
  <2> QED  BY <2>4, <2>5, <2>6 DEF IInv, GoodFrame, GoodStack, Bottom, Calm
<1>2. Flags'
  BY DEF IInv, Flags, Run, Settles, ears, triggers
<1>3. Set'
  <2> DEFINE s == Script[cur.order].sets
  <2>1. cur.order \in Orders
    BY DEF IInv, GoodFrame, Frames
  <2>2. s \in Settings /\ s.find \notin Called /\ s.point \notin Called
    BY <2>1, ScriptGood
  <2>3. set' = [set EXCEPT !.find = Given(s.find, @), !.point = Given(s.point, @),
                           !.pain = Given(s.pain, @)]
    BY DEF Run
  <2> HIDE DEF s
  <2>4. /\ Given(s.find, set.find) \in Named \ Called
        /\ Given(s.point, set.point) \in Named \ Called
        /\ Given(s.pain, set.pain) \in Named
    BY <2>2 DEF Given, Settings, IInv, Set, Named
  <2> QED  BY <2>3, <2>4 DEF IInv, Set
<1>4. Life' /\ Ears' /\ DeafMeansInterrupted'
  BY DEF IInv, Life, Ears, DeafMeansInterrupted, Run, ears, triggers
<1> QED  BY <1>1, <1>2, <1>3, <1>4 DEF IInv

LEMMA BreaksStep == IInv /\ Breaks => IInv'
<1> SUFFICES ASSUME IInv, Breaks PROVE IInv'
  OBVIOUS
<1>1. GoodFrame(cur)' /\ GoodStack' /\ Bottom'
  <2>1. /\ cur.order \in Orders /\ cur.dist \in Named /\ cur.dist \notin Called
        /\ GoodFrame(cur) /\ cur \in Frames
    BY DEF IInv, GoodFrame, Frames
  <2> PICK n \in 0 .. Len(Script[cur.order].acts) :
         cur' = [cur EXCEPT !.queue = @ \o SubSeq(Script[cur.order].acts, 1, n), !.index = 0]
    BY DEF Breaks
  <2> DEFINE all == Script[cur.order].acts
             acts == SubSeq(all, 1, n)
             o == cur.order
  <2>2. /\ all \in Seq(Actions) /\ \A i \in 1 .. Len(all) : Tame(all[i])
        /\ o \notin Called => \A i \in 1 .. Len(all) : Plain(all[i])
    BY <2>1, ScriptGood
  <2>3. n \in Int /\ n <= Len(all) /\ 0 <= n /\ n \in 0 .. Len(all) /\ Len(all) \in Nat
    BY <2>2
  <2>4. cur' = [cur EXCEPT !.queue = @ \o acts, !.index = 0, !.dist = cur.dist] /\ stack' = stack
    BY <2>1 DEF Breaks, Frames
  <2> HIDE DEF all
  <2>5. acts \in Seq(Actions) /\ Len(acts) = n /\ \A i \in 1 .. n : acts[i] = all[i]
    <3>1. \A i \in 1 .. n : all[i] \in Actions
      BY <2>2, <2>3
    <3>2. /\ acts \in Seq(Actions) /\ Len(acts) = IF 1 <= n THEN n - 1 + 1 ELSE 0
          /\ \A i \in 1 .. n - 1 + 1 : acts[i] = all[1 + i - 1]
      BY <2>3, <3>1, SubSeqProperties
    <3> QED  BY <2>3, <3>2
  <2> HIDE DEF acts, o
  <2>6. /\ \A i \in 1 .. Len(acts) : Tame(acts[i])
        /\ o \notin Called => \A i \in 1 .. Len(acts) : Plain(acts[i])
    <3>1. \A i \in 1 .. Len(acts) : i \in 1 .. Len(all) /\ acts[i] = all[i]
      BY <2>3, <2>5
    <3> QED  BY <2>2, <3>1
  <2> DEFINE d == cur.dist
  <2>7. cur' = [cur EXCEPT !.queue = @ \o acts, !.index = 0, !.dist = d] /\ d \in Named /\ d \notin Called
    BY <2>1, <2>4
  <2> HIDE DEF d
  <2>8. GoodFrame(cur')
    BY <2>1, <2>5, <2>6, <2>7, QueueGood
  <2>9. stack = <<>> => Calm(cur')
    <3> SUFFICES ASSUME stack = <<>> PROVE Calm(cur')
      OBVIOUS
    <3>1. Calm(cur) /\ o \notin Called
      BY DEF IInv, Bottom, Calm, o
    <3> QED  BY <2>1, <2>5, <2>6, <2>7, <3>1, QueueGood
  <2> QED  BY <2>4, <2>8, <2>9 DEF IInv, GoodFrame, GoodStack, Bottom, Calm
<1>2. Flags'
  BY DEF IInv, Flags, Breaks, Settles, ears, triggers, life
<1>3. Life' /\ Ears' /\ Set' /\ DeafMeansInterrupted'
  BY DEF IInv, Life, Ears, Set, DeafMeansInterrupted, Breaks, ears, triggers, life
<1> QED  BY <1>1, <1>2, <1>3 DEF IInv

(***************************************************************************)
(* The theorems.                                                           *)
(***************************************************************************)
LEMMA SeqSubset ==
  ASSUME NEW S, NEW T, S \subseteq T, NEW s \in Seq(S)
  PROVE  s \in Seq(T)
OBVIOUS

LEMMA StutterIInv == IInv /\ UNCHANGED vars => IInv'
<1> SUFFICES ASSUME IInv, UNCHANGED vars PROVE IInv'
  OBVIOUS
<1>1. GoodFrame(cur)' /\ GoodStack' /\ Bottom'
  BY OrderKept DEF vars
<1>2. Flags' /\ Life'
  BY DEF IInv, Flags, Life, vars
<1>3. Ears' /\ Set' /\ DeafMeansInterrupted'
  BY DEF IInv, Ears, Set, DeafMeansInterrupted, vars
<1> QED  BY <1>1, <1>2, <1>3 DEF IInv

LEMMA NextIInv == IInv /\ [Next]_vars => IInv'
BY StutterIInv, QuietSteps, FrameStep, WaitingStep, TriggeredStep, PointStep, TargetStep,
   DistStep, HurtsStep, RunStep, BreaksStep, AdvanceStep, FallsBackStep, AvoidsStep,
   NewOrderStep, RestartOrderStep, ReturnStep, AddTriggerOrderStep, DelTriggerOrderStep,
   AttributeOrderStep, TestDamageOrderStep, LowLevelStep, LowReturnsStep
   DEF Next, TickHigh

\* Whatever the script, the pawn and its surroundings do, the bottom order is not a called
\* one, and no called order is where an order that replaces it could come from.
THEOREM SpecIInv == Spec => []IInv
<1> QED  BY InitIInv, NextIInv, PTL DEF Spec

\* Every variable keeps its type, and the current action is always one of the queue.
THEOREM TypeCorrect == Spec => []TypeOK
<1>1. IInv => TypeOK
  <2> SUFFICES ASSUME IInv PROVE TypeOK
    OBVIOUS
  <2>1. armed \in Seq([name : Names, order : Orders, delay : 0 .. MaxDelay])
    <3>1. Triggers \subseteq [name : Names, order : Orders, delay : 0 .. MaxDelay]
      BY DEF Triggers
    <3> QED  BY <3>1, SeqSubset DEF IInv, Ears
  <2>2. /\ cur \in Frames /\ cur.index <= Len(cur.queue)
        /\ stack \in Seq(Frames)
        /\ \A i \in DOMAIN stack : stack[i].index <= Len(stack[i].queue)
    BY DEF IInv, GoodFrame, GoodStack
  <2> QED  BY <2>1, <2>2 DEF IInv, Flags, Life, Ears, Set, TypeOK
<1> QED  BY <1>1, SpecIInv, PTL

\* A pawn that does not listen will listen again: some order was interrupted, and when it
\* comes back TargetDisable is taken back.
THEOREM DeafInterrupted == Spec => []DeafMeansInterrupted
<1>1. IInv => DeafMeansInterrupted
  BY DEF IInv
<1> QED  BY <1>1, SpecIInv, PTL

\* Return always finds the order it returns to, so that TickHigh comes out of its loop.
THEOREM CallerFound == Spec => []ReturnFindsCaller
<1>1. IInv => ReturnFindsCaller
  <2> SUFFICES ASSUME IInv, At({"return"}), stack = <<>> PROVE FALSE
    BY DEF ReturnFindsCaller
  <2>1. Plain(Action) /\ Action.kind = "return"
    BY ActionGood DEF At
  <2> QED  BY <2>1 DEF Plain
<1> QED  BY <1>1, SpecIInv, PTL

\* A step that saves or restores an order does it as Push and Pop do.
LEMMA KeptStep ==
  ASSUME [Next]_vars
  PROVE  \/ stack' = stack
         \/ stack' = Append(stack, cur)
         \/ /\ stack # <<>>
            /\ stack' = SubSeq(stack, 1, Len(stack) - 1)
            /\ cur' = stack[Len(stack)]
BY DEF Next, TickHigh, vars, Spawn, ChangeHealth, LowReturns, LowStops, Frame, Waiting, Quiet,
   Triggered, Point, Target, Dist, Hurts, Bears, Run, Breaks, NoRun, Advance, FallsBack,
   Stays, Idles, GoesOn, Ends, Avoids, Instant, NewOrder, NoNextOrder, RestartOrder, Return,
   AvoidOrder, AddTriggerOrder, DelTriggerOrder, AttributeOrder, TestDamageOrder, Remove,
   LowLevel, Interrupt, Resume, Finish

\* Interrupted orders are left alone and come back as they were.
THEOREM InterruptedOrdersKept == Spec => InterruptedKept
<1>1. [Next]_vars => [\/ stack' = stack
                    \/ stack' = Append(stack, cur)
                    \/ /\ stack # <<>>
                       /\ stack' = SubSeq(stack, 1, Len(stack) - 1)
                       /\ cur' = stack[Len(stack)]]_vars
  BY KeptStep
<1> QED  BY <1>1, PTL DEF Spec, InterruptedKept
==============================================================================

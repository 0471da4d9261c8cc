-------------------------- MODULE Timers_proofs --------------------------
(***************************************************************************)
(* Proofs about TimerPool, for any table, any set of clients and any       *)
(* identifier space, about TimerPacing, for any period and any units of    *)
(* time, and about the game clock (FrameClock), for every float format     *)
(* whose rounding is monotone, any bounds and any initial memory.          *)
(***************************************************************************)
EXTENDS TimerPool, TimerPacing, FrameClock, TLAPS

\* A client inside a call has a slot, and the slot has had an identifier.
TypeInv ==
  /\ TypeOK
  /\ \A c \in Clients : pc[c] # "idle" => timer[c] \in Slots /\ id[timer[c]] \in Ids

\* Who holds what: the pool lock belongs to the client that is setting a timer,
\* and whoever works on a slot has it reserved.
Ownership ==
  /\ \A c \in Clients : Setting(c) <=> poolOwner = c
  /\ \A c \in Clients : Setting(c) \/ Killing(c) =>
       timer[c] \in Slots /\ active[timer[c]] /\ stopping[timer[c]]
  /\ \A s \in Slots : active[s] /\ stopping[s] =>
       \E c \in Clients : timer[c] = s /\ (Setting(c) \/ Killing(c))

\* What the thread, the stop flag and the mutex of a slot are at each step of
\* the client that works on it, and when nobody does.
Lifecycle ==
  /\ \A s \in Slots : ~active[s] => thread[s] = "none"
  /\ \A s \in Slots : active[s] => mutexLive[s]
  /\ \A s \in Slots : active[s] /\ ~stopping[s] =>
       thread[s] \in {"sleep", "calling"} /\ ~stop[s]
  /\ \A c \in Clients :
       /\ pc[c] = "create" => thread[timer[c]] = "none" /\ ~stop[timer[c]]
       /\ pc[c] \in {"publish", "signal"} =>
            thread[timer[c]] \in {"sleep", "calling"} /\ ~stop[timer[c]]
       /\ pc[c] = "join" => thread[timer[c]] # "none"
       /\ pc[c] = "retire" => thread[timer[c]] = "none"

SlotInv == TypeInv /\ SlotExclusive /\ Ownership /\ Lifecycle

\* A client that has reserved an identifier and not yet returned it.
Unreturned(c) == Setting(c) \/ pc[c] = "return"

\* Before the counter wraps, identifiers are handed out in order, once each ...
Numbering ==
  /\ created < IdSpace - 1 => nextId = created + 1
  /\ \A s \in Slots : active[s] => id[s] \in 1 .. created
  /\ \A s, t \in Slots : active[s] /\ active[t] /\ s # t => id[s] # id[t]
  /\ known \subseteq 1 .. created

\* ... nobody but its client can name one that has not been returned ...
Secrecy ==
  /\ \A c \in Clients : Unreturned(c) =>
       /\ timer[c] \in Slots /\ active[timer[c]]
       /\ id[timer[c]] = arg[c] /\ arg[c] \notin known
  /\ \A c, d \in Clients : Unreturned(c) /\ Unreturned(d) /\ c # d => arg[c] # arg[d]
  /\ \A c \in Clients : Killing(c) => arg[c] \in known /\ id[timer[c]] = arg[c]

\* ... and the fate of each is that of its timer.
Fates ==
  /\ \A i \in Ids : i > created => fate[i] = "unused"
  /\ \A c \in Clients : pc[c] = "create" => fate[arg[c]] = "unused"
  /\ \A s \in Slots : thread[s] # "none" => fate[id[s]] = "started"
  /\ \A i \in known : fate[i] # "unused"
  /\ \A c \in Clients : pc[c] \in {"publish", "return"} => fate[arg[c]] # "unused"

IdInv == NoWrap => Numbering /\ Secrecy /\ Fates

Inv == SlotInv /\ IdInv

------------------------------------------------------------------------------
(* Types *)

\* The successor of an identifier is an identifier.
LEMMA SuccType == ASSUME NEW n \in Ids PROVE Succ(n) \in Ids
  BY PoolAssumption DEF Succ, Ids

\* The types, with what a client inside a call has, are inductive.
LEMMA TypeInvariant == Spec => []TypeInv
<1>1. Init => TypeInv
  BY PoolAssumption DEF Init, TypeInv, TypeOK, Ids
<1>2. TypeInv /\ [Next]_vars => TypeInv'
  <2> SUFFICES ASSUME TypeInv, [Next]_vars PROVE TypeInv'
    OBVIOUS
  <2> 0 \notin Ids
    BY DEF Ids
  <2> USE DEF TypeOK, TypeInv
  <2>1. ASSUME NEW c \in Clients, SetReserve(c) PROVE TypeInv'
    BY <2>1, PoolAssumption, SuccType DEF SetReserve, Goto, slotVars, First, Free
  <2>2. ASSUME NEW c \in Clients, SetCreate(c) PROVE TypeInv'
    BY <2>2 DEF SetCreate, Goto, slotVars
  <2>3. ASSUME NEW c \in Clients, SetCreateFails(c) PROVE TypeInv'
    BY <2>3 DEF SetCreateFails, Goto, slotVars
  <2>4. ASSUME NEW c \in Clients, SetPublish(c) PROVE TypeInv'
    BY <2>4 DEF SetPublish, Goto, slotVars
  <2>5. ASSUME NEW c \in Clients, SetReturn(c) PROVE TypeInv'
    BY <2>5 DEF SetReturn, Goto, slotVars
  <2>6. ASSUME NEW c \in Clients, NEW i \in known, KillClaim(c, i) PROVE TypeInv'
    BY <2>6 DEF KillClaim, Goto, slotVars, First, Killable
  <2>7. ASSUME NEW c \in Clients, KillSignal(c) PROVE TypeInv'
    BY <2>7 DEF KillSignal, Goto, slotVars
  <2>8. ASSUME NEW c \in Clients, KillJoin(c) PROVE TypeInv'
    BY <2>8 DEF KillJoin, Goto, slotVars
  <2>9. ASSUME NEW c \in Clients, KillRetire(c) PROVE TypeInv'
    BY <2>9 DEF KillRetire, Goto, slotVars
  <2>10. ASSUME NEW s \in Slots, Fire(s) PROVE TypeInv'
    BY <2>10 DEF Fire, slotVars, clientVars
  <2>11. ASSUME NEW s \in Slots, Return(s) PROVE TypeInv'
    BY <2>11 DEF Return, slotVars, clientVars
  <2>12. ASSUME NEW s \in Slots, Exit(s) PROVE TypeInv'
    BY <2>12 DEF Exit, slotVars, clientVars
  <2>13. CASE UNCHANGED vars
    BY <2>13 DEF vars, slotVars, clientVars
  <2> QED
    BY <2>1, <2>2, <2>3, <2>4, <2>5, <2>6, <2>7, <2>8, <2>9, <2>10, <2>11, <2>12, <2>13 DEF Next, ClientStep, ThreadStep
<1> QED
  BY <1>1, <1>2, PTL DEF Spec

\* Every variable keeps its type (TypeOK), whatever the sizes.
THEOREM TypeCorrect == Spec => []TypeOK
<1>1. TypeInv => TypeOK
  BY DEF TypeInv
<1> QED
  BY <1>1, TypeInvariant, PTL

------------------------------------------------------------------------------
(* Slots *)

\* Ownership, exclusiveness and life cycle of the slots are inductive.
LEMMA SlotInvariant == Spec => []SlotInv
<1>1. Init => SlotInv
  BY PoolAssumption DEF Init, SlotInv, TypeInv, TypeOK, Ids, SlotExclusive, Ownership, Lifecycle, Setting, Killing
<1>2. SlotInv /\ TypeInv' /\ [Next]_vars => SlotInv'
  <2> SUFFICES ASSUME SlotInv, TypeInv', [Next]_vars
               PROVE  SlotExclusive' /\ Ownership' /\ Lifecycle'
    BY DEF SlotInv
  <2> USE PoolAssumption DEF TypeOK, TypeInv, SlotInv, Setting, Killing
  <2>1. ASSUME NEW c \in Clients, SetReserve(c) PROVE SlotExclusive' /\ Ownership' /\ Lifecycle'
    <3>1. SlotExclusive'
      BY <2>1 DEF SetReserve, Goto, slotVars, First, Free, SlotExclusive, Ownership
    <3>2. Ownership'
      BY <2>1 DEF SetReserve, Goto, slotVars, First, Free, SlotExclusive, Ownership
    <3>3. Lifecycle'
      BY <2>1 DEF SetReserve, Goto, slotVars, First, Free, SlotExclusive, Ownership, Lifecycle
    <3> QED
      BY <3>1, <3>2, <3>3
  <2>2. ASSUME NEW c \in Clients, SetCreate(c) PROVE SlotExclusive' /\ Ownership' /\ Lifecycle'
    <3>1. SlotExclusive'
      BY <2>2 DEF SetCreate, Goto, slotVars, SlotExclusive, Ownership
    <3>2. Ownership'
      BY <2>2 DEF SetCreate, Goto, slotVars, SlotExclusive, Ownership
    <3>3. Lifecycle'
      BY <2>2 DEF SetCreate, Goto, slotVars, SlotExclusive, Ownership, Lifecycle
    <3> QED
      BY <3>1, <3>2, <3>3
  <2>3. ASSUME NEW c \in Clients, SetCreateFails(c) PROVE SlotExclusive' /\ Ownership' /\ Lifecycle'
    <3>1. SlotExclusive'
      BY <2>3 DEF SetCreateFails, Goto, slotVars, SlotExclusive, Ownership
    <3>2. Ownership'
      BY <2>3 DEF SetCreateFails, Goto, slotVars, SlotExclusive, Ownership
    <3>3. Lifecycle'
      BY <2>3 DEF SetCreateFails, Goto, slotVars, SlotExclusive, Ownership, Lifecycle
    <3> QED
      BY <3>1, <3>2, <3>3
  <2>4. ASSUME NEW c \in Clients, SetPublish(c) PROVE SlotExclusive' /\ Ownership' /\ Lifecycle'
    <3>1. SlotExclusive'
      BY <2>4 DEF SetPublish, Goto, slotVars, SlotExclusive, Ownership
    <3>2. Ownership'
      BY <2>4 DEF SetPublish, Goto, slotVars, SlotExclusive, Ownership
    <3>3. Lifecycle'
      BY <2>4 DEF SetPublish, Goto, slotVars, SlotExclusive, Ownership, Lifecycle
    <3> QED
      BY <3>1, <3>2, <3>3
  <2>5. ASSUME NEW c \in Clients, SetReturn(c) PROVE SlotExclusive' /\ Ownership' /\ Lifecycle'
    <3>1. SlotExclusive'
      BY <2>5 DEF SetReturn, Goto, slotVars, SlotExclusive, Ownership
    <3>2. Ownership'
      BY <2>5 DEF SetReturn, Goto, slotVars, SlotExclusive, Ownership
    <3>3. Lifecycle'
      BY <2>5 DEF SetReturn, Goto, slotVars, SlotExclusive, Ownership, Lifecycle
    <3> QED
      BY <3>1, <3>2, <3>3
  <2>6. ASSUME NEW c \in Clients, NEW i \in known, KillClaim(c, i) PROVE SlotExclusive' /\ Ownership' /\ Lifecycle'
    <3>1. SlotExclusive'
      BY <2>6 DEF KillClaim, Goto, slotVars, First, Killable, SlotExclusive, Ownership
    <3>2. Ownership'
      BY <2>6 DEF KillClaim, Goto, slotVars, First, Killable, SlotExclusive, Ownership
    <3>3. Lifecycle'
      BY <2>6 DEF KillClaim, Goto, slotVars, First, Killable, SlotExclusive, Ownership, Lifecycle
    <3> QED
      BY <3>1, <3>2, <3>3
  <2>7. ASSUME NEW c \in Clients, KillSignal(c) PROVE SlotExclusive' /\ Ownership' /\ Lifecycle'
    <3>1. SlotExclusive'
      BY <2>7 DEF KillSignal, Goto, slotVars, SlotExclusive, Ownership
    <3>2. Ownership'
      BY <2>7 DEF KillSignal, Goto, slotVars, SlotExclusive, Ownership
    <3>3. Lifecycle'
      BY <2>7 DEF KillSignal, Goto, slotVars, SlotExclusive, Ownership, Lifecycle
    <3> QED
      BY <3>1, <3>2, <3>3
  <2>8. ASSUME NEW c \in Clients, KillJoin(c) PROVE SlotExclusive' /\ Ownership' /\ Lifecycle'
    <3>1. SlotExclusive'
      BY <2>8 DEF KillJoin, Goto, slotVars, SlotExclusive, Ownership
    <3>2. Ownership'
      BY <2>8 DEF KillJoin, Goto, slotVars, SlotExclusive, Ownership
    <3>3. Lifecycle'
      BY <2>8 DEF KillJoin, Goto, slotVars, SlotExclusive, Ownership, Lifecycle
    <3> QED
      BY <3>1, <3>2, <3>3
  <2>9. ASSUME NEW c \in Clients, KillRetire(c) PROVE SlotExclusive' /\ Ownership' /\ Lifecycle'
    <3>1. SlotExclusive'
      BY <2>9 DEF KillRetire, Goto, slotVars, SlotExclusive, Ownership
    <3>2. Ownership'
      BY <2>9 DEF KillRetire, Goto, slotVars, SlotExclusive, Ownership
    <3>3. Lifecycle'
      BY <2>9 DEF KillRetire, Goto, slotVars, SlotExclusive, Ownership, Lifecycle
    <3> QED
      BY <3>1, <3>2, <3>3
  <2>10. ASSUME NEW s \in Slots, Fire(s) PROVE SlotExclusive' /\ Ownership' /\ Lifecycle'
    <3>1. SlotExclusive'
      BY <2>10 DEF Fire, slotVars, clientVars, SlotExclusive, Ownership
    <3>2. Ownership'
      BY <2>10 DEF Fire, slotVars, clientVars, SlotExclusive, Ownership
    <3>3. Lifecycle'
      BY <2>10 DEF Fire, slotVars, clientVars, SlotExclusive, Ownership, Lifecycle
    <3> QED
      BY <3>1, <3>2, <3>3
  <2>11. ASSUME NEW s \in Slots, Return(s) PROVE SlotExclusive' /\ Ownership' /\ Lifecycle'
    <3>1. SlotExclusive'
      BY <2>11 DEF Return, slotVars, clientVars, SlotExclusive, Ownership
    <3>2. Ownership'
      BY <2>11 DEF Return, slotVars, clientVars, SlotExclusive, Ownership
    <3>3. Lifecycle'
      BY <2>11 DEF Return, slotVars, clientVars, SlotExclusive, Ownership, Lifecycle
    <3> QED
      BY <3>1, <3>2, <3>3
  <2>12. ASSUME NEW s \in Slots, Exit(s) PROVE SlotExclusive' /\ Ownership' /\ Lifecycle'
    <3>1. SlotExclusive'
      BY <2>12 DEF Exit, slotVars, clientVars, SlotExclusive, Ownership
    <3>2. Ownership'
      BY <2>12 DEF Exit, slotVars, clientVars, SlotExclusive, Ownership
    <3>3. Lifecycle'
      BY <2>12 DEF Exit, slotVars, clientVars, SlotExclusive, Ownership, Lifecycle
    <3> QED
      BY <3>1, <3>2, <3>3
  <2>13. CASE UNCHANGED vars
    BY <2>13 DEF vars, slotVars, clientVars, SlotExclusive, Ownership, Lifecycle
  <2> QED
    BY <2>1, <2>2, <2>3, <2>4, <2>5, <2>6, <2>7, <2>8, <2>9, <2>10, <2>11, <2>12, <2>13 DEF Next, ClientStep, ThreadStep
<1> QED
  BY <1>1, <1>2, TypeInvariant, PTL DEF Spec

------------------------------------------------------------------------------
(* Identifiers *)

\* Before the wrap an identifier still to be handed out is one more than the last.
LEMMA SuccNoWrap ==
  ASSUME NEW n \in Nat, n + 1 < IdSpace PROVE Succ(n) = n + 1
  BY PoolAssumption DEF Succ

\* Uniqueness of the identifiers, and what they say of the timers, are inductive.
LEMMA IdInvariant == Spec => []Inv
<1>1. Init => IdInv
  BY PoolAssumption DEF Init, IdInv, Numbering, Secrecy, Fates, Ids, Unreturned, Setting, Killing
<1>2. Inv /\ SlotInv' /\ [Next]_vars => IdInv'
  <2> SUFFICES ASSUME SlotInv, SlotInv', IdInv, NoWrap', [Next]_vars
               PROVE  Numbering' /\ Secrecy' /\ Fates'
    BY DEF IdInv, Inv
  <2> USE PoolAssumption DEF TypeOK, TypeInv, Setting, Killing, Unreturned, NoWrap
  <2>a. NoWrap /\ created \in Nat /\ created' \in Nat
    <3> created \in Nat /\ created' \in Nat /\ created' >= created
      BY DEF SlotInv, Next, ClientStep, ThreadStep, vars, clientVars, SetReserve, SetCreate, SetCreateFails,
             SetPublish, SetReturn, KillClaim, KillSignal, KillJoin, KillRetire, Fire, Return, Exit
    <3> QED
      OBVIOUS
  <2>0. Numbering /\ Secrecy /\ Fates
    BY <2>a DEF IdInv, SlotInv
  <2> created \in Nat /\ created' \in Nat
    BY <2>a
  <2>1. ASSUME NEW c \in Clients, SetReserve(c) PROVE Numbering' /\ Secrecy' /\ Fates'
    <3>1. Numbering'
      BY <2>0, <2>1, SuccNoWrap DEF SetReserve, Goto, slotVars, First, Free, SlotInv, Ids, Numbering
    <3>2. Secrecy'
      <4>1. nextId = created + 1
        BY <2>0, <2>1 DEF SetReserve, Numbering
      <4>2. PICK r \in Slots :
              /\ ~active[r] /\ active' = [active EXCEPT ![r] = TRUE]
              /\ id' = [id EXCEPT ![r] = nextId] /\ timer' = [timer EXCEPT ![c] = r]
        BY <2>1 DEF SetReserve, First, Free
      <4>3. nextId \notin known /\ \A d \in Clients : Unreturned(d) => arg[d] # nextId
        <5>1. created + 1 \notin 1 .. created
          OBVIOUS
        <5>2. known \subseteq 1 .. created
          BY <2>0 DEF Numbering
        <5>3. ASSUME NEW d \in Clients, Unreturned(d) PROVE arg[d] \in 1 .. created
          <6>1. timer[d] \in Slots /\ active[timer[d]] /\ id[timer[d]] = arg[d]
            BY <2>0, <5>3 DEF Secrecy
          <6> QED
            BY <2>0, <6>1 DEF Numbering
        <5> QED
          BY <4>1, <5>1, <5>2, <5>3
      <4>4. /\ pc[c] = "idle" /\ pc' = [pc EXCEPT ![c] = "create"]
            /\ arg' = [arg EXCEPT ![c] = nextId] /\ known' = known
        BY <2>1 DEF SetReserve, Goto
      <4> QED
        BY <2>0, <4>2, <4>3, <4>4 DEF Secrecy, SlotInv, Ownership
    <3>3. Fates'
      BY <2>0, <2>1, SuccNoWrap DEF SetReserve, Goto, slotVars, First, Free, SlotInv, Ids, Numbering, Secrecy, Fates, Ownership, Lifecycle
    <3> QED
      BY <3>1, <3>2, <3>3
  <2>2. ASSUME NEW c \in Clients, SetCreate(c) PROVE Numbering' /\ Secrecy' /\ Fates'
    <3>1. Numbering'
      BY <2>0, <2>2 DEF SetCreate, Goto, slotVars, SlotInv, Ids, Numbering
    <3>2. Secrecy'
      BY <2>0, <2>2 DEF SetCreate, Goto, slotVars, SlotInv, Ids, Numbering, Secrecy, SlotExclusive, Ownership
    <3>3. Fates'
      <4>1. /\ pc[c] = "create" /\ pc' = [pc EXCEPT ![c] = "publish"]
            /\ thread' = [thread EXCEPT ![timer[c]] = "sleep"]
            /\ fate' = [fate EXCEPT ![id[timer[c]]] = "started"]
            /\ created' = created /\ arg' = arg /\ id' = id /\ known' = known
        BY <2>2 DEF SetCreate, Goto, slotVars
      <4>2. timer[c] \in Slots /\ active[timer[c]] /\ id[timer[c]] = arg[c] /\ id[timer[c]] \in 1 .. created
        BY <2>0, <4>1 DEF Numbering, Secrecy
      <4>3. \A d \in Clients : d # c => pc[d] # "create"
        BY <4>1 DEF SlotInv, Ownership
      <4> QED
        BY <2>0, <4>1, <4>2, <4>3 DEF Fates, SlotInv, Ids
    <3> QED
      BY <3>1, <3>2, <3>3
  <2>3. ASSUME NEW c \in Clients, SetCreateFails(c) PROVE Numbering' /\ Secrecy' /\ Fates'
    <3>1. Numbering'
      BY <2>0, <2>3 DEF SetCreateFails, Goto, slotVars, SlotInv, Ids, Numbering
    <3>2. Secrecy'
      BY <2>0, <2>3 DEF SetCreateFails, Goto, slotVars, SlotInv, Ids, Numbering, Secrecy, SlotExclusive, Ownership
    <3>3. Fates'
      BY <2>0, <2>3 DEF SetCreateFails, Goto, slotVars, SlotInv, Ids, Numbering, Secrecy, Fates, Ownership, Lifecycle
    <3> QED
      BY <3>1, <3>2, <3>3
  <2>4. ASSUME NEW c \in Clients, SetPublish(c) PROVE Numbering' /\ Secrecy' /\ Fates'
    <3>1. Numbering'
      BY <2>0, <2>4 DEF SetPublish, Goto, slotVars, SlotInv, Ids, Numbering
    <3>2. Secrecy'
      BY <2>0, <2>4 DEF SetPublish, Goto, slotVars, SlotInv, Ids, Numbering, Secrecy, SlotExclusive, Ownership
    <3>3. Fates'
      BY <2>0, <2>4 DEF SetPublish, Goto, slotVars, SlotInv, Ids, Numbering, Secrecy, Fates, Ownership, Lifecycle
    <3> QED
      BY <3>1, <3>2, <3>3
  <2>5. ASSUME NEW c \in Clients, SetReturn(c) PROVE Numbering' /\ Secrecy' /\ Fates'
    <3>1. Numbering'
      <4>1. pc[c] = "return"
        BY <2>5 DEF SetReturn
      <4>2. timer[c] \in Slots /\ active[timer[c]]
        BY <2>0, <4>1 DEF Secrecy
      <4>3. id[timer[c]] \in 1 .. created
        BY <2>0, <4>2 DEF Numbering
      <4> QED
        BY <2>0, <2>5, <4>3 DEF SetReturn, slotVars, Numbering
    <3>2. Secrecy'
      BY <2>0, <2>5 DEF SetReturn, Goto, slotVars, SlotInv, Ids, Numbering, Secrecy, SlotExclusive, Ownership
    <3>3. Fates'
      BY <2>0, <2>5 DEF SetReturn, Goto, slotVars, SlotInv, Ids, Numbering, Secrecy, Fates, Ownership, Lifecycle
    <3> QED
      BY <3>1, <3>2, <3>3
  <2>6. ASSUME NEW c \in Clients, NEW i \in known, KillClaim(c, i) PROVE Numbering' /\ Secrecy' /\ Fates'
    <3>1. Numbering'
      BY <2>0, <2>6 DEF KillClaim, Goto, slotVars, First, Killable, SlotInv, Ids, Numbering
    <3>2. Secrecy'
      BY <2>0, <2>6 DEF KillClaim, Goto, slotVars, First, Killable, SlotInv, Ids, Numbering, Secrecy, SlotExclusive, Ownership
    <3>3. Fates'
      BY <2>0, <2>6 DEF KillClaim, Goto, slotVars, First, Killable, SlotInv, Ids, Numbering, Secrecy, Fates, Ownership, Lifecycle
    <3> QED
      BY <3>1, <3>2, <3>3
  <2>7. ASSUME NEW c \in Clients, KillSignal(c) PROVE Numbering' /\ Secrecy' /\ Fates'
    <3>1. Numbering'
      BY <2>0, <2>7 DEF KillSignal, Goto, slotVars, SlotInv, Ids, Numbering
    <3>2. Secrecy'
      BY <2>0, <2>7 DEF KillSignal, Goto, slotVars, SlotInv, Ids, Numbering, Secrecy, SlotExclusive, Ownership
    <3>3. Fates'
      BY <2>0, <2>7 DEF KillSignal, Goto, slotVars, SlotInv, Ids, Numbering, Secrecy, Fates, Ownership, Lifecycle
    <3> QED
      BY <3>1, <3>2, <3>3
  <2>8. ASSUME NEW c \in Clients, KillJoin(c) PROVE Numbering' /\ Secrecy' /\ Fates'
    <3>1. Numbering'
      BY <2>0, <2>8 DEF KillJoin, Goto, slotVars, SlotInv, Ids, Numbering
    <3>2. Secrecy'
      BY <2>0, <2>8 DEF KillJoin, Goto, slotVars, SlotInv, Ids, Numbering, Secrecy, SlotExclusive, Ownership
    <3>3. Fates'
      BY <2>0, <2>8 DEF KillJoin, Goto, slotVars, SlotInv, Ids, Numbering, Secrecy, Fates, Ownership, Lifecycle
    <3> QED
      BY <3>1, <3>2, <3>3
  <2>9. ASSUME NEW c \in Clients, KillRetire(c) PROVE Numbering' /\ Secrecy' /\ Fates'
    <3>1. Numbering'
      BY <2>0, <2>9 DEF KillRetire, Goto, slotVars, SlotInv, Ids, Numbering
    <3>2. Secrecy'
      BY <2>0, <2>9 DEF KillRetire, Goto, slotVars, SlotInv, Ids, Numbering, Secrecy, SlotExclusive, Ownership
    <3>3. Fates'
      <4>1. /\ pc[c] = "retire" /\ pc' = [pc EXCEPT ![c] = "idle"]
            /\ fate' = [fate EXCEPT ![arg[c]] = "killed"]
            /\ created' = created /\ arg' = arg /\ id' = id /\ thread' = thread /\ known' = known
        BY <2>9 DEF KillRetire, Goto
      <4>2. /\ timer[c] \in Slots /\ active[timer[c]] /\ thread[timer[c]] = "none"
            /\ id[timer[c]] = arg[c] /\ arg[c] \in known /\ arg[c] \in 1 .. created
        BY <2>0, <4>1 DEF Numbering, Secrecy, SlotInv, Ownership, Lifecycle
      <4>3. \A t \in Slots : thread[t] # "none" => id[t] # arg[c]
        <5>1. \A t \in Slots : thread[t] # "none" => active[t]
          BY DEF SlotInv, Lifecycle
        <5> QED
          BY <2>0, <4>2, <5>1 DEF Numbering
      <4>4. \A d \in Clients : pc[d] = "create" => arg[d] # arg[c]
        BY <2>0, <4>2 DEF Secrecy
      <4> QED
        BY <2>0, <4>1, <4>2, <4>3, <4>4 DEF Fates, SlotInv, Ids
    <3> QED
      BY <3>1, <3>2, <3>3
  <2>10. ASSUME NEW s \in Slots, Fire(s) PROVE Numbering' /\ Secrecy' /\ Fates'
    <3>1. Numbering'
      BY <2>0, <2>10 DEF Fire, slotVars, clientVars, SlotInv, Ids, Numbering
    <3>2. Secrecy'
      BY <2>0, <2>10 DEF Fire, slotVars, clientVars, SlotInv, Ids, Numbering, Secrecy, SlotExclusive, Ownership
    <3>3. Fates'
      BY <2>0, <2>10 DEF Fire, slotVars, clientVars, SlotInv, Ids, Numbering, Secrecy, Fates, Ownership, Lifecycle
    <3> QED
      BY <3>1, <3>2, <3>3
  <2>11. ASSUME NEW s \in Slots, Return(s) PROVE Numbering' /\ Secrecy' /\ Fates'
    <3>1. Numbering'
      BY <2>0, <2>11 DEF Return, slotVars, clientVars, SlotInv, Ids, Numbering
    <3>2. Secrecy'
      BY <2>0, <2>11 DEF Return, slotVars, clientVars, SlotInv, Ids, Numbering, Secrecy, SlotExclusive, Ownership
    <3>3. Fates'
      BY <2>0, <2>11 DEF Return, slotVars, clientVars, SlotInv, Ids, Numbering, Secrecy, Fates, Ownership, Lifecycle
    <3> QED
      BY <3>1, <3>2, <3>3
  <2>12. ASSUME NEW s \in Slots, Exit(s) PROVE Numbering' /\ Secrecy' /\ Fates'
    <3>1. Numbering'
      BY <2>0, <2>12 DEF Exit, slotVars, clientVars, SlotInv, Ids, Numbering
    <3>2. Secrecy'
      BY <2>0, <2>12 DEF Exit, slotVars, clientVars, SlotInv, Ids, Numbering, Secrecy, SlotExclusive, Ownership
    <3>3. Fates'
      BY <2>0, <2>12 DEF Exit, slotVars, clientVars, SlotInv, Ids, Numbering, Secrecy, Fates, Ownership, Lifecycle
    <3> QED
      BY <3>1, <3>2, <3>3
  <2>13. CASE UNCHANGED vars
    BY <2>0, <2>13 DEF vars, slotVars, clientVars, Numbering, Secrecy, Fates
  <2> QED
    BY <2>1, <2>2, <2>3, <2>4, <2>5, <2>6, <2>7, <2>8, <2>9, <2>10, <2>11, <2>12, <2>13 DEF Next, ClientStep, ThreadStep
<1> QED
  BY <1>1, <1>2, SlotInvariant, PTL DEF Spec, Inv

------------------------------------------------------------------------------
(* What follows for the callers of the pool *)

\* A slot is worked on by one caller at a time (SlotExclusive).
THEOREM SlotsExclusive == Spec => []SlotExclusive
<1>1. SlotInv => SlotExclusive
  BY DEF SlotInv
<1> QED
  BY <1>1, SlotInvariant, PTL

\* No thread locks a mutex that is not initialised or already destroyed (MutexLifetime).
THEOREM MutexesLive == Spec => []MutexLifetime
<1>1. SlotInv => MutexLifetime
  <2> SUFFICES ASSUME SlotInv PROVE MutexLifetime
    OBVIOUS
  <2>1. \A s \in Slots : thread[s] \in {"sleep", "calling"} => active[s] /\ mutexLive[s]
    BY DEF SlotInv, TypeInv, TypeOK, Lifecycle
  <2>2. \A c \in Clients : pc[c] = "signal" => mutexLive[timer[c]]
    BY DEF SlotInv, TypeInv, TypeOK, Lifecycle, Ownership, Killing
  <2> QED
    BY <2>1, <2>2 DEF MutexLifetime
<1> QED
  BY <1>1, SlotInvariant, PTL

\* A timer's thread ends only under a killer that waits for it (NoTimerLost).
THEOREM TimersNotLost == Spec => []NoTimerLost
<1>1. SlotInv => NoTimerLost
  <2> SUFFICES ASSUME SlotInv, NEW s \in Slots, thread[s] = "exited"
               PROVE  \E c \in Clients : pc[c] = "join" /\ timer[c] = s
    BY DEF NoTimerLost
  <2>1. active[s] /\ stopping[s]
    BY DEF SlotInv, TypeInv, TypeOK, Lifecycle
  <2>2. PICK c \in Clients : timer[c] = s /\ (Setting(c) \/ Killing(c))
    BY <2>1 DEF SlotInv, Ownership
  <2>3. pc[c] \in {"create", "publish", "signal", "join", "retire"}
    BY <2>2 DEF Setting, Killing
  <2> QED
    BY <2>2, <2>3 DEF SlotInv, Lifecycle
<1> QED
  BY <1>1, SlotInvariant, PTL

\* Until the counter wraps no two timers share an identifier (UniqueIds).
THEOREM IdsUnique == Spec => []UniqueIds
<1>1. Inv => UniqueIds
  BY DEF Inv, IdInv, Numbering, UniqueIds
<1> QED
  BY <1>1, IdInvariant, PTL

\* timeSetEvent returns the identifier it reserved (ReturnsOwnId).
THEOREM OwnIdReturned == Spec => []ReturnsOwnId
<1>1. Inv => ReturnsOwnId
  BY DEF Inv, IdInv, Secrecy, Unreturned, ReturnsOwnId
<1> QED
  BY <1>1, IdInvariant, PTL

\* After timeKillEvent has returned there is no callback any more (QuietAfterKill).
THEOREM QuietAfterKills == Spec => []QuietAfterKill
<1>1. Inv => QuietAfterKill
  BY DEF Inv, IdInv, Fates, QuietAfterKill
<1> QED
  BY <1>1, IdInvariant, PTL

------------------------------------------------------------------------------
(* Refinement *)

\* A step that leaves every thread and fate alone, and renames no slot with a
\* thread, leaves the abstract service alone.
LEMMA StatusFrame ==
  ASSUME thread' = thread, fate' = fate,
         \A s \in Slots : thread[s] # "none" => id'[s] = id[s]
  PROVE  Status' = Status
  BY DEF Status

\* What the service sees of a slot with a thread, while identifiers are unique.
LEMMA StatusOfSlot ==
  ASSUME Inv, NoWrap, NEW s \in Slots
  PROVE  /\ id[s] \in Ids \/ thread[s] = "none"
         /\ thread[s] = "sleep"   => Status[id[s]] = "idle"
         /\ thread[s] = "calling" => Status[id[s]] = "firing"
<1>1. \A t \in Slots : thread[t] # "none" => active[t]
  BY DEF Inv, SlotInv, Lifecycle
<1>2. Numbering /\ Fates
  BY DEF Inv, IdInv
<1>3. \A t \in Slots : thread[s] # "none" /\ thread[t] # "none" /\ id[t] = id[s] => t = s
  BY <1>1, <1>2 DEF Numbering
<1>4. created \in Nat /\ IdSpace \in Nat
  BY PoolAssumption DEF Inv, SlotInv, TypeInv, TypeOK
<1>5. thread[s] # "none" => id[s] \in Ids /\ fate[id[s]] = "started"
  BY <1>1, <1>2, <1>4 DEF Numbering, Fates, NoWrap, Ids
<1> QED
  BY <1>3, <1>5 DEF Status

\* Changing the phase of one thread changes the status of its identifier only.
LEMMA StatusStep ==
  ASSUME Inv, NoWrap, NEW s \in Slots, thread[s] # "none",
         NEW p \in {"sleep", "calling", "exited"},
         thread' = [thread EXCEPT ![s] = p], fate' = fate, id' = id
  PROVE  Status' = [Status EXCEPT ![id[s]] = IF p = "calling" THEN "firing"
                                             ELSE IF p = "sleep" THEN "idle" ELSE "dead"]
<1> DEFINE new == IF p = "calling" THEN "firing" ELSE IF p = "sleep" THEN "idle" ELSE "dead"
<1>1. \A t \in Slots : thread[t] # "none" => active[t]
  BY DEF Inv, SlotInv, Lifecycle
<1>2. Numbering /\ Fates
  BY DEF Inv, IdInv
<1>3. \A t \in Slots : thread[t] # "none" /\ id[t] = id[s] => t = s
  BY <1>1, <1>2 DEF Numbering
<1>4. id[s] \in Ids /\ fate[id[s]] = "started"
  BY <1>2, StatusOfSlot DEF Fates
<1>5. thread'[s] = p /\ \A t \in Slots : t # s => thread'[t] = thread[t]
  BY DEF Inv, SlotInv, TypeInv, TypeOK
<1>6. ASSUME NEW i \in Ids, i # id[s] PROVE Status'[i] = Status[i]
  BY <1>5, <1>6 DEF Status
<1>7. \A t \in Slots : thread'[t] \in {"sleep", "calling"} /\ id[t] = id[s] => t = s
  BY <1>3, <1>5
<1>8. Status'[id[s]] = new
  BY <1>4, <1>5, <1>7 DEF Status
<1>9. Status \in [Ids -> {"unused", "idle", "firing", "dead"}] /\ Status' = [i \in Ids |-> Status'[i]]
  BY DEF Status
<1> HIDE DEF new
<1> QED
  BY <1>4, <1>6, <1>8, <1>9 DEF new

\* The pool implements the service: a started timer calls back one call at a time,
\* only before its stop, and its identifier is never used again.
THEOREM Refinement == ASSUME MaxCreates < IdSpace PROVE Spec => ImplementsService
<1>1. Init => TS!Init
  BY DEF Init, TS!Init, Status
<1>2. Inv /\ Inv' /\ [Next]_vars => [TS!Next]_Status
  <2> SUFFICES ASSUME Inv, Inv', [Next]_vars
               PROVE  TS!Next \/ Status' = Status
    OBVIOUS
  <2>0. NoWrap
    BY PoolAssumption DEF NoWrap, Inv, SlotInv, TypeInv, TypeOK
  <2>1. ASSUME NEW c \in Clients, SetReserve(c) PROVE Status' = Status
    <3>1. \A s \in Slots : thread[s] # "none" => id'[s] = id[s]
      BY <2>1 DEF SetReserve, First, Free, Inv, SlotInv, TypeInv, TypeOK, Lifecycle
    <3> QED
      BY <2>1, <3>1, StatusFrame DEF SetReserve
  <2>2. ASSUME NEW c \in Clients, SetCreate(c) PROVE TS!Start(arg[c])
    <3>1. /\ pc[c] = "create" /\ id' = id
          /\ thread' = [thread EXCEPT ![timer[c]] = "sleep"]
          /\ fate' = [fate EXCEPT ![id[timer[c]]] = "started"]
      BY <2>2 DEF SetCreate, slotVars
    <3>2. /\ timer[c] \in Slots /\ id[timer[c]] = arg[c] /\ arg[c] \in Ids
          /\ fate[arg[c]] = "unused"
      BY <2>0, <3>1 DEF Inv, IdInv, Secrecy, Fates, Unreturned, Setting, SlotInv, TypeInv
    <3>3. \A t \in Slots : thread[t] # "none" => id[t] # arg[c]
      BY <2>0, <3>2 DEF Inv, IdInv, Fates
    <3>4. /\ thread'[timer[c]] = "sleep" /\ \A t \in Slots : t # timer[c] => thread'[t] = thread[t]
          /\ fate'[arg[c]] = "started" /\ \A i \in Ids : i # arg[c] => fate'[i] = fate[i]
      BY <3>1, <3>2 DEF Inv, SlotInv, TypeInv, TypeOK
    <3>5. Status[arg[c]] = "unused"
      BY <3>2 DEF Status
    <3>6. Status'[arg[c]] = "idle"
      <4>1. ~\E t \in Slots : id[t] = arg[c] /\ thread'[t] = "calling"
        BY <3>3, <3>4
      <4> QED
        BY <3>1, <3>2, <3>4, <4>1 DEF Status
    <3>7. ASSUME NEW i \in Ids, i # arg[c] PROVE Status'[i] = Status[i]
      BY <3>1, <3>2, <3>4, <3>7 DEF Status
    <3>8. Status \in [Ids -> {"unused", "idle", "firing", "dead"}] /\ Status' = [i \in Ids |-> Status'[i]]
      BY DEF Status
    <3>9. Status' = [Status EXCEPT ![arg[c]] = "idle"]
      BY <3>2, <3>6, <3>7, <3>8
    <3> QED
      BY <3>5, <3>9 DEF TS!Start, TS!Move
  <2>3. ASSUME NEW c \in Clients,
               SetCreateFails(c) \/ SetPublish(c) \/ SetReturn(c) \/ (\E i \in known : KillClaim(c, i)) \/ KillSignal(c)
        PROVE  Status' = Status
    BY <2>3, StatusFrame DEF SetCreateFails, SetPublish, SetReturn, KillClaim, KillSignal, slotVars
  <2>4. ASSUME NEW c \in Clients, KillJoin(c) PROVE Status' = Status
    <3>1. timer[c] \in Slots /\ \A t \in Slots : thread[t] \in {"sleep", "calling"} <=> thread'[t] \in {"sleep", "calling"}
      BY <2>4 DEF KillJoin, Inv, SlotInv, TypeInv, TypeOK
    <3>2. \A t \in Slots : thread'[t] \in {"sleep", "calling"} => thread'[t] = thread[t]
      BY <2>4 DEF KillJoin, Inv, SlotInv, TypeInv, TypeOK
    <3> QED
      BY <2>4, <3>1, <3>2 DEF KillJoin, slotVars, Status
  <2>5. ASSUME NEW c \in Clients, KillRetire(c) PROVE Status' = Status
    <3>1. arg[c] \in known /\ arg[c] \in Ids /\ id[timer[c]] = arg[c]
      BY <2>0, <2>5 DEF KillRetire, Inv, IdInv, Secrecy, Killing, SlotInv, TypeInv, TypeOK
    <3>2. fate[arg[c]] # "unused"
      BY <2>0, <3>1 DEF Inv, IdInv, Fates
    <3> QED
      BY <2>5, <3>1, <3>2 DEF KillRetire, Status, Inv, SlotInv, TypeInv, TypeOK
  <2>6. ASSUME NEW s \in Slots, Fire(s) PROVE TS!Begin(id[s])
    BY <2>0, <2>6, StatusOfSlot, StatusStep DEF Fire, slotVars, TS!Begin, TS!Move
  <2>7. ASSUME NEW s \in Slots, Return(s) PROVE TS!End(id[s])
    BY <2>0, <2>7, StatusOfSlot, StatusStep DEF Return, slotVars, TS!End, TS!Move
  <2>8. ASSUME NEW s \in Slots, Exit(s) PROVE TS!Stop(id[s])
    BY <2>0, <2>8, StatusOfSlot, StatusStep DEF Exit, slotVars, TS!Stop, TS!Move
  <2>9. CASE UNCHANGED vars
    BY <2>9, StatusFrame DEF vars, slotVars
  <2>10. ASSUME NEW c \in Clients PROVE arg[c] \in Ids \/ pc[c] # "create"
    BY <2>0 DEF Inv, IdInv, Secrecy, Unreturned, Setting, SlotInv, TypeInv
  <2>11. \A s \in Slots : id[s] \in Ids \/ thread[s] = "none"
    BY <2>0, StatusOfSlot
  <2> QED
    BY <2>1, <2>2, <2>3, <2>4, <2>5, <2>6, <2>7, <2>8, <2>9, <2>10, <2>11
       DEF Next, ClientStep, ThreadStep, TS!Next, SetCreate, Fire, Return, Exit
<1> QED
  BY <1>1, <1>2, IdInvariant, PTL DEF Spec, ImplementsService, TS!Spec

------------------------------------------------------------------------------
(* TimerPacing *)

\* A second has a whole, positive number of nanoseconds.
LEMMA NsPerSecType == NsPerSec \in Nat \ {0}
  BY PacingAssumption DEF NsPerSec

\* The nanoseconds of a timespec are a natural number.
LEMMA NsType == ASSUME NEW t \in Timespec PROVE Ns(t) \in Nat
<1>1. t.sec \in Nat /\ t.nsec \in Nat
  BY NsPerSecType DEF Timespec
<1>2. t.sec * NsPerSec \in Nat
  BY <1>1, NsPerSecType
<1> QED
  BY <1>1, <1>2 DEF Ns

\* OfNs makes the normalised timespec of its nanoseconds.
LEMMA OfNsCorrect == ASSUME NEW n \in Nat PROVE OfNs(n) \in Timespec /\ Ns(OfNs(n)) = n
<1> DEFINE S == NsPerSec
<1> DEFINE q == n \div S
           r == n % S
<1>1. S \in Nat \ {0}
  BY NsPerSecType
<1> HIDE DEF S
<1>2. n \div S \in Nat /\ n % S \in 0 .. S - 1 /\ n = S * (n \div S) + (n % S)
  BY <1>1
<1>3. (n \div S) * S = S * (n \div S)
  BY <1>1, <1>2
<1>4. OfNs(n) = [sec |-> q, nsec |-> r]
  BY DEF OfNs, S
<1> HIDE DEF q, r
<1>5. q \in Nat /\ r \in 0 .. S - 1 /\ q * S + r = n
  BY <1>1, <1>2, <1>3 DEF q, r
<1> QED
  BY <1>4, <1>5 DEF Ns, Timespec, S

\* Comparing seconds first and nanoseconds next compares the times, as long as
\* both timespecs are normalised.
LEMMA PassedCorrect ==
  ASSUME NEW d \in Timespec, NEW t \in Timespec
  PROVE  DeadlinePassed(d, t) <=> Ns(d) <= Ns(t)
<1> DEFINE S == NsPerSec
<1>1. S \in Nat \ {0} /\ d.sec \in Nat /\ t.sec \in Nat /\ d.nsec \in 0 .. S - 1 /\ t.nsec \in 0 .. S - 1
  BY NsPerSecType DEF Timespec
<1> HIDE DEF S
<1>2. CASE d.sec < t.sec
  <2>1. (d.sec + 1) * S <= t.sec * S
    BY <1>1, <1>2
  <2>2. (d.sec + 1) * S = d.sec * S + S
    BY <1>1
  <2>3. d.sec * S \in Nat /\ t.sec * S \in Nat
    BY <1>1
  <2> QED
    BY <1>1, <1>2, <2>1, <2>2, <2>3 DEF DeadlinePassed, Ns, S
<1>3. CASE t.sec < d.sec
  <2>1. (t.sec + 1) * S <= d.sec * S
    BY <1>1, <1>3
  <2>2. (t.sec + 1) * S = t.sec * S + S
    BY <1>1
  <2>3. d.sec * S \in Nat /\ t.sec * S \in Nat
    BY <1>1
  <2>4. ~DeadlinePassed(d, t)
    BY <1>1, <1>3 DEF DeadlinePassed
  <2> QED
    BY <1>1, <2>1, <2>2, <2>3, <2>4 DEF Ns, S
<1>4. CASE d.sec = t.sec
  <2>1. d.sec * S \in Nat
    BY <1>1
  <2> QED
    BY <1>1, <1>4, <2>1 DEF DeadlinePassed, Ns, S
<1> QED
  BY <1>1, <1>2, <1>3, <1>4

\* AddMilliseconds keeps a timespec normalised and adds what it says.
LEMMA AddCorrect ==
  ASSUME NEW t \in Timespec, NEW ms \in Nat
  PROVE  /\ AddMilliseconds(t, ms) \in Timespec
         /\ Ns(AddMilliseconds(t, ms)) = Ns(t) + ms * NsPerMs
<1> DEFINE M == MsPerSec
           N == NsPerMs
           q == ms \div M
           r == ms % M
           sec == t.sec + q
           nsec == t.nsec + r * N
<1>1. M \in Nat \ {0} /\ N \in Nat \ {0} /\ NsPerSec = M * N /\ NsPerSec \in Nat \ {0}
  BY PacingAssumption, NsPerSecType DEF NsPerSec
<1>2. q \in Nat /\ r \in 0 .. M - 1 /\ ms = M * q + r
  BY <1>1
<1>3. t.sec \in Nat /\ t.nsec \in 0 .. NsPerSec - 1
  BY DEF Timespec
<1> HIDE DEF M, N, q, r
<1>4. r * N \in Nat /\ r * N <= NsPerSec - N
  <2>1. r * N <= (M - 1) * N
    BY <1>1, <1>2
  <2>2. (M - 1) * N = M * N - N
    BY <1>1
  <2> QED
    BY <1>1, <1>2, <2>1, <2>2
<1>5. nsec \in Nat /\ nsec < 2 * NsPerSec /\ sec \in Nat
  BY <1>1, <1>2, <1>3, <1>4
<1>6. AddMilliseconds(t, ms) = IF nsec >= NsPerSec THEN [sec |-> sec + 1, nsec |-> nsec - NsPerSec]
                                                    ELSE [sec |-> sec, nsec |-> nsec]
  BY DEF AddMilliseconds, M, N, q, r
<1>7. sec * NsPerSec + nsec = Ns(t) + ms * N
  <2>1. sec * NsPerSec = t.sec * NsPerSec + q * (M * N)
    BY <1>1, <1>2, <1>3
  <2>2. ms * N = (M * q) * N + r * N
    BY <1>1, <1>2
  <2>3. (M * q) * N = q * (M * N)
    BY <1>1, <1>2
  <2>4. t.sec * NsPerSec \in Nat /\ q * (M * N) \in Nat
    BY <1>1, <1>2, <1>3
  <2> QED
    BY <1>1, <1>3, <1>4, <2>1, <2>2, <2>3, <2>4 DEF Ns
<1>8. (sec + 1) * NsPerSec = sec * NsPerSec + NsPerSec /\ sec * NsPerSec \in Nat
  BY <1>1, <1>5
<1> HIDE DEF sec, nsec
<1>9. CASE nsec >= NsPerSec
  <2>1. AddMilliseconds(t, ms) = [sec |-> sec + 1, nsec |-> nsec - NsPerSec]
    BY <1>6, <1>9
  <2> QED
    BY <1>1, <1>5, <1>7, <1>8, <1>9, <2>1 DEF Timespec, Ns, N
<1>10. CASE ~(nsec >= NsPerSec)
  <2>1. AddMilliseconds(t, ms) = [sec |-> sec, nsec |-> nsec]
    BY <1>6, <1>10
  <2> QED
    BY <1>1, <1>5, <1>7, <1>10, <2>1 DEF Timespec, Ns, N
<1> QED
  BY <1>9, <1>10

------------------------------------------------------------------------------

\* One period in nanoseconds.
LEMMA PeriodType == ASSUME PacingTypeOK PROVE PeriodNs \in Nat \ {0} /\ period \in Nat
  BY PacingAssumption DEF PacingTypeOK, PeriodNs

\* How far the deadline is from the start and from the callbacks already made: when
\* the thread sleeps, a whole period further than while it is in a callback.
Ahead ==
  LET n == Len(began) IN
  /\ \A i \in 1 .. n : began[i] <= Ns(now)
  /\ phase = "sleep" =>
       /\ Ns(deadline) >= start + (n + 1) * PeriodNs
       /\ \A i \in 1 .. n : Ns(deadline) > began[i] + (n - i) * PeriodNs
  /\ phase = "calling" =>
       /\ n > 0 /\ Ns(deadline) >= start + n * PeriodNs
       /\ \A i \in 1 .. n - 1 : Ns(deadline) > began[i] + (n - i - 1) * PeriodNs

PacingInv == PacingTypeOK /\ NeverAhead /\ NoBurst /\ Ahead

LEMMA PacingInvInit == PacingInit => PacingInv
<1> SUFFICES ASSUME PacingInit PROVE PacingInv
  OBVIOUS
<1>1. start \in Nat /\ period \in Nat /\ began = <<>> /\ phase = "sleep"
  BY PacingAssumption DEF PacingInit
<1>2. now \in Timespec /\ Ns(now) = start
  BY <1>1, OfNsCorrect DEF PacingInit
<1>3. deadline \in Timespec /\ Ns(deadline) = start + PeriodNs
  BY <1>1, <1>2, AddCorrect DEF PacingInit, PeriodNs
<1>4. PacingTypeOK
  BY <1>1, <1>2, <1>3 DEF PacingInit, PacingTypeOK
<1>5. PeriodNs \in Nat
  BY <1>4, PeriodType
<1> QED
  BY <1>1, <1>3, <1>4, <1>5 DEF PacingInv, NeverAhead, NoBurst, Ahead

\* Where the deadline goes after a callback: at least one period on, and past now.
LEMMA RearmCorrect ==
  ASSUME PacingTypeOK
  PROVE  /\ Rearm \in Timespec
         /\ Ns(Rearm) > Ns(now)
         /\ Ns(Rearm) >= Ns(deadline) + PeriodNs
<1> DEFINE next == AddMilliseconds(deadline, period)
           later == AddMilliseconds(now, period)
<1>1. PeriodNs \in Nat \ {0} /\ period \in Nat /\ deadline \in Timespec /\ now \in Timespec
  BY PeriodType DEF PacingTypeOK
<1>2. Ns(now) \in Nat /\ Ns(deadline) \in Nat
  BY <1>1, NsType
<1>3. next \in Timespec /\ Ns(next) = Ns(deadline) + PeriodNs
  BY <1>1, AddCorrect DEF PeriodNs
<1>4. later \in Timespec /\ Ns(later) = Ns(now) + PeriodNs
  BY <1>1, AddCorrect DEF PeriodNs
<1>5. DeadlinePassed(next, now) <=> Ns(next) <= Ns(now)
  BY <1>1, <1>3, PassedCorrect
<1>6. Rearm = IF DeadlinePassed(next, now) THEN later ELSE next
  BY DEF Rearm
<1> HIDE DEF next, later
<1> QED
  BY <1>1, <1>2, <1>3, <1>4, <1>5, <1>6

LEMMA PacingStep == PacingInv /\ [PacingNext]_pacingVars => PacingInv'
<1> SUFFICES ASSUME PacingInv, [PacingNext]_pacingVars PROVE PacingInv'
  OBVIOUS
<1> DEFINE n == Len(began)
           P == PeriodNs
<1>1. /\ P \in Nat \ {0} /\ now \in Timespec /\ deadline \in Timespec
      /\ Ns(now) \in Nat /\ Ns(deadline) \in Nat /\ start \in Nat
      /\ began \in Seq(Nat) /\ n \in Nat /\ \A i \in 1 .. n : began[i] \in Nat
  BY PacingAssumption, PeriodType, NsType DEF PacingInv, PacingTypeOK
<1>2. CASE Advance
  <2>1. now' \in Timespec /\ Ns(now)' = Ns(now) + 1
    BY <1>1, <1>2, OfNsCorrect DEF Advance
  <2>2. UNCHANGED <<period, deadline, phase, began, start>>
    BY <1>2 DEF Advance
  <2> QED
    BY <1>1, <2>1, <2>2 DEF PacingInv, PacingTypeOK, NeverAhead, NoBurst, Ahead, PeriodNs, Ns
<1>3. CASE Wake
  <2>1. /\ phase = "sleep" /\ phase' = "calling" /\ began' = Append(began, Ns(now))
        /\ UNCHANGED <<now, period, deadline, start>>
    BY <1>3 DEF Wake
  <2>2. Ns(deadline) <= Ns(now)
    BY <1>1, <1>3, PassedCorrect DEF Wake
  <2>3. /\ Len(began') = n + 1 /\ began'[n + 1] = Ns(now)
        /\ \A i \in 1 .. n : began'[i] = began[i]
        /\ began' \in Seq(Nat)
    BY <1>1, <2>1
  <2>4. PacingTypeOK'
    BY <2>1, <2>3 DEF PacingInv, PacingTypeOK
  <2>5. P' = P
    BY <2>1 DEF PeriodNs
  <2>6. /\ Ns(deadline) >= start + (n + 1) * P
        /\ \A i \in 1 .. n : Ns(deadline) > began[i] + (n - i) * P
        /\ \A i \in 1 .. n : began[i] <= Ns(now)
    BY <2>1 DEF PacingInv, Ahead
  <2> HIDE DEF n, P
  <2>7. NeverAhead'
    <3> SUFFICES ASSUME NEW i \in 1 .. n + 1 PROVE began'[i] >= start + i * P
      BY <2>1, <2>3, <2>5 DEF NeverAhead, P
    <3>1. CASE i = n + 1
      <4>1. (n + 1) * P \in Nat
        BY <1>1
      <4> QED
        BY <1>1, <2>2, <2>3, <2>6, <3>1, <4>1
    <3>2. CASE i \in 1 .. n
      BY <2>3, <3>2 DEF PacingInv, NeverAhead, n, P
    <3> QED
      BY <1>1, <3>1, <3>2
  <2>8. NoBurst'
    <3> SUFFICES ASSUME NEW i \in 1 .. n + 1, NEW j \in 1 .. n + 1, i < j
                 PROVE  began'[j] > began'[i] + (j - i - 1) * P
      BY <2>1, <2>3, <2>5 DEF NoBurst, P
    <3>1. CASE j = n + 1
      <4>1. i \in 1 .. n /\ j - i - 1 = n - i
        BY <1>1, <3>1
      <4>2. Ns(deadline) > began[i] + (n - i) * P
        BY <2>6, <4>1
      <4>3. (n - i) * P \in Int /\ began[i] \in Nat
        BY <1>1, <4>1
      <4> QED
        BY <1>1, <2>2, <2>3, <3>1, <4>1, <4>2, <4>3
    <3>2. CASE j \in 1 .. n
      <4>1. i \in 1 .. n
        BY <1>1, <3>2
      <4> QED
        BY <2>3, <3>2, <4>1 DEF PacingInv, NoBurst, n, P
    <3> QED
      BY <1>1, <3>1, <3>2
  <2>9. Ahead'
    <3>1. \A i \in 1 .. n + 1 : began'[i] <= Ns(now)
      BY <1>1, <2>3, <2>6
    <3>2. \A i \in 1 .. (n + 1) - 1 : Ns(deadline) > began'[i] + ((n + 1) - i - 1) * P
      <4> SUFFICES ASSUME NEW i \in 1 .. (n + 1) - 1
                   PROVE  Ns(deadline) > began'[i] + ((n + 1) - i - 1) * P
        OBVIOUS
      <4>1. i \in 1 .. n /\ (n + 1) - i - 1 = n - i
        BY <1>1
      <4> QED
        BY <2>3, <2>6, <4>1
    <3>3. n + 1 > 0 /\ Ns(now)' = Ns(now) /\ Ns(deadline)' = Ns(deadline) /\ start' = start
      BY <1>1, <2>1 DEF Ns
    <3>4. PeriodNs' = P
      BY <2>5 DEF P
    <3>5. phase' = "calling" /\ Len(began)' = n + 1
      BY <2>1, <2>3
    <3> QED
      BY <2>6, <3>1, <3>2, <3>3, <3>4, <3>5 DEF Ahead
  <2> QED
    BY <2>4, <2>7, <2>8, <2>9 DEF PacingInv
<1>4. CASE Rest
  <2>1. /\ phase = "calling" /\ phase' = "sleep" /\ deadline' = Rearm
        /\ UNCHANGED <<now, period, began, start>>
    BY <1>4 DEF Rest
  <2>2. /\ Rearm \in Timespec /\ Ns(deadline)' > Ns(now) /\ Ns(deadline)' >= Ns(deadline) + P
    BY <2>1, RearmCorrect DEF PacingInv, Ns
  <2>3. Ns(deadline)' \in Nat
    BY <2>1, <2>2, NsType DEF Ns
  <2>4. PacingTypeOK' /\ NeverAhead' /\ NoBurst' /\ P' = P
    BY <2>1, <2>2 DEF PacingInv, PacingTypeOK, NeverAhead, NoBurst, PeriodNs
  <2>5. /\ n > 0 /\ Ns(deadline) >= start + n * P
        /\ \A i \in 1 .. n - 1 : Ns(deadline) > began[i] + (n - i - 1) * P
        /\ \A i \in 1 .. n : began[i] <= Ns(now)
    BY <2>1 DEF PacingInv, Ahead
  <2> HIDE DEF n, P
  <2>6. Ns(deadline)' >= start + (n + 1) * P
    <3>1. (n + 1) * P = n * P + P /\ n * P \in Nat
      BY <1>1
    <3> QED
      BY <1>1, <2>2, <2>3, <2>5, <3>1
  <2>7. ASSUME NEW i \in 1 .. n PROVE Ns(deadline)' > began[i] + (n - i) * P
    <3>1. CASE i = n
      <4>1. (n - i) * P = 0
        BY <1>1, <3>1
      <4> QED
        BY <1>1, <2>2, <2>3, <2>5, <4>1
    <3>2. CASE i \in 1 .. n - 1
      <4>1. (n - i) * P = (n - i - 1) * P + P /\ (n - i - 1) * P \in Int
        BY <1>1
      <4>2. Ns(deadline) > began[i] + (n - i - 1) * P
        BY <2>5, <3>2
      <4> QED
        BY <1>1, <2>2, <2>3, <4>1, <4>2
    <3> QED
      BY <1>1, <3>1, <3>2
  <2>8. Ahead'
    BY <2>1, <2>4, <2>5, <2>6, <2>7 DEF Ahead, n, P, Ns
  <2> QED
    BY <2>4, <2>8 DEF PacingInv
<1>5. CASE UNCHANGED pacingVars
  BY <1>5 DEF pacingVars, PacingInv, PacingTypeOK, NeverAhead, NoBurst, Ahead, PeriodNs, Ns
<1> QED
  BY <1>2, <1>3, <1>4, <1>5 DEF PacingNext

LEMMA PacingInvariant == PacingSpec => []PacingInv
  BY PacingInvInit, PacingStep, PTL DEF PacingSpec

\* Both timespecs stay normalised, whatever the period (PacingTypeOK).
THEOREM Normalised == PacingSpec => []PacingTypeOK
<1>1. PacingInv => PacingTypeOK
  BY DEF PacingInv
<1> QED
  BY <1>1, PacingInvariant, PTL

\* The timer never runs ahead of the clock (NeverAhead).
THEOREM NotAhead == PacingSpec => []NeverAhead
<1>1. PacingInv => NeverAhead
  BY DEF PacingInv
<1> QED
  BY <1>1, PacingInvariant, PTL

\* A late timer does not catch up with a burst of callbacks (NoBurst).
THEOREM BurstFree == PacingSpec => []NoBurst
<1>1. PacingInv => NoBurst
  BY DEF PacingInv
<1> QED
  BY <1>1, PacingInvariant, PTL

------------------------------------------------------------------------------
(* The game clock *)


Counts == 0 .. MaxTicks

\* The values of each variable, with the counts within their bound.
Typed ==
  /\ m_nTimerID \in [{1} -> {"unused", "idle", "firing", "dead"}]
  /\ object \in {"raw", "ready", "freed"}
  /\ main \in {"constructor", "started", "menu", "frame", "poll", "polled", "loop",
              "paused", "gone"}
  /\ cb \in {"out", "entered", "counting", "leaving"}
  /\ focus \in BOOLEAN
  /\ counter \in Counts /\ lastPoll \in Counts /\ seen \in Counts
  /\ loaded \in Counts /\ atLoss \in Counts
  /\ passed \in Nat /\ ticks \in Nat
  /\ elapsed \in Nat
  /\ dealt \in Nat /\ again \in Nat /\ repeated \in Nat

\* The life of the object, the timer and the callback go together.
Lives ==
  /\ (cb # "out") <=> (m_nTimerID[1] = "firing")
  /\ (m_nTimerID[1] = "unused") <=> (main = "constructor")
  /\ (m_nTimerID[1] = "dead") <=> (main = "gone")
  /\ (object = "raw") <=> (main \in {"constructor", "started"})
  /\ (object = "freed") <=> (main = "gone")

\* The counter never runs behind a time somebody has read.
Ordered ==
  /\ cb = "counting" => counter <= loaded
  /\ object = "ready" => lastPoll <= counter
  /\ main = "polled" => lastPoll <= seen /\ seen <= counter

ClockInv == Typed /\ Lives /\ Ordered

LEMMA FloatFacts ==
  ASSUME NEW m \in Counts, NEW n \in Counts
  PROVE  Float(n) \in Nat /\ (m <= n => Float(m) <= Float(n))
BY ClockAssumption DEF Counts

LEMMA BoundFacts == MaxTicks \in Nat /\ Junk \subseteq Counts /\ Counts \subseteq Nat
BY ClockAssumption DEF Counts

USE DEF histVars, Timer!Init, Timer!Move, Timer!Start, Timer!Begin, Timer!End, Timer!Stop

LEMMA ClockInvInit == ClockInit => ClockInv
<1> SUFFICES ASSUME ClockInit PROVE ClockInv
  OBVIOUS
<1>1. m_nTimerID = [i \in {1} |-> "unused"] /\ m_nTimerID[1] = "unused"
  BY DEF ClockInit
<1>2. counter \in Nat /\ ticks \in Nat
  BY BoundFacts DEF ClockInit
<1>3. Typed
  <2>1. 0 \in Counts /\ counter \in Counts /\ lastPoll \in Counts
    BY BoundFacts DEF ClockInit, Counts
  <2>2. m_nTimerID \in [{1} -> {"unused", "idle", "firing", "dead"}]
    BY <1>1
  <2> QED BY <1>2, <2>1, <2>2 DEF ClockInit, Typed
<1>4. Lives BY <1>1 DEF ClockInit, Lives
<1>5. Ordered BY DEF ClockInit, Ordered
<1> QED BY <1>3, <1>4, <1>5 DEF ClockInv

LEMMA ClockStep == ClockInv /\ [ClockNext]_clockVars => ClockInv'
<1> SUFFICES ASSUME ClockInv, [ClockNext]_clockVars PROVE ClockInv'
  OBVIOUS
<1> USE BoundFacts DEF ClockInv
<1>1. CASE BeginCallback
  BY <1>1 DEF BeginCallback, mainVars, threadVars, Typed, Lives, Ordered
<1>2. CASE CheckFocus
  BY <1>2 DEF CheckFocus, mainVars, threadVars, Typed, Lives, Ordered
<1>3. CASE Count
  <2>1. /\ counter' \in Counts /\ counter' = loaded + 1 /\ cb = "counting"
        /\ counter <= loaded /\ loaded + 1 \in Counts
    BY <1>3 DEF Count, Typed, Ordered, Counts
  <2>2. Float(loaded + 1) - Float(loaded) \in Nat
    <3>1. /\ Float(loaded) \in Nat /\ Float(loaded + 1) \in Nat
          /\ Float(loaded) <= Float(loaded + 1)
      BY <2>1, FloatFacts DEF Typed, Counts
    <3> QED BY <3>1
  <2>3. elapsed' \in Nat
    <3> DEFINE step == Float(loaded + 1) - Float(loaded)
    <3>1. step \in Nat BY <2>2
    <3>2. elapsed' = elapsed + (IF InGame THEN step ELSE 0)
      BY <1>3 DEF Count
    <3> HIDE DEF step
    <3> QED BY <3>1, <3>2 DEF Typed
  <2>4. Typed' BY <1>3, <2>1, <2>3 DEF Count, mainVars, Typed
  <2>5. Lives' BY <1>3 DEF Count, mainVars, Lives
  <2>6. Ordered' BY <1>3, <2>1 DEF Count, mainVars, Ordered, Typed, Counts
  <2> QED BY <2>4, <2>5, <2>6
<1>4. CASE EndCallback
  BY <1>4 DEF EndCallback, mainVars, Typed, Lives, Ordered, Counts
<1>5. CASE StartTimer
  BY <1>5 DEF StartTimer, threadVars, Typed, Lives, Ordered
<1>6. CASE ClearCounter
  BY <1>6 DEF ClearCounter, threadVars, Typed, Lives, Ordered, Counts
<1>7. CASE FocusChange
  BY <1>7 DEF FocusChange, threadVars, Typed, Lives, Ordered, Counts
<1>8. CASE EnterGame
  BY <1>8 DEF EnterGame, threadVars, Typed, Lives, Ordered, Counts
<1>9. CASE HandleInput
  BY <1>9 DEF HandleInput, threadVars, Typed, Lives, Ordered
<1>10. CASE BeginPoll
  BY <1>10 DEF BeginPoll, threadVars, Typed, Lives, Ordered, Counts
<1>11. CASE FinishPoll
  <2>1. /\ main = "polled" /\ object = "ready" /\ lastPoll <= seen /\ seen <= counter
        /\ lastPoll' <= counter /\ lastPoll' \in Counts
    BY <1>11 DEF FinishPoll, Typed, Lives, Ordered, Counts
  <2>2. passed' \in Nat
    <3>1. /\ Float(seen) \in Nat /\ Float(lastPoll) \in Nat
          /\ Float(lastPoll) <= Float(seen)
      BY <2>1, FloatFacts DEF Typed
    <3> QED BY <1>11, <3>1 DEF FinishPoll
  <2>3. ticks' \in Nat BY <1>11, <2>2 DEF FinishPoll
  <2>4. Typed' BY <1>11, <2>1, <2>2, <2>3 DEF FinishPoll, threadVars, Typed, Counts
  <2>5. Lives' BY <1>11 DEF FinishPoll, threadVars, Lives
  <2>6. Ordered' BY <1>11, <2>1 DEF FinishPoll, threadVars, Ordered
  <2> QED BY <2>4, <2>5, <2>6
<1>12. CASE LoopTicks
  <2>1. again' = again + ticks /\ ticks \in Nat /\ again' \in Nat
    BY <1>12 DEF LoopTicks, Typed
  <2>2. repeated' \in Nat BY <1>12, <2>1 DEF LoopTicks, Typed
  <2>3. Typed' BY <1>12, <2>1, <2>2 DEF LoopTicks, threadVars, Typed
  <2>4. Lives' /\ Ordered' BY <1>12 DEF LoopTicks, threadVars, Lives, Ordered
  <2> QED BY <2>3, <2>4
<1>13. CASE LeaveGame
  BY <1>13 DEF LeaveGame, threadVars, Typed, Lives, Ordered
<1>14. CASE Delete
  BY <1>14 DEF Delete, threadVars, Typed, Lives, Ordered
<1>15. CASE UNCHANGED clockVars
  BY <1>15 DEF clockVars, mainVars, threadVars, Typed, Lives, Ordered
<1> QED
  BY <1>1, <1>2, <1>3, <1>4, <1>5, <1>6, <1>7, <1>8, <1>9, <1>10, <1>11, <1>12, <1>13,
     <1>14, <1>15 DEF ClockNext, Callback, Main

LEMMA ClockInvariant == ClockSpec => []ClockInv
BY ClockInvInit, ClockStep, PTL DEF ClockSpec

------------------------------------------------------------------------------

\* No time is ever negative: the clock does not run backwards, even if the
\* constructor is held up.
THEOREM ClockTypeCorrect == ClockSpec => []ClockTypeOK
<1>1. ClockInv => ClockTypeOK
  BY BoundFacts DEF ClockInv, Typed, ClockTypeOK
<1> QED BY <1>1, ClockInvariant, PTL

\* The timer thread does not use a CCommonData that has been deleted.
THEOREM NoCallbackAfterDelete == ClockSpec => []NoUseAfterFree
<1>1. ClockInv => NoUseAfterFree
  BY DEF ClockInv, Lives, NoUseAfterFree
<1> QED BY <1>1, ClockInvariant, PTL

------------------------------------------------------------------------------
(* From here on the constructor is not held up for a period of the timer. *)

\* The callback counts on from the present value.
InStep ==
  /\ cb = "counting" => loaded = counter
  /\ main \in {"constructor", "started"} => cb = "out"

\* The callback that may still count when focus is lost.
AtMostOne ==
  object # "raw" /\ ~focus =>
    IF cb = "counting" THEN counter = atLoss ELSE counter <= atLoss + 1

\* The time in the counter that has not been polled yet.
Pending == IF InGame THEN Float(counter) - Float(lastPoll) ELSE 0

Accounted == dealt + Pending <= elapsed

\* The time dealt by DispatchTick that the loop has still to deal in this frame.
Undealt == IF main = "loop" THEN ticks ELSE 0

\* What the loop has dealt of polled time, DispatchTick has dealt before.
OnceMore == again + Undealt <= dealt + repeated

StepInv == InStep /\ AtMostOne /\ Accounted /\ OnceMore

\* The rounding of the count is monotone, so each callback adds what it counts.
LEMMA StepStart == ClockInit => StepInv
BY DEF ClockInit, StepInv, InStep, AtMostOne, Accounted, Pending, InGame, OnceMore, Undealt

LEMMA StepStep ==
  ASSUME Preempted = FALSE, ClockInv, StepInv, [ClockNext]_clockVars, ClockInv'
  PROVE  StepInv'
<1> USE DEF ClockInv, StepInv
<1>1. InStep'
  <2>1. CASE BeginCallback
    BY <2>1 DEF BeginCallback, mainVars, InStep, Lives, Typed
  <2>2. CASE CheckFocus
    BY <2>2 DEF CheckFocus, mainVars, InStep
  <2>3. CASE Count
    BY <2>3 DEF Count, mainVars, InStep
  <2>4. CASE EndCallback
    BY <2>4 DEF EndCallback, mainVars, InStep
  <2>5. CASE Main
    BY <2>5 DEF Main, StartTimer, ClearCounter, FocusChange, EnterGame, HandleInput, BeginPoll,
         FinishPoll, LoopTicks, LeaveGame, Delete, threadVars, InStep
  <2>6. CASE UNCHANGED clockVars
    BY <2>6 DEF clockVars, mainVars, threadVars, InStep
  <2> QED BY <2>1, <2>2, <2>3, <2>4, <2>5, <2>6 DEF ClockNext, Callback
<1>2. AtMostOne'
  <2>1. CASE CheckFocus
    BY <2>1 DEF CheckFocus, mainVars, AtMostOne, Typed, Counts
  <2>2. CASE Count
    BY <2>2 DEF Count, mainVars, AtMostOne, InStep, Typed, Counts
  <2>3. CASE FocusChange
    <3>1. CASE focus
      <4>1. counter' = counter /\ atLoss' = counter /\ counter \in Nat
        BY <2>3, <3>1, BoundFacts DEF FocusChange, Typed
      <4> QED BY <4>1 DEF AtMostOne
    <3>2. CASE ~focus
      <4>1. focus' = TRUE BY <2>3, <3>2 DEF FocusChange
      <4> QED BY <4>1 DEF AtMostOne
    <3> QED BY <3>1, <3>2
  <2>4. CASE ClearCounter
    BY <2>4, BoundFacts DEF ClearCounter, threadVars, AtMostOne, InStep, Typed, Counts
  <2>5. CASE BeginCallback \/ EndCallback
    BY <2>5 DEF BeginCallback, EndCallback, mainVars, AtMostOne, Lives
  <2>6. CASE \/ StartTimer \/ EnterGame \/ HandleInput \/ BeginPoll \/ FinishPoll
             \/ LoopTicks \/ LeaveGame \/ Delete
    BY <2>6 DEF StartTimer, EnterGame, HandleInput, BeginPoll, FinishPoll,
         LoopTicks, LeaveGame, Delete, threadVars, AtMostOne, Lives
  <2>7. CASE UNCHANGED clockVars
    BY <2>7 DEF clockVars, mainVars, threadVars, AtMostOne
  <2> QED BY <2>1, <2>2, <2>3, <2>4, <2>5, <2>6, <2>7 DEF ClockNext, Callback, Main
<1>3. Accounted'
  <2> USE DEF Accounted, Pending, InGame
  <2>1. CASE Count
    <3>1. loaded = counter /\ counter' = counter + 1 /\ counter' \in Counts
      BY <2>1 DEF Count, InStep, Typed
    <3>2. Float(counter) \in Nat /\ Float(counter') \in Nat /\ Float(lastPoll) \in Nat
      BY <3>1, FloatFacts DEF Typed
    <3>3. elapsed' = elapsed + (IF InGame THEN Float(counter') - Float(counter) ELSE 0)
      BY <2>1, <3>1 DEF Count
    <3> QED BY <2>1, <3>2, <3>3 DEF Count, mainVars, Typed
  <2>2. CASE EnterGame
    <3>1. Float(counter) \in Nat /\ dealt <= elapsed
      BY <2>2, FloatFacts DEF EnterGame, Typed
    <3> QED BY <2>2, <3>1 DEF EnterGame, threadVars, Typed
  <2>3. CASE FinishPoll
    <3> DEFINE a == Float(lastPoll)
               b == Float(seen)
               c == Float(counter)
               d == Float(lastPoll')
    <3>1. /\ lastPoll \in Counts /\ seen \in Counts /\ counter \in Counts
          /\ lastPoll' \in Counts /\ lastPoll <= seen /\ seen <= lastPoll'
          /\ lastPoll' <= counter /\ seen <= counter
      BY <2>3 DEF FinishPoll, Typed, Ordered, Counts
    <3>2. /\ a \in Nat /\ b \in Nat /\ c \in Nat /\ d \in Nat
          /\ a <= b /\ b <= d /\ d <= c
      BY <3>1, FloatFacts
    <3>3. dealt + (c - a) <= elapsed
      BY <2>3 DEF FinishPoll
    <3>4. /\ dealt' = dealt + ticks' /\ elapsed' = elapsed
          /\ ticks' = b - a \/ ticks' = 0
          /\ main' = "loop" /\ counter' = counter
      BY <2>3 DEF FinishPoll
    <3>5. dealt \in Nat /\ elapsed \in Nat
      BY DEF Typed
    <3>6. Pending' = c - d
      BY <3>4
    <3> HIDE DEF a, b, c, d, Pending
    <3>7. dealt' + (c - d) <= elapsed
      BY <3>2, <3>3, <3>4, <3>5
    <3> QED BY <3>4, <3>6, <3>7
  <2>4. CASE LeaveGame
    <3>1. /\ Float(counter) \in Nat /\ Float(lastPoll) \in Nat
          /\ Float(lastPoll) <= Float(counter)
      BY <2>4, FloatFacts DEF LeaveGame, Typed, Ordered, Lives
    <3> QED BY <2>4, <3>1 DEF LeaveGame, threadVars, Typed
  <2>5. CASE BeginCallback \/ CheckFocus \/ EndCallback
    BY <2>5 DEF BeginCallback, CheckFocus, EndCallback, mainVars
  <2>6. CASE StartTimer \/ ClearCounter \/ FocusChange \/ Delete
    BY <2>6 DEF StartTimer, ClearCounter, FocusChange, Delete, threadVars
  <2>8. CASE HandleInput \/ BeginPoll \/ LoopTicks
    BY <2>8 DEF HandleInput, BeginPoll, LoopTicks, threadVars
  <2>7. CASE UNCHANGED clockVars
    BY <2>7 DEF clockVars, mainVars, threadVars
  <2> QED BY <2>1, <2>2, <2>3, <2>4, <2>5, <2>6, <2>7, <2>8 DEF ClockNext, Callback, Main
<1>4. OnceMore'
  <2> USE DEF OnceMore, Undealt
  <2>1. CASE FinishPoll
    <3>1. /\ main = "polled" /\ main' = "loop" /\ dealt' = dealt + ticks'
          /\ again' = again /\ repeated' = repeated
      BY <2>1 DEF FinishPoll
    <3>2. {dealt, again, repeated, ticks'} \subseteq Nat BY DEF Typed
    <3>3. again <= dealt + repeated BY <3>1, <3>2
    <3> QED BY <3>1, <3>2, <3>3
  <2>2. CASE LoopTicks
    <3>1. /\ again' = again + ticks /\ dealt' = dealt /\ main' = "frame"
          /\ repeated' = repeated + (IF main = "paused" THEN ticks ELSE 0)
          /\ main \in {"loop", "paused"}
      BY <2>2 DEF LoopTicks
    <3>2. {dealt, again, repeated, ticks} \subseteq Nat BY DEF Typed
    <3> QED BY <3>1, <3>2
  <2>3. CASE Callback
    BY <2>3 DEF Callback, BeginCallback, CheckFocus, Count, EndCallback, mainVars
  <2>4. CASE \/ StartTimer \/ ClearCounter \/ FocusChange \/ EnterGame \/ HandleInput
             \/ BeginPoll \/ LeaveGame \/ Delete
    BY <2>4 DEF StartTimer, ClearCounter, FocusChange, EnterGame, HandleInput, BeginPoll,
         LeaveGame, Delete
  <2>5. CASE UNCHANGED clockVars
    BY <2>5 DEF clockVars, mainVars
  <2> QED BY <2>1, <2>2, <2>3, <2>4, <2>5 DEF ClockNext, Main
<1> QED BY <1>1, <1>2, <1>3, <1>4

LEMMA StepInvariant == ASSUME Preempted = FALSE PROVE ClockSpec => []StepInv
<1>1. ClockInv /\ StepInv /\ [ClockNext]_clockVars /\ ClockInv' => StepInv'
  BY StepStep
<1> QED BY StepStart, <1>1, ClockInvariant, PTL DEF ClockSpec

\* Once focus is lost, at most one more callback counts.
THEOREM FocusStopsClock ==
  ASSUME Preempted = FALSE PROVE ClockSpec => []OneTickAfterFocusLost
<1>1. ClockInv /\ StepInv => OneTickAfterFocusLost
  BY DEF ClockInv, Typed, Counts, StepInv, AtMostOne, OneTickAfterFocusLost
<1> QED BY <1>1, ClockInvariant, StepInvariant, PTL

\* DispatchTick never deals the components more time than was counted in the game,
\* however the reads of the counter interleave with the callback; and the loop deals
\* explosions and effects at most as much of it again, apart from the frames that an
\* open inventory keeps from polling.
THEOREM TimeNotInvented ==
  ASSUME Preempted = FALSE PROVE ClockSpec => []NoTimeInvented
<1>1. ClockInv /\ StepInv => NoTimeInvented
  <2> SUFFICES ASSUME ClockInv, StepInv PROVE NoTimeInvented
    OBVIOUS
  <2>1. Pending \in Nat
    <3>1. CASE InGame
      <4>1. /\ Float(counter) \in Nat /\ Float(lastPoll) \in Nat
            /\ Float(lastPoll) <= Float(counter)
        BY <3>1, FloatFacts DEF InGame, ClockInv, Typed, Ordered, Lives
      <4> QED BY <4>1 DEF Pending
    <3>2. CASE ~InGame
      BY <3>2 DEF Pending
    <3> QED BY <3>1, <3>2
  <2>2. dealt <= elapsed
    BY <2>1 DEF StepInv, Accounted, ClockInv, Typed
  <2>3. Undealt \in Nat
    BY DEF Undealt, ClockInv, Typed
  <2>4. again - repeated <= dealt
    BY <2>3 DEF StepInv, OnceMore, ClockInv, Typed
  <2> QED BY <2>2, <2>4 DEF NoTimeInvented, ClockInv, Typed
<1> QED BY <1>1, ClockInvariant, StepInvariant, PTL
==============================================================================

------------------------------ MODULE TimerPool ------------------------------
(***************************************************************************)
(* The periodic timer pool of adapters/runtime_compat.cpp: timeSetEvent    *)
(* and timeKillEvent, called by any thread, and PeriodicTimerMain, the     *)
(* thread every running timer owns.                                        *)
(*                                                                         *)
(* Two kinds of lock guard it.  PeriodicTimersMutex (poolOwner) guards the *)
(* slot table; it is held across pthread_create, so it is a variable.  The *)
(* mutex of one slot only ever guards the read or the write of stop: each  *)
(* such critical section is one step, and what is kept of the mutex is     *)
(* whether it is initialised (mutexLive).                                  *)
(***************************************************************************)
EXTENDS Naturals, FiniteSets

CONSTANTS
  Slots,      \* indices of PeriodicTimers
  Clients,    \* threads that call timeSetEvent and timeKillEvent
  None,       \* no thread (the owner of a free mutex) and no slot (NULL)
  IdSpace,    \* an MMRESULT is in 0 .. IdSpace-1 (2^32 in the code)
  MaxCreates  \* bound: slots reserved in one behaviour

ASSUME PoolAssumption ==
  /\ Slots \subseteq Nat
  /\ None \notin Clients \cup Slots
  /\ IdSpace \in Nat \ {0, 1}
  /\ MaxCreates \in Nat

VARIABLES
  active, stopping, stop, id,  \* the fields of each PeriodicTimer
  mutexLive,                   \* its mutex is initialised and not destroyed
  thread,                      \* where its thread is
  poolOwner,                   \* holder of PeriodicTimersMutex
  nextId,                      \* NextTimerId
  pc, timer,                   \* each client: where it is, its local timer
  arg,                         \* the timer_id it kills; history: the id it reserved
  known,                       \* the identifiers timeSetEvent has returned
  created,                     \* history: slots reserved so far
  fate                         \* history: what became of the timer with an id

slotVars   == <<active, stopping, stop, id, mutexLive>>
clientVars == <<pc, timer, arg, known>>
vars == <<slotVars, thread, poolOwner, nextId, clientVars, created, fate>>

Ids == 1 .. IdSpace - 1          \* the identifiers timeSetEvent hands out

\* NextTimerId++ on an unsigned, and the skip over 0.
Succ(n) == IF n + 1 = IdSpace THEN 1 ELSE n + 1

Goto(c, label) == pc' = [pc EXCEPT ![c] = label]

\* Mutants: a timer being killed still matches; the identifier is not compared.
KillableTwice(i) == {s \in Slots : active[s] /\ id[s] = i}
KillableAny(i) == {s \in Slots : active[s] /\ ~stopping[s]}

\* What the two linear searches of the table look for, and where they stop.
Free == {s \in Slots : ~active[s]}
Killable(i) == {s \in Slots : active[s] /\ ~stopping[s] /\ id[s] = i}
First(S) == {s \in S : \A t \in S : s <= t}

Init ==
  /\ active    = [s \in Slots |-> FALSE]
  /\ stopping  = [s \in Slots |-> FALSE]
  /\ stop      = [s \in Slots |-> FALSE]
  /\ id        = [s \in Slots |-> 0]
  /\ mutexLive = [s \in Slots |-> FALSE]
  /\ thread    = [s \in Slots |-> "none"]
  /\ poolOwner = None
  /\ nextId    = 1
  /\ pc        = [c \in Clients |-> "idle"]
  /\ timer     = [c \in Clients |-> None]
  /\ arg       = [c \in Clients |-> 0]
  /\ known     = {}
  /\ created   = 0
  /\ fate      = [i \in Ids |-> "unused"]

------------------------------------------------------------------------------
(* timeSetEvent *)

\* Mutant: stop keeps what the last user of the slot left in it.
ReserveKeepsStop(c) ==
  /\ pc[c] = "idle" /\ poolOwner = None /\ created < MaxCreates
  /\ \E s \in First(Free) :
       /\ active'    = [active    EXCEPT ![s] = TRUE]
       /\ stopping'  = [stopping  EXCEPT ![s] = TRUE]
       /\ id'        = [id        EXCEPT ![s] = nextId]
       /\ mutexLive' = [mutexLive EXCEPT ![s] = TRUE]
       /\ timer'     = [timer     EXCEPT ![c] = s]
  /\ arg' = [arg EXCEPT ![c] = nextId]
  /\ nextId' = Succ(nextId) /\ created' = created + 1
  /\ poolOwner' = c
  /\ Goto(c, "create")
  /\ UNCHANGED <<stop, thread, known, fate>>

\* Lock the pool and reserve the first slot that is not active; the lock is kept.
SetReserve(c) ==
  /\ pc[c] = "idle" /\ poolOwner = None /\ created < MaxCreates
  /\ \E s \in First(Free) :
       /\ active'    = [active    EXCEPT ![s] = TRUE]
       /\ stopping'  = [stopping  EXCEPT ![s] = TRUE]
       /\ stop'      = [stop      EXCEPT ![s] = FALSE]
       /\ id'        = [id        EXCEPT ![s] = nextId]
       /\ mutexLive' = [mutexLive EXCEPT ![s] = TRUE]
       /\ timer'     = [timer     EXCEPT ![c] = s]
  /\ arg' = [arg EXCEPT ![c] = nextId]
  /\ nextId' = Succ(nextId)
  /\ created' = created + 1
  /\ poolOwner' = c
  /\ Goto(c, "create")
  /\ UNCHANGED <<thread, known, fate>>

\* pthread_create succeeds: from here on the thread runs beside its creator.
SetCreate(c) ==
  LET s == timer[c] IN
  /\ pc[c] = "create"
  /\ thread' = [thread EXCEPT ![s] = "sleep"]
  /\ fate' = [fate EXCEPT ![id[s]] = "started"]
  /\ Goto(c, "publish")
  /\ UNCHANGED <<slotVars, poolOwner, nextId, timer, arg, known, created>>

\* pthread_create fails: the slot is given back, stopping stays set, the id is spent.
SetCreateFails(c) ==
  LET s == timer[c] IN
  /\ pc[c] = "create"
  /\ mutexLive' = [mutexLive EXCEPT ![s] = FALSE]
  /\ active' = [active EXCEPT ![s] = FALSE]
  /\ poolOwner' = None
  /\ Goto(c, "idle")
  /\ UNCHANGED <<stopping, stop, id, thread, nextId, timer, arg, known, created, fate>>

\* The timer becomes killable and the pool is unlocked.
SetPublish(c) ==
  /\ pc[c] = "publish"
  /\ stopping' = [stopping EXCEPT ![timer[c]] = FALSE]
  /\ poolOwner' = None
  /\ Goto(c, "return")
  /\ UNCHANGED <<active, stop, id, mutexLive, thread, nextId, timer, arg, known, created, fate>>

\* timer->id is read for the caller after the pool has been unlocked.
SetReturn(c) ==
  /\ pc[c] = "return"
  /\ known' = known \cup {id[timer[c]]}
  /\ Goto(c, "idle")
  /\ UNCHANGED <<slotVars, thread, poolOwner, nextId, timer, arg, created, fate>>

------------------------------------------------------------------------------
(* timeKillEvent.  A call that matches no slot returns 1 and changes nothing.
   A caller can only name an identifier that timeSetEvent has returned; it may
   be one that was killed before. *)

\* Under the pool lock, claim the first slot that carries the id.
KillClaim(c, i) ==
  /\ pc[c] = "idle" /\ poolOwner = None
  /\ \E s \in First(Killable(i)) :
       /\ stopping' = [stopping EXCEPT ![s] = TRUE]
       /\ timer' = [timer EXCEPT ![c] = s]
  /\ arg' = [arg EXCEPT ![c] = i]
  /\ Goto(c, "signal")
  /\ UNCHANGED <<active, stop, id, mutexLive, thread, poolOwner, nextId, known, created, fate>>

\* Mutant: stop is not set.
SignalNothing(c) ==
  /\ pc[c] = "signal"
  /\ Goto(c, "join")
  /\ UNCHANGED <<slotVars, thread, poolOwner, nextId, timer, arg, known, created, fate>>

\* Set stop under the mutex of the slot.
KillSignal(c) ==
  /\ pc[c] = "signal"
  /\ stop' = [stop EXCEPT ![timer[c]] = TRUE]
  /\ Goto(c, "join")
  /\ UNCHANGED <<active, stopping, id, mutexLive, thread, poolOwner, nextId,
                 timer, arg, known, created, fate>>

\* Mutant: the thread is left to end by itself.
JoinNobody(c) ==
  /\ pc[c] = "join"
  /\ Goto(c, "retire")
  /\ UNCHANGED <<slotVars, thread, poolOwner, nextId, timer, arg, known, created, fate>>

\* pthread_join returns once the thread has.
KillJoin(c) ==
  /\ pc[c] = "join"
  /\ thread[timer[c]] = "exited"
  /\ thread' = [thread EXCEPT ![timer[c]] = "none"]
  /\ Goto(c, "retire")
  /\ UNCHANGED <<slotVars, poolOwner, nextId, timer, arg, known, created, fate>>

\* Under the pool lock again, destroy the mutex and free the slot; return 0.
KillRetire(c) ==
  LET s == timer[c] IN
  /\ pc[c] = "retire" /\ poolOwner = None
  /\ mutexLive' = [mutexLive EXCEPT ![s] = FALSE]
  /\ active'    = [active    EXCEPT ![s] = FALSE]
  /\ stopping'  = [stopping  EXCEPT ![s] = FALSE]
  /\ fate' = [fate EXCEPT ![arg[c]] = "killed"]
  /\ Goto(c, "idle")
  /\ UNCHANGED <<stop, id, thread, poolOwner, nextId, timer, arg, known, created>>

------------------------------------------------------------------------------
(* PeriodicTimerMain.  Deadlines are the subject of module TimerPacing. *)

\* The sleep ends and stop, read under the slot's mutex, is false: call back.
Fire(s) ==
  /\ thread[s] = "sleep" /\ ~stop[s]
  /\ thread' = [thread EXCEPT ![s] = "calling"]
  /\ UNCHANGED <<slotVars, poolOwner, nextId, clientVars, created, fate>>

\* The callback returns and the thread sleeps to its next deadline.
Return(s) ==
  /\ thread[s] = "calling"
  /\ thread' = [thread EXCEPT ![s] = "sleep"]
  /\ UNCHANGED <<slotVars, poolOwner, nextId, clientVars, created, fate>>

\* The sleep ends and stop is set: leave the loop.
Exit(s) ==
  /\ thread[s] = "sleep" /\ stop[s]
  /\ thread' = [thread EXCEPT ![s] = "exited"]
  /\ UNCHANGED <<slotVars, poolOwner, nextId, clientVars, created, fate>>

------------------------------------------------------------------------------
ClientStep(c) ==
  \/ SetReserve(c) \/ SetCreate(c) \/ SetCreateFails(c) \/ SetPublish(c) \/ SetReturn(c)
  \/ \E i \in known : KillClaim(c, i)
  \/ KillSignal(c) \/ KillJoin(c) \/ KillRetire(c)

ThreadStep(s) == Fire(s) \/ Return(s) \/ Exit(s)

Next == (\E c \in Clients : ClientStep(c)) \/ (\E s \in Slots : ThreadStep(s))

Spec == Init /\ [][Next]_vars

\* A call that has begun goes on when it can, and a timer thread keeps running.
\* No client has to call anything.  Weak fairness is enough for the pool lock
\* because MaxCreates bounds how often it is held across a step.
Fairness ==
  /\ \A c \in Clients :
       /\ WF_vars(SetCreate(c) \/ SetCreateFails(c) \/ SetPublish(c) \/ SetReturn(c))
       /\ WF_vars(KillSignal(c) \/ KillJoin(c) \/ KillRetire(c))
  /\ \A s \in Slots : WF_vars(Return(s)) /\ WF_vars(Exit(s)) /\ WF_vars(Fire(s))

FairSpec == Spec /\ Fairness

------------------------------------------------------------------------------
(* Properties *)

\* Every variable keeps its type; the identifier 0 is never the next one handed out.
TypeOK ==
  /\ active \in [Slots -> BOOLEAN] /\ stopping \in [Slots -> BOOLEAN]
  /\ stop \in [Slots -> BOOLEAN] /\ mutexLive \in [Slots -> BOOLEAN]
  /\ id \in [Slots -> Ids \cup {0}]
  /\ thread \in [Slots -> {"none", "sleep", "calling", "exited"}]
  /\ poolOwner \in Clients \cup {None}
  /\ nextId \in Ids
  /\ pc \in [Clients -> {"idle", "create", "publish", "return", "signal", "join", "retire"}]
  /\ timer \in [Clients -> Slots \cup {None}]
  /\ arg \in [Clients -> Ids \cup {0}]
  /\ known \subseteq Ids
  /\ created \in 0 .. MaxCreates
  /\ fate \in [Ids -> {"unused", "started", "killed"}]

\* Before NextTimerId has come round, an identifier names one timer.
NoWrap == created < IdSpace

\* The steps between which a client works on its slot.
Setting(c) == pc[c] \in {"create", "publish"}
Killing(c) == pc[c] \in {"signal", "join", "retire"}

\* No thread locks a slot's mutex before pthread_mutex_init or after
\* pthread_mutex_destroy: it lives as long as the timer's thread runs and as
\* long as a killer has yet to lock it.
MutexLifetime ==
  /\ \A s \in Slots : thread[s] \in {"sleep", "calling"} => active[s] /\ mutexLive[s]
  /\ \A c \in Clients : pc[c] = "signal" => mutexLive[timer[c]]

\* A slot is worked on by one caller at a time: two kills of one identifier, or a
\* kill that races the timeSetEvent still creating the thread, never share a
\* slot (a second pthread_join of one thread is undefined).
SlotExclusive ==
  \A c, d \in Clients :
    /\ c # d
    /\ Setting(c) \/ Killing(c)
    /\ Setting(d) \/ Killing(d)
    => timer[c] # timer[d]

\* Until the counter wraps, no two timers in the table share an identifier.
UniqueIds ==
  NoWrap => \A s, t \in Slots : active[s] /\ active[t] /\ s # t => id[s] # id[t]

\* timeSetEvent returns the identifier it reserved, although it reads it
\* without the lock: nobody can have killed the timer and reused the slot.
ReturnsOwnId ==
  NoWrap => \A c \in Clients : pc[c] = "return" => id[timer[c]] = arg[c]

\* A timer's thread ends only under a killer that waits for it: a new timer in a
\* used slot does not inherit the stop of the old one and die unnoticed.
NoTimerLost ==
  \A s \in Slots : thread[s] = "exited" =>
    \E c \in Clients : pc[c] = "join" /\ timer[c] = s

\* Once timeKillEvent has returned, the callback is neither running nor will it run.
QuietAfterKill ==
  NoWrap => \A s \in Slots : thread[s] # "none" => fate[id[s]] = "started"

\* Every call of timeSetEvent and timeKillEvent that has begun returns.
CallsReturn == \A c \in Clients : pc[c] # "idle" ~> pc[c] = "idle"

\* The timer with each identifier, as its user sees it.
Status ==
  [i \in Ids |->
    IF fate[i] = "unused" THEN "unused"
    ELSE IF \E s \in Slots : id[s] = i /\ thread[s] = "calling" THEN "firing"
    ELSE IF \E s \in Slots : id[s] = i /\ thread[s] = "sleep" THEN "idle"
    ELSE "dead"]

TS == INSTANCE TimerService WITH status <- Status

\* The pool implements the service, as long as the identifiers do not wrap
\* (MaxCreates < IdSpace).
ImplementsService == TS!Spec
==============================================================================

---------------------------- MODULE HostInput_proofs ----------------------------
(***************************************************************************)
(* Who has the mouse and what counts as held, for any keyboard, any number *)
(* of pending events and any depth of nesting.                             *)
(*                                                                         *)
(* SDL's state runs ahead of the window's.  The properties are about the   *)
(* moments between two pumps; the invariant says for the other moments     *)
(* which event that is still pending will put things right.                *)
(***************************************************************************)
EXTENDS HostInput, SequenceTheorems, TLAPS

Hosts == [gameplay : BOOLEAN, menu : BOOLEAN, escape : BOOLEAN, relative : BOOLEAN,
          focusLost : BOOLEAN, quit : BOOLEAN, cursor : BOOLEAN]
Sdls == [focus : BOOLEAN, over : BOOLEAN, down : SUBSET (Keys \cup Buttons),
         relative : BOOLEAN]
Inputs == [held : SUBSET Keys, mouse : SUBSET Buttons, pressed : SUBSET Buttons,
           released : SUBSET Buttons, synthetic : SUBSET Buttons,
           pending : SUBSET {"motion", "wheel"}]
Calls == [kind : {"menu", "game"}, gameplay : BOOLEAN, menu : BOOLEAN]

Types ==
  /\ sdl \in Sdls /\ host \in Hosts /\ input \in Inputs
  /\ queue \in Seq(Events) /\ stack \in Seq(Calls)
  /\ gaveUp \in BOOLEAN

\* Only the innermost call is a level, so every scope restores menus.
Nesting ==
  /\ \A i \in 1 .. Len(stack) :
       ~stack[i].gameplay /\ (stack[i].kind = "game" => i = Len(stack))
  /\ host.gameplay <=> Top = "game"

Coming(type) == \E i \in 1 .. Len(queue) : queue[i][1] = type

\* The mouse: captured only where it is wanted, or the loss of focus is on its way; and
\* captured where it is wanted, or the focus is.
Mouse ==
  /\ sdl.relative = host.relative
  /\ "release" \notin CanFail /\ host.relative =>
       /\ host.gameplay /\ ~host.quit /\ ~host.escape /\ ~host.focusLost
       /\ sdl.focus \/ Coming("focusLost")
  /\ host.escape /\ host.gameplay => gaveUp
  /\ host.gameplay /\ sdl.focus /\ ~host.focusLost /\ ~host.quit /\ ~gaveUp =>
       host.relative \/ Coming("focusGained")

\* From the n-th pending event on one comes that ends the holding of k.
LetGo(k, n) ==
  \E j \in n .. Len(queue) : queue[j] = <<"up", k>> \/ queue[j][1] = "focusLost"

Holding ==
  /\ \A k \in input.held : k \in sdl.down \/ LetGo(k, 1)
  /\ \A k \in input.mouse : k \in sdl.down \/ k \in input.synthetic \/ LetGo(k, 1)
  /\ \A i \in 1 .. Len(queue) : queue[i][1] = "down" =>
       queue[i][2] \in sdl.down \/ LetGo(queue[i][2], i + 1)

IInv == Types /\ Nesting /\ Mouse /\ Holding

USE HostAssumption

(***************************************************************************)
(* sync_relative_mode.                                                     *)
(***************************************************************************)
LEMMA CursorOnly ==
  ASSUME NEW h \in Hosts, NEW s \in Sdls
  PROVE  /\ SyncCursor(h, s) \in Hosts
         /\ SyncCursor(h, s).gameplay = h.gameplay /\ SyncCursor(h, s).menu = h.menu
         /\ SyncCursor(h, s).escape = h.escape /\ SyncCursor(h, s).relative = h.relative
         /\ SyncCursor(h, s).focusLost = h.focusLost /\ SyncCursor(h, s).quit = h.quit
BY DEF SyncCursor, Hosts, Sdls

LEMMA Synced ==
  ASSUME NEW h \in Hosts, NEW s \in Sdls, NEW i \in Inputs, h.relative = s.relative,
         NEW o \in Syncs(h, s, i)
  PROVE  /\ o.host \in Hosts /\ o.sdl \in Sdls /\ o.input \in Inputs /\ o.failed \in BOOLEAN
         /\ o.host.gameplay = h.gameplay /\ o.host.focusLost = h.focusLost
         /\ o.host.quit = h.quit
         /\ o.sdl.focus = s.focus /\ o.sdl.down = s.down
         /\ o.input.held = i.held /\ o.input.mouse = i.mouse
         /\ o.input.synthetic = i.synthetic
         /\ o.host.relative = o.sdl.relative
         /\ "release" \notin CanFail /\ o.host.relative => Wanted(o.host, s)
         /\ Wanted(o.host, s) => o.host.relative
         /\ o.host.escape => h.escape \/ o.failed
<1> DEFINE w == Wanted(h, s)
           h1 == [h EXCEPT !.relative = w]
           done == [host |-> SyncCursor(h1, s), sdl |-> [s EXCEPT !.relative = w],
                    input |-> RelativeMode(i), failed |-> FALSE]
           failed == [host |-> [h EXCEPT !.escape = TRUE], sdl |-> s, input |-> i,
                      failed |-> TRUE]
           same == [host |-> h, sdl |-> s, input |-> i, failed |-> FALSE]
<1>1. w \in BOOLEAN
  BY DEF Wanted, Hosts, Sdls
<1>2. \/ w = h.relative /\ o = same
      \/ w # h.relative /\ o = done
      \/ w # h.relative /\ o = failed /\ (IF w THEN "enable" ELSE "release") \in CanFail
  BY DEF Syncs
<1>3. CASE w = h.relative /\ o = same
  BY <1>3 DEF Wanted
<1>4. CASE w # h.relative /\ o = done
  <2>1. h1 \in Hosts /\ h1.gameplay = h.gameplay /\ h1.escape = h.escape /\ h1.relative = w
        /\ h1.focusLost = h.focusLost /\ h1.quit = h.quit
    BY <1>1 DEF Hosts
  <2> HIDE DEF h1
  <2>2. o.host = SyncCursor(h1, s) /\ o.sdl = [s EXCEPT !.relative = w]
        /\ o.input = [i EXCEPT !.pending = {}] /\ o.failed = FALSE
    BY <1>4 DEF RelativeMode
  <2>3. o.host \in Hosts /\ o.host.gameplay = h.gameplay /\ o.host.escape = h.escape
        /\ o.host.relative = w /\ o.host.focusLost = h.focusLost /\ o.host.quit = h.quit
    BY <2>1, <2>2, CursorOnly
  <2>4. o.sdl \in Sdls /\ o.sdl.focus = s.focus /\ o.sdl.down = s.down /\ o.sdl.relative = w
    BY <1>1, <2>2 DEF Sdls
  <2>5. o.input \in Inputs /\ o.input.held = i.held /\ o.input.mouse = i.mouse
        /\ o.input.synthetic = i.synthetic
    BY <2>2 DEF Inputs
  <2>6. Wanted(o.host, s) <=> w
    BY <2>3 DEF Wanted
  <2> QED  BY <1>1, <2>2, <2>3, <2>4, <2>5, <2>6
<1>5. CASE /\ w # h.relative /\ o = failed
           /\ (IF w THEN "enable" ELSE "release") \in CanFail
  <2>1. o.host \in Hosts /\ o.host.gameplay = h.gameplay /\ o.host.escape
        /\ o.host.relative = h.relative /\ o.host.focusLost = h.focusLost
        /\ o.host.quit = h.quit
    BY <1>5 DEF Hosts
  <2>2. o.sdl = s /\ o.input = i /\ o.failed = TRUE
    BY <1>5
  <2>3. "release" \notin CanFail => w /\ ~h.relative
    BY <1>1, <1>5 DEF Hosts
  <2>4. ~Wanted(o.host, s)
    BY <2>1 DEF Wanted
  <2> QED  BY <2>1, <2>2, <2>3, <2>4
<1> QED  BY <1>2, <1>3, <1>4, <1>5

\* After every sync_relative_mode the mouse is captured exactly where it is wanted.
LEMMA MouseSynced ==
  ASSUME NEW h \in Hosts, NEW s \in Sdls, NEW i \in Inputs, h.relative = s.relative,
         NEW o \in Syncs(h, s, i),
         h.escape /\ h.gameplay => gaveUp', o.failed => gaveUp',
         host'.gameplay = o.host.gameplay, host'.quit = o.host.quit,
         host'.escape = o.host.escape, host'.focusLost = o.host.focusLost,
         host'.relative = o.host.relative,
         sdl'.focus = o.sdl.focus, sdl'.relative = o.sdl.relative
  PROVE  Mouse'
<1>1. /\ o.host.gameplay = h.gameplay /\ o.sdl.focus = s.focus
      /\ o.host.relative = o.sdl.relative
      /\ "release" \notin CanFail /\ o.host.relative => Wanted(o.host, s)
      /\ Wanted(o.host, s) => o.host.relative
      /\ o.host.escape => h.escape \/ o.failed
  BY Synced
<1>2. Wanted(o.host, s) <=> host'.gameplay /\ ~host'.quit /\ ~host'.escape
                              /\ ~host'.focusLost /\ sdl'.focus
  BY <1>1 DEF Wanted
<1>3. host'.escape /\ host'.gameplay => gaveUp'
  BY <1>1
<1> QED  BY <1>1, <1>2, <1>3 DEF Mouse

(***************************************************************************)
(* SDL and the pump.                                                       *)
(***************************************************************************)
LEMMA EventKinds ==
  ASSUME NEW e \in Events
  PROVE  /\ e = <<e[1], e[2]>>
         /\ e[1] \in {"down", "up"} => e[2] \in Keys \cup Buttons
         /\ e[1] \in {"focusLost", "focusGained", "enter", "leave", "motion", "wheel", "quit",
                      "down", "up"}
BY DEF Events

LEMMA QueueAppend ==
  ASSUME queue \in Seq(Events), NEW e \in Events, queue' = Append(queue, e)
  PROVE  /\ queue' \in Seq(Events) /\ Len(queue') = Len(queue) + 1 /\ Len(queue) \in Nat
         /\ queue'[Len(queue) + 1] = e
         /\ \A i \in 1 .. Len(queue) : queue'[i] = queue[i]
OBVIOUS

LEMMA SystemEventKeeps ==
  ASSUME IInv, SystemEvent
  PROVE  IInv'
<1>1. PICK e \in Events : Possible(e) /\ sdl' = Reported(e) /\ queue' = Append(queue, e)
  BY DEF SystemEvent
<1>2. UNCHANGED <<host, input, stack, gaveUp>>
  BY DEF SystemEvent
<1>3. /\ queue' \in Seq(Events) /\ Len(queue') = Len(queue) + 1 /\ Len(queue) \in Nat
      /\ queue'[Len(queue) + 1] = e
      /\ \A i \in 1 .. Len(queue) : queue'[i] = queue[i]
  BY <1>1, QueueAppend DEF IInv, Types
<1>4. /\ e[1] \in {"down", "up"} => e[2] \in Keys \cup Buttons
      /\ e[1] = "up" => e = <<"up", e[2]>>
  BY EventKinds
<1>5. /\ sdl' \in Sdls /\ sdl'.relative = sdl.relative
      /\ e[1] \notin {"focusLost", "focusGained"} => sdl'.focus = sdl.focus
      /\ e[1] = "focusLost" => ~sdl'.focus
      /\ e[1] = "down" => e[2] \in sdl'.down
      /\ \A k \in sdl.down \ sdl'.down : e = <<"up", k>> \/ e[1] = "focusLost"
  <2>1. sdl \in Sdls
    BY DEF IInv, Types
  <2>2. CASE e[1] = "focusLost"
    BY <1>1, <2>1, <2>2 DEF Reported, Sdls
  <2>3. CASE e[1] = "focusGained"
    BY <1>1, <2>1, <2>3 DEF Reported, Sdls
  <2>4. CASE e[1] \in {"enter", "leave"}
    BY <1>1, <2>1, <2>4 DEF Reported, Sdls
  <2>5. CASE e[1] = "down"
    BY <1>1, <1>4, <2>1, <2>5 DEF Reported, Sdls
  <2>6. CASE e[1] = "up"
    BY <1>1, <1>4, <2>1, <2>6 DEF Reported, Sdls
  <2>7. CASE e[1] \in {"motion", "wheel", "quit"}
    BY <1>1, <2>1, <2>7 DEF Reported
  <2> QED  BY <2>2, <2>3, <2>4, <2>5, <2>6, <2>7, EventKinds
<1>6. \A t : Coming(t) => Coming(t)'
  BY <1>3 DEF Coming
<1>7. \A t : e[1] = t => Coming(t)'
  BY <1>3 DEF Coming
<1>8. ASSUME NEW k, NEW n \in Nat \ {0}, LetGo(k, n)
      PROVE  LetGo(k, n)'
  <2>1. PICK j \in n .. Len(queue) : queue[j] = <<"up", k>> \/ queue[j][1] = "focusLost"
    BY <1>8 DEF LetGo
  <2>2. j \in 1 .. Len(queue) /\ j \in n .. Len(queue')
    BY <1>3
  <2>3. queue'[j] = <<"up", k>> \/ queue'[j][1] = "focusLost"
    BY <1>3, <2>1, <2>2
  <2> QED  BY <2>2, <2>3 DEF LetGo
<1>9. \A k : \A n \in 1 .. Len(queue) + 1 :
        e = <<"up", k>> \/ e[1] = "focusLost" => LetGo(k, n)'
  BY <1>3 DEF LetGo
<1>10. Types' /\ Nesting'
  BY <1>2, <1>3, <1>5 DEF IInv, Types, Nesting, Top
<1>11. Mouse'
  <2>1. sdl'.relative = host'.relative /\ (host'.escape /\ host'.gameplay => gaveUp')
    BY <1>2, <1>5 DEF IInv, Mouse
  <2>2. "release" \notin CanFail /\ host'.relative =>
          /\ host'.gameplay /\ ~host'.quit /\ ~host'.escape /\ ~host'.focusLost
          /\ sdl'.focus \/ Coming("focusLost")'
    <3>1. sdl.focus => sdl'.focus \/ e[1] = "focusLost" \/ e[1] = "focusGained"
      BY <1>5
    <3>2. e[1] = "focusGained" => sdl'.focus
      BY <1>1 DEF Reported, IInv, Types, Sdls
    <3> QED  BY <1>2, <1>6, <1>7, <3>1, <3>2 DEF IInv, Mouse
  <2>3. host'.gameplay /\ sdl'.focus /\ ~host'.focusLost /\ ~host'.quit /\ ~gaveUp' =>
          host'.relative \/ Coming("focusGained")'
    <3>1. sdl'.focus => sdl.focus \/ e[1] = "focusGained"
      BY <1>5
    <3> QED  BY <1>2, <1>6, <1>7, <3>1 DEF IInv, Mouse
  <2> QED  BY <2>1, <2>2, <2>3 DEF Mouse
<1>12. Holding'
  <2>1. \A k \in input'.held : k \in sdl'.down \/ LetGo(k, 1)'
    BY <1>2, <1>3, <1>5, <1>8, <1>9 DEF IInv, Holding
  <2>2. \A k \in input'.mouse : k \in sdl'.down \/ k \in input'.synthetic \/ LetGo(k, 1)'
    BY <1>2, <1>3, <1>5, <1>8, <1>9 DEF IInv, Holding
  <2>3. ASSUME NEW i \in 1 .. Len(queue'), queue'[i][1] = "down"
        PROVE  queue'[i][2] \in sdl'.down \/ LetGo(queue[i][2], i + 1)'
    <3>1. CASE i = Len(queue) + 1
      BY <1>3, <1>5, <2>3, <3>1
    <3>2. CASE i \in 1 .. Len(queue)
      <4>1. queue'[i] = queue[i]
            /\ (queue[i][2] \in sdl.down \/ LetGo(queue[i][2], i + 1))
        BY <1>3, <2>3, <3>2 DEF IInv, Holding
      <4>2. i + 1 \in 1 .. Len(queue) + 1 /\ i + 1 \in Nat \ {0}
        BY <1>3, <3>2
      <4>3. CASE LetGo(queue[i][2], i + 1)
        <5>1. PICK k : k = queue[i][2]
          OBVIOUS
        <5>2. LetGo(k, i + 1)'
          BY <1>8, <4>2, <4>3, <5>1
        <5> QED  BY <4>1, <5>1, <5>2 DEF LetGo
      <4>4. CASE queue[i][2] \in sdl.down
        <5>1. PICK k : k = queue[i][2]
          OBVIOUS
        <5>2. k \in sdl'.down \/ LetGo(k, i + 1)'
          BY <1>5, <1>9, <4>2, <4>4, <5>1
        <5> QED  BY <4>1, <5>1, <5>2 DEF LetGo
      <4> QED  BY <4>1, <4>3, <4>4
    <3> QED  BY <1>3, <3>1, <3>2
  <2> QED  BY <2>1, <2>2, <2>3 DEF Holding
<1> QED  BY <1>10, <1>11, <1>12 DEF IInv

LEMMA FlaggedOk ==
  ASSUME NEW e, host \in Hosts
  PROVE  /\ Flagged(e) \in Hosts
         /\ Flagged(e).gameplay = host.gameplay /\ Flagged(e).relative = host.relative
         /\ Flagged(e).escape => host.escape \/ e = <<"down", Esc>>
<1>1. CASE e[1] \in {"focusLost", "focusGained"}
  <2>1. Flagged(e) = [host EXCEPT !.focusLost = (e[1] = "focusLost")]
        /\ (e[1] = "focusLost") \in BOOLEAN
    BY <1>1 DEF Flagged
  <2> QED  BY <2>1 DEF Hosts
<1>2. CASE e[1] = "quit"
  BY <1>2 DEF Flagged, Hosts
<1>3. CASE e = <<"down", Esc>>
  BY <1>3 DEF Flagged, Hosts
<1>4. CASE e[1] \notin {"focusLost", "focusGained", "quit"} /\ e # <<"down", Esc>>
  BY <1>4 DEF Flagged
<1> QED  BY <1>1, <1>2, <1>3, <1>4

\* What an event does to what is held.
LEMMA InputOk ==
  ASSUME NEW e \in Events, input \in Inputs
  PROVE  /\ InputEvent(e) \in Inputs
         /\ e[1] = "focusLost" => InputEvent(e).held = {} /\ InputEvent(e).mouse = {}
         /\ e[1] # "focusLost" => InputEvent(e).synthetic = input.synthetic
         /\ \A k \in InputEvent(e).held :
               e # <<"up", k>> /\ (k \in input.held \/ e = <<"down", k>>)
         /\ \A k \in InputEvent(e).mouse :
               e # <<"up", k>> /\ (k \in input.mouse \/ e = <<"down", k>>)
<1>1. CASE e[1] = "focusLost"
  BY <1>1 DEF InputEvent, Reset, Inputs
<1>2. CASE e[1] # "focusLost"
  <2>0. InputEvent(e) = Collected(e) /\ e = <<e[1], e[2]>>
        /\ (e[1] \in {"down", "up"} => e[2] \in Keys \cup Buttons)
    BY <1>2, EventKinds DEF InputEvent
  <2>1. CASE e[1] = "wheel" \/ (e[1] = "motion" /\ host.relative)
    BY <2>0, <2>1 DEF Collected, Inputs
  <2>2. CASE e[1] = "down" /\ e[2] \in Keys
    <3>1. InputEvent(e) = [input EXCEPT !.held = @ \cup {e[2]}]
      BY <2>0, <2>2 DEF Collected
    <3>2. /\ InputEvent(e) \in Inputs /\ InputEvent(e).held = input.held \cup {e[2]}
          /\ InputEvent(e).mouse = input.mouse /\ InputEvent(e).synthetic = input.synthetic
      BY <2>2, <3>1 DEF Inputs
    <3>3. \A k : e # <<"up", k>>
      BY <2>2
    <3> QED  BY <1>2, <2>0, <2>2, <3>2, <3>3
  <2>3. CASE e[1] = "up" /\ e[2] \in Keys
    <3>1. InputEvent(e) = [input EXCEPT !.held = @ \ {e[2]}]
      BY <2>0, <2>3 DEF Collected
    <3>2. /\ InputEvent(e) \in Inputs /\ InputEvent(e).held = input.held \ {e[2]}
          /\ InputEvent(e).mouse = input.mouse /\ InputEvent(e).synthetic = input.synthetic
      BY <2>3, <3>1 DEF Inputs
    <3>3. \A k : e = <<"up", k>> => k \in Keys /\ k = e[2]
      BY <2>3
    <3>4. \A k \in input.mouse : k \notin Keys
      BY DEF Inputs
    <3> QED  BY <1>2, <3>2, <3>3, <3>4
  <2>4. CASE e[1] = "down" /\ e[2] \in Buttons
    <3>1. InputEvent(e) = [input EXCEPT !.mouse = @ \cup {e[2]}, !.pressed = @ \cup {e[2]}]
      BY <2>0, <2>4 DEF Collected
    <3> DEFINE m == input.mouse \cup {e[2]}
               p == input.pressed \cup {e[2]}
    <3>4. m \in SUBSET Buttons /\ p \in SUBSET Buttons
          /\ InputEvent(e) = [input EXCEPT !.mouse = m, !.pressed = p]
      BY <2>4, <3>1 DEF Inputs
    <3> HIDE DEF m, p
    <3>5. /\ InputEvent(e) \in Inputs /\ InputEvent(e).mouse = m
          /\ InputEvent(e).held = input.held /\ InputEvent(e).synthetic = input.synthetic
      BY <3>4 DEF Inputs
    <3>2. /\ InputEvent(e) \in Inputs /\ InputEvent(e).mouse = input.mouse \cup {e[2]}
          /\ InputEvent(e).held = input.held /\ InputEvent(e).synthetic = input.synthetic
      BY <3>5 DEF m
    <3>3. \A k : e # <<"up", k>>
      BY <2>4
    <3> QED  BY <1>2, <2>0, <2>4, <3>2, <3>3
  <2>5. CASE e[1] = "up" /\ e[2] \in Buttons
    <3>1. InputEvent(e) = [input EXCEPT !.mouse = @ \ {e[2]}, !.released = @ \cup {e[2]}]
      BY <2>0, <2>5 DEF Collected
    <3> DEFINE m == input.mouse \ {e[2]}
               r == input.released \cup {e[2]}
    <3>5. m \in SUBSET Buttons /\ r \in SUBSET Buttons
          /\ InputEvent(e) = [input EXCEPT !.mouse = m, !.released = r]
      BY <2>5, <3>1 DEF Inputs
    <3> HIDE DEF m, r
    <3>6. /\ InputEvent(e) \in Inputs /\ InputEvent(e).mouse = m
          /\ InputEvent(e).held = input.held /\ InputEvent(e).synthetic = input.synthetic
      BY <3>5 DEF Inputs
    <3>2. /\ InputEvent(e) \in Inputs /\ InputEvent(e).mouse = input.mouse \ {e[2]}
          /\ InputEvent(e).held = input.held /\ InputEvent(e).synthetic = input.synthetic
      BY <3>6 DEF m
    <3>3. \A k : e = <<"up", k>> => k \in Buttons /\ k = e[2]
      BY <2>5
    <3>4. \A k \in input.held : k \notin Buttons
      BY DEF Inputs
    <3> QED  BY <1>2, <3>2, <3>3, <3>4
  <2>6. CASE e[1] \notin {"wheel", "down", "up"} /\ ~(e[1] = "motion" /\ host.relative)
    <3>1. InputEvent(e) = input
      BY <2>0, <2>6 DEF Collected
    <3>2. \A k : e # <<"up", k>>
      BY <2>6
    <3> QED  BY <1>2, <3>1, <3>2
  <2> QED  BY <1>2, <2>0, <2>1, <2>2, <2>3, <2>4, <2>5, <2>6
<1> QED  BY <1>1, <1>2

LEMMA QueueTail ==
  ASSUME queue \in Seq(Events), queue # <<>>, queue' = Tail(queue)
  PROVE  /\ Head(queue) = queue[1] /\ queue[1] \in Events
         /\ queue' \in Seq(Events) /\ Len(queue) \in Nat \ {0} /\ Len(queue') = Len(queue) - 1
         /\ \A i \in 1 .. Len(queue') : queue'[i] = queue[i + 1]
OBVIOUS

LEMMA PumpEventKeeps ==
  ASSUME IInv, PumpEvent
  PROVE  IInv'
<1> DEFINE e == Head(queue)
<1>1. PICK o \in Syncs(Flagged(e), sdl, InputEvent(e)) :
        /\ host' = SyncCursor(o.host, o.sdl) /\ sdl' = o.sdl /\ input' = o.input
        /\ gaveUp' = (gaveUp \/ o.failed \/ e = <<"down", Esc>>)
  BY DEF PumpEvent
<1>2. UNCHANGED stack /\ queue # <<>> /\ queue' = Tail(queue)
  BY DEF PumpEvent, Quiet
<1>3. /\ e = queue[1] /\ e \in Events
      /\ queue' \in Seq(Events) /\ Len(queue) \in Nat \ {0} /\ Len(queue') = Len(queue) - 1
      /\ \A i \in 1 .. Len(queue') : queue'[i] = queue[i + 1]
  BY <1>2, QueueTail DEF IInv, Types
<1> HIDE DEF e
<1>4. /\ Flagged(e) \in Hosts /\ sdl \in Sdls /\ Flagged(e).relative = sdl.relative
      /\ Flagged(e).gameplay = host.gameplay
      /\ Flagged(e).escape => host.escape \/ e = <<"down", Esc>>
  BY FlaggedOk DEF IInv, Types, Mouse
<1>5. /\ InputEvent(e) \in Inputs
      /\ e[1] = "focusLost" => InputEvent(e).held = {} /\ InputEvent(e).mouse = {}
      /\ e[1] # "focusLost" => InputEvent(e).synthetic = input.synthetic
      /\ \A k \in InputEvent(e).held :
            e # <<"up", k>> /\ (k \in input.held \/ e = <<"down", k>>)
      /\ \A k \in InputEvent(e).mouse :
            e # <<"up", k>> /\ (k \in input.mouse \/ e = <<"down", k>>)
  BY <1>3, InputOk DEF IInv, Types
<1>6. /\ o.host \in Hosts /\ o.sdl \in Sdls /\ o.input \in Inputs /\ o.failed \in BOOLEAN
      /\ o.host.gameplay = host.gameplay
      /\ o.sdl.down = sdl.down /\ o.input.held = InputEvent(e).held
      /\ o.input.mouse = InputEvent(e).mouse /\ o.input.synthetic = InputEvent(e).synthetic
  BY <1>4, <1>5, Synced
<1>7. /\ host' \in Hosts /\ host'.gameplay = o.host.gameplay /\ host'.quit = o.host.quit
      /\ host'.escape = o.host.escape /\ host'.focusLost = o.host.focusLost
      /\ host'.relative = o.host.relative
  BY <1>1, <1>6, CursorOnly
<1>8. Types'
  <2>1. gaveUp' \in BOOLEAN
    BY <1>1
  <2> QED  BY <1>1, <1>2, <1>3, <1>6, <1>7, <2>1 DEF IInv, Types
<1>9. Nesting'
  BY <1>2, <1>6, <1>7 DEF IInv, Nesting, Top
<1>10. Mouse'
  <2>1. Flagged(e).escape /\ Flagged(e).gameplay => gaveUp'
    BY <1>1, <1>4 DEF IInv, Mouse
  <2>2. o.failed => gaveUp'
    BY <1>1
  <2>3. sdl'.focus = o.sdl.focus /\ sdl'.relative = o.sdl.relative
    BY <1>1
  <2> QED  BY <1>4, <1>5, <1>7, <2>1, <2>2, <2>3, MouseSynced
<1>11. ASSUME NEW k, NEW n \in Nat \ {0}, LetGo(k, n + 1)
       PROVE  LetGo(k, n)'
  <2>1. PICK j \in n + 1 .. Len(queue) : queue[j] = <<"up", k>> \/ queue[j][1] = "focusLost"
    BY <1>11 DEF LetGo
  <2>2. j - 1 \in n .. Len(queue') /\ queue'[j - 1] = queue[j]
    BY <1>3
  <2> QED  BY <2>1, <2>2 DEF LetGo
<1>12. ASSUME NEW k, LetGo(k, 1), e # <<"up", k>>, e[1] # "focusLost"
       PROVE  LetGo(k, 1)'
  <2>1. PICK j \in 1 .. Len(queue) : queue[j] = <<"up", k>> \/ queue[j][1] = "focusLost"
    BY <1>12 DEF LetGo
  <2>2. j \in 1 + 1 .. Len(queue)
    BY <1>3, <1>12, <2>1
  <2>3. LetGo(k, 1 + 1)
    BY <2>1, <2>2 DEF LetGo
  <2> QED  BY <1>11, <2>3
<1>13. ASSUME NEW k, e = <<"down", k>>
       PROVE  k \in sdl.down \/ LetGo(k, 1)'
  <2>1. 1 \in 1 .. Len(queue) /\ queue[1][1] = "down" /\ queue[1][2] = k
    BY <1>3, <1>13
  <2>2. k \in sdl.down \/ LetGo(k, 1 + 1)
    BY <2>1 DEF IInv, Holding
  <2> QED  BY <1>11, <2>2
<1>14. Holding'
  <2>1. \A k \in input'.held : k \in sdl'.down \/ LetGo(k, 1)'
    BY <1>1, <1>5, <1>6, <1>12, <1>13 DEF IInv, Holding
  <2>2. \A k \in input'.mouse : k \in sdl'.down \/ k \in input'.synthetic \/ LetGo(k, 1)'
    BY <1>1, <1>5, <1>6, <1>12, <1>13 DEF IInv, Holding
  <2>3. ASSUME NEW i \in 1 .. Len(queue'), queue'[i][1] = "down"
        PROVE  queue'[i][2] \in sdl'.down \/ LetGo(queue[i][2], i + 1)'
    <3>1. PICK k : k = queue'[i][2]
      OBVIOUS
    <3>2. i + 1 \in 1 .. Len(queue) /\ i + 1 \in Nat \ {0} /\ queue[i + 1] = queue'[i]
      BY <1>3
    <3>3. k \in sdl.down \/ LetGo(k, i + 1 + 1)
      BY <2>3, <3>1, <3>2 DEF IInv, Holding
    <3>4. k \in sdl'.down \/ LetGo(k, i + 1)'
      BY <1>1, <1>6, <1>11, <3>2, <3>3
    <3> QED  BY <3>1, <3>4 DEF LetGo
  <2> QED  BY <2>1, <2>2, <2>3 DEF Holding
<1> QED  BY <1>8, <1>9, <1>10, <1>14 DEF IInv

(***************************************************************************)
(* Between two pumps nothing is pending.                                   *)
(***************************************************************************)
LEMMA QuietFacts ==
  ASSUME IInv, Quiet
  PROVE  /\ input.held \subseteq sdl.down
         /\ input.mouse \subseteq sdl.down \cup input.synthetic
         /\ \A t : ~Coming(t)
<1>1. Len(queue) = 0
  BY DEF Quiet
<1>2. \A k, n : n = 1 => ~LetGo(k, n)
  BY <1>1 DEF LetGo
<1>3. \A t : ~Coming(t)
  BY <1>1 DEF Coming
<1> QED  BY <1>2, <1>3 DEF IInv, Holding

LEMMA QuietHolding ==
  ASSUME Quiet', input'.held \subseteq sdl'.down,
         input'.mouse \subseteq sdl'.down \cup input'.synthetic
  PROVE  Holding'
<1>1. Len(queue') = 0
  BY DEF Quiet
<1> QED  BY <1>1 DEF Holding

LEMMA PumpBeginsKeeps ==
  ASSUME IInv, PumpBegins
  PROVE  IInv'
<1>1. PICK o \in Syncs(host, sdl, input) :
        /\ host' = o.host /\ sdl' = o.sdl /\ input' = o.input
        /\ gaveUp' = (gaveUp \/ o.failed)
  BY DEF PumpBegins
<1>2. UNCHANGED <<queue, stack>> /\ Quiet
  BY DEF PumpBegins
<1>3. host \in Hosts /\ sdl \in Sdls /\ input \in Inputs /\ host.relative = sdl.relative
  BY DEF IInv, Types, Mouse
<1>4. /\ o.host \in Hosts /\ o.sdl \in Sdls /\ o.input \in Inputs /\ o.failed \in BOOLEAN
      /\ o.host.gameplay = host.gameplay
      /\ o.sdl.down = sdl.down /\ o.input.held = input.held
      /\ o.input.mouse = input.mouse /\ o.input.synthetic = input.synthetic
  BY <1>3, Synced
<1>5. Types'
  <2>1. gaveUp' \in BOOLEAN
    BY <1>1
  <2> QED  BY <1>1, <1>2, <1>4, <2>1 DEF IInv, Types
<1>6. Nesting'
  BY <1>1, <1>2, <1>4 DEF IInv, Nesting, Top
<1>7. Mouse'
  <2>1. (host.escape /\ host.gameplay => gaveUp') /\ (o.failed => gaveUp')
    BY <1>1 DEF IInv, Mouse
  <2> QED  BY <1>1, <1>3, <2>1, MouseSynced
<1>8. Holding'
  BY <1>1, <1>2, <1>4, QuietFacts, QuietHolding DEF Quiet
<1> QED  BY <1>5, <1>6, <1>7, <1>8 DEF IInv

(***************************************************************************)
(* The game.                                                               *)
(***************************************************************************)

\* What a scope leaves, where it does not go on playing the level it found.
LEMMA ScopeKeeps ==
  ASSUME IInv, Quiet, UNCHANGED queue, NEW active \in BOOLEAN, NEW menu \in BOOLEAN,
         Scope(active, menu), ~(active /\ host.gameplay)
  PROVE  /\ host' \in Hosts /\ sdl' \in Sdls /\ input' \in Inputs /\ gaveUp' \in BOOLEAN
         /\ host'.gameplay = active
         /\ Mouse' /\ Holding'
<1> DEFINE h == Gameplay(host, active)
<1>1. PICK o \in Syncs(h, sdl, input) :
        /\ host' = SyncCursor([o.host EXCEPT !.menu = menu], o.sdl)
        /\ sdl' = o.sdl /\ input' = o.input
        /\ gaveUp' = o.failed
  BY DEF Scope
<1>2. host \in Hosts /\ sdl \in Sdls /\ input \in Inputs /\ host.relative = sdl.relative
  BY DEF IInv, Types, Mouse
<1>3. /\ h \in Hosts /\ h.gameplay = active /\ h.relative = sdl.relative
      /\ ~(h.escape /\ h.gameplay)
  <2>1. PICK x \in BOOLEAN : x = (host.escape /\ active /\ host.gameplay)
    BY <1>2 DEF Hosts
  <2>2. h = [host EXCEPT !.gameplay = active, !.escape = x]
    BY <2>1 DEF Gameplay
  <2>3. ~x
    BY <2>1
  <2>4. h \in Hosts /\ h.gameplay = active /\ h.relative = sdl.relative /\ h.escape = x
    BY <1>2, <2>2 DEF Hosts
  <2> QED  BY <2>3, <2>4
<1> HIDE DEF h
<1>4. /\ o.host \in Hosts /\ o.sdl \in Sdls /\ o.input \in Inputs /\ o.failed \in BOOLEAN
      /\ o.host.gameplay = h.gameplay
      /\ o.sdl.down = sdl.down /\ o.input.held = input.held
      /\ o.input.mouse = input.mouse /\ o.input.synthetic = input.synthetic
  BY <1>1, <1>2, <1>3, Synced
<1> DEFINE g == [o.host EXCEPT !.menu = menu]
<1>5. /\ g \in Hosts /\ g.gameplay = o.host.gameplay /\ g.quit = o.host.quit
      /\ g.escape = o.host.escape /\ g.focusLost = o.host.focusLost
      /\ g.relative = o.host.relative
  BY <1>4 DEF Hosts
<1>6. host' = SyncCursor(g, o.sdl)
  BY <1>1
<1> HIDE DEF g
<1>7. /\ host' \in Hosts /\ host'.gameplay = o.host.gameplay /\ host'.quit = o.host.quit
      /\ host'.escape = o.host.escape /\ host'.focusLost = o.host.focusLost
      /\ host'.relative = o.host.relative
  BY <1>4, <1>5, <1>6, CursorOnly
<1>8. Mouse'
  <2>1. (h.escape /\ h.gameplay => gaveUp') /\ (o.failed => gaveUp')
    BY <1>1, <1>3
  <2> QED  BY <1>1, <1>2, <1>3, <1>7, <2>1, MouseSynced
<1>9. Holding'
  BY <1>1, <1>4, QuietFacts, QuietHolding DEF Quiet
<1> QED  BY <1>1, <1>3, <1>4, <1>7, <1>8, <1>9

LEMMA EnterKeeps ==
  ASSUME IInv, NEW kind \in {"menu", "game"}, Enter(kind)
  PROVE  IInv'
<1> DEFINE call == [kind |-> kind, gameplay |-> host.gameplay, menu |-> host.menu]
<1>1. /\ Quiet /\ Top # "game" /\ UNCHANGED queue
      /\ stack' = Append(stack, call)
      /\ Scope(kind = "game", kind = "menu" \/ host.menu)
  BY DEF Enter
<1>2. stack \in Seq(Calls) /\ ~host.gameplay /\ host.menu \in BOOLEAN
  BY <1>1 DEF IInv, Types, Nesting, Hosts
<1>3. PICK active \in BOOLEAN, menu \in BOOLEAN :
        /\ active = (kind = "game") /\ menu = (kind = "menu" \/ host.menu)
        /\ Scope(active, menu)
  BY <1>1, <1>2
<1>4. /\ host' \in Hosts /\ sdl' \in Sdls /\ input' \in Inputs /\ gaveUp' \in BOOLEAN
      /\ host'.gameplay = active /\ Mouse' /\ Holding'
  BY <1>1, <1>2, <1>3, ScopeKeeps
<1>5. call \in Calls /\ call.kind = kind /\ call.gameplay = FALSE
  <2>1. host.gameplay = FALSE /\ host.menu \in BOOLEAN
    BY <1>2 DEF IInv, Types, Hosts
  <2> QED  BY <2>1 DEF Calls
<1> HIDE DEF call
<1>6. /\ stack' \in Seq(Calls) /\ Len(stack) \in Nat /\ Len(stack') = Len(stack) + 1
      /\ stack'[Len(stack) + 1] = call
      /\ \A i \in 1 .. Len(stack) : stack'[i] = stack[i]
  BY <1>1, <1>2, <1>5
<1>7. \A i \in 1 .. Len(stack) : ~stack[i].gameplay /\ stack[i].kind # "game"
  BY <1>1, <1>6 DEF IInv, Nesting, Top
<1>8. Nesting'
  <2>1. Top' = kind
    BY <1>5, <1>6 DEF Top
  <2>2. host'.gameplay <=> Top' = "game"
    BY <1>3, <1>4, <2>1
  <2>3. ASSUME NEW i \in 1 .. Len(stack')
        PROVE  ~stack'[i].gameplay /\ (stack'[i].kind = "game" => i = Len(stack'))
    <3>1. CASE i = Len(stack) + 1
      BY <1>5, <1>6, <3>1
    <3>2. CASE i \in 1 .. Len(stack)
      BY <1>6, <1>7, <3>2
    <3> QED  BY <1>6, <3>1, <3>2
  <2> QED  BY <2>2, <2>3 DEF Nesting
<1>9. Types'
  BY <1>1, <1>4, <1>6 DEF IInv, Types
<1> QED  BY <1>4, <1>8, <1>9 DEF IInv

LEMMA ReturnKeeps ==
  ASSUME IInv, Quiet, Top \in {"menu", "game"}, Return
  PROVE  IInv'
<1> DEFINE call == stack[Len(stack)]
<1>1. /\ stack' = SubSeq(stack, 1, Len(stack) - 1) /\ Scope(call.gameplay, call.menu)
      /\ UNCHANGED queue
  BY DEF Return
<1>2. stack \in Seq(Calls) /\ Len(stack) \in Nat \ {0}
  BY DEF IInv, Types, Top
<1>3. call \in Calls /\ call.gameplay = FALSE /\ call.menu \in BOOLEAN
  <2>1. Len(stack) \in 1 .. Len(stack) /\ call \in Calls
    BY <1>2
  <2>2. ~call.gameplay
    BY <2>1 DEF IInv, Nesting
  <2> HIDE DEF call
  <2> QED  BY <2>1, <2>2 DEF Calls
<1>4. PICK active \in BOOLEAN, menu \in BOOLEAN :
        active = call.gameplay /\ menu = call.menu
  BY <1>3
<1>5. /\ host' \in Hosts /\ sdl' \in Sdls /\ input' \in Inputs /\ gaveUp' \in BOOLEAN
      /\ host'.gameplay = FALSE /\ Mouse' /\ Holding'
  BY <1>1, <1>3, <1>4, ScopeKeeps
<1>6. /\ stack' \in Seq(Calls) /\ Len(stack') = Len(stack) - 1
      /\ \A i \in 1 .. Len(stack') : stack'[i] = stack[i]
  <2>1. \A i \in 1 .. Len(stack) - 1 : stack[i] \in Calls
    BY <1>2
  <2>2. PICK n \in Nat : n = Len(stack) - 1
    BY <1>2
  <2>3. stack' = SubSeq(stack, 1, n)
    BY <1>1, <2>2
  <2>4. /\ SubSeq(stack, 1, n) \in Seq(Calls)
        /\ Len(SubSeq(stack, 1, n)) = IF 1 <= n THEN n - 1 + 1 ELSE 0
        /\ \A i \in 1 .. n - 1 + 1 : SubSeq(stack, 1, n)[i] = stack[1 + i - 1]
    BY <2>1, <2>2, SubSeqProperties
  <2>5. Len(stack') = n /\ stack' \in Seq(Calls)
    BY <2>3, <2>4
  <2>6. \A i \in 1 .. n : stack'[i] = stack[i]
    BY <2>3, <2>4
  <2> QED  BY <2>2, <2>5, <2>6
<1>7. \A i \in 1 .. Len(stack') : ~stack'[i].gameplay /\ stack'[i].kind # "game"
  BY <1>2, <1>6 DEF IInv, Nesting
<1>8. Top' # "game"
  BY <1>2, <1>6, <1>7 DEF Top
<1>9. Types' /\ Nesting'
  BY <1>1, <1>5, <1>6, <1>7, <1>8 DEF IInv, Types, Nesting
<1> QED  BY <1>5, <1>9 DEF IInv

LEMMA MenuFrameKeeps ==
  ASSUME IInv, MenuFrame
  PROVE  IInv'
<1> DEFINE down == sdl.down \cap Buttons
           click == IF input.synthetic # {} THEN {}
                    ELSE (input.pressed \cap input.released) \ down
<1>1. /\ UNCHANGED <<sdl, queue, host, stack, gaveUp>> /\ Quiet
      /\ input' = [input EXCEPT !.mouse = down \cup click, !.synthetic = click,
                                !.pressed = {}, !.released = {}]
  BY DEF MenuFrame, MenuInput
<1>2. down \subseteq Buttons /\ down \subseteq sdl.down /\ click \subseteq Buttons
  BY DEF IInv, Types, Inputs
<1> HIDE DEF down, click
<1>3. /\ input' \in Inputs /\ input'.held = input.held /\ input'.mouse = down \cup click
      /\ input'.synthetic = click
  BY <1>1, <1>2 DEF IInv, Types, Inputs
<1>4. Types' /\ Nesting'
  BY <1>1, <1>3 DEF IInv, Types, Nesting, Top
<1>5. Mouse'
  BY <1>1 DEF IInv, Mouse, Coming
<1>6. Holding'
  BY <1>1, <1>2, <1>3, QuietFacts, QuietHolding DEF Quiet
<1> QED  BY <1>4, <1>5, <1>6 DEF IInv

LEMMA GameFrameKeeps ==
  ASSUME IInv, GameFrame
  PROVE  IInv'
<1>1. UNCHANGED <<sdl, queue, host, stack, gaveUp>> /\ Quiet
  BY DEF GameFrame
<1>2. /\ input' \in Inputs /\ input'.held = input.held /\ input'.mouse = input.mouse
      /\ input'.synthetic = input.synthetic
  <2>1. CASE UNCHANGED input
    BY <2>1 DEF IInv, Types
  <2>2. CASE \E taken \in SUBSET {"motion", "wheel"} :
               input' = [input EXCEPT !.pending = @ \ taken]
    BY <2>2 DEF IInv, Types, Inputs
  <2> QED  BY <2>1, <2>2 DEF GameFrame
<1>3. Types' /\ Nesting'
  BY <1>1, <1>2 DEF IInv, Types, Nesting, Top
<1>4. Mouse'
  BY <1>1 DEF IInv, Mouse, Coming
<1>5. Holding'
  BY <1>1, <1>2, QuietFacts, QuietHolding DEF Quiet
<1> QED  BY <1>3, <1>4, <1>5 DEF IInv

LEMMA DestroyKeeps ==
  ASSUME IInv, Destroy
  PROVE  IInv'
<1> DEFINE h == [host EXCEPT !.gameplay = FALSE]
<1>1. PICK o \in Syncs(h, sdl, input) :
        /\ host' = SyncCursor(o.host, [o.sdl EXCEPT !.over = FALSE])
        /\ sdl' = [o.sdl EXCEPT !.over = FALSE]
  BY DEF Destroy
<1>2. input' = Reset /\ queue' = <<>> /\ stack' = <<>> /\ UNCHANGED gaveUp
  BY DEF Destroy
<1>3. /\ h \in Hosts /\ sdl \in Sdls /\ input \in Inputs /\ h.relative = sdl.relative
      /\ h.gameplay = FALSE
  BY DEF IInv, Types, Mouse, Hosts
<1> HIDE DEF h
<1>4. /\ o.host \in Hosts /\ o.sdl \in Sdls /\ o.host.gameplay = FALSE
      /\ o.host.relative = o.sdl.relative
      /\ "release" \notin CanFail /\ o.host.relative => Wanted(o.host, sdl)
  BY <1>3, Synced
<1>5. sdl' \in Sdls /\ sdl'.relative = o.sdl.relative
  BY <1>1, <1>4 DEF Sdls
<1>6. /\ host' \in Hosts /\ host'.gameplay = FALSE /\ host'.relative = o.host.relative
  BY <1>1, <1>4, <1>5, CursorOnly
<1>7. input' \in Inputs /\ input'.held = {} /\ input'.mouse = {}
  BY <1>2 DEF Reset, Inputs
<1>8. Types' /\ Nesting'
  BY <1>2, <1>5, <1>6, <1>7 DEF IInv, Types, Nesting, Top
<1>9. Mouse'
  BY <1>4, <1>5, <1>6 DEF Mouse, Wanted
<1>10. Holding'
  BY <1>2, <1>7, QuietHolding DEF Quiet
<1> QED  BY <1>8, <1>9, <1>10 DEF IInv

LEMMA InitOk == Init => IInv
<1> SUFFICES ASSUME Init PROVE IInv
  OBVIOUS
<1>1. Types
  <2>1. sdl \in Sdls
    BY DEF Init, Sdls
  <2>2. host \in Hosts
    BY DEF Init, Hosts
  <2>3. input \in Inputs
    BY DEF Init, Inputs, Reset
  <2>4. queue \in Seq(Events) /\ stack \in Seq(Calls) /\ gaveUp \in BOOLEAN
    <3>1. queue = <<>> /\ stack = <<>> /\ gaveUp = FALSE
      BY DEF Init
    <3>2. \A S : <<>> \in Seq(S)
      OBVIOUS
    <3> QED  BY <3>1, <3>2
  <2> QED  BY <2>1, <2>2, <2>3, <2>4 DEF Types
<1>2. Nesting
  BY DEF Init, Nesting, Top
<1>3. Mouse
  BY DEF Init, Mouse
<1>4. Holding
  BY DEF Init, Holding, Reset
<1> QED  BY <1>1, <1>2, <1>3, <1>4 DEF IInv

LEMMA NextKeeps == IInv /\ [Next]_vars => IInv'
<1> SUFFICES ASSUME IInv, [Next]_vars PROVE IInv'
  OBVIOUS
<1>1. CASE SystemEvent
  BY <1>1, SystemEventKeeps
<1>2. CASE PumpEvent
  BY <1>2, PumpEventKeeps
<1>3. CASE PumpBegins
  BY <1>3, PumpBeginsKeeps
<1>4. CASE PlayLevel \/ ShowMenu \/ MenuOpens
  BY <1>4, EnterKeeps DEF PlayLevel, ShowMenu, MenuOpens
<1>5. CASE LeaveMenu \/ LeaveGame
  BY <1>5, ReturnKeeps DEF LeaveMenu, LeaveGame
<1>6. CASE MenuFrame
  BY <1>6, MenuFrameKeeps
<1>7. CASE GameFrame
  BY <1>7, GameFrameKeeps
<1>8. CASE Destroy
  BY <1>8, DestroyKeeps
<1>9. CASE UNCHANGED vars
  <2>1. Types' /\ Nesting'
    BY <1>9 DEF vars, IInv, Types, Nesting, Top
  <2>2. Mouse'
    BY <1>9 DEF vars, IInv, Mouse, Coming
  <2>3. Holding'
    BY <1>9 DEF vars, IInv, Holding, LetGo
  <2> QED  BY <2>1, <2>2, <2>3 DEF IInv
<1> QED
  BY <1>1, <1>2, <1>3, <1>4, <1>5, <1>6, <1>7, <1>8, <1>9 DEF Next

(***************************************************************************)
(* The theorems.                                                           *)
(***************************************************************************)

\* The invariant of the host's flags, the events still pending and what counts as held.
THEOREM SpecIInv == Spec => []IInv
  BY InitOk, NextKeeps, PTL DEF Spec

\* Between two pumps the mouse is captured only for a level that is played, in a window
\* that has the focus.
THEOREM CapturedInGame == Spec => []CapturedInGameOnly
<1>1. IInv => CapturedInGameOnly
  BY QuietFacts DEF IInv, Nesting, Mouse, CapturedInGameOnly
<1> QED  BY <1>1, SpecIInv, PTL

\* A level that is played in a window with the focus has the mouse, unless the player or
\* SDL released it in this call of GameLevel.
THEOREM PlayingCaptures == Spec => []CapturedWhenPlaying
<1>1. IInv => CapturedWhenPlaying
  BY QuietFacts DEF IInv, Nesting, Mouse, CapturedWhenPlaying
<1> QED  BY <1>1, SpecIInv, PTL

\* What the game takes for held is down, whatever was lost with the focus.
THEOREM HeldKeysAreDown == Spec => []HeldIsDown
<1>1. IInv => HeldIsDown
  BY QuietFacts DEF HeldIsDown
<1> QED  BY <1>1, SpecIInv, PTL
=================================================================================

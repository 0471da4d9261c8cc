------------------------------ MODULE HostInput -------------------------------
(***************************************************************************)
(* The host window and the input of a human launch (adapters/host_window   *)
(* .cpp, adapters/input_compat.cpp) between SDL, whose events come in any  *)
(* order, and the game, whose menus and levels nest (CMenu.cpp, WinMain).  *)
(* Who owns the mouse is decided in one place, sync_relative_mode, which   *)
(* everything that changes one of its inputs has to call.                  *)
(***************************************************************************)
EXTENDS Naturals, Sequences

CONSTANTS
  Keys, Esc,   \* the keys of the keyboard, and Escape
  Buttons,     \* the mouse buttons menus know
  CanFail,     \* which uses of SDL_SetRelativeMouseMode may fail
  MaxQueue,    \* bound on the events one pump finds
  MaxDepth     \* bound on the nesting of menus and levels

ASSUME HostAssumption ==
  /\ Esc \in Keys /\ Keys \cap Buttons = {}
  /\ CanFail \subseteq {"enable", "release"}
  /\ {MaxQueue, MaxDepth} \subseteq Nat \ {0}

VARIABLES
  sdl,      \* what SDL knows: focus, pointer over the window, what is down, the mode
  queue,    \* SDL's events; RF_HostPump is at work until there are none
  host,     \* the flags of host_window.cpp
  input,    \* the state of input_compat.cpp
  stack,    \* the running calls of ProcessMenu and GameLevel, with what their scopes keep
  leaving,  \* GameLevel waits for Escape to be released
  main,     \* how far WinMain has come
  gaveUp    \* history: the capture was given up, by Escape or for SDL refused it

vars == <<sdl, queue, host, input, stack, leaving, main, gaveUp>>

Quiet == queue = <<>>
Open == main # "closed"
Top == IF stack = <<>> THEN "none" ELSE stack[Len(stack)].kind

\* RF_InputReset
Reset == [held |-> {}, mouse |-> {}, pressed |-> {}, released |-> {}, synthetic |-> {},
          pending |-> {}]

Init ==
  /\ sdl = [focus |-> FALSE, over |-> FALSE, down |-> {}, relative |-> FALSE]
  /\ queue = <<>>
  /\ host = [gameplay |-> FALSE, menu |-> FALSE, escape |-> FALSE, relative |-> FALSE,
             focusLost |-> FALSE, quit |-> FALSE, cursor |-> TRUE]
  /\ input = Reset
  /\ stack = <<>> /\ leaving = FALSE /\ main = "start"
  /\ gaveUp = FALSE

------------------------------------------------------------------------------
(* The mouse *)

\* sync_cursor_visibility
SyncCursor(h, s) ==
  [h EXCEPT !.cursor = h.focusLost \/ h.quit \/ ~s.over \/ (~h.menu /\ ~h.relative)]

\* Mutant: a level that is played has the mouse, whoever has the focus.
WantedAnyFocus(h, s) == h.gameplay /\ ~h.quit /\ ~h.escape

Wanted(h, s) == h.gameplay /\ ~h.quit /\ ~h.escape /\ ~h.focusLost /\ s.focus

\* RF_InputRelativeMode
RelativeMode(i) == [i EXCEPT !.pending = {}]

\* The outcomes of sync_relative_mode.
Syncs(h, s, i) ==
  LET w == Wanted(h, s)
      use == IF w THEN "enable" ELSE "release"
      done == [host |-> SyncCursor([h EXCEPT !.relative = w], s),
               sdl |-> [s EXCEPT !.relative = w], input |-> RelativeMode(i), failed |-> FALSE]
      failed == [host |-> [h EXCEPT !.escape = TRUE], sdl |-> s, input |-> i, failed |-> TRUE]
  IN IF w = h.relative THEN {[host |-> h, sdl |-> s, input |-> i, failed |-> FALSE]}
     ELSE {done} \cup (IF use \in CanFail THEN {failed} ELSE {})

\* Mutant: Escape, once pressed, keeps the capture from ever coming back.
GameplayKeepsEscape(h, active) == [h EXCEPT !.gameplay = active]

\* RF_HostSetGameplay, before it calls sync_relative_mode
Gameplay(h, active) ==
  [h EXCEPT !.gameplay = active, !.escape = @ /\ active /\ h.gameplay]

------------------------------------------------------------------------------
(* SDL and the pump *)

Events ==
  ({"focusLost", "focusGained", "enter", "leave", "motion", "wheel", "quit"} \X {Esc})
    \cup ({"down", "up"} \X (Keys \cup Buttons))

\* The events the system may report.  A key that is held repeats; of a key that is held
\* when the focus is lost nothing more is heard, a button is followed outside.
Possible(e) ==
  CASE e[1] = "focusGained" -> ~sdl.focus
    [] e[1] = "enter" -> ~sdl.over
    [] e[1] = "leave" -> sdl.over
    [] e[1] = "up" -> e[2] \in sdl.down
    [] e[1] = "down" /\ e[2] \in Buttons -> sdl.focus /\ e[2] \notin sdl.down
    [] e[1] = "quit" -> TRUE
    [] OTHER -> sdl.focus

Reported(e) ==
  CASE e[1] = "focusLost" -> [sdl EXCEPT !.focus = FALSE, !.down = @ \ Keys]
    [] e[1] = "focusGained" -> [sdl EXCEPT !.focus = TRUE]
    [] e[1] \in {"enter", "leave"} -> [sdl EXCEPT !.over = e[1] = "enter"]
    [] e[1] = "down" -> [sdl EXCEPT !.down = @ \cup {e[2]}]
    [] e[1] = "up" -> [sdl EXCEPT !.down = @ \ {e[2]}]
    [] OTHER -> sdl

\* SDL collects events while it is polled: its state runs ahead of what the pump has seen.
SystemEvent ==
  /\ Open /\ Len(queue) < MaxQueue
  /\ \E e \in Events : Possible(e) /\ sdl' = Reported(e) /\ queue' = Append(queue, e)
  /\ UNCHANGED <<host, input, stack, leaving, main, gaveUp>>

\* The flags set by an event.
Flagged(e) ==
  CASE e[1] \in {"focusLost", "focusGained"} -> [host EXCEPT !.focusLost = e[1] = "focusLost"]
    [] e[1] = "quit" -> [host EXCEPT !.quit = TRUE]
    [] e = <<"down", Esc>> -> [host EXCEPT !.escape = TRUE]
    [] OTHER -> host

\* What RF_InputEvent makes of the events of the devices.
Collected(e) ==
  CASE e[1] = "wheel" \/ (e[1] = "motion" /\ host.relative) ->
         [input EXCEPT !.pending = @ \cup {e[1]}]
    [] e[1] = "down" /\ e[2] \in Keys -> [input EXCEPT !.held = @ \cup {e[2]}]
    [] e[1] = "up" /\ e[2] \in Keys -> [input EXCEPT !.held = @ \ {e[2]}]
    [] e[1] = "down" /\ e[2] \in Buttons ->
         [input EXCEPT !.mouse = @ \cup {e[2]}, !.pressed = @ \cup {e[2]}]
    [] e[1] = "up" /\ e[2] \in Buttons ->
         [input EXCEPT !.mouse = @ \ {e[2]}, !.released = @ \cup {e[2]}]
    [] OTHER -> input

\* Mutant: the loss of focus leaves the input as it is.
InputEventNoReset(e) == Collected(e)

\* RF_InputEvent
InputEvent(e) == IF e[1] = "focusLost" THEN Reset ELSE Collected(e)

\* One turn of the loop in RF_HostPump.
PumpEvent ==
  /\ Open /\ ~Quiet
  /\ LET e == Head(queue) IN
     \E o \in Syncs(Flagged(e), sdl, InputEvent(e)) :
       /\ host' = SyncCursor(o.host, o.sdl) /\ sdl' = o.sdl /\ input' = o.input
       /\ gaveUp' = (gaveUp \/ o.failed \/ e = <<"down", Esc>>)
  /\ queue' = Tail(queue)
  /\ UNCHANGED <<stack, leaving, main>>

\* A pump begins with sync_relative_mode: a release that failed is tried again.
PumpBegins ==
  /\ Open /\ Quiet
  /\ \E o \in Syncs(host, sdl, input) :
       /\ host' = o.host /\ sdl' = o.sdl /\ input' = o.input
       /\ gaveUp' = (gaveUp \/ o.failed)
  /\ UNCHANGED <<queue, stack, leaving, main>>

------------------------------------------------------------------------------
(* The game *)

\* A scope changes gameplay to active and menu_active to menu; a new call starts afresh.
Scope(active, menu) ==
  \E o \in Syncs(Gameplay(host, active), sdl, input) :
    /\ host' = SyncCursor([o.host EXCEPT !.menu = menu], o.sdl)
    /\ sdl' = o.sdl /\ input' = o.input
    /\ gaveUp' = o.failed

\* ProcessMenu or GameLevel begins ...
Enter(kind) ==
  /\ Open /\ Quiet /\ Top # "game" /\ Len(stack) < MaxDepth
  /\ stack' = Append(stack, [kind |-> kind, gameplay |-> host.gameplay, menu |-> host.menu])
  /\ Scope(kind = "game", kind = "menu" \/ host.menu)
  /\ UNCHANGED <<queue, leaving>>

\* ... and ends: its scopes restore what they found.
Return ==
  /\ stack' = SubSeq(stack, 1, Len(stack) - 1)
  /\ LET call == stack[Len(stack)] IN Scope(call.gameplay, call.menu)
  /\ leaving' = FALSE
  /\ UNCHANGED <<queue, main>>

\* WinMain plays the level of the command line, if there is one, then shows the menu.
PlayLevel == main = "start" /\ Enter("game") /\ main' = "played"
ShowMenu == main \in {"start", "played"} /\ stack = <<>> /\ ~host.quit
              /\ Enter("menu") /\ main' = "menus"

\* A menu opens another menu, starts a level or goes back to it.
MenuOpens == Top = "menu" /\ (Enter("menu") \/ Enter("game")) /\ UNCHANGED main

LeaveMenu == Open /\ Quiet /\ Top = "menu" /\ Return

\* RF_InputMenuFrame: a click completed between two frames is shown for one frame.
MenuInput(i, down) ==
  LET click == IF i.synthetic # {} THEN {} ELSE (i.pressed \cap i.released) \ down
  IN [i EXCEPT !.mouse = down \cup click, !.synthetic = click,
               !.pressed = {}, !.released = {}]

MenuFrame ==
  /\ Open /\ Quiet /\ Top = "menu" /\ ~host.quit /\ ~host.focusLost
  /\ input' = MenuInput(input, sdl.down \cap Buttons)
  /\ UNCHANGED <<sdl, queue, host, stack, leaving, main, gaveUp>>

\* A frame of GameLevel takes the motion and steps of the wheel, and is the last one when
\* Escape is held or the host wants to quit.
GameFrame ==
  /\ Open /\ Quiet /\ Top = "game" /\ ~leaving
  /\ leaving' = (host.quit \/ (Esc \in input.held /\ ~host.focusLost))
  /\ IF host.quit \/ host.focusLost THEN UNCHANGED input
     ELSE \E taken \in SUBSET {"motion", "wheel"} :
            input' = [input EXCEPT !.pending = @ \ taken]
  /\ UNCHANGED <<sdl, queue, host, stack, main, gaveUp>>

\* The loop that waits for Escape, or the return when there is no next level.
LeaveGame == Open /\ Quiet /\ Top = "game" /\ (leaving => Esc \notin input.held) /\ Return

\* RF_HostDestroy, at the end of WinMain or out of a fatal exit anywhere.
Destroy ==
  /\ Open
  /\ \E o \in Syncs([host EXCEPT !.gameplay = FALSE], sdl, input) :
       /\ host' = SyncCursor(o.host, [o.sdl EXCEPT !.over = FALSE])
       /\ sdl' = [o.sdl EXCEPT !.over = FALSE]
  /\ input' = Reset /\ queue' = <<>> /\ stack' = <<>> /\ leaving' = FALSE
  /\ main' = "closed"
  /\ UNCHANGED gaveUp

Next ==
  \/ SystemEvent \/ PumpEvent \/ PumpBegins
  \/ PlayLevel \/ ShowMenu \/ MenuOpens \/ LeaveMenu \/ MenuFrame
  \/ GameFrame \/ LeaveGame \/ Destroy

Spec == Init /\ [][Next]_vars

------------------------------------------------------------------------------
(* Properties *)

\* "Released on Esc, menu entry, focus loss, quit and teardown": between two pumps the
\* mouse is captured only while a level is played, in a window that has the focus.
CapturedInGameOnly ==
  Quiet /\ "release" \notin CanFail /\ sdl.relative =>
    Top = "game" /\ sdl.focus /\ ~host.focusLost /\ ~host.quit /\ ~host.escape

\* Whoever plays with the focus has the mouse, unless Escape was pressed or SDL refused
\* in this very call of GameLevel.
CapturedWhenPlaying ==
  Quiet /\ Top = "game" /\ sdl.focus /\ ~host.focusLost /\ ~host.quit /\ ~gaveUp
    => sdl.relative

\* Between two pumps a key the game takes for held is down; a button it takes for held is
\* down, or is a click a menu is being shown.
HeldIsDown ==
  Quiet => input.held \subseteq sdl.down /\ input.mouse \subseteq sdl.down \cup input.synthetic
==============================================================================

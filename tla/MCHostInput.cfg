SPECIFICATION Spec
CONSTANTS
  Keys = {esc}
  Esc = esc
  Buttons = {b1}
  CanFail = {"enable"}
  MaxQueue = 2
  MaxDepth = 3
INVARIANTS CapturedInGameOnly CapturedWhenPlaying HeldIsDown
CHECK_DEADLOCK FALSE

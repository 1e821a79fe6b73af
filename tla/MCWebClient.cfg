\* Two displays, two mouse buttons, two touches, two data channels.
SPECIFICATION Spec
CONSTANTS
  MaxChannels = 2
  Buttons = {"left", "right"}
  MaxTouches = 2
  DisplayIds = {d1, d2}
  MaxEvents = 5
\* The page may be left alone, or destroyed.
CHECK_DEADLOCK FALSE
INVARIANTS
  NothingStaysPressed
  LongPressHasFinger
  CaptureFollowsChannel
  ShownIsStreamed

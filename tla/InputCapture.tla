----------------------------- MODULE InputCapture ----------------------------
(***************************************************************************)
(* input_capture.js: mouse, keyboard and touch events become events for    *)
(* the host, some of them from timers.  Positions, moves and modifiers are *)
(* left out: what is kept is which buttons and keys are down, for the user *)
(* and for the host.  Keys behave as buttons do.  The listeners are on the *)
(* target alone: an event that goes to another element, another window or  *)
(* the browser itself is not heard, nor is the browser's end of a touch    *)
(* (touchcancel).                                                          *)
(***************************************************************************)
EXTENDS Naturals, FiniteSets

CONSTANTS Buttons,      \* mouse buttons and keys; "left" and "right" among them
          MaxTouches    \* bound: touches

ASSUME ButtonsAssumption == {"left", "right"} \subseteq Buttons
ASSUME MaxTouchesAssumption == MaxTouches \in Nat

VARIABLES
  enabled,     \* enabled: the listeners are there
  pressed,     \* user: buttons and keys that are down
  astray,      \* history: those held whose last release was not heard
  fingers,     \* user: fingers on the screen
  touches,     \* number of touches so far
  longPresses, \* long-press timers that are running
  tracked,     \* longPressTimer: the one that can be cleared, or 0
  releases,    \* how many timers will send the release of each button
  held,        \* host: what it was told is down
  cut,         \* history: whether events could not be sent, or capture was disabled
  crowded,     \* history: whether two fingers were down at once
  cancelled,   \* history: whether a touch was cancelled while a timer was running
  ghost        \* history: whether a long press was sent with no finger down

timerVars == <<longPresses, tracked, releases>>
userVars == <<pressed, astray, fingers, touches, crowded, cancelled>>
inputVars == <<enabled, userVars, timerVars, held, cut, ghost>>

InputInit ==
  /\ enabled = FALSE /\ pressed = {} /\ astray = {} /\ fingers = 0 /\ touches = 0
  /\ longPresses = {} /\ tracked = 0 /\ releases = [b \in Buttons |-> 0]
  /\ held = {} /\ cut = FALSE /\ ghost = FALSE
  /\ crowded = FALSE /\ cancelled = FALSE

Enable == enabled' = TRUE /\ UNCHANGED <<userVars, timerVars, held, cut, ghost>>

\* The listeners are removed; the timers run on.
Disable ==
  /\ enabled' = FALSE /\ cut' = (cut \/ enabled)
  /\ UNCHANGED <<userVars, timerVars, held, ghost>>

\* _sendInput: what the client cannot send is dropped.
SendDown(b, sendable) == held' = IF sendable THEN held \cup {b} ELSE held
SendUp(b, sendable) == held' = IF sendable THEN held \ {b} ELSE held

\* A handler that is not able to call the client ends before it sets the timer.
ReleaseLater(b, able) == releases' = IF able THEN [releases EXCEPT ![b] = @ + 1] ELSE releases

NoteCut(sendable) == cut' = (cut \/ ~sendable)

\* mousedown and keydown, heard by the listeners.
Press(b, sendable) ==
  /\ enabled /\ b \notin pressed
  /\ pressed' = pressed \cup {b} /\ astray' = astray \ {b}
  /\ SendDown(b, sendable) /\ NoteCut(sendable)
  /\ UNCHANGED <<enabled, fingers, touches, crowded, cancelled, timerVars, ghost>>

\* mouseup and keyup, heard by the listeners, wherever the press went.
Release(b, sendable) ==
  /\ enabled /\ b \in pressed
  /\ pressed' = pressed \ {b} /\ astray' = astray \ {b}
  /\ SendUp(b, sendable) /\ NoteCut(sendable)
  /\ UNCHANGED <<enabled, fingers, touches, crowded, cancelled, timerVars, ghost>>

\* A press, or a release, outside the target or with the focus elsewhere: no
\* listener is there to hear it, of the window or for its loss of focus.
PressElsewhere(b) ==
  /\ b \notin pressed
  /\ pressed' = pressed \cup {b}
  /\ UNCHANGED <<enabled, astray, fingers, touches, crowded, cancelled, timerVars>>
  /\ UNCHANGED <<held, cut, ghost>>

ReleaseElsewhere(b) ==
  /\ b \in pressed
  /\ pressed' = pressed \ {b} /\ astray' = astray \cup ({b} \cap held)
  /\ UNCHANGED <<enabled, fingers, touches, crowded, cancelled, timerVars>>
  /\ UNCHANGED <<held, cut, ghost>>

\* Another finger overwrites the timer of the first, which runs on.
TouchStart ==
  /\ touches < MaxTouches
  /\ touches' = touches + 1 /\ fingers' = fingers + 1
  /\ crowded' = (crowded \/ fingers > 0)
  /\ IF enabled
       THEN /\ longPresses' = longPresses \cup {touches + 1}
            /\ tracked' = touches + 1
       ELSE UNCHANGED <<longPresses, tracked>>
  /\ UNCHANGED <<enabled, pressed, astray, cancelled, releases, held, cut, ghost>>

ClearTimer == longPresses' = longPresses \ {tracked} /\ tracked' = 0

TouchMove ==
  /\ fingers > 0 /\ enabled /\ tracked # 0
  /\ ClearTimer
  /\ UNCHANGED <<enabled, userVars, releases, held, cut, ghost>>

\* Mutant: the timer is not cleared.
TouchEndKeepsTimer(able, sendable) ==
  /\ fingers > 0 /\ fingers' = fingers - 1
  /\ UNCHANGED <<longPresses, tracked>>
  /\ IF enabled
       THEN /\ SendDown("left", sendable) /\ NoteCut(sendable)
            /\ ReleaseLater("left", able)
       ELSE UNCHANGED <<releases, held, cut>>
  /\ UNCHANGED <<enabled, pressed, astray, touches, crowded, cancelled, ghost>>

\* A left click, after a long press as well.
TouchEnd(able, sendable) ==
  /\ fingers > 0 /\ fingers' = fingers - 1
  /\ IF enabled
       THEN /\ IF tracked # 0 THEN ClearTimer ELSE UNCHANGED <<longPresses, tracked>>
            /\ SendDown("left", sendable) /\ NoteCut(sendable)
            /\ ReleaseLater("left", able)
       ELSE UNCHANGED <<timerVars, held, cut>>
  /\ UNCHANGED <<enabled, pressed, astray, touches, crowded, cancelled, ghost>>

\* The browser takes the touch for itself: nothing listens to touchcancel, so the
\* timer runs on.
TouchCancel ==
  /\ fingers > 0 /\ fingers' = fingers - 1
  /\ cancelled' = (cancelled \/ longPresses # {})
  /\ UNCHANGED <<enabled, pressed, astray, touches, crowded, timerVars, held, cut, ghost>>

\* A timer runs out, whether capture is enabled or not: a right click.
LongPress(i, able, sendable) ==
  /\ i \in longPresses
  /\ longPresses' = longPresses \ {i} /\ tracked' = 0
  /\ ghost' = (ghost \/ fingers = 0)
  /\ SendDown("right", sendable) /\ NoteCut(sendable)
  /\ ReleaseLater("right", able)
  /\ UNCHANGED <<enabled, userVars>>

\* Mutant: a release is sent only while capture is enabled and a finger is down.
TimedReleaseWithFinger(b, sendable) ==
  /\ releases[b] > 0
  /\ releases' = [releases EXCEPT ![b] = @ - 1]
  /\ SendUp(b, sendable /\ fingers > 0) /\ NoteCut(sendable)
  /\ UNCHANGED <<enabled, userVars, longPresses, tracked, ghost>>

\* The release, 50 ms after the click.
TimedRelease(b, sendable) ==
  /\ releases[b] > 0
  /\ releases' = [releases EXCEPT ![b] = @ - 1]
  /\ SendUp(b, sendable) /\ NoteCut(sendable)
  /\ UNCHANGED <<enabled, userVars, longPresses, tracked, ghost>>

InputTypeOK ==
  /\ {enabled, cut, crowded, cancelled, ghost} \subseteq BOOLEAN
  /\ pressed \subseteq Buttons /\ astray \subseteq Buttons /\ held \subseteq Buttons
  /\ releases \in [Buttons -> Nat]
  /\ touches \in 0 .. MaxTouches /\ fingers \in 0 .. touches
  /\ tracked \in 0 .. touches /\ longPresses \subseteq 1 .. touches
=============================================================================

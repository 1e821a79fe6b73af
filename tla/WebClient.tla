------------------------------ MODULE WebClient ------------------------------
(***************************************************************************)
(* client.js with the parts it joins: the connection, input capture, the   *)
(* display selector, and the metrics display, which may be absent.  The    *)
(* page calls initialize once, then connect, disconnect and destroy at any *)
(* time; the user acts at any time; the host answers.                      *)
(***************************************************************************)
EXTENDS WebConnection, InputCapture, DisplaySelector

CONSTANT MaxEvents    \* bound: events of user, timers and displays

ASSUME MaxEventsAssumption == MaxEvents \in Nat

VARIABLES
  metrics,   \* whether metricsDisplay is not null
  destroyed, \* whether destroy() was called
  events     \* number of events so far

vars == <<connectionVars, inputVars, selectorVars, metrics, destroyed, events>>

Init ==
  /\ ConnectionInit /\ InputInit /\ SelectorInit
  /\ metrics \in BOOLEAN /\ destroyed = FALSE /\ events = 0

\* _handleInputEvent notes the input in the metrics display before it sends it:
\* without one the listener ends there.
Able == metrics
Sendable == metrics /\ ChannelOpen

\* A display request also needs client.connected.
CanSwitch == connected /\ ChannelOpen

-----------------------------------------------------------------------------
(* The page and the network. *)

ClientIdle == UNCHANGED <<inputVars, selectorVars, metrics, destroyed, events>>

Network ==
  /\ \/ SocketOpens \/ SocketMessage \/ OfferCreated \/ OfferSet \/ AnswerArrives
     \/ OnDataChannel \/ ConnectionStateChange(metrics)
  /\ ClientIdle

Page == ~destroyed /\ (Initialize \/ Connect) /\ ClientIdle

\* onDataChannelOpen: capture is enabled and the list of displays asked for.
DataChannelOpens ==
  /\ ~destroyed
  /\ \E i \in DOMAIN channels : ChannelOpens(i)
  /\ IF enabled THEN UNCHANGED inputVars ELSE Enable
  /\ ReloadDisplayList
  /\ UNCHANGED <<metrics, destroyed, events>>

\* onDataChannelClose: capture is disabled, whichever channel it was.
DataChannelCloses ==
  /\ ~destroyed
  /\ \E i \in DOMAIN channels : ChannelCloses(i)
  /\ Disable
  /\ LoseRequests
  /\ UNCHANGED <<metrics, destroyed, events>>

\* Mutant: capture goes on.
DisconnectStillCapturing ==
  /\ ~destroyed /\ phase # "none"
  /\ UNCHANGED inputVars
  /\ Close
  /\ LoseRequests
  /\ UNCHANGED <<metrics, destroyed, events>>

Disconnect ==
  /\ ~destroyed /\ phase # "none"
  /\ Disable
  /\ Close
  /\ LoseRequests
  /\ UNCHANGED <<metrics, destroyed, events>>

\* disconnect, then the parts are dropped; timers and listeners hold on to them.
Destroy ==
  /\ ~destroyed /\ phase # "none"
  /\ Disable
  /\ Close
  /\ LoseRequests
  /\ metrics' = FALSE /\ destroyed' = TRUE
  /\ UNCHANGED events

-----------------------------------------------------------------------------
(* The user, the timers and the displays. *)

Event == events < MaxEvents /\ events' = events + 1 /\ UNCHANGED <<metrics, destroyed>>

Input ==
  /\ Event
  /\ \/ \E b \in Buttons : \/ Press(b, Sendable) \/ Release(b, Sendable)
                           \/ PressElsewhere(b) \/ ReleaseElsewhere(b)
     \/ TouchStart \/ TouchMove \/ TouchEnd(Able, Sendable) \/ TouchCancel
  /\ UNCHANGED <<connectionVars, selectorVars>>

Timer ==
  /\ \/ \E i \in longPresses : LongPress(i, Able, Sendable)
     \/ \E b \in Buttons : TimedRelease(b, Sendable)
  /\ UNCHANGED <<connectionVars, selectorVars, metrics, destroyed, events>>

Selector ==
  /\ Event /\ ~destroyed
  /\ (\E id \in DisplayIds : Pick(id, CanSwitch)) \/ ReloadDisplayList
  /\ UNCHANGED <<connectionVars, inputVars>>

\* Messages of the host come through any channel that is open: one that is no
\* longer the current one keeps its onmessage.  Answers keep the order of the
\* requests.
HostMessage ==
  /\ Event /\ \E i \in DOMAIN channels : channels[i] = "open"
  /\ \/ \E ids \in SUBSET DisplayIds : UpdateDisplayList(ids)
     \/ DisplayInfo(CanSwitch) \/ SwitchSucceeds \/ SwitchFails(CanSwitch)
  /\ UNCHANGED <<connectionVars, inputVars>>

Next ==
  \/ Network \/ Page \/ DataChannelOpens \/ DataChannelCloses \/ Disconnect \/ Destroy
  \/ Input \/ Timer \/ Selector \/ HostMessage

Spec == Init /\ [][Next]_vars

-----------------------------------------------------------------------------
(* Properties. *)

\* The values the members of the page's parts may hold.
TypeOK ==
  /\ ConnectionTypeOK /\ InputTypeOK /\ SelectorTypeOK
  /\ {metrics, destroyed} \subseteq BOOLEAN /\ events \in 0 .. MaxEvents

\* Nothing stays pressed on the host: once the user has let go of everything and
\* no timer is to release anything, every button and key the host was told of is
\* up again, but for those whose last release went elsewhere, and unless the way to
\* the host was cut in between.
NothingStaysPressed ==
  pressed = {} /\ fingers = 0 /\ longPresses = {} /\ (\A b \in Buttons : releases[b] = 0)
    => held \subseteq astray \/ cut

\* A long press is a finger that stays: the right click comes without one only if
\* a second finger took the variable of the timer, the browser cancelled a touch, or
\* the listeners went away.
LongPressHasFinger == ghost => crowded \/ cancelled \/ cut

\* Capture is enabled exactly while the data channel is there: only with a second
\* channel may the end of the first disable it, or its opening enable it early.
CaptureFollowsChannel ==
  Len(channels) < 2 =>
    /\ enabled => current # 0 /\ channels[current] # "connecting"
    /\ ChannelOpen => enabled

\* What the selector shows is, once every request was answered, what the host
\* sends, unless a switch failed, which nothing reverts, or a display had to be
\* shown that was not in the list of the moment.
ShownIsStreamed ==
  requests = <<>> /\ shown # NoDisplay => shown = streamed \/ failed \/ missed
=============================================================================

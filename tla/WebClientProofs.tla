--------------------------- MODULE WebClientProofs ---------------------------
(***************************************************************************)
(* Safety of WebClient, for any buttons, displays and channels and any     *)
(* number of touches and events.                                           *)
(*                                                                         *)
(* Each property is about one part and what the others do to it.           *)
(* NothingStaysPressed: a button is held on the host only if the user      *)
(* holds it, its release went astray or a timer will release it            *)
(* (HeldIsReleased), and nothing of the kind is there before capture was   *)
(* first enabled (NothingBefore).  LongPressHasFinger: a lone finger's     *)
(* timer is the tracked one, and runs only while it is down, if no touch   *)
(* was cancelled (TimerHasFinger).  CaptureFollowsChannel: a page          *)
(* without a current channel has only channels that are ending             *)
(* (NoCurrentNoChannel).  ShownIsStreamed: the last request on its way     *)
(* asks for what is shown, which is what the client wants (ShownIsAsked).  *)
(***************************************************************************)
EXTENDS WebClient, SequenceTheorems, TLAPS

NothingBefore ==
  ~cut /\ ~enabled =>
    longPresses = {} /\ held = {} /\ \A b \in Buttons : releases[b] = 0

HeldIsReleased ==
  ~cut => \A b \in held : b \in pressed \cup astray \/ releases[b] > 0

TimerHasFinger ==
  ~cut /\ ~crowded /\ ~cancelled /\ longPresses # {} => fingers = 1 /\ longPresses = {tracked}

InputInv ==
  InputTypeOK /\ NothingBefore /\ HeldIsReleased /\ TimerHasFinger /\ LongPressHasFinger

NoCurrentNoChannel ==
  current = 0 => \A i \in DOMAIN channels : channels[i] \in {"closing", "closed"}

ConnectionInv == ConnectionTypeOK /\ NoCurrentNoChannel /\ CaptureFollowsChannel

ShownIsAsked ==
  ~failed /\ ~missed =>
    /\ wanted = shown
    /\ shown # NoDisplay =>
         shown = IF requests = <<>> THEN streamed ELSE requests[Len(requests)]

SelectorInv == SelectorTypeOK /\ ShownIsAsked

PageTypeOK == {metrics, destroyed} \subseteq BOOLEAN /\ events \in 0 .. MaxEvents

IInv == InputInv /\ ConnectionInv /\ SelectorInv /\ PageTypeOK

-----------------------------------------------------------------------------
(* Input capture. *)

\* Buttons and keys go down and up, heard or not.
LEMMA ButtonStep ==
  ASSUME InputInv, NEW b \in Buttons, NEW sendable \in BOOLEAN,
         \/ Press(b, sendable) \/ Release(b, sendable)
         \/ PressElsewhere(b) \/ ReleaseElsewhere(b)
  PROVE  InputInv'
<1>1. /\ InputTypeOK
      /\ UNCHANGED <<enabled, fingers, touches, crowded, cancelled, timerVars, ghost>>
      /\ pressed' \subseteq pressed \cup {b} /\ pressed \subseteq pressed' \cup {b}
      /\ astray' \subseteq astray \cup {b} /\ astray \subseteq astray' \cup {b}
  BY DEF InputInv, Press, Release, PressElsewhere, ReleaseElsewhere
<1>2. held' \subseteq held \cup {b} /\ cut' \in BOOLEAN /\ (cut => cut')
  <2>1. CASE Press(b, sendable) \/ Release(b, sendable)
    BY <1>1, <2>1 DEF InputTypeOK, Press, Release, SendDown, SendUp, NoteCut
  <2>2. CASE PressElsewhere(b) \/ ReleaseElsewhere(b)
    BY <1>1, <2>2 DEF InputTypeOK, PressElsewhere, ReleaseElsewhere
  <2> QED
    BY <2>1, <2>2
<1>3. InputTypeOK'
  BY <1>1, <1>2 DEF InputTypeOK, timerVars
<1>4. ~enabled => UNCHANGED <<held, cut>>
  BY DEF Press, Release, PressElsewhere, ReleaseElsewhere
<1>5. NothingBefore' /\ TimerHasFinger' /\ LongPressHasFinger'
  BY <1>1, <1>2, <1>4
  DEF InputInv, NothingBefore, TimerHasFinger, LongPressHasFinger, timerVars
<1>6. HeldIsReleased'
  <2> SUFFICES ASSUME ~cut', NEW c \in held', c \notin pressed', c \notin astray'
               PROVE  releases[c] > 0
    BY <1>1 DEF HeldIsReleased, timerVars
  <2>1. CASE c # b
    BY <1>1, <1>2, <2>1 DEF InputInv, HeldIsReleased
  <2>2. CASE c = b
    <3>1. ~Press(b, sendable) /\ ~PressElsewhere(b)
      BY <2>2 DEF Press, PressElsewhere
    <3>2. CASE Release(b, sendable)
      BY <1>1, <1>2, <2>2, <3>2 DEF InputTypeOK, Release, SendUp, NoteCut
    <3>3. CASE ReleaseElsewhere(b)
      BY <2>2, <3>3 DEF ReleaseElsewhere
    <3> QED
      BY <3>1, <3>2, <3>3
  <2> QED
    BY <2>1, <2>2
<1> QED
  BY <1>3, <1>5, <1>6 DEF InputInv

\* A finger is put down, or moves.
LEMMA FingerStep ==
  ASSUME InputInv, TouchStart \/ TouchMove
  PROVE  InputInv'
<1>1. /\ InputTypeOK
      /\ UNCHANGED <<enabled, pressed, astray, cancelled, releases, held, cut, ghost>>
  BY DEF InputInv, TouchStart, TouchMove, userVars
<1>2. CASE TouchStart
  <2>1. /\ touches' = touches + 1 /\ touches < MaxTouches /\ fingers' = fingers + 1
        /\ crowded' = (crowded \/ fingers > 0)
        /\ \/ enabled /\ longPresses' = longPresses \cup {touches + 1} /\ tracked' = touches + 1
           \/ ~enabled /\ UNCHANGED <<longPresses, tracked>>
    BY <1>2 DEF TouchStart
  <2>2. crowded' \in BOOLEAN /\ (~crowded' => ~crowded /\ ~ (fingers > 0))
    BY <1>1, <2>1 DEF InputTypeOK
  <2>3. /\ touches' \in 0 .. MaxTouches /\ fingers' \in 0 .. touches'
        /\ tracked' \in 0 .. touches' /\ longPresses' \subseteq 1 .. touches'
    <3>1. /\ touches \in Nat /\ fingers \in 0 .. touches /\ tracked \in 0 .. touches
          /\ longPresses \subseteq 1 .. touches
      BY <1>1, MaxTouchesAssumption DEF InputTypeOK
    <3>2. touches' \in 0 .. MaxTouches /\ fingers' \in 0 .. touches' /\ tracked' \in 0 .. touches'
      BY <2>1, <3>1, MaxTouchesAssumption
    <3>3. longPresses' \subseteq longPresses \cup {touches + 1}
      BY <2>1
    <3> QED
      BY <2>1, <3>1, <3>2, <3>3
  <2>4. InputTypeOK'
    BY <1>1, <2>2, <2>3 DEF InputTypeOK
  <2>5. NothingBefore' /\ HeldIsReleased' /\ LongPressHasFinger'
    BY <1>1, <2>1, <2>2
    DEF InputInv, NothingBefore, HeldIsReleased, LongPressHasFinger
  <2>6. TimerHasFinger'
    <3> SUFFICES ASSUME ~cut, ~crowded', ~cancelled, longPresses' # {}
                 PROVE  fingers' = 1 /\ longPresses' = {tracked'}
      BY <1>1 DEF TimerHasFinger
    <3>1. fingers = 0 /\ ~crowded
      <4>1. fingers \in Nat
        BY <1>1, MaxTouchesAssumption DEF InputTypeOK
      <4> QED
        BY <2>2, <4>1
    <3>2. longPresses = {}
      BY <3>1 DEF InputInv, TimerHasFinger
    <3> QED
      BY <2>1, <3>1, <3>2
  <2> QED
    BY <2>4, <2>5, <2>6 DEF InputInv
<1>3. CASE TouchMove
  <2>1. /\ UNCHANGED <<fingers, touches, crowded>>
        /\ longPresses' = longPresses \ {tracked} /\ tracked' = 0
    BY <1>3 DEF TouchMove, ClearTimer, userVars
  <2>2. InputTypeOK'
    BY <1>1, <2>1 DEF InputTypeOK
  <2>3. NothingBefore' /\ HeldIsReleased' /\ LongPressHasFinger' /\ TimerHasFinger'
    BY <1>1, <2>1
    DEF InputInv, NothingBefore, HeldIsReleased, LongPressHasFinger, TimerHasFinger
  <2> QED
    BY <2>2, <2>3 DEF InputInv
<1> QED
  BY <1>2, <1>3

\* A click that a timer will release: what it presses is held until then, or the
\* way to the host is cut.
LEMMA ClickHeld ==
  ASSUME InputTypeOK, HeldIsReleased, NEW b \in Buttons,
         NEW able \in BOOLEAN, NEW sendable \in BOOLEAN, sendable => able,
         SendDown(b, sendable), NoteCut(sendable), ReleaseLater(b, able),
         UNCHANGED <<pressed, astray>>
  PROVE  /\ held' \subseteq Buttons /\ cut' \in BOOLEAN /\ (cut => cut')
         /\ releases' \in [Buttons -> Nat] /\ HeldIsReleased'
<1>1. held' \subseteq held \cup {b} /\ cut' \in BOOLEAN /\ (cut => cut') /\ (~cut' => able)
  BY DEF InputTypeOK, SendDown, NoteCut
<1>2. /\ releases' \in [Buttons -> Nat] /\ \A c \in Buttons : releases'[c] >= releases[c]
      /\ able => releases'[b] > 0
  BY DEF InputTypeOK, ReleaseLater
<1>3. HeldIsReleased'
  BY <1>1, <1>2 DEF InputTypeOK, HeldIsReleased
<1> QED
  BY <1>1, <1>2, <1>3 DEF InputTypeOK

\* A finger is lifted.
LEMMA TouchEndStep ==
  ASSUME InputInv, NEW able \in BOOLEAN, NEW sendable \in BOOLEAN, sendable => able,
         TouchEnd(able, sendable)
  PROVE  InputInv'
<1>1. /\ InputTypeOK /\ fingers > 0 /\ fingers' = fingers - 1
      /\ UNCHANGED <<enabled, pressed, astray, touches, crowded, cancelled, ghost>>
  BY DEF InputInv, TouchEnd
<1>2. CASE ~enabled
  <2>1. UNCHANGED <<longPresses, tracked, releases, held, cut>>
    BY <1>2 DEF TouchEnd, timerVars
  <2>2. InputTypeOK'
    BY <1>1, <2>1 DEF InputTypeOK
  <2>3. NothingBefore' /\ HeldIsReleased' /\ LongPressHasFinger' /\ TimerHasFinger'
    BY <1>1, <1>2, <2>1
    DEF InputInv, NothingBefore, HeldIsReleased, LongPressHasFinger, TimerHasFinger
  <2> QED
    BY <2>2, <2>3 DEF InputInv
<1>3. CASE enabled
  <2>1. /\ longPresses' = longPresses \ {tracked} /\ tracked' = 0
        /\ SendDown("left", sendable) /\ NoteCut(sendable) /\ ReleaseLater("left", able)
    BY <1>1, <1>3 DEF TouchEnd, ClearTimer, InputTypeOK
  <2>2. /\ held' \subseteq Buttons /\ cut' \in BOOLEAN /\ (cut => cut')
        /\ releases' \in [Buttons -> Nat] /\ HeldIsReleased'
    BY <1>1, <2>1, ClickHeld, ButtonsAssumption DEF InputInv
  <2>3. InputTypeOK'
    BY <1>1, <2>1, <2>2 DEF InputTypeOK
  <2>4. NothingBefore' /\ LongPressHasFinger' /\ TimerHasFinger'
    BY <1>1, <1>3, <2>1, <2>2
    DEF InputInv, NothingBefore, LongPressHasFinger, TimerHasFinger
  <2> QED
    BY <2>2, <2>3, <2>4 DEF InputInv
<1> QED
  BY <1>2, <1>3

\* A touch is cancelled: its timer runs on, which is noted.
LEMMA TouchCancelStep ==
  ASSUME InputInv, TouchCancel
  PROVE  InputInv'
<1>1. /\ InputTypeOK /\ fingers > 0 /\ fingers' = fingers - 1
      /\ UNCHANGED <<enabled, pressed, astray, touches, crowded, timerVars, held, cut, ghost>>
      /\ cancelled' \in BOOLEAN /\ (~cancelled' => ~cancelled /\ longPresses = {})
  BY DEF InputInv, InputTypeOK, TouchCancel
<1>2. InputTypeOK'
  BY <1>1 DEF InputTypeOK, timerVars
<1>3. NothingBefore' /\ HeldIsReleased' /\ LongPressHasFinger' /\ TimerHasFinger'
  BY <1>1
  DEF InputInv, NothingBefore, HeldIsReleased, LongPressHasFinger, TimerHasFinger, timerVars
<1> QED
  BY <1>2, <1>3 DEF InputInv

\* The timer of a long press runs out: a finger is there unless the tracked timer
\* was another one, a touch was cancelled, or capture was disabled.
LEMMA LongPressStep ==
  ASSUME InputInv, NEW able \in BOOLEAN, NEW sendable \in BOOLEAN, sendable => able,
         NEW i \in longPresses, LongPress(i, able, sendable)
  PROVE  InputInv'
<1>1. /\ InputTypeOK
      /\ UNCHANGED <<enabled, pressed, astray, fingers, touches, crowded, cancelled>>
      /\ longPresses' = longPresses \ {i} /\ tracked' = 0
      /\ ghost' = (ghost \/ fingers = 0)
      /\ SendDown("right", sendable) /\ NoteCut(sendable) /\ ReleaseLater("right", able)
  BY DEF InputInv, LongPress, userVars
<1>2. /\ held' \subseteq Buttons /\ cut' \in BOOLEAN /\ (cut => cut')
      /\ releases' \in [Buttons -> Nat] /\ HeldIsReleased'
  BY <1>1, ClickHeld, ButtonsAssumption DEF InputInv
<1>3. ghost' \in BOOLEAN /\ (ghost' => ghost \/ fingers = 0)
  BY <1>1 DEF InputTypeOK
<1>4. InputTypeOK'
  BY <1>1, <1>2, <1>3 DEF InputTypeOK
<1>5. NothingBefore'
  BY <1>1, <1>2 DEF InputInv, NothingBefore
<1>6. TimerHasFinger' /\ LongPressHasFinger'
  BY <1>1, <1>2, <1>3 DEF InputInv, TimerHasFinger, LongPressHasFinger
<1> QED
  BY <1>2, <1>4, <1>5, <1>6 DEF InputInv

\* The release after a click.
LEMMA TimedReleaseStep ==
  ASSUME InputInv, NEW b \in Buttons, NEW sendable \in BOOLEAN, TimedRelease(b, sendable)
  PROVE  InputInv'
<1>1. /\ InputTypeOK /\ UNCHANGED <<enabled, userVars, longPresses, tracked, ghost>>
      /\ releases[b] > 0 /\ releases' = [releases EXCEPT ![b] = @ - 1]
  BY DEF InputInv, TimedRelease
<1>2. /\ held' \subseteq held /\ cut' \in BOOLEAN /\ (cut => cut')
      /\ ~cut' => b \notin held'
  BY <1>1 DEF InputTypeOK, TimedRelease, SendUp, NoteCut
<1>3. /\ releases' \in [Buttons -> Nat]
      /\ \A c \in Buttons \ {b} : releases'[c] = releases[c]
  BY <1>1 DEF InputTypeOK
<1>4. InputTypeOK'
  BY <1>1, <1>2, <1>3 DEF InputTypeOK, userVars
<1>5. NothingBefore' /\ TimerHasFinger' /\ LongPressHasFinger'
  BY <1>1, <1>2
  DEF InputInv, NothingBefore, TimerHasFinger, LongPressHasFinger, userVars
<1>6. HeldIsReleased'
  BY <1>1, <1>2, <1>3 DEF InputInv, InputTypeOK, HeldIsReleased, userVars
<1> QED
  BY <1>4, <1>5, <1>6 DEF InputInv

\* Capture is enabled and disabled.
LEMMA CaptureStep ==
  ASSUME InputInv, Enable \/ Disable
  PROVE  InputInv'
<1>1. /\ InputTypeOK /\ UNCHANGED <<userVars, timerVars, held, ghost>>
      /\ enabled' \in BOOLEAN /\ cut' \in BOOLEAN /\ (cut => cut')
      /\ ~cut' /\ ~enabled' => ~cut /\ ~enabled
  <2>1. CASE Enable
    BY <2>1 DEF InputInv, InputTypeOK, Enable
  <2>2. CASE Disable
    BY <2>2 DEF InputInv, InputTypeOK, Disable
  <2> QED
    BY <2>1, <2>2
<1>2. InputTypeOK'
  BY <1>1 DEF InputTypeOK, userVars, timerVars
<1>3. NothingBefore' /\ HeldIsReleased' /\ TimerHasFinger' /\ LongPressHasFinger'
  BY <1>1
  DEF InputInv, NothingBefore, HeldIsReleased, TimerHasFinger, LongPressHasFinger, userVars,
      timerVars
<1> QED
  BY <1>2, <1>3 DEF InputInv

\* Nothing happens to the input.
LEMMA InputKept ==
  ASSUME InputInv, UNCHANGED inputVars
  PROVE  InputInv'
BY DEF inputVars, userVars, timerVars, InputInv, InputTypeOK, NothingBefore, HeldIsReleased,
       TimerHasFinger, LongPressHasFinger

-----------------------------------------------------------------------------
(* The connection. *)

ChannelStates == {"connecting", "open", "closing", "closed"}

\* Another data channel becomes the current one: with it there are two, or capture
\* was never enabled.
LEMMA AddChannelStep ==
  ASSUME ConnectionInv, AddChannel, UNCHANGED enabled
  PROVE  /\ channels' \in Seq(ChannelStates) /\ Len(channels') <= MaxChannels
         /\ current' \in 0 .. Len(channels')
         /\ NoCurrentNoChannel' /\ CaptureFollowsChannel'
<1>1. /\ channels \in Seq(ChannelStates) /\ Len(channels) \in Nat /\ current \in 0 .. Len(channels)
      /\ Len(channels) < MaxChannels
      /\ channels' = Append(channels, "connecting") /\ current' = Len(channels) + 1
  BY LenProperties DEF ConnectionInv, ConnectionTypeOK, ChannelStates, AddChannel
<1>2. /\ channels' \in Seq(ChannelStates) /\ Len(channels') = Len(channels) + 1
      /\ channels'[current'] = "connecting"
  BY <1>1, AppendProperties DEF ChannelStates
<1>3. current' \in 0 .. Len(channels') /\ current' # 0 /\ Len(channels') <= MaxChannels
  BY <1>1, <1>2, MaxChannelsAssumption
<1>4. NoCurrentNoChannel'
  BY <1>3 DEF NoCurrentNoChannel
<1>5. ASSUME Len(channels') < 2 PROVE ~enabled
  <2>1. Len(channels) = 0 /\ current = 0
    BY <1>1, <1>2, <1>5
  <2> QED
    BY <2>1 DEF ConnectionInv, CaptureFollowsChannel
<1>6. CaptureFollowsChannel'
  BY <1>2, <1>5 DEF CaptureFollowsChannel, ChannelOpen
<1> QED
  BY <1>2, <1>3, <1>4, <1>6

\* What leaves the channels and capture alone keeps what relates them.
LEMMA ChannelsKept ==
  ASSUME ConnectionInv, UNCHANGED <<channels, current, enabled>>
  PROVE  NoCurrentNoChannel' /\ CaptureFollowsChannel'
BY DEF ConnectionInv, NoCurrentNoChannel, CaptureFollowsChannel, ChannelOpen

\* initialize, connect, and what the network does.
LEMMA NetworkStep ==
  ASSUME ConnectionInv, UNCHANGED enabled, metrics \in BOOLEAN,
         \/ Initialize \/ SocketOpens \/ SocketMessage \/ Connect \/ OfferCreated \/ OfferSet
         \/ AnswerArrives \/ OnDataChannel \/ ConnectionStateChange(metrics)
  PROVE  ConnectionInv'
<1>1. ConnectionTypeOK
  BY DEF ConnectionInv
<1>2. CASE Connect \/ OnDataChannel
  <2>1. AddChannel /\ UNCHANGED <<phase, socket, clientId, pc, answer, connected>>
    BY <1>2 DEF Connect, OnDataChannel
  <2>2. offering' \in {offering, "creating"}
    BY <1>2 DEF Connect, OnDataChannel
  <2>3. ConnectionTypeOK'
    BY <1>1, <2>1, <2>2, AddChannelStep DEF ConnectionTypeOK, ChannelStates
  <2> QED
    BY <2>1, <2>3, AddChannelStep DEF ConnectionInv
<1>3. CASE \/ Initialize \/ SocketOpens \/ SocketMessage \/ OfferCreated \/ OfferSet
           \/ AnswerArrives \/ ConnectionStateChange(metrics)
  <2>1. UNCHANGED <<channels, current>>
    BY <1>3 DEF Initialize, SocketOpens, SocketMessage, OfferCreated, OfferSet, AnswerArrives,
                ConnectionStateChange
  <2>2. /\ phase' \in {phase, "dialling", "ready", "failed"}
        /\ socket' \in {socket, "connecting", "open", "closed"}
        /\ offering' \in {offering, "setting", "no"} /\ answer' \in {answer, "due", "applied"}
    BY <1>3 DEF Initialize, SocketOpens, SocketMessage, OfferCreated, OfferSet, AnswerArrives,
                ConnectionStateChange
  <2>3. clientId' \in BOOLEAN /\ pc' \in BOOLEAN /\ connected' \in BOOLEAN
    <3>1. clientId \in BOOLEAN /\ pc \in BOOLEAN /\ connected \in BOOLEAN
      BY <1>1 DEF ConnectionTypeOK
    <3>2. CASE Initialize \/ SocketOpens
      BY <3>1, <3>2 DEF Initialize, SocketOpens
    <3>3. CASE SocketMessage
      BY <3>1, <3>3 DEF SocketMessage
    <3>4. CASE OfferCreated \/ OfferSet \/ AnswerArrives
      BY <3>1, <3>4 DEF OfferCreated, OfferSet, AnswerArrives
    <3>5. CASE ConnectionStateChange(metrics)
      BY <3>1, <3>5 DEF ConnectionStateChange
    <3> QED
      BY <1>3, <3>2, <3>3, <3>4, <3>5
  <2>4. ConnectionTypeOK'
    BY <1>1, <2>1, <2>2, <2>3 DEF ConnectionTypeOK
  <2> QED
    BY <2>1, <2>4, ChannelsKept DEF ConnectionInv
<1> QED
  BY <1>2, <1>3

\* A data channel opens: the current one, or there are two.
LEMMA ChannelOpensStep ==
  ASSUME ConnectionInv, NEW i \in DOMAIN channels, ChannelOpens(i), enabled'
  PROVE  ConnectionInv'
<1>1. /\ channels \in Seq(ChannelStates) /\ Len(channels) \in Nat /\ i \in 1 .. Len(channels)
      /\ DOMAIN channels = 1 .. Len(channels) /\ current \in 0 .. Len(channels)
      /\ channels[i] = "connecting" /\ channels' = [channels EXCEPT ![i] = "open"]
      /\ UNCHANGED <<phase, socket, clientId, pc, current, offering, answer, connected>>
  BY LenProperties DEF ConnectionInv, ConnectionTypeOK, ChannelStates, ChannelOpens
<1>2. /\ channels' \in Seq(ChannelStates) /\ Len(channels') = Len(channels)
      /\ channels'[i] = "open"
      /\ \A j \in 1 .. Len(channels) : j # i => channels'[j] = channels[j]
  BY <1>1, ExceptSeq DEF ChannelStates
<1>3. ConnectionTypeOK'
  BY <1>1, <1>2 DEF ConnectionInv, ConnectionTypeOK, ChannelStates
<1>4. current # 0
  BY <1>1 DEF ConnectionInv, NoCurrentNoChannel
<1>5. NoCurrentNoChannel'
  BY <1>1, <1>4 DEF NoCurrentNoChannel
<1>6. CaptureFollowsChannel'
  BY <1>1, <1>2, <1>4 DEF CaptureFollowsChannel
<1> QED
  BY <1>3, <1>5, <1>6 DEF ConnectionInv

\* A data channel closes, and capture is disabled.
LEMMA ChannelClosesStep ==
  ASSUME ConnectionInv, NEW i \in DOMAIN channels, ChannelCloses(i), ~enabled'
  PROVE  ConnectionInv'
<1>1. /\ channels \in Seq(ChannelStates) /\ Len(channels) \in Nat /\ i \in 1 .. Len(channels)
      /\ DOMAIN channels = 1 .. Len(channels) /\ current \in 0 .. Len(channels)
      /\ channels' = [channels EXCEPT ![i] = "closed"]
      /\ UNCHANGED <<phase, socket, clientId, pc, current, offering, answer, connected>>
  BY LenProperties DEF ConnectionInv, ConnectionTypeOK, ChannelStates, ChannelCloses
<1>2. /\ channels' \in Seq(ChannelStates) /\ Len(channels') = Len(channels)
      /\ DOMAIN channels' = 1 .. Len(channels) /\ channels'[i] = "closed"
      /\ \A j \in 1 .. Len(channels) : j # i => channels'[j] = channels[j]
  BY <1>1, ExceptSeq DEF ChannelStates
<1>3. ConnectionTypeOK'
  BY <1>1, <1>2 DEF ConnectionInv, ConnectionTypeOK, ChannelStates
<1>4. NoCurrentNoChannel'
  BY <1>1, <1>2 DEF ConnectionInv, NoCurrentNoChannel
<1>5. ASSUME Len(channels') < 2 PROVE ~ChannelOpen'
  <2>1. current' = 0 \/ current' = i
    BY <1>1, <1>2, <1>5
  <2> QED
    BY <1>2, <2>1 DEF ChannelOpen
<1>6. CaptureFollowsChannel'
  BY <1>5 DEF CaptureFollowsChannel
<1> QED
  BY <1>3, <1>4, <1>6 DEF ConnectionInv

\* WebrtcConnection.close, with capture disabled.
LEMMA CloseStep ==
  ASSUME ConnectionInv, Close, ~enabled'
  PROVE  ConnectionInv'
<1>1. /\ channels \in Seq(ChannelStates) /\ Len(channels) \in Nat
      /\ DOMAIN channels = 1 .. Len(channels)
      /\ current' = 0 /\ pc' = FALSE /\ clientId' = FALSE /\ connected' = FALSE
      /\ socket' = "none" /\ answer' = "none" /\ UNCHANGED <<phase, offering>>
      /\ channels' = [i \in 1 .. Len(channels) |->
                        IF channels[i] = "closed" THEN "closed" ELSE "closing"]
  BY LenProperties DEF ConnectionInv, ConnectionTypeOK, ChannelStates, Close
<1>2. channels' \in Seq(ChannelStates) /\ Len(channels') = Len(channels)
  BY <1>1, IsASeq, LenProperties DEF ChannelStates
<1>3. ConnectionTypeOK'
  <2>1. /\ {clientId', pc', connected'} \subseteq BOOLEAN
        /\ socket' \in {"none", "connecting", "open", "closed"}
        /\ answer' \in {"none", "due", "applied"}
    BY <1>1
  <2>2. phase' \in {"none", "dialling", "ready", "failed"} /\ offering' \in {"no", "creating", "setting"}
    BY <1>1 DEF ConnectionInv, ConnectionTypeOK
  <2>3. Len(channels') <= MaxChannels /\ current' \in 0 .. Len(channels')
    BY <1>1, <1>2 DEF ConnectionInv, ConnectionTypeOK
  <2> QED
    BY <1>2, <2>1, <2>2, <2>3 DEF ConnectionTypeOK, ChannelStates
<1>4. NoCurrentNoChannel'
  BY <1>1 DEF NoCurrentNoChannel
<1>5. CaptureFollowsChannel'
  BY <1>1 DEF CaptureFollowsChannel, ChannelOpen
<1> QED
  BY <1>3, <1>4, <1>5 DEF ConnectionInv

\* Nothing happens to the connection, nor to whether capture is enabled.
LEMMA ConnectionKept ==
  ASSUME ConnectionInv, UNCHANGED <<connectionVars, enabled>>
  PROVE  ConnectionInv'
BY DEF connectionVars, ConnectionInv, ConnectionTypeOK, NoCurrentNoChannel,
       CaptureFollowsChannel, ChannelOpen

-----------------------------------------------------------------------------
(* The display selector. *)

\* A display the user picks is asked for, or the selector stays with the one the
\* client wants.
LEMMA PickStep ==
  ASSUME SelectorInv, NEW id \in DisplayIds, NEW sendable, Pick(id, sendable)
  PROVE  SelectorInv'
<1>1. SelectorTypeOK /\ UNCHANGED <<listed, streamed, failed>>
  BY DEF SelectorInv, Pick
<1>2. CASE sendable
  <2>1. shown' = id /\ wanted' = id /\ requests' = Append(requests, id) /\ missed' = missed
    BY <1>2 DEF Pick, HandleDisplaySelect
  <2>2. requests' \in Seq(DisplayIds) /\ requests'[Len(requests')] = id /\ requests' # <<>>
    BY <1>1, <2>1, AppendProperties DEF SelectorTypeOK
  <2>3. SelectorTypeOK'
    BY <1>1, <2>1, <2>2 DEF SelectorTypeOK
  <2>4. ShownIsAsked'
    BY <2>1, <2>2 DEF ShownIsAsked
  <2> QED
    BY <2>3, <2>4 DEF SelectorInv
<1>3. CASE ~sendable
  <2>1. /\ shown' = IF wanted \in listed THEN wanted ELSE id
        /\ missed' = (missed \/ wanted \notin listed)
        /\ UNCHANGED <<wanted, requests>>
    BY <1>3 DEF Pick, HandleDisplaySelect
  <2>2. missed' \in BOOLEAN /\ (~missed' => ~missed /\ wanted \in listed)
    BY <1>1, <2>1 DEF SelectorTypeOK
  <2>3. SelectorTypeOK'
    BY <1>1, <2>1, <2>2 DEF SelectorTypeOK
  <2>4. ShownIsAsked'
    <3> SUFFICES ASSUME ~failed, ~missed'
                 PROVE  UNCHANGED <<shown, wanted, requests, streamed>> /\ ~missed
      BY <1>1 DEF SelectorInv, ShownIsAsked
    <3> QED
      BY <1>1, <2>1, <2>2 DEF SelectorInv, ShownIsAsked
  <2> QED
    BY <2>3, <2>4 DEF SelectorInv
<1> QED
  BY <1>2, <1>3

\* The list of displays is replaced.
LEMMA ListStep ==
  ASSUME SelectorInv,
         ReloadDisplayList \/ \E ids \in SUBSET DisplayIds : UpdateDisplayList(ids)
  PROVE  SelectorInv'
<1>1. listed' \subseteq DisplayIds
  BY DEF ReloadDisplayList, UpdateDisplayList
<1>2. UNCHANGED <<shown, wanted, requests, streamed, missed, failed>>
  BY DEF ReloadDisplayList, UpdateDisplayList
<1> QED
  BY <1>1, <1>2 DEF SelectorInv, SelectorTypeOK, ShownIsAsked

\* The host tells which display it sends: it is shown and asked for, or is shown
\* already, or is missing from the list.
LEMMA DisplayInfoStep ==
  ASSUME SelectorInv, NEW sendable \in BOOLEAN, DisplayInfo(sendable)
  PROVE  SelectorInv'
<1>1. SelectorTypeOK /\ UNCHANGED <<listed, streamed>> /\ wanted' = streamed
  BY DEF SelectorInv, DisplayInfo
<1>2. CASE streamed \in listed \ {shown}
  <2>1. /\ shown' = streamed /\ missed' = missed
        /\ requests' = IF sendable THEN Append(requests, streamed) ELSE requests
        /\ failed' = (failed \/ ~sendable)
    BY <1>2 DEF DisplayInfo
  <2>2. failed' \in BOOLEAN /\ (~failed' => sendable)
    BY <1>1, <2>1 DEF SelectorTypeOK
  <2>3. Append(requests, streamed) \in Seq(DisplayIds)
        /\ Append(requests, streamed)[Len(Append(requests, streamed))] = streamed
        /\ Append(requests, streamed) # <<>>
    BY <1>1, AppendProperties DEF SelectorTypeOK
  <2>4. SelectorTypeOK'
    BY <1>1, <2>1, <2>2, <2>3 DEF SelectorTypeOK
  <2>5. ShownIsAsked'
    BY <1>1, <2>1, <2>2, <2>3 DEF ShownIsAsked
  <2> QED
    BY <2>4, <2>5 DEF SelectorInv
<1>3. CASE streamed \notin listed \ {shown}
  <2>1. missed' = (missed \/ streamed # shown) /\ UNCHANGED <<shown, requests, failed>>
    BY <1>3 DEF DisplayInfo
  <2>2. missed' \in BOOLEAN /\ (~missed' => ~missed /\ streamed = shown)
    BY <1>1, <2>1 DEF SelectorTypeOK
  <2>3. SelectorTypeOK'
    BY <1>1, <2>1, <2>2 DEF SelectorTypeOK
  <2>4. ShownIsAsked'
    BY <1>1, <2>1, <2>2 DEF SelectorInv, ShownIsAsked
  <2> QED
    BY <2>3, <2>4 DEF SelectorInv
<1> QED
  BY <1>2, <1>3

\* The host switches to the display of the first request: the last one is on its
\* way still, or was this.
LEMMA SwitchSucceedsStep ==
  ASSUME SelectorInv, SwitchSucceeds
  PROVE  SelectorInv'
<1>1. /\ SelectorTypeOK /\ requests # <<>>
      /\ streamed' = Head(requests) /\ requests' = Tail(requests)
      /\ UNCHANGED <<listed, shown, wanted, missed, failed>>
  BY DEF SelectorInv, SwitchSucceeds
<1>2. /\ requests \in Seq(DisplayIds) /\ Len(requests) \in Nat \ {0}
      /\ Head(requests) = requests[1] /\ Head(requests) \in DisplayIds
      /\ Tail(requests) \in Seq(DisplayIds) /\ Len(Tail(requests)) = Len(requests) - 1
      /\ \A i \in 1 .. Len(Tail(requests)) : Tail(requests)[i] = requests[i + 1]
  BY <1>1, HeadTailProperties, EmptySeq, LenProperties DEF SelectorTypeOK
<1>3. SelectorTypeOK'
  BY <1>1, <1>2 DEF SelectorTypeOK
<1>4. (IF requests' = <<>> THEN streamed' ELSE requests'[Len(requests')])
        = requests[Len(requests)]
  <2>1. CASE Len(requests) = 1
    BY <1>1, <1>2, <2>1, EmptySeq
  <2>2. CASE Len(requests) # 1
    <3>1. Len(requests') \in 1 .. Len(requests') /\ Len(requests') + 1 = Len(requests)
      BY <1>1, <1>2, <2>2
    <3>2. requests' # <<>>
      BY <3>1
    <3> QED
      BY <1>1, <1>2, <3>1, <3>2
  <2> QED
    BY <2>1, <2>2
<1>5. ShownIsAsked'
  BY <1>1, <1>4 DEF SelectorInv, ShownIsAsked
<1> QED
  BY <1>3, <1>5 DEF SelectorInv

\* A switch fails, or what is on its way is lost.
LEMMA RequestLostStep ==
  ASSUME SelectorInv, LoseRequests \/ \E sendable \in BOOLEAN : SwitchFails(sendable)
  PROVE  SelectorInv'
<1>1. SelectorTypeOK
  BY DEF SelectorInv
<1>2. CASE LoseRequests
  <2>1. /\ failed' \in BOOLEAN /\ (~failed' => ~failed /\ requests = <<>>)
        /\ requests' = <<>> /\ requests' \in Seq(DisplayIds)
        /\ UNCHANGED <<listed, shown, wanted, streamed, missed>>
    BY <1>1, <1>2, EmptySeq DEF SelectorTypeOK, LoseRequests
  <2> QED
    BY <1>1, <2>1 DEF SelectorInv, SelectorTypeOK, ShownIsAsked
<1>3. CASE \E sendable \in BOOLEAN : SwitchFails(sendable)
  <2>1. PICK sendable \in BOOLEAN : SwitchFails(sendable)
    BY <1>3
  <2>2. /\ requests # <<>> /\ failed' = TRUE /\ UNCHANGED <<listed, wanted, streamed, missed>>
        /\ shown' \in {shown, wanted}
    BY <2>1 DEF SwitchFails
  <2>3. Tail(requests) \in Seq(DisplayIds)
    BY <1>1, <2>2, HeadTailProperties DEF SelectorTypeOK
  <2>4. requests' \in Seq(DisplayIds)
    <3>1. CASE wanted \in listed \ {shown} /\ sendable
      <4>1. requests' = Append(Tail(requests), wanted) /\ wanted \in DisplayIds
        BY <1>1, <2>1, <3>1 DEF SwitchFails, SelectorTypeOK
      <4> QED
        BY <2>3, <4>1, AppendProperties
    <3>2. CASE ~(wanted \in listed \ {shown} /\ sendable)
      BY <2>1, <2>3, <3>2 DEF SwitchFails
    <3> QED
      BY <3>1, <3>2
  <2> QED
    BY <1>1, <2>2, <2>4 DEF SelectorInv, SelectorTypeOK, ShownIsAsked
<1> QED
  BY <1>2, <1>3

\* Nothing happens to the selector.
LEMMA SelectorKept ==
  ASSUME SelectorInv, UNCHANGED selectorVars
  PROVE  SelectorInv'
BY DEF selectorVars, SelectorInv, SelectorTypeOK, ShownIsAsked

-----------------------------------------------------------------------------
(* The page. *)

\* What is initially so.
LEMMA InitIInv == Init => IInv
<1> SUFFICES ASSUME Init PROVE IInv
  OBVIOUS
<1>1. InputInv
  <2>1. {enabled, cut, crowded, cancelled, ghost} \subseteq BOOLEAN
    BY DEF Init, InputInit
  <2>2. releases \in [Buttons -> Nat] /\ \A b \in Buttons : releases[b] = 0
    BY DEF Init, InputInit
  <2>3. touches \in 0 .. MaxTouches /\ fingers \in 0 .. touches /\ tracked \in 0 .. touches
    BY MaxTouchesAssumption DEF Init, InputInit
  <2>4. pressed = {} /\ astray = {} /\ held = {} /\ longPresses = {} /\ ~ghost
    BY DEF Init, InputInit
  <2> QED
    BY <2>1, <2>2, <2>3, <2>4
    DEF InputInv, InputTypeOK, NothingBefore, HeldIsReleased, TimerHasFinger,
        LongPressHasFinger
<1>2. ConnectionInv
  <2>1. channels = <<>> /\ channels \in Seq(ChannelStates) /\ Len(channels) = 0
    BY EmptySeq DEF Init, ConnectionInit, ChannelStates
  <2>2. {clientId, pc, connected} \subseteq BOOLEAN
    BY DEF Init, ConnectionInit
  <2>3. Len(channels) <= MaxChannels /\ current \in 0 .. Len(channels)
    BY <2>1, MaxChannelsAssumption DEF Init, ConnectionInit
  <2>4. ConnectionTypeOK
    BY <2>1, <2>2, <2>3 DEF Init, ConnectionInit, ConnectionTypeOK, ChannelStates
  <2> QED
    BY <2>1, <2>4
    DEF Init, ConnectionInit, InputInit, ConnectionInv, NoCurrentNoChannel,
        CaptureFollowsChannel, ChannelOpen
<1>3. SelectorInv
  BY EmptySeq DEF Init, SelectorInit, SelectorInv, SelectorTypeOK, ShownIsAsked
<1>4. PageTypeOK
  <2>1. {metrics, destroyed} \subseteq BOOLEAN
    BY DEF Init
  <2>2. events \in 0 .. MaxEvents
    BY MaxEventsAssumption DEF Init
  <2> QED
    BY <2>1, <2>2 DEF PageTypeOK
<1> QED
  BY <1>1, <1>2, <1>3, <1>4 DEF IInv

\* What can be sent can be noted first, and whether it can is a fact.
LEMMA SendableAble ==
  ASSUME IInv
  PROVE  /\ Able \in BOOLEAN /\ Sendable \in BOOLEAN /\ (Sendable => Able)
         /\ metrics \in BOOLEAN /\ CanSwitch \in BOOLEAN
BY DEF IInv, PageTypeOK, ConnectionInv, ConnectionTypeOK, Able, Sendable, CanSwitch, ChannelOpen

\* An event is counted up to its bound.
LEMMA EventStep ==
  ASSUME PageTypeOK, Event \/ UNCHANGED <<metrics, destroyed, events>>
  PROVE  PageTypeOK'
BY MaxEventsAssumption DEF PageTypeOK, Event

\* Every step of the page, the network, the user, the timers and the host keeps
\* the invariant of each part.
LEMMA NextIInv == IInv /\ [Next]_vars => IInv'
<1> SUFFICES ASSUME IInv, [Next]_vars PROVE IInv'
  OBVIOUS
<1>0. InputInv /\ ConnectionInv /\ SelectorInv /\ PageTypeOK
  BY DEF IInv
<1>1. CASE Network \/ Page
  <2>1. UNCHANGED <<inputVars, selectorVars, metrics, destroyed, events>>
    BY <1>1 DEF Network, Page, ClientIdle
  <2>2. InputInv' /\ SelectorInv' /\ PageTypeOK'
    BY <1>0, <2>1, InputKept, SelectorKept, EventStep
  <2>3. \/ Initialize \/ SocketOpens \/ SocketMessage \/ Connect \/ OfferCreated \/ OfferSet
        \/ AnswerArrives \/ OnDataChannel \/ ConnectionStateChange(metrics)
    BY <1>1 DEF Network, Page
  <2>4. ConnectionInv'
    BY <1>0, <2>1, <2>3, NetworkStep, SendableAble DEF inputVars
  <2> QED
    BY <2>2, <2>4 DEF IInv
<1>2. CASE DataChannelOpens
  <2>1. PICK i \in DOMAIN channels : ChannelOpens(i)
    BY <1>2 DEF DataChannelOpens
  <2>2. enabled' = TRUE /\ InputInv'
    <3>1. CASE enabled
      <4>1. UNCHANGED inputVars /\ enabled \in BOOLEAN
        BY <1>0, <1>2, <3>1 DEF DataChannelOpens, InputInv, InputTypeOK
      <4> QED
        BY <1>0, <3>1, <4>1, InputKept DEF inputVars
    <3>2. CASE ~enabled
      BY <1>0, <1>2, <3>2, CaptureStep DEF DataChannelOpens, Enable
    <3> QED
      BY <3>1, <3>2
  <2>3. ConnectionInv'
    BY <1>0, <2>1, <2>2, ChannelOpensStep
  <2>4. SelectorInv' /\ PageTypeOK'
    BY <1>0, <1>2, ListStep, EventStep DEF DataChannelOpens
  <2> QED
    BY <2>2, <2>3, <2>4 DEF IInv
<1>3. CASE DataChannelCloses
  <2>1. PICK i \in DOMAIN channels : ChannelCloses(i)
    BY <1>3 DEF DataChannelCloses
  <2>2. ~enabled' /\ InputInv'
    BY <1>0, <1>3, CaptureStep DEF DataChannelCloses, Disable
  <2>3. ConnectionInv'
    BY <1>0, <2>1, <2>2, ChannelClosesStep
  <2>4. SelectorInv' /\ PageTypeOK'
    BY <1>0, <1>3, RequestLostStep, EventStep DEF DataChannelCloses
  <2> QED
    BY <2>2, <2>3, <2>4 DEF IInv
<1>4. CASE Disconnect \/ Destroy
  <2>1. Disable /\ Close /\ LoseRequests
    BY <1>4 DEF Disconnect, Destroy
  <2>2. ~enabled' /\ InputInv'
    BY <1>0, <2>1, CaptureStep DEF Disable
  <2>3. ConnectionInv' /\ SelectorInv'
    BY <1>0, <2>1, <2>2, CloseStep, RequestLostStep
  <2>4. PageTypeOK'
    BY <1>0, <1>4 DEF PageTypeOK, Disconnect, Destroy
  <2> QED
    BY <2>2, <2>3, <2>4 DEF IInv
<1>5. CASE Input
  <2>1. UNCHANGED <<connectionVars, selectorVars>> /\ PageTypeOK'
    BY <1>0, <1>5, EventStep DEF Input
  <2>2. InputInv' /\ enabled' = enabled
    <3>1. CASE \E b \in Buttons : \/ Press(b, Sendable) \/ Release(b, Sendable)
                                 \/ PressElsewhere(b) \/ ReleaseElsewhere(b)
      <4>1. PICK b \in Buttons : \/ Press(b, Sendable) \/ Release(b, Sendable)
                                \/ PressElsewhere(b) \/ ReleaseElsewhere(b)
        BY <3>1
      <4>2. PICK sendable \in BOOLEAN : sendable = Sendable
        BY SendableAble
      <4>3. \/ Press(b, sendable) \/ Release(b, sendable)
            \/ PressElsewhere(b) \/ ReleaseElsewhere(b)
        BY <4>1, <4>2
      <4> QED
        BY <1>0, <4>3, ButtonStep DEF Press, Release, PressElsewhere, ReleaseElsewhere
    <3>2. CASE TouchStart \/ TouchMove
      BY <1>0, <3>2, FingerStep DEF TouchStart, TouchMove
    <3>3. CASE TouchEnd(Able, Sendable)
      <4>1. PICK able \in BOOLEAN, sendable \in BOOLEAN : able = Able /\ sendable = Sendable
        BY SendableAble
      <4>2. TouchEnd(able, sendable) /\ (sendable => able)
        BY <3>3, <4>1, SendableAble
      <4> QED
        BY <1>0, <4>2, TouchEndStep DEF TouchEnd
    <3>4. CASE TouchCancel
      BY <1>0, <3>4, TouchCancelStep DEF TouchCancel
    <3> QED
      BY <1>5, <3>1, <3>2, <3>3, <3>4 DEF Input
  <2> QED
    BY <1>0, <2>1, <2>2, ConnectionKept, SelectorKept DEF IInv
<1>6. CASE Timer
  <2>1. UNCHANGED <<connectionVars, selectorVars, metrics, destroyed, events>>
    BY <1>6 DEF Timer
  <2>2. PICK able \in BOOLEAN, sendable \in BOOLEAN : able = Able /\ sendable = Sendable
    BY SendableAble
  <2>3. sendable => able
    BY <2>2, SendableAble
  <2>4. InputInv' /\ enabled' = enabled
    <3>1. CASE \E i \in longPresses : LongPress(i, Able, Sendable)
      <4>1. PICK i \in longPresses : LongPress(i, able, sendable)
        BY <2>2, <3>1
      <4> QED
        BY <1>0, <2>3, <4>1, LongPressStep DEF LongPress
    <3>2. CASE \E b \in Buttons : TimedRelease(b, Sendable)
      <4>1. PICK b \in Buttons : TimedRelease(b, sendable)
        BY <2>2, <3>2
      <4> QED
        BY <1>0, <4>1, TimedReleaseStep DEF TimedRelease
    <3> QED
      BY <1>6, <3>1, <3>2 DEF Timer
  <2> QED
    BY <1>0, <2>1, <2>4, ConnectionKept, SelectorKept, EventStep DEF IInv
<1>7. CASE Selector \/ HostMessage
  <2>1. UNCHANGED <<connectionVars, inputVars>> /\ PageTypeOK'
    BY <1>0, <1>7, EventStep DEF Selector, HostMessage
  <2>2. PICK sendable \in BOOLEAN : sendable = CanSwitch
    BY SendableAble
  <2>3. SelectorInv'
    <3>1. CASE \E id \in DisplayIds : Pick(id, CanSwitch)
      BY <1>0, <2>2, <3>1, PickStep
    <3>2. CASE ReloadDisplayList \/ \E ids \in SUBSET DisplayIds : UpdateDisplayList(ids)
      BY <1>0, <3>2, ListStep
    <3>3. CASE DisplayInfo(CanSwitch)
      BY <1>0, <2>2, <3>3, DisplayInfoStep
    <3>4. CASE SwitchSucceeds
      BY <1>0, <3>4, SwitchSucceedsStep
    <3>5. CASE SwitchFails(CanSwitch)
      BY <1>0, <2>2, <3>5, RequestLostStep
    <3> QED
      BY <1>7, <3>1, <3>2, <3>3, <3>4, <3>5 DEF Selector, HostMessage
  <2>4. InputInv' /\ ConnectionInv'
    BY <1>0, <2>1, InputKept, ConnectionKept DEF inputVars
  <2> QED
    BY <2>1, <2>3, <2>4 DEF IInv
<1>8. CASE UNCHANGED vars
  BY <1>0, <1>8, InputKept, ConnectionKept, SelectorKept, EventStep DEF vars, inputVars, IInv
<1> QED
  BY <1>1, <1>2, <1>3, <1>4, <1>5, <1>6, <1>7, <1>8 DEF Next

-----------------------------------------------------------------------------
(* The theorems. *)

\* In every state of the page: the parts keep to their types, and what the client
\* and the host believe of each other is as IInv says.
THEOREM Invariance == Spec => []IInv
<1>1. Init => IInv
  BY InitIInv
<1>2. IInv /\ [Next]_vars => IInv'
  BY NextIInv
<1> QED
  BY <1>1, <1>2, PTL DEF Spec

\* The members of the page's parts hold the values they may hold.
THEOREM TypeCorrect == Spec => []TypeOK
<1>1. IInv => TypeOK
  BY DEF IInv, InputInv, ConnectionInv, SelectorInv, PageTypeOK, TypeOK
<1> QED
  BY <1>1, Invariance, PTL

\* Once the user has let go and the timers of input_capture.js have run out, the
\* host holds nothing down but what was let go where no listener hears it, unless
\* the way to it was cut.
THEOREM NothingStaysPressedAlways == Spec => []NothingStaysPressed
<1>1. IInv => NothingStaysPressed
  BY DEF IInv, InputInv, InputTypeOK, HeldIsReleased, NothingStaysPressed
<1> QED
  BY <1>1, Invariance, PTL

\* _onTouchStart's timer clicks for a finger that is there, unless there were two at
\* once, a touch was cancelled or capture was disabled.
THEOREM LongPressHasFingerAlways == Spec => []LongPressHasFinger
<1>1. IInv => LongPressHasFinger
  BY DEF IInv, InputInv
<1> QED
  BY <1>1, Invariance, PTL

\* With one data channel, client.js captures input exactly while it is open.
THEOREM CaptureFollowsChannelAlways == Spec => []CaptureFollowsChannel
<1>1. IInv => CaptureFollowsChannel
  BY DEF IInv, ConnectionInv
<1> QED
  BY <1>1, Invariance, PTL

\* Once every display request was answered, the selector shows what the host
\* sends, unless a switch failed or the display was not listed.
THEOREM ShownIsStreamedAlways == Spec => []ShownIsStreamed
<1>1. IInv => ShownIsStreamed
  BY DEF IInv, SelectorInv, SelectorTypeOK, ShownIsAsked, ShownIsStreamed
<1> QED
  BY <1>1, Invariance, PTL
=============================================================================

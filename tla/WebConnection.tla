---------------------------- MODULE WebConnection ----------------------------
(***************************************************************************)
(* webrtc_connection.js and the part of client.js that drives it:          *)
(* initialize, connect and disconnect of the page against the signalling   *)
(* socket, the PeerConnection and its data channels.  JavaScript runs one  *)
(* handler at a time, so a handler is one step, up to an await that waits  *)
(* for the network.  Media, and the candidates, are left out.              *)
(***************************************************************************)
EXTENDS Naturals, Sequences

CONSTANT MaxChannels    \* bound: data channels of the connection

ASSUME MaxChannelsAssumption == MaxChannels \in Nat

VARIABLES
  phase,      \* initialize(): none, dialling, ready or failed
  socket,     \* signalingSocket: none, connecting, open or closed
  clientId,   \* whether clientId is known
  pc,         \* whether pc is not null
  channels,   \* state of each data channel so far
  current,    \* which of them dataChannel is, 0 when it is null
  offering,   \* where createOffer waits: no, creating or setting
  answer,     \* none, due from the host (to an offer with an id) or applied
  connected   \* client.connected

connectionVars ==
  <<phase, socket, clientId, pc, channels, current, offering, answer, connected>>

ConnectionInit ==
  /\ phase = "none" /\ socket = "none" /\ clientId = FALSE /\ pc = FALSE
  /\ channels = <<>> /\ current = 0 /\ offering = "no" /\ answer = "none"
  /\ connected = FALSE

ChannelOpen == current # 0 /\ channels[current] = "open"

\* The data channel that was there keeps its listeners.
AddChannel ==
  /\ Len(channels) < MaxChannels
  /\ channels' = Append(channels, "connecting")
  /\ current' = Len(channels) + 1

-----------------------------------------------------------------------------
(* initialize(): the socket, then the PeerConnection. *)

Initialize ==
  /\ phase = "none"
  /\ phase' = "dialling" /\ socket' = "connecting"
  /\ UNCHANGED <<clientId, pc, channels, current, offering, answer, connected>>

\* initialize goes on even if disconnect() let go of the socket meanwhile.
SocketOpens ==
  /\ phase = "dialling"
  /\ \/ socket = "connecting" /\ phase' = "ready" /\ socket' = "open" /\ pc' = TRUE
     \/ phase' = "failed" /\ UNCHANGED pc
        /\ socket' = IF socket = "connecting" THEN "closed" ELSE socket
  /\ UNCHANGED <<clientId, channels, current, offering, answer, connected>>

\* The join message, or the end of the socket, which is only reported.
SocketMessage ==
  /\ socket = "open"
  /\ \/ ~clientId /\ clientId' = TRUE /\ UNCHANGED socket
     \/ socket' = "closed" /\ UNCHANGED clientId
  /\ UNCHANGED <<phase, pc, channels, current, offering, answer, connected>>

-----------------------------------------------------------------------------
(* connect(): createOffer. *)

\* Without a PeerConnection connect() fails; after a disconnect it always does.
Connect ==
  /\ offering = "no" /\ pc
  /\ AddChannel
  /\ offering' = "creating"
  /\ UNCHANGED <<phase, socket, clientId, pc, answer, connected>>

\* close() during an await ends the call, by a TypeError or for want of an answer.
OfferCreated ==
  /\ offering = "creating"
  /\ offering' = IF pc THEN "setting" ELSE "no"
  /\ UNCHANGED <<phase, socket, clientId, pc, channels, current, answer, connected>>

\* An offer without an id is dropped by the host, one without a socket here;
\* connect() does not tell.
OfferSet ==
  /\ offering = "setting"
  /\ offering' = "no"
  /\ answer' = IF pc /\ socket = "open" /\ clientId THEN "due" ELSE answer
  /\ UNCHANGED <<phase, socket, clientId, pc, channels, current, connected>>

AnswerArrives ==
  /\ answer = "due" /\ socket = "open" /\ pc
  /\ answer' = "applied"
  /\ UNCHANGED <<phase, socket, clientId, pc, channels, current, offering, connected>>

\* The host announces a data channel of its own.
OnDataChannel ==
  /\ pc /\ answer = "applied"
  /\ AddChannel
  /\ UNCHANGED <<phase, socket, clientId, pc, offering, answer, connected>>

-----------------------------------------------------------------------------
(* Events of the PeerConnection and its channels, up to the callbacks. *)

ChannelOpens(i) ==
  /\ pc /\ answer = "applied" /\ channels[i] = "connecting"
  /\ channels' = [channels EXCEPT ![i] = "open"]
  /\ UNCHANGED <<phase, socket, clientId, pc, current, offering, answer, connected>>

ChannelCloses(i) ==
  /\ channels[i] # "closed"
  /\ channels' = [channels EXCEPT ![i] = "closed"]
  /\ UNCHANGED <<phase, socket, clientId, pc, current, offering, answer, connected>>

\* The metrics display is asked first; without one the handler ends there.
ConnectionStateChange(metrics) ==
  /\ pc /\ answer = "applied"
  /\ connected' \in IF metrics THEN BOOLEAN ELSE {connected}
  /\ UNCHANGED <<phase, socket, clientId, pc, channels, current, offering, answer>>

\* WebrtcConnection.close, and the end of RemoteDesktopClient.disconnect.  The
\* channels may report their end later, or never.
Close ==
  /\ current' = 0 /\ pc' = FALSE /\ clientId' = FALSE /\ connected' = FALSE
  /\ socket' = "none"
  /\ channels' = [i \in DOMAIN channels |->
                    IF channels[i] = "closed" THEN "closed" ELSE "closing"]
  /\ answer' = "none"
  /\ UNCHANGED <<phase, offering>>

ConnectionTypeOK ==
  /\ phase \in {"none", "dialling", "ready", "failed"}
  /\ socket \in {"none", "connecting", "open", "closed"}
  /\ {clientId, pc, connected} \subseteq BOOLEAN
  /\ channels \in Seq({"connecting", "open", "closing", "closed"})
  /\ Len(channels) <= MaxChannels /\ current \in 0 .. Len(channels)
  /\ offering \in {"no", "creating", "setting"} /\ answer \in {"none", "due", "applied"}
=============================================================================

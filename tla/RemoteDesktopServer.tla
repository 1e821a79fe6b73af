------------------------- MODULE RemoteDesktopServer -------------------------
(***************************************************************************)
(* The coordinator (server/remote_desktop_server.cpp) composed with the    *)
(* signalling server, the transport callbacks it registers and the capture *)
(* thread it starts, and with the HTTP server.                             *)
(*                                                                         *)
(* Threads: "api" calls initialize, start, stop and shutdown (all four run *)
(* wholly under mutex_, so one caller stands for any number), "accept" and *)
(* the sockets' threads come from SignalingServer, "pc" runs the callbacks *)
(* of the PeerConnection one at a time, the capture thread runs            *)
(* captureLoop and the listener httplib's Server::listen.                  *)
(*                                                                         *)
(* WebrtcTransportImpl::callback_mutex_ is held by "pc" for the whole of a *)
(* callback and by no one else while "pc" exists, so it never blocks       *)
(* anyone but the closing of the PeerConnection, which waits for the       *)
(* callback anyway.                                                        *)
(*                                                                         *)
(* A step that uses an object that is gone sets fault, and a joinable      *)
(* std::thread that is lost terminates the program; either ends the        *)
(* behaviour.                                                              *)
(***************************************************************************)
EXTENDS SignalingServer, HttpServer

CONSTANT MaxCalls      \* bound: API calls the owner makes

ASSUME MaxCallsAssumption == MaxCalls \in Nat
\* Clients name their sockets' threads beside the three others.
ASSUME ThreadNamesAssumption == Clients \cap {"api", "accept", "pc"} = {}

VARIABLES
  apiAt,       \* where the API thread stands
  apiFor,      \* the operation it is running
  calls,       \* number of API calls made
  running,     \* running_
  httpAlive,   \* http_server_ is there
  capture,     \* screen_capture_: null, ready or capturing
  loop,        \* capture_thread_ and where captureLoop stands
  transport,   \* webrtc_transport_: null or live
  connState,   \* WebrtcTransportImpl::state_
  linked,      \* whether the PeerConnection has been connected
  remote,      \* whose offer the PeerConnection took last
  pending,     \* clients for whose offer a local candidate is still to come
  video,       \* video_source_ and its track: none, track, destroyed
  pcAt,        \* where the PeerConnection's callback thread stands
  current,     \* current_client_id_
  tornDown,    \* history: shutdown() was called
  fault        \* what a step found missing

apiVars == <<apiAt, apiFor, calls>>
webVars == <<httpAlive, httpVars>>
partVars == <<running, webVars, capture, loop>>
rtcVars == <<transport, connState, linked, remote, pending, video, pcAt>>
ghostVars == <<tornDown, fault>>
rdsVars == <<apiVars, partVars, rtcVars, current, ghostVars>>
vars == <<sigVars, rdsVars>>

ApiLabels == {"idle", "start_signaling", "start_capture", "start_join", "stop_join",
              "http_stop", "http_join", "http_destroy",
              "sig_stop", "sig_clear", "sig_join", "close", "destroy"}
\* "undo" is start() after its capture failed, when both servers are stopped again.
Operations == {"none", "start", "undo", "stop", "shutdown"}
ConnStates == {"kNew", "kChecking", "kConnected", "kDisconnected", "kFailed", "kClosed"}
Faults == {"none", "start_capture", "loop_capture", "transport", "signaling"}

Init ==
  /\ SigInit /\ HttpInit
  /\ apiAt = "idle" /\ apiFor = "none" /\ calls = 0
  /\ running = FALSE /\ httpAlive = FALSE /\ capture = "null" /\ loop = "none"
  /\ transport = "null" /\ connState = "kNew" /\ linked = FALSE
  /\ remote = NoClient /\ pending = {} /\ video = "none" /\ pcAt = "idle"
  /\ current = NoClient
  /\ tornDown = FALSE /\ fault = "none"

-----------------------------------------------------------------------------
(* Mutexes: who holds them, who waits for whom. *)

\* mutex_ of the coordinator: every API operation, onOfferReceived, and
\* onIceCandidate while it sends.  onClientDisconnected holds it for one step.
ServerHolders ==
  (IF apiAt # "idle" THEN {"api"} ELSE {})
    \cup {c \in Clients : at[c] = "offer_answer"}
    \cup (IF pcAt = "send" THEN {"pc"} ELSE {})
ServerFree == ServerHolders = {}

\* Mutant: onClientDisconnected keeps clients_mutex_ while it calls back.
ClientsHoldersInCallback ==
  (IF apiAt = "sig_join" THEN {"api"} ELSE {})
    \cup {c \in Clients : at[c] \in {"bye_notify", "bye_call"}}

\* clients_mutex_ is held for longer than a step only by stop(), while
\* server_->stop() joins the accept thread.
ClientsHolders == IF apiAt = "sig_join" THEN {"api"} ELSE {}
ClientsFree == ClientsHolders = {}

Threads == {"api", "accept", "pc"} \cup Clients

WaitsFor(t) ==
  CASE t = "api" ->
         (IF apiAt = "sig_join" /\ acc # "accept" THEN {"accept"} ELSE {})
           \cup (IF apiAt = "close" /\ pcAt # "idle" THEN {"pc"} ELSE {})
    [] t = "accept" -> IF acc = "insert" THEN ClientsHolders ELSE {}
    [] t = "pc" -> CASE pcAt = "candidate" -> ServerHolders
                     [] pcAt = "send" -> ClientsHolders
                     [] OTHER -> {}
    [] OTHER -> CASE at[t] \in {"offer", "ice", "bye_notify"} -> CallbackHolders
                  [] at[t] \in {"offer_call", "bye_call"} -> ServerHolders
                  [] at[t] \in {"answer", "bye", "leave"} -> ClientsHolders
                  [] OTHER -> {}

-----------------------------------------------------------------------------
(* The transport, as the coordinator uses it. *)

\* A new transport is initialized: a PeerConnection that has seen no offer.
InitializeTransport ==
  /\ transport' = "live" /\ connState' = "kNew" /\ linked' = FALSE
  /\ remote' = NoClient /\ pending' = {}

\* The offer of client c: taken, after which candidates are gathered for it; or
\* empty, which changes nothing; or an exception, which leaves state_ at kFailed.
SetRemoteDescription(c, result) ==
  /\ remote' = IF result = "ok" THEN c ELSE remote
  /\ pending' = IF result = "ok" THEN pending \cup {c} ELSE pending
  /\ connState' = IF result = "exception" THEN "kFailed" ELSE connState

RtcStates == {"New", "Connecting", "Connected", "Failed", "Disconnected", "Closed"}
MapConnectionState(state) ==
  CASE state = "New" -> "kNew"
    [] state = "Connecting" -> "kChecking"
    [] state = "Connected" -> "kConnected"
    [] state = "Failed" -> "kFailed"
    [] state = "Disconnected" -> "kDisconnected"
    [] state = "Closed" -> "kClosed"

-----------------------------------------------------------------------------
(* ISignalingCallback, on the sockets' threads. *)

\* Mutant: the result of setRemoteDescription is not looked at.
ApplyOfferUnchecked(c) ==
  /\ at[c] = "offer_call" /\ home[c] = "live" /\ ServerFree /\ transport = "live"
  /\ current' = c
  /\ \E result \in {"ok", "empty", "exception"} : SetRemoteDescription(c, result)
  /\ GoTo(c, "offer_answer")
  /\ UNCHANGED <<serverVars, registryVars, acceptVars, socketVars, answer, answered,
                 apiVars, partVars, transport, linked, video, pcAt, ghostVars>>

\* onOfferReceived up to setRemoteDescription.  The client becomes current
\* before its offer is known to be good; an offer that is refused gets the empty
\* answer.
ApplyOffer(c) ==
  /\ at[c] = "offer_call" /\ home[c] = "live" /\ ServerFree
  /\ current' = c
  /\ IF transport = "null"
       THEN /\ fault' = "transport"
            /\ UNCHANGED <<at, connState, remote, pending>>
       ELSE /\ \E result \in {"ok", "empty", "exception"} :
                 /\ SetRemoteDescription(c, result)
                 /\ GoTo(c, IF result = "ok" THEN "offer_answer" ELSE "idle")
            /\ UNCHANGED fault
  /\ UNCHANGED <<serverVars, registryVars, acceptVars, socketVars, answer, answered,
                 apiVars, partVars, transport, linked, video, pcAt, tornDown>>

\* createAnswer and the return to handleOffer.  The answer is made from the remote
\* description in place; a transport that is closed or failed refuses, and an
\* answer that comes out empty is an error, both of which leave state_ alone; an
\* exception sets it to kFailed.
CreateAnswer(c) ==
  /\ at[c] = "offer_answer" /\ home[c] = "live"
  /\ \/ /\ connState \notin {"kClosed", "kFailed"}
        /\ connState' = "kChecking" /\ answer' = [answer EXCEPT ![c] = remote]
        /\ GoTo(c, "answer")
     \/ /\ \/ UNCHANGED connState
           \/ connState \notin {"kClosed", "kFailed"} /\ connState' = "kFailed"
        /\ GoTo(c, "idle")
        /\ UNCHANGED answer
  /\ UNCHANGED <<serverVars, registryVars, acceptVars, socketVars, answered,
                 apiVars, partVars, transport, linked, remote, pending, video,
                 pcAt, current, ghostVars>>

\* onIceCandidateReceived uses the transport without taking mutex_.
AddIceCandidate(c) ==
  /\ at[c] = "ice_call" /\ home[c] = "live"
  /\ IF transport = "null" THEN fault' = "transport" ELSE UNCHANGED fault
  /\ GoTo(c, "idle")
  /\ UNCHANGED <<serverVars, registryVars, acceptVars, socketVars, answer, answered,
                 apiVars, partVars, rtcVars, current, tornDown>>

\* Mutant: current_client_id_ is left alone.
ForgetClientNot(c) ==
  /\ at[c] = "bye_call" /\ home[c] = "live" /\ ServerFree
  /\ GoTo(c, "leave")
  /\ UNCHANGED <<serverVars, registryVars, acceptVars, socketVars, answer, answered,
                 apiVars, partVars, rtcVars, current, ghostVars>>

\* onClientDisconnected.
ForgetClient(c) ==
  /\ at[c] = "bye_call" /\ home[c] = "live" /\ ServerFree
  /\ current' = IF current = c THEN NoClient ELSE current
  /\ GoTo(c, "leave")
  /\ UNCHANGED <<serverVars, registryVars, acceptVars, socketVars, answer, answered,
                 apiVars, partVars, rtcVars, ghostVars>>

UseDestroyedSignaling(c) ==
  /\ RunsOnDestroyed(c)
  /\ fault' = "signaling"
  /\ UNCHANGED <<sigVars, apiVars, partVars, rtcVars, current, tornDown>>

-----------------------------------------------------------------------------
(* Callbacks of the transport, on the thread "pc". *)

\* onLocalCandidate: the transport's callback_mutex_ is taken and
\* onIceCandidate called, which asks for mutex_.
LocalCandidate(c) ==
  /\ transport = "live" /\ pcAt = "idle" /\ c \in pending
  /\ pending' = pending \ {c}
  /\ pcAt' = "candidate"
  /\ UNCHANGED <<sigVars, apiVars, partVars, transport, connState, linked, remote,
                 video, current, ghostVars>>

OnIceCandidate ==
  /\ pcAt = "candidate" /\ ServerFree
  /\ pcAt' = IF current # NoClient /\ alive THEN "send" ELSE "idle"
  /\ UNCHANGED <<sigVars, apiVars, partVars, transport, connState, linked, remote,
                 pending, video, current, ghostVars>>

\* sendIceCandidate only looks the client up and writes to its socket.
SendIceCandidate ==
  /\ pcAt = "send" /\ ClientsFree
  /\ pcAt' = "idle"
  /\ UNCHANGED <<sigVars, apiVars, partVars, transport, connState, linked, remote,
                 pending, video, current, ghostVars>>

\* A disconnection, from which ICE may recover, destroys the video source as the
\* end of the connection does; nothing creates another.
OnWebrtcStateChange(state) ==
  video' = IF state \in {"kDisconnected", "kClosed"} /\ video = "track"
             THEN "destroyed" ELSE video

\* onStateChange of a PeerConnection that nobody here has closed.  A connection
\* needs a browser that got an answer, its interruption and its end need one that
\* was made.
StateChange(s) ==
  /\ transport = "live" /\ pcAt = "idle" /\ remote # NoClient
  /\ s # "New" /\ connState \notin {"kClosed", MapConnectionState(s)}
  /\ s = "Connected" => \E c \in Clients : answered[c] # {}
  /\ s \in {"Disconnected", "Closed"} => linked
  /\ linked' = (linked \/ s = "Connected")
  /\ connState' = MapConnectionState(s)
  /\ OnWebrtcStateChange(connState')
  /\ UNCHANGED <<sigVars, apiVars, partVars, transport, remote, pending, pcAt,
                 current, ghostVars>>

\* onOpen and onClosed of the data channel, which a connection brought, store
\* states too, of which the coordinator is not told.
DataChannelChange ==
  /\ transport = "live" /\ pcAt = "idle" /\ linked
  /\ \/ connState' = "kConnected"
     \/ connState = "kConnected" /\ connState' = "kDisconnected"
  /\ UNCHANGED <<sigVars, apiVars, partVars, transport, linked, remote, pending, video,
                 pcAt, current, ghostVars>>

-----------------------------------------------------------------------------
(* captureLoop. *)

LoopTest ==
  /\ loop = "top"
  /\ loop' = IF running THEN "frame" ELSE "exited"
  /\ UNCHANGED <<sigVars, apiVars, running, webVars, capture, rtcVars, current, ghostVars>>

NextFrame ==
  /\ loop = "frame"
  /\ IF capture = "null" THEN fault' = "loop_capture" ELSE UNCHANGED fault
  /\ loop' = "top"
  /\ UNCHANGED <<sigVars, apiVars, running, webVars, capture, rtcVars, current, tornDown>>

-----------------------------------------------------------------------------
(* The API thread. *)

CanCall == apiAt = "idle" /\ ServerFree /\ calls < MaxCalls /\ calls' = calls + 1

\* Continue operation op, still holding mutex_, at label.
ApiGo(op, label) == apiFor' = op /\ apiAt' = label
ApiReturn == ApiGo("none", "idle")

\* A HttpServerImpl replaces the one there was, whose pointer is overwritten.
HttpReplace ==
  /\ httpAlive' = TRUE
  /\ httpRunning' = FALSE /\ listener' = "none" /\ joinable' = FALSE
  /\ decommissioned' = FALSE
  /\ UNCHANGED terminated

\* initialize(), on a server that has no transport.  It is refused for its
\* ports, or has no HTTP server and touches nothing else; or a part after the
\* signalling server cannot be had, and both servers stay behind; or it succeeds,
\* with or without a video source.
Initialize ==
  /\ CanCall /\ UNCHANGED <<apiAt, apiFor>>
  /\ ~running /\ transport = "null"
  /\ \/ /\ httpAlive' \in {httpAlive, FALSE}
        /\ UNCHANGED <<sigVars, httpVars, capture, transport, video, connState, linked,
                       remote, pending>>
     \/ /\ SigReplace(TRUE) /\ HttpReplace /\ capture' = "null"
        /\ UNCHANGED <<transport, video, connState, linked, remote, pending>>
     \/ /\ SigReplace(TRUE) /\ HttpReplace /\ capture' = "ready"
        /\ InitializeTransport /\ video' \in {"none", "track"}
  /\ UNCHANGED <<running, loop, pcAt, current, ghostVars>>

\* start() up to HttpServer::start, which returns before its thread listens.
CallStart ==
  /\ CanCall
  /\ IF running \/ ~httpAlive \/ ~alive
       THEN UNCHANGED <<apiAt, apiFor, httpVars>>
       ELSE \/ HttpStart /\ ApiGo("start", "start_signaling")
            \/ HttpStartFails /\ UNCHANGED <<apiAt, apiFor>>
  /\ UNCHANGED <<sigVars, running, httpAlive, capture, loop, rtcVars, current, ghostVars>>

\* Mutant: the HTTP server is left up when the signalling server fails.
StartSignalingKeepsHttp ==
  /\ apiAt = "start_signaling"
  /\ \/ SigStart /\ ApiGo("start", "start_capture")
     \/ ApiReturn /\ UNCHANGED sigVars
  /\ UNCHANGED <<calls, partVars, rtcVars, current, ghostVars>>

\* A failure stops the HTTP server again.
StartSignaling ==
  /\ apiAt = "start_signaling"
  /\ \/ SigStart /\ ApiGo("start", "start_capture")
     \/ ApiGo("start", "http_stop") /\ UNCHANGED sigVars
  /\ UNCHANGED <<calls, partVars, rtcVars, current, ghostVars>>

\* No display, a bad display id or a capture that does not start stop both
\* servers, the HTTP server first.  Otherwise running_ is set before
\* capture_thread_ is assigned, and the assignment joins the thread
\* capture_thread_ still stands for.
StartCapture ==
  /\ apiAt = "start_capture"
  /\ IF capture = "null"
       THEN fault' = "start_capture" /\ UNCHANGED <<apiAt, apiFor, running, capture, loop>>
       ELSE /\ \/ ApiGo("undo", "http_stop") /\ UNCHANGED <<running, capture, loop>>
               \/ /\ capture' = "capturing" /\ running' = TRUE
                  /\ IF loop = "none"
                       THEN loop' = "top" /\ ApiReturn
                       ELSE UNCHANGED loop /\ ApiGo("start", "start_join")
            /\ UNCHANGED fault
  /\ UNCHANGED <<sigVars, calls, webVars, rtcVars, current, tornDown>>

StartJoin ==
  /\ apiAt = "start_join" /\ loop = "exited"
  /\ loop' = "top" /\ ApiReturn
  /\ UNCHANGED <<sigVars, calls, running, webVars, capture, rtcVars, current, ghostVars>>

\* Mutant: running_ is still set when the capture thread is joined.
CallStopKeepsRunning ==
  /\ CanCall
  /\ IF running THEN ApiGo("stop", "stop_join") ELSE UNCHANGED <<apiAt, apiFor>>
  /\ UNCHANGED <<sigVars, partVars, rtcVars, current, ghostVars>>

CallStop ==
  /\ CanCall
  /\ running' = FALSE
  /\ IF running THEN ApiGo("stop", "stop_join") ELSE UNCHANGED <<apiAt, apiFor>>
  /\ UNCHANGED <<sigVars, webVars, capture, loop, rtcVars, current, ghostVars>>

\* stop() joins the capture thread before it touches anything else.
StopJoin ==
  /\ apiAt = "stop_join" /\ loop = "exited"
  /\ loop' = "none"
  /\ capture' = IF capture = "capturing" THEN "ready" ELSE capture
  /\ ApiGo("stop", "sig_stop")
  /\ UNCHANGED <<sigVars, calls, running, webVars, rtcVars, current, ghostVars>>

\* What the operation does after HttpServer::stop() returns: start() that could not
\* have the signalling server, and stop(), are done.
AfterHttpStop ==
  \/ apiFor = "undo" /\ ApiGo("undo", "sig_stop")
  \/ apiFor = "shutdown" /\ ApiGo("shutdown", "http_destroy")
  \/ apiFor \notin {"undo", "shutdown"} /\ ApiReturn

\* http_server_->stop(), with mutex_ held until httplib's thread was joined.
HttpServerStop ==
  /\ apiAt = "http_stop"
  /\ HttpStop
  /\ IF httpRunning THEN ApiGo(apiFor, "http_join") ELSE AfterHttpStop
  /\ UNCHANGED <<sigVars, calls, running, httpAlive, capture, loop, rtcVars, current,
                 ghostVars>>

HttpServerJoin ==
  /\ apiAt = "http_join"
  /\ HttpJoin
  /\ AfterHttpStop
  /\ UNCHANGED <<sigVars, calls, running, httpAlive, capture, loop, rtcVars, current,
                 ghostVars>>

\* What it does after SignalingServer::stop() returns.
AfterSigStop ==
  /\ IF apiFor = "stop" THEN ApiGo("stop", "http_stop") ELSE ApiReturn
  /\ IF apiFor = "shutdown" THEN SigReplace(FALSE) ELSE UNCHANGED sigVars

\* SignalingServer::stop, and ~SignalingServer in shutdown().
SigStop ==
  /\ apiAt = "sig_stop"
  /\ IF sigRunning
       THEN /\ sigRunning' = FALSE
            /\ ApiGo(apiFor, "sig_clear")
            /\ UNCHANGED <<alive, accepting, registryVars, acceptVars, socketVars,
                           threadVars>>
       ELSE AfterSigStop
  /\ UNCHANGED <<calls, partVars, rtcVars, current, ghostVars>>

\* The API thread is the only one to hold clients_mutex_ across steps.
SigStopClear ==
  /\ apiAt = "sig_clear"
  /\ SigClear
  /\ ApiGo(apiFor, "sig_join")
  /\ UNCHANGED <<calls, partVars, rtcVars, current, ghostVars>>

\* Mutant: stop() does not wait for the accept thread.
SigStopJoinless ==
  /\ apiAt = "sig_join"
  /\ AfterSigStop
  /\ UNCHANGED <<calls, partVars, rtcVars, current, ghostVars>>

\* Mutant: stop() resets signaling_server_ as shutdown() does.
SigStopJoinResets ==
  /\ apiAt = "sig_join" /\ acc = "accept"
  /\ ApiReturn /\ SigReplace(FALSE)
  /\ UNCHANGED <<calls, partVars, rtcVars, current, ghostVars>>

\* server_->stop() joins the accept thread; clients_mutex_ is still held.
SigStopJoin ==
  /\ apiAt = "sig_join" /\ acc = "accept"
  /\ AfterSigStop
  /\ UNCHANGED <<calls, partVars, rtcVars, current, ghostVars>>

\* shutdown() clears running_ and does not join the capture thread.
CallShutdown ==
  /\ CanCall
  /\ running' = FALSE /\ tornDown' = TRUE
  /\ ApiGo("shutdown", IF transport = "live" THEN "close" ELSE "destroy")
  /\ UNCHANGED <<sigVars, webVars, capture, loop, rtcVars, current, fault>>

\* WebrtcTransportImpl::shutdown and the destruction of transport and video
\* source.  Closing a PeerConnection waits for a callback in flight; after it
\* there are no callbacks.
CloseTransport ==
  /\ apiAt = "close" /\ pcAt = "idle"
  /\ transport' = "null" /\ pending' = {}
  /\ video' = IF video = "track" THEN "destroyed" ELSE video
  /\ ApiGo("shutdown", "destroy")
  /\ UNCHANGED <<sigVars, calls, partVars, connState, linked, remote, pcAt, current,
                 ghostVars>>

\* Screen capture and encoder are destroyed; then the HTTP server is stopped ...
DestroyParts ==
  /\ apiAt = "destroy"
  /\ capture' = "null"
  /\ ApiGo("shutdown", IF httpAlive THEN "http_stop" ELSE "sig_stop")
  /\ UNCHANGED <<sigVars, calls, running, webVars, loop, rtcVars, current, ghostVars>>

\* ... and destroyed; the signalling server is next.
DestroyHttpServer ==
  /\ apiAt = "http_destroy"
  /\ HttpDestroy /\ httpAlive' = FALSE
  /\ ApiGo("shutdown", "sig_stop")
  /\ UNCHANGED <<sigVars, calls, running, capture, loop, rtcVars, current, ghostVars>>

-----------------------------------------------------------------------------
Sig(A) == A /\ UNCHANGED rdsVars

Network(c) ==
  \/ Dial(c) \/ Handshake(c) \/ ReadJoin(c) \/ Hangup(c)
  \/ BrowserSends(c, "offer") \/ BrowserSends(c, "ice-candidate")

SocketThread(c) ==
  \/ Sig(OnOpen(c)) \/ Sig(OnMessage(c)) \/ Sig(OnClosed(c)) \/ Sig(TakeCallback(c))
  \/ Sig(SendAnswer(c, ClientsFree))
  \/ Sig(EraseClient(c, ClientsFree)) \/ Sig(BroadcastLeave(c, ClientsFree))
  \/ ApplyOffer(c) \/ CreateAnswer(c) \/ AddIceCandidate(c) \/ ForgetClient(c)
  \/ UseDestroyedSignaling(c)

AcceptThread ==
  \/ \E c \in Clients : Sig(Accept(c))
  \/ Sig(InsertClient(ClientsFree)) \/ Sig(HookClient)

PcThread == OnIceCandidate \/ SendIceCandidate
PcEvent == \/ \E c \in Clients : LocalCandidate(c)
           \/ \E s \in RtcStates : StateChange(s)
           \/ DataChannelChange

CaptureThread == LoopTest \/ NextFrame

Listener(A) ==
  A /\ UNCHANGED <<sigVars, apiVars, running, httpAlive, capture, loop, rtcVars, current,
                   ghostVars>>

ApiCall == Initialize \/ CallStart \/ CallStop \/ CallShutdown
ApiThread ==
  \/ StartSignaling \/ StartCapture \/ StartJoin \/ StopJoin
  \/ SigStop \/ SigStopClear \/ SigStopJoin
  \/ HttpServerStop \/ HttpServerJoin \/ DestroyHttpServer
  \/ CloseTransport \/ DestroyParts

Executing == fault = "none" /\ ~terminated

Next ==
  /\ Executing
  /\ \/ \E c \in Clients : Sig(Network(c)) \/ SocketThread(c)
     \/ AcceptThread \/ PcThread \/ PcEvent \/ CaptureThread
     \/ Listener(HttpThread) \/ Listener(HttpTrouble)
     \/ ApiCall \/ ApiThread

\* Every thread that can run is eventually scheduled.  Nothing obliges browsers,
\* the network or the owner of the server to do anything.
Fairness ==
  /\ \A c \in Clients : WF_vars(Executing /\ SocketThread(c))
  /\ WF_vars(Executing /\ AcceptThread)
  /\ WF_vars(Executing /\ PcThread)
  /\ WF_vars(Executing /\ CaptureThread)
  /\ WF_vars(Executing /\ Listener(HttpThread))
  /\ WF_vars(Executing /\ ApiThread)

Spec == Init /\ [][Next]_vars /\ Fairness
-----------------------------------------------------------------------------
(* What must hold. *)

SigTypeOK ==
  /\ alive \in BOOLEAN /\ sigRunning \in BOOLEAN /\ accepting \in BOOLEAN
  /\ clients \in SUBSET Clients /\ count \in Nat
  /\ acc \in AcceptLabels /\ accClient \in Clients \cup {NoClient}
  /\ acc # "accept" => accClient \in Clients
  /\ ws \in [Clients -> SocketStates]
  /\ home \in [Clients -> {"none", "live", "dangling"}]
  /\ joined \in [Clients -> {"no", "sent", "read"}]
  /\ inbox \in [Clients -> Seq(Messages)]
  /\ sent \in [Clients -> 0..MaxMessages]
  /\ at \in [Clients -> SocketLabels]
  /\ answer \in [Clients -> Clients \cup {NoClient}]
  /\ answered \in [Clients -> SUBSET (Clients \cup {NoClient})]

\* The type invariant of the coordinator and of the signalling server.
TypeOK ==
  /\ SigTypeOK /\ HttpTypeOK
  /\ apiAt \in ApiLabels /\ apiFor \in Operations /\ calls \in 0..MaxCalls
  /\ running \in BOOLEAN /\ httpAlive \in BOOLEAN
  /\ capture \in {"null", "ready", "capturing"}
  /\ loop \in {"none", "top", "frame", "exited"}
  /\ transport \in {"null", "live"} /\ connState \in ConnStates
  /\ linked \in BOOLEAN
  /\ remote \in Clients \cup {NoClient} /\ pending \in SUBSET Clients
  /\ video \in {"none", "track", "destroyed"}
  /\ pcAt \in {"idle", "candidate", "send"}
  /\ current \in Clients \cup {NoClient}
  /\ tornDown \in BOOLEAN /\ fault \in Faults

\* One PeerConnection serves every browser, and offers of several browsers are
\* handled on several threads; still the answer a browser gets was made from
\* its own offer (handleOffer holds callback_mutex_ around onOfferReceived,
\* which holds mutex_ from setRemoteDescription to createAnswer).
AnswersMatchOffers == \A c \in Clients : answered[c] \subseteq {c}

\* Once the disconnection of a browser has been handled it is in no registry
\* and is not the target of candidates, whatever offers were in progress
\* (onClientDisconnected of both classes).
DepartedAreForgotten ==
  \A c \in Clients : at[c] = "gone" => current # c /\ c \notin clients

\* As long as shutdown() has not been called, no interleaving of browsers,
\* callbacks, start() and stop() uses an object that is not there.  The one
\* exception is start() after an initialize() that failed, which left the two
\* servers but neither capture nor transport.
FaultsNeedTearDown ==
  fault # "none" =>
    tornDown \/ (capture = "null" /\ fault \in {"start_capture", "transport"})

\* The services start and stop together: between API calls a running coordinator
\* has its signalling server, its capture and the thread of that, and a listener of
\* its HTTP server that serves, will, or has ended by a failure of its own that
\* nobody is told of; one that is not running has left no socket open and no
\* listener behind, whichever step of start() failed.
ServicesTogether ==
  apiAt = "idle" =>
    IF running
      THEN /\ sigRunning /\ accepting
           /\ capture = "capturing" /\ loop \in {"top", "frame"}
           /\ \/ httpRunning /\ listener \in {"spawned", "accepting"}
              \/ httpRunning /\ listener = "ended" /\ decommissioned
              \/ ~httpRunning /\ listener = "ended"
      ELSE /\ ~sigRunning /\ ~accepting
           /\ listener \in {"none", "ended"}

\* Browsers the accept thread has let in; stop() empties clients, and leaves their
\* sockets and callbacks.
Admitted == {c \in Clients : home[c] # "none" \/ (acc = "hook" /\ accClient = c)}

Stage(c) ==
  IF c \in clients THEN "member"
  ELSE IF at[c] \in {"leave", "gone"} THEN "departed"
  ELSE IF c \in Admitted THEN "cut" ELSE "new"

\* The server as SignalingService describes it: what a thread does between two
\* changes of registry, current client or answers is no step there.
Service == INSTANCE SignalingService WITH
  open <- accepting,
  stage <- [c \in Clients |-> Stage(c)],
  serving <- {c \in Clients : at[c] \in {"offer_answer", "answer"}},
  target <- current

\* Accept thread, sockets' threads and API calls implement SignalingService,
\* whichever way they interleave: no browser is registered after stop() or twice,
\* one offer at a time is between setRemoteDescription and its answer, and a
\* browser whose disconnection was handled makes no more offers.
ImplementsService == Service!Spec

\* After SignalingServer::stop no browser is registered, and none turns up
\* later: a connection being accepted when stop() ran is not left behind.
StoppedRegistryIsEmpty == apiAt = "idle" /\ ~sigRunning => clients = {}

\* getClientCount is exact whenever somebody is registered (stop() empties the
\* registry without touching client_count_).
CountIsExact == clients # {} => count = Cardinality(clients)

\* stop() inside server_->stop(), with the accept thread at clients_mutex_.
StopWaitsForAccept == apiAt = "sig_join" /\ acc = "insert"
\* shutdown() inside pc_->close(), with a candidate callback at mutex_.
CloseWaitsForCandidate == apiAt = "close" /\ pcAt = "candidate"
\* start() joining a capture thread that saw running_ set again.
StartWaitsForLoop == apiAt = "start_join" /\ running
\* http_server_->stop(), which httplib ignored, joining a thread that may serve on.
StopWaitsForListener == apiAt = "http_join" /\ listener = "missed"
Wedged ==
  StopWaitsForAccept \/ CloseWaitsForCandidate \/ StartWaitsForLoop \/ StopWaitsForListener

\* The four mutexes and the joins are taken in no consistent order, yet every
\* circular wait is one of the first two named above.  (The capture thread and the
\* listener, which API calls also join, wait for nobody.)
OnlyKnownDeadlocks ==
  \A S \in (SUBSET Threads) \ {{}} :
    (\A t \in S : WaitsFor(t) \cap S # {}) =>
      \/ StopWaitsForAccept /\ {"api", "accept"} \subseteq S
      \/ CloseWaitsForCandidate /\ {"api", "pc"} \subseteq S

\* Every handler of a browser's message or disconnection returns, unless one
\* of the waits above has become permanent or the program has faulted.
HandlersReturn ==
  \A c \in Clients :
    at[c] \notin {"idle", "gone"} ~>
      (at[c] \in {"idle", "gone"} \/ Wedged \/ ~Executing)

\* Every API call returns, under the same provisos.
CallsReturn == apiAt # "idle" ~> (apiAt = "idle" \/ Wedged \/ ~Executing)

\* "It will stop all running services and release all resources": the capture
\* thread is one of them, and must not outlive the capture it reads.
CaptureOutlivesItsLoop == fault # "loop_capture"

\* initialize() adds the track so that "the track is available before receiving
\* any offer": no offer is applied to a PeerConnection that is still open once its
\* track was taken away.
TrackBeforeOffer ==
  [][\A c \in Clients :
       at[c] = "offer_call" /\ at'[c] = "offer_answer" /\ connState # "kClosed" =>
         video # "destroyed"]_vars
=============================================================================

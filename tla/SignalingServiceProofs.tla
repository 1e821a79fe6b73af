------------------------ MODULE SignalingServiceProofs ------------------------
(***************************************************************************)
(* RemoteDesktopServer implements SignalingService, for any set of         *)
(* browsers and any bounds.                                                *)
(*                                                                         *)
(* Beside the invariants of RemoteDesktopServerProofs the proof needs that *)
(* callback_mutex_ excludes (CallbackOne) and that whoever is registered   *)
(* has been let in by the accept thread (MembersAdmitted).  A step that    *)
(* leaves serviceView alone is no step of the service; each other action   *)
(* has a lemma that names the step it is.                                  *)
(***************************************************************************)
EXTENDS RemoteDesktopServerProofs

CallbackOne ==
  \A c, d \in Clients : at[c] \in CallbackLabels /\ at[d] \in CallbackLabels => c = d

MembersAdmitted == clients \subseteq Admitted

ServiceInv ==
  /\ Typed /\ OfferInv /\ RegistryInv /\ PhaseInv
  /\ CallbackOne /\ MembersAdmitted

-----------------------------------------------------------------------------
(* callback_mutex_ excludes. *)

\* A thread outside the mutex that stays outside, or one inside that moves.
LEMMA MoveCallback ==
  ASSUME Typed, CallbackOne, NEW c \in Clients, NEW label,
         at' = [at EXCEPT ![c] = label],
         at[c] \in CallbackLabels \/ label \notin CallbackLabels
  PROVE  CallbackOne'
BY DEF Typed, TypeOK, SigTypeOK, CallbackOne

\* handleOffer, handleIceCandidate and onClientDisconnected enter only when nobody
\* is inside; all else a thread does keeps it inside or outside, or lets it out.
LEMMA NextCallback == Typed /\ CallbackOne /\ [Next]_vars => CallbackOne'
<1> SUFFICES ASSUME Typed, CallbackOne, [Next]_vars PROVE CallbackOne'
  OBVIOUS
<1>1. ASSUME UNCHANGED at PROVE CallbackOne'
  BY <1>1 DEF CallbackOne
<1>2. CASE UNCHANGED vars
  BY <1>1, <1>2 DEF vars, sigVars, threadVars
<1>3. ASSUME NEW c \in Clients, Sig(Network(c)) PROVE CallbackOne'
  BY <1>1, <1>3
  DEF Sig, Network, Dial, Handshake, ReadJoin, Hangup, BrowserSends, threadVars
<1>4. CASE AcceptThread
  BY <1>1, <1>4 DEF AcceptThread, Sig, Accept, InsertClient, HookClient, threadVars
<1>5. CASE PcThread \/ PcEvent \/ CaptureThread
  BY <1>1, <1>5
  DEF PcThread, PcEvent, CaptureThread, OnIceCandidate, SendIceCandidate, LocalCandidate,
      StateChange, DataChannelChange, LoopTest, NextFrame, sigVars, threadVars
<1>6. CASE ApiCall \/ ApiThread
  <2>1. CASE ApiCall
    BY <1>1, <2>1
    DEF ApiCall, Initialize, CallStart, CallStop, CallShutdown, SigReplace, sigVars,
        threadVars
  <2>2. CASE ApiThread
    BY <1>1, <2>2
    DEF ApiThread, StartSignaling, StartCapture, StartJoin, StopJoin, SigStop, SigStopClear,
        SigStopJoin, HttpServerStop, HttpServerJoin, DestroyHttpServer, CloseTransport,
        DestroyParts, AfterSigStop, SigReplace, SigStart, SigClear, sigVars, threadVars
  <2> QED
    BY <1>6, <2>1, <2>2
<1>8. CASE Listener(HttpThread) \/ Listener(HttpTrouble)
  BY <1>1, <1>8 DEF Listener, sigVars, threadVars
<1>7. ASSUME NEW c \in Clients, SocketThread(c) PROVE CallbackOne'
  <2> USE DEF Sig, GoTo, CallbackLabels
  <2>1. CASE Sig(OnOpen(c)) \/ UseDestroyedSignaling(c)
    BY <1>1, <2>1 DEF OnOpen, UseDestroyedSignaling, sigVars, threadVars
  <2>2. CASE Sig(OnMessage(c))
    BY <2>2, MoveCallback DEF OnMessage
  <2>3. CASE \/ Sig(OnClosed(c)) \/ Sig(EraseClient(c, ClientsFree))
             \/ Sig(BroadcastLeave(c, ClientsFree))
    BY <2>3, MoveCallback DEF OnClosed, EraseClient, BroadcastLeave
  <2>4. CASE Sig(TakeCallback(c))
    <3>1. \A d \in Clients : at[d] \notin CallbackLabels
      BY <2>4 DEF TakeCallback, CallbackFree, CallbackHolders
    <3>2. \A d \in Clients : d # c => at'[d] = at[d]
      BY <2>4 DEF TakeCallback, Typed, TypeOK, SigTypeOK
    <3> QED
      BY <3>1, <3>2 DEF CallbackOne
  <2>5. CASE Sig(SendAnswer(c, ClientsFree)) \/ AddIceCandidate(c) \/ ForgetClient(c)
    BY <2>5, MoveCallback DEF SendAnswer, AddIceCandidate, ForgetClient
  <2>6. CASE ApplyOffer(c)
    BY <1>1, <2>6, MoveCallback DEF ApplyOffer
  <2>7. CASE CreateAnswer(c)
    BY <2>7, MoveCallback DEF CreateAnswer
  <2> QED
    BY <1>7, <2>1, <2>2, <2>3, <2>4, <2>5, <2>6, <2>7 DEF SocketThread
<1> QED
  BY <1>2, <1>3, <1>4, <1>5, <1>6, <1>7, <1>8 DEF Next

-----------------------------------------------------------------------------
(* Who is registered has been let in. *)

LEMMA NextMembers == Typed /\ MembersAdmitted /\ [Next]_vars => MembersAdmitted'
<1> SUFFICES ASSUME Typed, MembersAdmitted, [Next]_vars PROVE MembersAdmitted'
  OBVIOUS
<1>1. ASSUME clients' \subseteq clients,
             \A c \in Clients : home[c] # "none" => home'[c] # "none",
             acc # "hook" \/ UNCHANGED acceptVars
      PROVE  MembersAdmitted'
  BY <1>1 DEF MembersAdmitted, Admitted, acceptVars, Typed, TypeOK, SigTypeOK
<1>2. CASE UNCHANGED vars
  BY <1>1, <1>2 DEF vars, sigVars, registryVars, socketVars
<1>3. ASSUME NEW c \in Clients, Sig(Network(c)) PROVE MembersAdmitted'
  BY <1>1, <1>3
  DEF Sig, Network, Dial, Handshake, ReadJoin, Hangup, BrowserSends, registryVars
<1>4. CASE AcceptThread
  <2>1. ASSUME NEW c \in Clients, Sig(Accept(c)) PROVE MembersAdmitted'
    BY <1>1, <2>1 DEF Sig, Accept, registryVars
  <2>2. CASE Sig(InsertClient(ClientsFree))
    BY <2>2
    DEF Sig, InsertClient, socketVars, MembersAdmitted, Admitted, Typed, TypeOK, SigTypeOK
  <2>3. CASE Sig(HookClient)
    BY <2>3
    DEF Sig, HookClient, registryVars, MembersAdmitted, Admitted, Typed, TypeOK, SigTypeOK
  <2> QED
    BY <1>4, <2>1, <2>2, <2>3 DEF AcceptThread
<1>5. CASE PcThread \/ PcEvent \/ CaptureThread
  BY <1>1, <1>5
  DEF PcThread, PcEvent, CaptureThread, OnIceCandidate, SendIceCandidate, LocalCandidate,
      StateChange, DataChannelChange, LoopTest, NextFrame, sigVars, registryVars, socketVars
<1>6. CASE ApiCall \/ ApiThread
  <2>1. \/ UNCHANGED sigVars \/ SigStart \/ SigClear
        \/ UNCHANGED <<sigRunning, accepting>> /\ \E exists \in BOOLEAN : SigReplace(exists)
        \/ UNCHANGED <<registryVars, acceptVars, socketVars>>
    BY <1>6
    DEF ApiCall, ApiThread, Initialize, CallStart, CallStop, CallShutdown, StartSignaling,
        StartCapture, StartJoin, StopJoin, SigStop, SigStopClear, SigStopJoin,
        HttpServerStop, HttpServerJoin, DestroyHttpServer, CloseTransport, DestroyParts,
        AfterSigStop, SigReplace
  <2> QED
    BY <1>1, <2>1
    DEF SigStart, SigClear, SigReplace, sigVars, registryVars, socketVars, Typed, TypeOK,
        SigTypeOK
<1>8. CASE Listener(HttpThread) \/ Listener(HttpTrouble)
  BY <1>1, <1>8 DEF Listener, sigVars, registryVars, socketVars
<1>7. ASSUME NEW c \in Clients, SocketThread(c) PROVE MembersAdmitted'
  <2>1. clients' \subseteq clients /\ UNCHANGED <<home, acceptVars>>
    BY <1>7
    DEF SocketThread, Sig, OnOpen, OnMessage, OnClosed, TakeCallback, SendAnswer, EraseClient,
        BroadcastLeave, ApplyOffer, CreateAnswer, AddIceCandidate, ForgetClient,
        UseDestroyedSignaling, sigVars, registryVars, socketVars
  <2> QED
    BY <1>1, <2>1
<1> QED
  BY <1>2, <1>3, <1>4, <1>5, <1>6, <1>7, <1>8 DEF Next

\* All that the simulation needs holds in every reachable state.
LEMMA ServiceInvariance == Spec => []ServiceInv
<1>1. Init => ServiceInv
  BY InitTyped
  DEF Init, SigInit, ServiceInv, OfferInv, RegistryInv, SocketInv, DepartedInv, StopInv,
      CountIsExact, HttpInit, PhaseInv, ListenerInv, Off, CallbackOne, CallbackLabels,
      MembersAdmitted
<1>2. ServiceInv /\ [Next]_vars => ServiceInv'
  BY NextTyped, NextOffer, NextRegistry, NextPhase, NextCallback, NextMembers DEF ServiceInv
<1> QED
  BY <1>1, <1>2, PTL DEF Spec

-----------------------------------------------------------------------------
(* The steps that are no steps of the service. *)

Stages == [c \in Clients |-> Stage(c)]
Serving == {c \in Clients : at[c] \in {"offer_answer", "answer"}}

\* All that the service is read off.
serviceView == <<accepting, clients, acceptVars, home, at, current, answered>>

\* A step that leaves it alone is none of the service.
LEMMA ViewStutters ==
  ASSUME UNCHANGED serviceView
  PROVE  UNCHANGED Service!vars
BY DEF serviceView, acceptVars, Service!vars, Stage, Admitted

\* A thread of a socket that moves outside the answering of an offer serves nobody.
LEMMA MoveServes ==
  ASSUME Typed, NEW c \in Clients, NEW label, at' = [at EXCEPT ![c] = label],
         {at[c], label} \cap {"offer_answer", "answer"} = {}
  PROVE  Serving' = Serving
BY DEF Typed, TypeOK, SigTypeOK, Serving

\* One that does not depart by its move changes no stage.
LEMMA MoveStages ==
  ASSUME Typed, NEW c \in Clients, NEW label, at' = [at EXCEPT ![c] = label],
         at[c] \in {"leave", "gone"} <=> label \in {"leave", "gone"},
         UNCHANGED <<clients, acceptVars, home>>
  PROVE  Stages' = Stages
<1>1. \A d \in Clients : Stage(d)' = Stage(d)
  BY DEF Typed, TypeOK, SigTypeOK, Stage, Admitted, acceptVars
<1> QED
  BY <1>1 DEF Stages

\* A move of both kinds is no step of the service.
LEMMA MoveStutters ==
  ASSUME Typed, NEW c \in Clients, NEW label, at' = [at EXCEPT ![c] = label],
         {at[c], label} \cap {"offer_answer", "answer"} = {},
         at[c] \in {"leave", "gone"} <=> label \in {"leave", "gone"},
         UNCHANGED <<accepting, clients, acceptVars, home, current, answered>>
  PROVE  UNCHANGED Service!vars
BY MoveServes, MoveStages DEF Service!vars, Stages, Serving

\* make_unique and reset() find the registry empty already; the callbacks whose
\* `this` now dangles belong to browsers that were let in as before.
LEMMA ReplaceStutters ==
  ASSUME Typed, NEW exists, SigReplace(exists), clients = {}, UNCHANGED current
  PROVE  UNCHANGED Service!vars
<1>1. UNCHANGED <<accepting, at, answered, acceptVars>> /\ clients' = {}
  BY DEF SigReplace, threadVars
<1>2. \A c \in Clients : home'[c] = "none" <=> home[c] = "none"
  BY DEF SigReplace, Typed, TypeOK, SigTypeOK
<1>3. Stages' = Stages
  BY <1>1, <1>2 DEF Stages, Stage, Admitted, acceptVars
<1> QED
  BY <1>1, <1>3 DEF Service!vars, Stages

-----------------------------------------------------------------------------
(* The accept thread and the threads of the sockets. *)

\* onClientConnected admits a browser, and only while the socket listens.
LEMMA InsertAdmits ==
  ASSUME ServiceInv, Sig(InsertClient(ClientsFree))
  PROVE  Service!Admit(accClient) /\ accClient \in Clients
<1>1. /\ acc = "insert" /\ apiAt # "sig_join" /\ accClient \in Clients
      /\ clients' = clients \cup {accClient} /\ acc' = "hook"
      /\ UNCHANGED <<accepting, accClient, home, at, current, answered>>
  BY DEF ServiceInv, Typed, TypeOK, SigTypeOK, Sig, InsertClient, ClientsFree, ClientsHolders,
         serverVars, socketVars, threadVars, rdsVars
<1>2. accepting /\ home[accClient] = "none" /\ at[accClient] = "idle"
  BY <1>1 DEF ServiceInv, RegistryInv, SocketInv, StopInv
<1>3. accClient \notin clients
  BY <1>1, <1>2 DEF ServiceInv, MembersAdmitted, Admitted
<1>4. Stage(accClient) = "new" /\ Stage(accClient)' = "member"
  BY <1>1, <1>2, <1>3 DEF Stage, Admitted
<1>5. \A c \in Clients \ {accClient} : Stage(c)' = Stage(c)
  BY <1>1 DEF Stage, Admitted
<1>6. Stages' = [Stages EXCEPT ![accClient] = "member"]
  BY <1>1, <1>4, <1>5 DEF Stages
<1> QED
  BY <1>1, <1>2, <1>4, <1>6 DEF Service!Admit, Stages

\* Hooking the callbacks of a browser lets in nobody else.
LEMMA HookStutters ==
  ASSUME ServiceInv, Sig(HookClient)
  PROVE  UNCHANGED Service!vars
<1>1. /\ acc = "hook" /\ acc' = "accept" /\ home' = [home EXCEPT ![accClient] = "live"]
      /\ UNCHANGED <<accepting, clients, at, current, answered>>
  BY DEF Sig, HookClient, serverVars, registryVars, threadVars, rdsVars
<1>2. Admitted' = Admitted
  BY <1>1 DEF ServiceInv, Typed, TypeOK, SigTypeOK, Admitted
<1> QED
  BY <1>1, <1>2 DEF Service!vars, Stage

\* Whose thread runs a handler was let in, and is not gone.
LEMMA LiveStage ==
  ASSUME ServiceInv, NEW c \in Clients, home[c] = "live", at[c] \notin {"leave", "gone"}
  PROVE  Stage(c) = IF c \in clients THEN "member" ELSE "cut"
BY DEF Stage, Admitted

\* onOfferReceived up to setRemoteDescription; callback_mutex_ is held, so no
\* other offer waits for its answer.
LEMMA ApplyOffers ==
  ASSUME ServiceInv, NEW c \in Clients, ApplyOffer(c)
  PROVE  Service!Offer(c)
<1>1. /\ at[c] = "offer_call" /\ home[c] = "live" /\ current' = c
      /\ \E label \in {"offer_call", "offer_answer", "idle"} : at' = [at EXCEPT ![c] = label]
      /\ UNCHANGED <<accepting, clients, acceptVars, home, answered>>
  BY DEF ServiceInv, Typed, TypeOK, SigTypeOK, ApplyOffer, GoTo, serverVars, registryVars,
         socketVars
<1>2. Serving = {}
  BY <1>1 DEF ServiceInv, CallbackOne, CallbackLabels, Serving
<1>3. Serving' \in {{}, {c}}
  BY <1>1, <1>2 DEF ServiceInv, Typed, TypeOK, SigTypeOK, Serving
<1>4. Stages' = Stages
  BY <1>1, MoveStages DEF ServiceInv
<1>5. Stage(c) \in {"member", "cut"}
  BY <1>1, LiveStage
<1> QED
  BY <1>1, <1>2, <1>3, <1>4, <1>5 DEF Service!Offer, Stages, Serving

\* The thread that answers is the only one, and leaves nobody waiting.
LEMMA ServedLeaves ==
  ASSUME ServiceInv, NEW c \in Clients, at[c] \in {"offer_answer", "answer"},
         GoTo(c, "idle"), UNCHANGED <<clients, acceptVars, home>>
  PROVE  Serving = {c} /\ Serving' = {} /\ Stages' = Stages
<1>1. Serving = {c} /\ Serving' = {}
  BY DEF ServiceInv, CallbackOne, CallbackLabels, Serving, GoTo, Typed, TypeOK, SigTypeOK
<1>2. Stages' = Stages
  BY MoveStages DEF ServiceInv, GoTo
<1> QED
  BY <1>1, <1>2

\* createAnswer makes an answer, which changes nothing yet, or gives the offer up.
LEMMA CreateDrops ==
  ASSUME ServiceInv, NEW c \in Clients, CreateAnswer(c)
  PROVE  Service!Drop \/ UNCHANGED Service!vars
<1>1. /\ at[c] = "offer_answer"
      /\ GoTo(c, "answer") \/ GoTo(c, "idle")
      /\ UNCHANGED <<accepting, clients, acceptVars, home, current, answered>>
  BY DEF CreateAnswer, serverVars, registryVars, socketVars
<1>2. CASE GoTo(c, "answer")
  <2>1. Serving' = Serving /\ Stages' = Stages
    BY <1>1, <1>2, MoveStages DEF ServiceInv, Typed, TypeOK, SigTypeOK, GoTo, Serving
  <2> QED
    BY <1>1, <2>1 DEF Service!vars, Stages, Serving
<1>3. CASE GoTo(c, "idle")
  BY <1>1, <1>3, ServedLeaves DEF Service!Drop, Stages, Serving
<1> QED
  BY <1>1, <1>2, <1>3

\* sendAnswer reaches the browser whose offer it was, if it is still registered.
LEMMA SendAnswers ==
  ASSUME ServiceInv, NEW c \in Clients, Sig(SendAnswer(c, ClientsFree))
  PROVE  Service!Answer(c) \/ Service!Drop
<1>1. /\ at[c] = "answer" /\ home[c] = "live" /\ GoTo(c, "idle")
      /\ UNCHANGED <<accepting, clients, acceptVars, home, current>>
  BY DEF Sig, SendAnswer, serverVars, registryVars, socketVars, rdsVars
<1>2. Serving = {c} /\ Serving' = {} /\ Stages' = Stages
  BY <1>1, ServedLeaves
<1>3. CASE Reachable(c)
  <2>1. answered' = [answered EXCEPT ![c] = @ \cup {c}]
    BY <1>1, <1>3 DEF Sig, SendAnswer, ServiceInv, OfferInv
  <2>2. Stage(c) = "member"
    BY <1>3 DEF Reachable, Stage
  <2> QED
    BY <1>1, <1>2, <2>1, <2>2 DEF Service!Answer, Stages, Serving
<1>4. CASE ~Reachable(c)
  <2>1. UNCHANGED answered
    BY <1>4 DEF Sig, SendAnswer
  <2> QED
    BY <1>1, <1>2, <2>1 DEF Service!Drop, Stages, Serving
<1> QED
  BY <1>3, <1>4

\* onClientDisconnected of the signalling server cuts a member off; after stop()
\* there is none left to cut off.
LEMMA EraseCuts ==
  ASSUME ServiceInv, NEW c \in Clients, Sig(EraseClient(c, ClientsFree))
  PROVE  Service!Cut(c) \/ UNCHANGED Service!vars
<1>1. /\ at[c] = "bye" /\ home[c] = "live" /\ at' = [at EXCEPT ![c] = "bye_notify"]
      /\ clients' = clients \ {c}
      /\ UNCHANGED <<accepting, acceptVars, home, current, answered>>
  BY DEF Sig, EraseClient, GoTo, serverVars, socketVars, rdsVars
<1>2. Serving' = Serving
  BY <1>1, MoveServes DEF ServiceInv
<1>3. \A d \in Clients \ {c} : Stage(d)' = Stage(d)
  BY <1>1 DEF ServiceInv, Typed, TypeOK, SigTypeOK, Stage, Admitted, acceptVars
<1>4. Stage(c) = (IF c \in clients THEN "member" ELSE "cut") /\ Stage(c)' = "cut"
  BY <1>1 DEF ServiceInv, Typed, TypeOK, SigTypeOK, Stage, Admitted
<1>5. Stages' = [Stages EXCEPT ![c] = "cut"]
  BY <1>3, <1>4 DEF Stages
<1>6. c \notin clients => Stages' = Stages
  BY <1>3, <1>4 DEF Stages
<1> QED
  BY <1>1, <1>2, <1>4, <1>5, <1>6 DEF Service!Cut, Service!vars, Stages, Serving

\* onClientDisconnected of the coordinator: the browser is no target any more.
LEMMA ForgetDeparts ==
  ASSUME ServiceInv, NEW c \in Clients, ForgetClient(c)
  PROVE  Service!Depart(c)
<1>1. /\ at[c] = "bye_call" /\ home[c] = "live" /\ at' = [at EXCEPT ![c] = "leave"]
      /\ current' = IF current = c THEN NoClient ELSE current
      /\ UNCHANGED <<accepting, clients, acceptVars, home, answered>>
  BY DEF ForgetClient, GoTo, serverVars, registryVars, socketVars
<1>2. Serving' = Serving /\ c \notin Serving
  BY <1>1, MoveServes DEF ServiceInv, Serving
<1>3. c \notin clients
  BY <1>1 DEF ServiceInv, RegistryInv, DepartedInv
<1>4. Stage(c) = "cut" /\ Stage(c)' = "departed"
  BY <1>1, <1>3 DEF ServiceInv, Typed, TypeOK, SigTypeOK, Stage, Admitted
<1>5. \A d \in Clients \ {c} : Stage(d)' = Stage(d)
  BY <1>1 DEF ServiceInv, Typed, TypeOK, SigTypeOK, Stage, Admitted, acceptVars
<1>6. Stages' = [Stages EXCEPT ![c] = "departed"]
  BY <1>4, <1>5 DEF Stages
<1> QED
  BY <1>1, <1>2, <1>4, <1>6 DEF Service!Depart, Stages, Serving

-----------------------------------------------------------------------------
(* The API thread. *)

\* SignalingServer::stop clears the registry and the listening socket in one.
LEMMA ClearCloses ==
  ASSUME ServiceInv, SigStopClear
  PROVE  Service!Close
<1>1. /\ clients' = {} /\ accepting' = FALSE
      /\ UNCHANGED <<acceptVars, home, at, current, answered>>
  BY DEF SigStopClear, SigClear, threadVars
<1>2. \A c \in Clients : Stage(c)' = IF Stage(c) = "member" THEN "cut" ELSE Stage(c)
  BY <1>1
  DEF ServiceInv, RegistryInv, DepartedInv, MembersAdmitted, Stage, Admitted, acceptVars
<1>3. Stages' = [c \in Clients |-> IF Stages[c] = "member" THEN "cut" ELSE Stages[c]]
  BY <1>2 DEF Stages
<1> QED
  BY <1>1, <1>3 DEF Service!Close, Stages

\* Everything else start(), stop(), shutdown() and initialize() do leaves the
\* service alone, but that start() opens it.
LEMMA ApiServes ==
  ASSUME ServiceInv, ApiCall \/ ApiThread
  PROVE  Service!Open \/ Service!Close \/ UNCHANGED Service!vars
<1>1. ASSUME UNCHANGED <<sigVars, current>> PROVE UNCHANGED Service!vars
  BY <1>1, ViewStutters
  DEF serviceView, sigVars, serverVars, registryVars, socketVars, threadVars
<1>2. CASE Initialize
  <2>1. UNCHANGED current /\ (UNCHANGED sigVars \/ SigReplace(TRUE))
    BY <1>2 DEF Initialize
  <2>2. clients = {}
    BY <1>2
    DEF Initialize, CanCall, ServerFree, ServerHolders, ServiceInv, RegistryInv, StopInv,
        PhaseInv
  <2> QED
    BY <1>1, <2>1, <2>2, ReplaceStutters DEF ServiceInv
<1>3. CASE CallStart \/ CallStop \/ CallShutdown
  BY <1>1, <1>3 DEF CallStart, CallStop, CallShutdown
<1>4. CASE StartSignaling
  <2>1. CASE SigStart
    <3>1. accepting' = TRUE /\ UNCHANGED <<clients, acceptVars, home, at, current, answered>>
      BY <1>4, <2>1 DEF StartSignaling, SigStart, registryVars, socketVars, threadVars
    <3> QED
      BY <3>1 DEF Service!Open, Stage, Admitted, acceptVars
  <2>2. CASE UNCHANGED sigVars
    BY <1>1, <1>4, <2>2 DEF StartSignaling
  <2> QED
    BY <1>4, <2>1, <2>2 DEF StartSignaling
<1>5. CASE \/ StartCapture \/ StartJoin \/ StopJoin \/ CloseTransport \/ DestroyParts
           \/ HttpServerStop \/ HttpServerJoin \/ DestroyHttpServer
  BY <1>1, <1>5
  DEF StartCapture, StartJoin, StopJoin, CloseTransport, DestroyParts, HttpServerStop,
      HttpServerJoin, DestroyHttpServer
<1>6. CASE SigStopClear
  BY <1>6, ClearCloses
<1>7. CASE SigStop \/ SigStopJoin
  <2>1. UNCHANGED current
    BY <1>7 DEF SigStop, SigStopJoin
  <2>2. CASE SigStop /\ sigRunning
    BY <2>1, <2>2, ViewStutters
    DEF SigStop, serviceView, registryVars, socketVars, threadVars
  <2>3. CASE ~(SigStop /\ sigRunning)
    <3>1. AfterSigStop /\ ~sigRunning /\ apiAt # "sig_clear"
      BY <1>7, <2>3 DEF SigStop, SigStopJoin, ServiceInv, PhaseInv
    <3>2. clients = {}
      BY <3>1 DEF ServiceInv, RegistryInv, StopInv
    <3>3. SigReplace(FALSE) \/ UNCHANGED sigVars
      BY <3>1 DEF AfterSigStop
    <3> QED
      BY <1>1, <2>1, <3>2, <3>3, ReplaceStutters DEF ServiceInv
  <2> QED
    BY <2>2, <2>3
<1> QED
  BY <1>2, <1>3, <1>4, <1>5, <1>6, <1>7 DEF ApiCall, ApiThread

-----------------------------------------------------------------------------
(* The refinement. *)

\* Before the first call nobody is admitted and nothing is open.
LEMMA ServiceInit == Init => Service!Init
BY DEF Init, SigInit, Service!Init, Stage, Admitted

\* Every step of a browser, a socket's thread, the accept thread, the transport,
\* the capture or the API is a step of the service, or leaves it alone.
LEMMA ServiceNext == ServiceInv /\ [Next]_vars => [Service!Next]_(Service!vars)
<1> SUFFICES ASSUME ServiceInv, [Next]_vars PROVE Service!Next \/ UNCHANGED Service!vars
  OBVIOUS
<1>1. CASE UNCHANGED vars
  BY <1>1, ViewStutters
  DEF vars, sigVars, rdsVars, serverVars, registryVars, socketVars, threadVars, serviceView
<1>2. ASSUME NEW c \in Clients, Sig(Network(c)) PROVE UNCHANGED Service!vars
  BY <1>2, ViewStutters
  DEF Sig, Network, Dial, Handshake, ReadJoin, Hangup, BrowserSends, serverVars,
      registryVars, threadVars, rdsVars, serviceView
<1>3. CASE PcThread \/ PcEvent \/ CaptureThread
  BY <1>3, ViewStutters
  DEF PcThread, PcEvent, CaptureThread, OnIceCandidate, SendIceCandidate, LocalCandidate,
      StateChange, DataChannelChange, LoopTest, NextFrame, sigVars, serverVars,
      registryVars, socketVars, threadVars, serviceView
<1>7. CASE Listener(HttpThread) \/ Listener(HttpTrouble)
  BY <1>7, ViewStutters
  DEF Listener, sigVars, serverVars, registryVars, socketVars, threadVars, serviceView
<1>4. CASE AcceptThread
  <2>1. ASSUME NEW c \in Clients, Sig(Accept(c)) PROVE UNCHANGED Service!vars
    <3>1. /\ acc = "accept" /\ acc' = "insert"
          /\ UNCHANGED <<accepting, clients, home, at, current, answered>>
      BY <2>1 DEF Sig, Accept, serverVars, registryVars, threadVars, rdsVars
    <3> QED
      BY <3>1 DEF Service!vars, Stage, Admitted
  <2> QED
    BY <1>4, <2>1, InsertAdmits, HookStutters DEF AcceptThread, Service!Next
<1>5. CASE ApiCall \/ ApiThread
  BY <1>5, ApiServes DEF Service!Next
<1>6. ASSUME NEW c \in Clients, SocketThread(c) PROVE Service!Next \/ UNCHANGED Service!vars
  <2>1. CASE Sig(OnOpen(c)) \/ UseDestroyedSignaling(c)
    BY <2>1, ViewStutters
    DEF Sig, OnOpen, UseDestroyedSignaling, sigVars, serverVars, registryVars, socketVars,
        threadVars, rdsVars, serviceView
  <2>2. CASE \/ Sig(OnMessage(c)) \/ Sig(OnClosed(c)) \/ Sig(TakeCallback(c))
             \/ Sig(BroadcastLeave(c, ClientsFree)) \/ AddIceCandidate(c)
    <3>1. UNCHANGED <<accepting, clients, acceptVars, home, current, answered>>
      BY <2>2
      DEF Sig, OnMessage, OnClosed, TakeCallback, BroadcastLeave, AddIceCandidate,
          serverVars, registryVars, socketVars, rdsVars
    <3>2. \E label \in SocketLabels \ {"offer_answer", "answer"} :
            /\ at' = [at EXCEPT ![c] = label]
            /\ at[c] \notin {"offer_answer", "answer"}
            /\ at[c] \in {"leave", "gone"} <=> label \in {"leave", "gone"}
      BY <2>2
      DEF Sig, GoTo, OnMessage, OnClosed, TakeCallback, BroadcastLeave, AddIceCandidate,
          SocketLabels, CallbackLabels
    <3> QED
      BY <3>1, <3>2, MoveStutters DEF ServiceInv
  <2>3. CASE ApplyOffer(c)
    BY <2>3, ApplyOffers DEF Service!Next
  <2>4. CASE CreateAnswer(c)
    BY <2>4, CreateDrops DEF Service!Next
  <2>5. CASE Sig(SendAnswer(c, ClientsFree))
    BY <2>5, SendAnswers DEF Service!Next
  <2>6. CASE Sig(EraseClient(c, ClientsFree))
    BY <2>6, EraseCuts DEF Service!Next
  <2>7. CASE ForgetClient(c)
    BY <2>7, ForgetDeparts DEF Service!Next
  <2> QED
    BY <1>6, <2>1, <2>2, <2>3, <2>4, <2>5, <2>6, <2>7 DEF SocketThread
<1> QED
  BY <1>1, <1>2, <1>3, <1>4, <1>5, <1>6, <1>7 DEF Next

\* Accept thread, sockets' threads, transport callbacks and API calls implement
\* SignalingService for any number of browsers: each is admitted once and only
\* while the server listens, offers are answered one at a time and only to their
\* senders, and a browser whose disconnection was handled is not served again.
THEOREM Implements == Spec => ImplementsService
<1> QED
  BY ServiceInvariance, ServiceInit, ServiceNext, PTL
  DEF Spec, ImplementsService, Service!Spec
=============================================================================

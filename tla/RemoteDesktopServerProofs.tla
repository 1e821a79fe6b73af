---------------------- MODULE RemoteDesktopServerProofs ----------------------
(***************************************************************************)
(* Safety of RemoteDesktopServer for any set of browsers and any bounds.   *)
(*                                                                         *)
(* Typed comes first and every other invariant is inductive together with  *)
(* it.  OfferInv follows an offer through mutex_ to its answer.            *)
(* RegistryInv relates the registry to the accept thread, the sockets'     *)
(* threads and the stages of stop().  PhaseInv says what holds at each     *)
(* label of the API thread.  FaultInv says which objects exist as long as  *)
(* shutdown() was not called.  OnlyKnownDeadlocks needs no invariant but   *)
(* Typed: who holds a mutex is read off where the threads stand.           *)
(***************************************************************************)
EXTENDS RemoteDesktopServer, FiniteSetTheorems, SequenceTheorems, TLAPS

\* cardinalities only make sense for a finite registry; Clients may be infinite
FiniteRegistry == IsFiniteSet(clients)

Typed == TypeOK /\ FiniteRegistry

-----------------------------------------------------------------------------
\* Before the first call every part has a value of its type.
LEMMA InitTyped == Init => Typed
<1> SUFFICES ASSUME Init PROVE Typed
  OBVIOUS
<1> USE DEF Init, SigInit, HttpInit
<1>1. sent \in [Clients -> 0..MaxMessages] /\ calls \in 0..MaxCalls
  BY MaxMessagesAssumption, MaxCallsAssumption
<1>2. inbox \in [Clients -> Seq(Messages)]
  BY EmptySeq
<1>3. /\ ws \in [Clients -> SocketStates]
      /\ at \in [Clients -> SocketLabels]
      /\ answered \in [Clients -> SUBSET (Clients \cup {NoClient})]
  BY DEF SocketStates, SocketLabels
<1>4. SigTypeOK
  BY <1>1, <1>2, <1>3 DEF SigTypeOK, AcceptLabels
<1>5. TypeOK
  BY <1>1, <1>4 DEF TypeOK, HttpTypeOK, ApiLabels, Operations, ConnStates, Faults
<1>6. FiniteRegistry
  BY FS_EmptySet DEF FiniteRegistry
<1> QED
  BY <1>5, <1>6 DEF Typed

\* The browsers and the network.
LEMMA NetworkTyped ==
  ASSUME Typed, NEW c \in Clients, Sig(Network(c))
  PROVE  Typed'
<1> USE DEF Typed, TypeOK, SigTypeOK, FiniteRegistry, Sig, serverVars, registryVars,
            acceptVars, threadVars, rdsVars, apiVars, partVars, webVars, httpVars,
            HttpTypeOK, rtcVars, ghostVars, SocketStates
<1>1. CASE Dial(c)
  BY <1>1 DEF Dial
<1>2. CASE Handshake(c)
  BY <1>2 DEF Handshake
<1>3. CASE ReadJoin(c)
  BY <1>3 DEF ReadJoin
<1>4. CASE Hangup(c)
  BY <1>4 DEF Hangup
<1>5. ASSUME NEW type \in {"offer", "ice-candidate"}, BrowserSends(c, type)
      PROVE  Typed'
  <2>1. [type |-> type, client_id |-> IF joined[c] = "read" THEN c ELSE NoClient] \in Messages
    BY DEF Messages
  <2>2. inbox' \in [Clients -> Seq(Messages)]
    BY <1>5, <2>1, AppendProperties DEF BrowserSends
  <2>3. sent' \in [Clients -> 0..MaxMessages]
    BY <1>5, MaxMessagesAssumption DEF BrowserSends
  <2> QED
    BY <1>5, <2>2, <2>3 DEF BrowserSends
<1> QED
  BY <1>1, <1>2, <1>3, <1>4, <1>5 DEF Network
\* The accept thread.
LEMMA AcceptTyped ==
  ASSUME Typed, AcceptThread
  PROVE  Typed'
<1> USE DEF Typed, TypeOK, SigTypeOK, FiniteRegistry, Sig, serverVars, registryVars,
            acceptVars, socketVars, threadVars, rdsVars, apiVars, partVars, webVars,
            httpVars, HttpTypeOK, rtcVars, ghostVars
<1>1. ASSUME NEW c \in Clients, Sig(Accept(c)) PROVE Typed'
  BY <1>1 DEF Accept, SocketStates, AcceptLabels
<1>2. CASE Sig(InsertClient(ClientsFree))
  <2>1. accClient \in Clients /\ clients' = clients \cup {accClient}
    BY <1>2 DEF InsertClient
  <2>2. IsFiniteSet(clients')
    BY <2>1, FS_AddElement
  <2>3. count' = Cardinality(clients')
    BY <1>2 DEF InsertClient
  <2>4. count' \in Nat
    BY <2>2, <2>3, FS_CardinalityType
  <2> QED
    BY <1>2, <2>1, <2>2, <2>4 DEF InsertClient, AcceptLabels
<1>3. CASE Sig(HookClient)
  BY <1>3 DEF HookClient, AcceptLabels
<1> QED
  BY <1>1, <1>2, <1>3 DEF AcceptThread

\* The threads of the sockets.
LEMMA SocketTyped ==
  ASSUME Typed, NEW c \in Clients, SocketThread(c)
  PROVE  Typed'
<1> USE DEF Typed, TypeOK, SigTypeOK, FiniteRegistry, Sig, sigVars, serverVars,
            registryVars, acceptVars, socketVars, threadVars, rdsVars, apiVars,
            partVars, webVars, httpVars, HttpTypeOK, rtcVars, ghostVars, GoTo,
            SocketLabels, CallbackLabels
<1>1. CASE Sig(OnOpen(c))
  BY <1>1 DEF OnOpen
<1>2. CASE Sig(OnMessage(c))
  <2>1. inbox' \in [Clients -> Seq(Messages)]
    BY <1>2, HeadTailProperties DEF OnMessage
  <2> QED
    BY <1>2, <2>1 DEF OnMessage
<1>3. CASE Sig(OnClosed(c))
  <2>1. inbox' \in [Clients -> Seq(Messages)]
    BY <1>3, EmptySeq DEF OnClosed
  <2> QED
    BY <1>3, <2>1 DEF OnClosed
<1>4. CASE Sig(TakeCallback(c))
  <2>1. PICK label \in CallbackLabels : at' = [at EXCEPT ![c] = label]
    BY <1>4 DEF TakeCallback
  <2> QED
    BY <1>4, <2>1 DEF TakeCallback
<1>5. CASE Sig(SendAnswer(c, ClientsFree))
  <2>1. /\ answered' \in [Clients -> SUBSET (Clients \cup {NoClient})]
        /\ answer' \in [Clients -> Clients \cup {NoClient}]
    BY <1>5 DEF SendAnswer
  <2> QED
    BY <1>5, <2>1 DEF SendAnswer
<1>6. CASE Sig(EraseClient(c, ClientsFree))
  <2>1. IsFiniteSet(clients') /\ count' \in Nat
    BY <1>6, FS_RemoveElement, FS_CardinalityType DEF EraseClient
  <2> QED
    BY <1>6, <2>1 DEF EraseClient
<1>7. CASE Sig(BroadcastLeave(c, ClientsFree))
  BY <1>7 DEF BroadcastLeave
<1>8. CASE ApplyOffer(c)
  <2>1. at' \in [Clients -> SocketLabels]
    <3>1. UNCHANGED at \/ \E l \in SocketLabels : at' = [at EXCEPT ![c] = l]
      BY <1>8 DEF ApplyOffer
    <3> QED
      BY <3>1
  <2>2. /\ current' \in Clients \cup {NoClient} /\ remote' \in Clients \cup {NoClient}
        /\ pending' \in SUBSET Clients
        /\ connState' \in ConnStates /\ fault' \in Faults
    BY <1>8 DEF ApplyOffer, SetRemoteDescription, ConnStates, Faults
  <2>3. UNCHANGED <<serverVars, registryVars, acceptVars, socketVars, answer, answered,
                    apiVars, partVars, transport, linked, video, pcAt, tornDown>>
    BY <1>8 DEF ApplyOffer
  <2>4. SigTypeOK' /\ FiniteRegistry'
    BY <2>1, <2>3
  <2> QED
    BY <2>2, <2>3, <2>4
<1>9. CASE CreateAnswer(c)
  <2>1. at' \in [Clients -> SocketLabels]
    BY <1>9 DEF CreateAnswer
  <2>2. connState' \in ConnStates
    BY <1>9 DEF CreateAnswer, ConnStates
  <2>3. answer' \in [Clients -> Clients \cup {NoClient}]
    BY <1>9 DEF CreateAnswer
  <2>4. UNCHANGED <<serverVars, registryVars, acceptVars, socketVars, answered,
                    apiVars, partVars, transport, linked, remote, pending, video, pcAt,
                    current, ghostVars>>
    BY <1>9 DEF CreateAnswer
  <2>5. SigTypeOK' /\ FiniteRegistry'
    BY <2>1, <2>3, <2>4
  <2> QED
    BY <2>2, <2>4, <2>5
<1>10. CASE AddIceCandidate(c)
  BY <1>10 DEF AddIceCandidate, Faults
<1>11. CASE ForgetClient(c)
  BY <1>11 DEF ForgetClient
<1>12. CASE UseDestroyedSignaling(c)
  BY <1>12 DEF UseDestroyedSignaling, Faults
<1> QED
  BY <1>1, <1>2, <1>3, <1>4, <1>5, <1>6, <1>7, <1>8, <1>9, <1>10, <1>11, <1>12
  DEF SocketThread

\* The PeerConnection's callbacks and the capture thread.
LEMMA CallbackTyped ==
  ASSUME Typed, PcThread \/ PcEvent \/ CaptureThread
  PROVE  Typed'
<1> USE DEF Typed, TypeOK, SigTypeOK, FiniteRegistry, sigVars, serverVars,
            registryVars, acceptVars, socketVars, threadVars, apiVars,
            partVars, webVars, httpVars, HttpTypeOK, ghostVars, rtcVars
<1>1. CASE OnIceCandidate
  BY <1>1 DEF OnIceCandidate
<1>2. CASE SendIceCandidate
  BY <1>2 DEF SendIceCandidate
<1>3. ASSUME NEW c \in Clients, LocalCandidate(c) PROVE Typed'
  BY <1>3 DEF LocalCandidate
<1>4. ASSUME NEW s \in RtcStates, StateChange(s) PROVE Typed'
  <2>1. connState' \in ConnStates /\ linked' \in BOOLEAN
    BY <1>4 DEF StateChange, RtcStates, MapConnectionState, ConnStates
  <2>2. video' \in {"none", "track", "destroyed"}
    BY <1>4 DEF StateChange, OnWebrtcStateChange
  <2> QED
    BY <1>4, <2>1, <2>2 DEF StateChange
<1>5. CASE LoopTest
  BY <1>5 DEF LoopTest
<1>6. CASE NextFrame
  BY <1>6 DEF NextFrame, Faults
<1>7. CASE DataChannelChange
  BY <1>7 DEF DataChannelChange, ConnStates
<1> QED
  BY <1>1, <1>2, <1>3, <1>4, <1>5, <1>6, <1>7 DEF PcThread, PcEvent, CaptureThread

\* A signalling server that is replaced or destroyed, started or cleared.
LEMMA SigOwnerTyped ==
  ASSUME Typed,
         \/ \E exists \in BOOLEAN : SigReplace(exists)
         \/ SigStart \/ SigClear \/ UNCHANGED sigVars
  PROVE  SigTypeOK' /\ FiniteRegistry'
<1> USE DEF Typed, TypeOK, SigTypeOK, FiniteRegistry, sigVars, serverVars,
            registryVars, acceptVars, socketVars, threadVars
<1>1. ASSUME NEW exists \in BOOLEAN, SigReplace(exists) PROVE SigTypeOK' /\ FiniteRegistry'
  BY <1>1, FS_EmptySet DEF SigReplace
<1>2. CASE SigStart
  BY <1>2 DEF SigStart
<1>3. CASE SigClear
  BY <1>3, FS_EmptySet DEF SigClear, SocketStates
<1>4. CASE UNCHANGED sigVars
  BY <1>4
<1> QED
  BY <1>1, <1>2, <1>3, <1>4

\* The listening thread of the HTTP server.
LEMMA ListenerTyped ==
  ASSUME Typed, Listener(HttpThread) \/ Listener(HttpTrouble)
  PROVE  Typed'
<1>1. SigTypeOK' /\ FiniteRegistry'
  BY SigOwnerTyped DEF Listener
<1>2. HttpTypeOK'
  BY DEF Typed, TypeOK, HttpTypeOK, Listener, HttpThread, HttpTrouble, Listen, ListenEnds,
         AcceptFails, ListenThrows
<1> QED
  BY <1>1, <1>2 DEF Typed, TypeOK, Listener, apiVars, rtcVars, ghostVars

\* start, stop and the replacement of the HTTP server.
LEMMA HttpOwnerTyped ==
  ASSUME HttpTypeOK,
         \/ HttpStart \/ HttpStartFails \/ HttpStop \/ HttpJoin \/ HttpDestroy
         \/ HttpReplace \/ UNCHANGED httpVars
  PROVE  HttpTypeOK'
<1> USE DEF HttpTypeOK
<1>1. CASE HttpStart \/ HttpJoin \/ HttpDestroy
  BY <1>1 DEF HttpStart, HttpJoin, HttpDestroy
<1>2. CASE HttpStartFails \/ UNCHANGED httpVars
  BY <1>2 DEF HttpStartFails, httpVars
<1>3. CASE HttpReplace
  BY <1>3 DEF HttpReplace
<1>4. CASE HttpStop
  BY <1>4 DEF HttpStop, httpVars
<1> QED
  BY <1>1, <1>2, <1>3, <1>4

\* The owner's calls.
LEMMA ApiTyped ==
  ASSUME Typed, ApiCall \/ ApiThread
  PROVE  Typed'
<1>1. SigTypeOK' /\ FiniteRegistry'
  <2>1. CASE Initialize
    <3>1. UNCHANGED sigVars \/ SigReplace(TRUE)
      BY <2>1 DEF Initialize
    <3> QED
      BY <3>1, SigOwnerTyped
  <2>2. CASE CallStart \/ CallStop \/ CallShutdown
    BY <2>2, SigOwnerTyped DEF CallStart, CallStop, CallShutdown
  <2>3. CASE StartSignaling
    BY <2>3, SigOwnerTyped DEF StartSignaling
  <2>4. CASE \/ StartCapture \/ StartJoin \/ StopJoin \/ CloseTransport \/ DestroyParts
             \/ HttpServerStop \/ HttpServerJoin \/ DestroyHttpServer
    BY <2>4, SigOwnerTyped
    DEF StartCapture, StartJoin, StopJoin, CloseTransport, DestroyParts, HttpServerStop,
        HttpServerJoin, DestroyHttpServer
  <2>5. CASE SigStop
    <3>1. CASE sigRunning
      BY <2>5, <3>1
      DEF SigStop, Typed, TypeOK, SigTypeOK, FiniteRegistry, registryVars, acceptVars,
          socketVars, threadVars
    <3>2. CASE ~sigRunning
      BY <2>5, <3>2, SigOwnerTyped DEF SigStop, AfterSigStop
    <3> QED
      BY <3>1, <3>2
  <2>6. CASE SigStopClear
    BY <2>6, SigOwnerTyped DEF SigStopClear
  <2>7. CASE SigStopJoin
    BY <2>7, SigOwnerTyped DEF SigStopJoin, AfterSigStop
  <2> QED
    BY <2>1, <2>2, <2>3, <2>4, <2>5, <2>6, <2>7 DEF ApiCall, ApiThread
<1>2. calls' \in 0..MaxCalls
  <2>1. CASE ApiCall
    <3>1. CanCall
      BY <2>1 DEF ApiCall, Initialize, CallStart, CallStop, CallShutdown
    <3> QED
      BY <3>1, MaxCallsAssumption DEF Typed, TypeOK, CanCall
  <2>2. CASE ApiThread
    <3>1. UNCHANGED calls
      BY <2>2
      DEF ApiThread, StartSignaling, StartCapture, StartJoin, StopJoin, SigStop,
          SigStopClear, SigStopJoin, HttpServerStop, HttpServerJoin, DestroyHttpServer,
          CloseTransport, DestroyParts
    <3> QED
      BY <3>1 DEF Typed, TypeOK
  <2> QED
    BY <2>1, <2>2
<1>3. HttpTypeOK' /\ httpAlive' \in BOOLEAN
  <2>0. HttpTypeOK /\ httpAlive \in BOOLEAN
    BY DEF Typed, TypeOK
  <2>1. CASE Initialize
    <3>1. UNCHANGED httpVars \/ HttpReplace
      BY <2>1 DEF Initialize
    <3>2. httpAlive' \in BOOLEAN
      BY <2>0, <2>1 DEF Initialize, HttpReplace
    <3> QED
      BY <2>0, <3>1, <3>2, HttpOwnerTyped
  <2>2. CASE CallStart
    BY <2>0, <2>2, HttpOwnerTyped DEF CallStart
  <2>3. CASE HttpServerStop \/ HttpServerJoin
    BY <2>0, <2>3, HttpOwnerTyped DEF HttpServerStop, HttpServerJoin
  <2>4. CASE DestroyHttpServer
    BY <2>0, <2>4, HttpOwnerTyped DEF DestroyHttpServer
  <2>5. CASE \/ CallStop \/ CallShutdown \/ StartSignaling \/ StartCapture \/ StartJoin
             \/ StopJoin \/ SigStop \/ SigStopClear \/ SigStopJoin \/ CloseTransport
             \/ DestroyParts
    <3>1. UNCHANGED webVars
      BY <2>5
      DEF CallStop, CallShutdown, StartSignaling, StartCapture, StartJoin, StopJoin, SigStop,
          SigStopClear, SigStopJoin, CloseTransport, DestroyParts, partVars
    <3> QED
      BY <2>0, <3>1, HttpOwnerTyped DEF webVars
  <2> QED
    BY <2>1, <2>2, <2>3, <2>4, <2>5 DEF ApiCall, ApiThread
<1> USE <1>1, <1>2, <1>3
    DEF Typed, TypeOK, apiVars, partVars, ghostVars, rtcVars, ApiGo, ApiReturn, ApiLabels,
        Operations
<1>4. CASE Initialize
  <2>1. /\ capture' \in {"null", "ready", "capturing"} /\ transport' \in {"null", "live"}
        /\ video' \in {"none", "track", "destroyed"} /\ connState' \in ConnStates
        /\ linked' \in BOOLEAN
    BY <1>4 DEF Initialize, InitializeTransport, ConnStates
  <2>2. remote' \in Clients \cup {NoClient} /\ pending' \in SUBSET Clients
    BY <1>4 DEF Initialize, InitializeTransport
  <2>3. UNCHANGED <<apiAt, apiFor, running, loop, pcAt, current, ghostVars>>
    BY <1>4 DEF Initialize
  <2> QED
    BY <2>1, <2>2, <2>3
<1>5. CASE CallStart
  <2>1. apiAt' \in ApiLabels /\ apiFor' \in Operations
    BY <1>5 DEF CallStart
  <2>2. UNCHANGED <<running, capture, loop, rtcVars, current, ghostVars>>
    BY <1>5 DEF CallStart
  <2> QED
    BY <2>1, <2>2
<1>6. CASE CallStop
  <2>1. running' \in BOOLEAN /\ apiAt' \in ApiLabels /\ apiFor' \in Operations
    BY <1>6 DEF CallStop
  <2>2. UNCHANGED <<capture, loop, rtcVars, current, ghostVars>>
    BY <1>6 DEF CallStop
  <2> QED
    BY <2>1, <2>2
<1>7. CASE CallShutdown
  <2>1. /\ running' \in BOOLEAN /\ apiAt' \in ApiLabels /\ apiFor' \in Operations
        /\ tornDown' \in BOOLEAN
    BY <1>7 DEF CallShutdown
  <2>2. UNCHANGED <<capture, loop, rtcVars, current, fault>>
    BY <1>7 DEF CallShutdown
  <2> QED
    BY <2>1, <2>2
<1>8. CASE StartCapture
  <2>1. apiAt' \in ApiLabels /\ apiFor' \in Operations /\ fault' \in Faults
    BY <1>8 DEF StartCapture, Faults
  <2>2. /\ running' \in BOOLEAN /\ capture' \in {"null", "ready", "capturing"}
        /\ loop' \in {"none", "top", "frame", "exited"}
    BY <1>8 DEF StartCapture
  <2>3. UNCHANGED <<rtcVars, current, tornDown>>
    BY <1>8 DEF StartCapture
  <2> QED
    BY <2>1, <2>2, <2>3
<1>9. CASE StartSignaling \/ SigStop \/ SigStopClear \/ SigStopJoin
  <2>1. apiAt' \in ApiLabels /\ apiFor' \in Operations
    BY <1>9 DEF StartSignaling, SigStop, SigStopClear, SigStopJoin, AfterSigStop
  <2>2. UNCHANGED <<running, capture, loop, rtcVars, current, ghostVars>>
    BY <1>9 DEF StartSignaling, SigStop, SigStopClear, SigStopJoin
  <2> QED
    BY <2>1, <2>2
<1>10. CASE HttpServerStop \/ HttpServerJoin \/ DestroyHttpServer
  <2>1. apiAt' \in ApiLabels /\ apiFor' \in Operations
    BY <1>10 DEF HttpServerStop, HttpServerJoin, DestroyHttpServer, AfterHttpStop
  <2>2. UNCHANGED <<running, capture, loop, rtcVars, current, ghostVars>>
    BY <1>10 DEF HttpServerStop, HttpServerJoin, DestroyHttpServer
  <2> QED
    BY <2>1, <2>2
<1>11. CASE StartJoin
  BY <1>11 DEF StartJoin
<1>12. CASE StopJoin
  BY <1>12 DEF StopJoin
<1>13. CASE CloseTransport
  BY <1>13 DEF CloseTransport
<1>14. CASE DestroyParts
  BY <1>14 DEF DestroyParts
<1> QED
  BY <1>4, <1>5, <1>6, <1>7, <1>8, <1>9, <1>10, <1>11, <1>12, <1>13, <1>14
  DEF ApiCall, ApiThread

\* Every step of any thread keeps the types.
LEMMA NextTyped == Typed /\ [Next]_vars => Typed'
<1> SUFFICES ASSUME Typed, [Next]_vars PROVE Typed'
  OBVIOUS
<1>1. CASE UNCHANGED vars
  BY <1>1
  DEF Typed, TypeOK, SigTypeOK, FiniteRegistry, vars, rdsVars, sigVars, serverVars,
      registryVars, acceptVars, socketVars, threadVars, apiVars, partVars, webVars, httpVars,
      HttpTypeOK, ghostVars, rtcVars
<1>2. CASE Next
  BY <1>2, NetworkTyped, SocketTyped, AcceptTyped, CallbackTyped, ListenerTyped, ApiTyped
  DEF Next
<1> QED
  BY <1>1, <1>2

\* Type correctness of the coordinator and the signalling server; with it, that
\* client_count_ is the size of a finite registry whenever it is assigned.
THEOREM TypeCorrect == Spec => []TypeOK
<1>1. Typed => TypeOK
  BY DEF Typed
<1>2. Spec => []Typed
  BY InitTyped, NextTyped, PTL DEF Spec
<1> QED
  BY <1>1, <1>2, PTL
-----------------------------------------------------------------------------
(* The answer a browser gets was made from its own offer. *)

\* From setRemoteDescription to createAnswer mutex_ keeps every other offer, and
\* initialize, away from the PeerConnection.
OfferInv ==
  \A c \in Clients :
    /\ at[c] = "offer_answer" => remote = c
    /\ at[c] = "answer" => answer[c] = c
    /\ answered[c] \subseteq {c}

\* A thread that moves between other labels.
LEMMA OtherMove ==
  ASSUME Typed, OfferInv, NEW c \in Clients, NEW label,
         label \notin {"offer_answer", "answer"},
         at' = [at EXCEPT ![c] = label], UNCHANGED <<answer, answered, remote>>
  PROVE  OfferInv'
BY DEF Typed, TypeOK, SigTypeOK, OfferInv

\* Steps that move no thread of a socket.
LEMMA NoMove ==
  ASSUME OfferInv, UNCHANGED threadVars, ServerFree \/ UNCHANGED remote
  PROVE  OfferInv'
<1>1. CASE UNCHANGED remote
  BY <1>1 DEF OfferInv, threadVars
<1>2. CASE ServerFree
  <2>1. \A c \in Clients : at[c] # "offer_answer"
    BY <1>2 DEF ServerFree, ServerHolders
  <2> QED
    BY <2>1 DEF OfferInv, threadVars
<1> QED
  BY <1>1, <1>2

\* Every step keeps the agreement of answers and offers.
LEMMA NextOffer == Typed /\ OfferInv /\ [Next]_vars => OfferInv'
<1> SUFFICES ASSUME Typed, OfferInv, [Next]_vars PROVE OfferInv'
  OBVIOUS
<1>1. CASE UNCHANGED vars
  BY <1>1, NoMove DEF vars, sigVars, rdsVars, rtcVars
<1>2. ASSUME NEW c \in Clients, Sig(Network(c)) PROVE OfferInv'
  <2>1. UNCHANGED <<threadVars, remote>>
    BY <1>2 DEF Sig, rdsVars, rtcVars, Network, Dial, Handshake, ReadJoin, Hangup, BrowserSends
  <2> QED
    BY <2>1, NoMove
<1>3. CASE AcceptThread
  <2>1. UNCHANGED <<threadVars, remote>>
    BY <1>3
    DEF AcceptThread, Sig, rdsVars, rtcVars, Accept, InsertClient, HookClient, socketVars
  <2> QED
    BY <2>1, NoMove
<1>4. CASE PcThread \/ PcEvent \/ CaptureThread
  <2>1. UNCHANGED <<threadVars, remote>>
    BY <1>4
    DEF PcThread, PcEvent, CaptureThread, sigVars, rtcVars, OnIceCandidate,
        SendIceCandidate, LocalCandidate, StateChange, DataChannelChange, LoopTest, NextFrame
  <2> QED
    BY <2>1, NoMove
<1>5. CASE ApiCall
  <2>1. UNCHANGED threadVars
    BY <1>5
    DEF ApiCall, Initialize, CallStart, CallStop, CallShutdown, SigReplace, sigVars
  <2>2. ServerFree
    BY <1>5 DEF ApiCall, Initialize, CallStart, CallStop, CallShutdown, CanCall
  <2> QED
    BY <2>1, <2>2, NoMove
<1>6. CASE ApiThread
  <2>1. UNCHANGED threadVars
    BY <1>6
    DEF ApiThread, StartSignaling, StartCapture, StartJoin, StopJoin, SigStop,
        SigStopClear, SigStopJoin, HttpServerStop, HttpServerJoin, DestroyHttpServer,
        CloseTransport, DestroyParts, AfterSigStop, SigReplace, SigStart, SigClear, sigVars
  <2>2. UNCHANGED remote
    BY <1>6
    DEF ApiThread, StartSignaling, StartCapture, StartJoin, StopJoin, SigStop,
        SigStopClear, SigStopJoin, HttpServerStop, HttpServerJoin, DestroyHttpServer,
        CloseTransport, DestroyParts, rtcVars
  <2> QED
    BY <2>1, <2>2, NoMove
<1>8. CASE Listener(HttpThread) \/ Listener(HttpTrouble)
  BY <1>8, NoMove DEF Listener, sigVars, rtcVars
<1>7. ASSUME NEW c \in Clients, SocketThread(c) PROVE OfferInv'
  <2> USE DEF Sig, sigVars, threadVars, rdsVars, rtcVars, GoTo
  <2>1. CASE Sig(OnOpen(c))
    BY <2>1, NoMove DEF OnOpen
  <2>2. CASE Sig(OnMessage(c))
    BY <2>2, OtherMove DEF OnMessage
  <2>3. CASE Sig(OnClosed(c))
    BY <2>3, OtherMove DEF OnClosed
  <2>4. CASE Sig(TakeCallback(c))
    BY <2>4, OtherMove DEF TakeCallback
  <2>5. CASE Sig(SendAnswer(c, ClientsFree))
    <3>1. /\ at[c] = "answer" /\ at' = [at EXCEPT ![c] = "idle"]
          /\ answer' = [answer EXCEPT ![c] = NoClient]
          /\ \/ answered' = answered
             \/ answered' = [answered EXCEPT ![c] = @ \cup {answer[c]}]
          /\ UNCHANGED remote
      BY <2>5 DEF SendAnswer
    <3> QED
      BY <3>1 DEF Typed, TypeOK, SigTypeOK, OfferInv
  <2>6. CASE Sig(EraseClient(c, ClientsFree))
    BY <2>6, OtherMove DEF EraseClient
  <2>7. CASE Sig(BroadcastLeave(c, ClientsFree))
    BY <2>7, OtherMove DEF BroadcastLeave
  <2>8. CASE ApplyOffer(c)
    <3>1. \A d \in Clients : at[d] # "offer_answer"
      BY <2>8 DEF ApplyOffer, ServerFree, ServerHolders
    <3>2. UNCHANGED <<answer, answered>> /\ at[c] = "offer_call"
      BY <2>8 DEF ApplyOffer
    <3>3. CASE transport = "null"
      BY <2>8, <3>3 DEF ApplyOffer, OfferInv
    <3>4. CASE transport # "null" /\ remote' = c /\ at' = [at EXCEPT ![c] = "offer_answer"]
      BY <3>1, <3>2, <3>4 DEF Typed, TypeOK, SigTypeOK, OfferInv
    <3>5. CASE remote' = remote /\ at' = [at EXCEPT ![c] = "idle"]
      BY <3>2, <3>5, OtherMove
    <3> QED
      BY <2>8, <3>3, <3>4, <3>5 DEF ApplyOffer, SetRemoteDescription
  <2>9. CASE CreateAnswer(c)
    <3>1. at[c] = "offer_answer" /\ UNCHANGED <<answered, remote>>
      BY <2>9 DEF CreateAnswer
    <3>2. CASE /\ answer' = [answer EXCEPT ![c] = remote]
               /\ at' = [at EXCEPT ![c] = "answer"]
      BY <3>1, <3>2 DEF Typed, TypeOK, SigTypeOK, OfferInv
    <3>3. CASE UNCHANGED answer /\ at' = [at EXCEPT ![c] = "idle"]
      BY <3>1, <3>3, OtherMove
    <3> QED
      BY <2>9, <3>2, <3>3 DEF CreateAnswer
  <2>10. CASE AddIceCandidate(c)
    BY <2>10, OtherMove DEF AddIceCandidate
  <2>11. CASE ForgetClient(c)
    BY <2>11, OtherMove DEF ForgetClient
  <2>12. CASE UseDestroyedSignaling(c)
    BY <2>12, NoMove DEF UseDestroyedSignaling
  <2> QED
    BY <1>7, <2>1, <2>2, <2>3, <2>4, <2>5, <2>6, <2>7, <2>8, <2>9, <2>10, <2>11, <2>12
    DEF SocketThread
<1> QED
  BY <1>1, <1>2, <1>3, <1>4, <1>5, <1>6, <1>7, <1>8 DEF Next

\* However the offers of several browsers, failing offers, stops and restarts
\* interleave, no browser is sent the answer to another browser's offer.
THEOREM AnswersMatchOffersAlways == Spec => []AnswersMatchOffers
<1>1. Init => OfferInv
  BY DEF Init, SigInit, OfferInv
<1>2. OfferInv => AnswersMatchOffers
  BY DEF OfferInv, AnswersMatchOffers
<1>3. Spec => [](Typed /\ OfferInv)
  BY <1>1, InitTyped, NextTyped, NextOffer, PTL DEF Spec
<1> QED
  BY <1>2, <1>3, PTL
-----------------------------------------------------------------------------
(* The registry: who is in it, how it is counted, when it is empty. *)

\* A socket runs callbacks only after HookClient, so the client InsertClient
\* registers cannot already be on its way out.
SocketInv ==
  /\ acc # "accept" => home[accClient] = "none" /\ ws[accClient] \notin {"away", "calling"}
  /\ \A c \in Clients : ws[c] \in {"away", "calling"} => home[c] = "none"
  /\ \A c \in Clients : home[c] = "none" => at[c] = "idle"

DepartedInv ==
  \A c \in Clients :
    /\ at[c] \in {"bye_notify", "bye_call", "leave", "gone"} => c \notin clients
    /\ at[c] \in {"leave", "gone"} => current # c

\* Connections are accepted, and clients registered, only while the server runs
\* or is inside stop(), which joins the accept thread.
StopInv ==
  /\ acc # "accept" => accepting \/ apiAt = "sig_join"
  /\ accepting => sigRunning \/ apiAt = "sig_clear"
  /\ clients # {} => sigRunning \/ apiAt = "sig_clear"

RegistryInv == SocketInv /\ DepartedInv /\ StopInv /\ CountIsExact

\* What SocketInv, DepartedInv and StopInv depend on.
registryView == <<sigRunning, accepting, registryVars, acceptVars, ws, home, at, current>>

\* Steps that leave all of it alone and enter and leave no part of stop().
LEMMA RegistryQuiet ==
  ASSUME RegistryInv, UNCHANGED registryView,
         UNCHANGED apiAt \/ {apiAt, apiAt'} \cap {"sig_clear", "sig_join"} = {}
  PROVE  RegistryInv'
BY DEF RegistryInv, SocketInv, DepartedInv, StopInv, CountIsExact, registryView,
       registryVars, acceptVars

\* What the browser and the network do to a socket leaves the registry alone.
LEMMA NetworkRegistry ==
  ASSUME Typed, RegistryInv, NEW c \in Clients, Sig(Network(c))
  PROVE  RegistryInv'
<1>1. /\ UNCHANGED <<sigRunning, accepting, registryVars, acceptVars, home, at, current, apiAt>>
      /\ \A d \in Clients : ws'[d] \in {"away", "calling"} => ws[d] \in {"away", "calling"}
      /\ \A d \in Clients : ws[d] \notin {"away", "calling"} => ws'[d] \notin {"away", "calling"}
  BY DEF Typed, TypeOK, SigTypeOK, Sig, Network, Dial, Handshake, ReadJoin, Hangup,
         BrowserSends, serverVars, threadVars, rdsVars, apiVars
<1>2. SocketInv'
  BY <1>1 DEF RegistryInv, SocketInv, Typed, TypeOK, SigTypeOK, acceptVars
<1>3. DepartedInv' /\ StopInv' /\ CountIsExact'
  BY <1>1 DEF RegistryInv, DepartedInv, StopInv, CountIsExact, registryVars, acceptVars
<1> QED
  BY <1>2, <1>3 DEF RegistryInv

\* The accept thread inserts a client it has just accepted, and counts it.
LEMMA AcceptRegistry ==
  ASSUME Typed, RegistryInv, AcceptThread
  PROVE  RegistryInv'
<1> USE DEF Sig, serverVars, registryVars, acceptVars, socketVars, threadVars, rdsVars, apiVars
<1>1. ASSUME NEW c \in Clients, Sig(Accept(c)) PROVE RegistryInv'
  <2>1. /\ acc = "accept" /\ accepting /\ ws[c] = "calling"
        /\ ws' = [ws EXCEPT ![c] = "handshake"] /\ acc' = "insert" /\ accClient' = c
        /\ UNCHANGED <<sigRunning, accepting, clients, count, home, at, current, apiAt>>
    BY <1>1 DEF Accept
  <2>2. SocketInv'
    BY <2>1 DEF RegistryInv, SocketInv, Typed, TypeOK, SigTypeOK
  <2>3. DepartedInv' /\ StopInv' /\ CountIsExact'
    BY <2>1 DEF RegistryInv, DepartedInv, StopInv, CountIsExact
  <2> QED
    BY <2>2, <2>3 DEF RegistryInv
<1>2. CASE Sig(InsertClient(ClientsFree))
  <2>1. /\ acc = "insert" /\ acc' = "hook" /\ apiAt # "sig_join"
        /\ clients' = clients \cup {accClient} /\ count' = Cardinality(clients')
        /\ UNCHANGED <<sigRunning, accepting, accClient, ws, home, at, current, apiAt>>
    BY <1>2 DEF InsertClient, ClientsFree, ClientsHolders
  <2>2. at[accClient] = "idle" /\ accClient \in Clients
    BY <2>1 DEF RegistryInv, SocketInv, Typed, TypeOK, SigTypeOK
  <2>3. SocketInv'
    BY <2>1 DEF RegistryInv, SocketInv
  <2>4. DepartedInv'
    BY <2>1, <2>2 DEF RegistryInv, DepartedInv
  <2>5. StopInv' /\ CountIsExact'
    BY <2>1 DEF RegistryInv, StopInv, CountIsExact
  <2> QED
    BY <2>3, <2>4, <2>5 DEF RegistryInv
<1>3. CASE Sig(HookClient)
  <2>1. /\ acc = "hook" /\ acc' = "accept" /\ home' = [home EXCEPT ![accClient] = "live"]
        /\ UNCHANGED <<sigRunning, accepting, clients, count, ws, at, current, apiAt>>
    BY <1>3 DEF HookClient
  <2>2. SocketInv'
    BY <2>1 DEF RegistryInv, SocketInv, Typed, TypeOK, SigTypeOK
  <2>3. DepartedInv' /\ StopInv' /\ CountIsExact'
    BY <2>1 DEF RegistryInv, DepartedInv, StopInv, CountIsExact
  <2> QED
    BY <2>2, <2>3 DEF RegistryInv
<1> QED
  BY <1>1, <1>2, <1>3 DEF AcceptThread

\* A socket's thread that moves on without touching the registry.
LEMMA MoveRegistry ==
  ASSUME Typed, RegistryInv, NEW c \in Clients, NEW label,
         at' = [at EXCEPT ![c] = label], home[c] # "none",
         label \in {"bye_notify", "bye_call", "leave", "gone"} => c \notin clients,
         label \in {"leave", "gone"} => current' # c,
         \A d \in Clients \ {c} : at[d] \in {"leave", "gone"} => current' # d,
         UNCHANGED <<sigRunning, accepting, registryVars, acceptVars, ws, home, apiAt>>
  PROVE  RegistryInv'
<1>1. \A d \in Clients : at'[d] = IF d = c THEN label ELSE at[d]
  BY DEF Typed, TypeOK, SigTypeOK
<1>2. SocketInv'
  BY <1>1 DEF RegistryInv, SocketInv, acceptVars
<1>3. DepartedInv'
  BY <1>1 DEF RegistryInv, DepartedInv, registryVars
<1>4. StopInv' /\ CountIsExact'
  BY DEF RegistryInv, StopInv, CountIsExact, registryVars, acceptVars
<1> QED
  BY <1>2, <1>3, <1>4 DEF RegistryInv

\* The thread of a socket takes its client out of the registry before it leaves.
LEMMA SocketRegistry ==
  ASSUME Typed, RegistryInv, NEW c \in Clients, SocketThread(c)
  PROVE  RegistryInv'
<1> USE DEF Sig, sigVars, serverVars, socketVars, rdsVars, apiVars, GoTo
<1>0. /\ \A d \in Clients : at[d] \in {"leave", "gone"} => current # d
      /\ at[c] \in {"bye_notify", "bye_call", "leave", "gone"} => c \notin clients
  BY DEF RegistryInv, DepartedInv
<1>1. CASE Sig(OnOpen(c)) \/ UseDestroyedSignaling(c)
  <2>1. UNCHANGED <<registryView, apiAt>>
    BY <1>1 DEF OnOpen, UseDestroyedSignaling, registryView, threadVars
  <2> QED
    BY <2>1, RegistryQuiet
<1>2. CASE Sig(OnMessage(c)) \/ Sig(OnClosed(c)) \/ Sig(SendAnswer(c, ClientsFree))
  <2>1. PICK label \in {"idle", "offer", "ice", "bye"} : at' = [at EXCEPT ![c] = label]
    BY <1>2 DEF OnMessage, OnClosed, SendAnswer
  <2>2. /\ home[c] # "none"
        /\ UNCHANGED <<sigRunning, accepting, registryVars, acceptVars, ws, home, apiAt, current>>
    BY <1>2 DEF OnMessage, OnClosed, SendAnswer
  <2> QED
    BY <1>0, <2>1, <2>2, MoveRegistry
<1>3. CASE Sig(TakeCallback(c)) \/ Sig(BroadcastLeave(c, ClientsFree))
  <2>1. PICK label \in {"offer_call", "ice_call", "bye_call", "gone"} :
             /\ at' = [at EXCEPT ![c] = label]
             /\ label = "bye_call" => at[c] = "bye_notify"
             /\ label = "gone" => at[c] = "leave"
    BY <1>3 DEF TakeCallback, BroadcastLeave
  <2>2. /\ home[c] # "none"
        /\ UNCHANGED <<sigRunning, accepting, registryVars, acceptVars, ws, home, apiAt, current>>
    BY <1>3 DEF TakeCallback, BroadcastLeave
  <2> QED
    BY <1>0, <2>1, <2>2, MoveRegistry
<1>4. CASE Sig(EraseClient(c, ClientsFree))
  <2>1. /\ home[c] # "none" /\ at' = [at EXCEPT ![c] = "bye_notify"]
        /\ clients' = clients \ {c} /\ count' = Cardinality(clients')
        /\ UNCHANGED <<sigRunning, accepting, acceptVars, ws, home, apiAt, current>>
    BY <1>4 DEF EraseClient
  <2>2. \A d \in Clients : at'[d] = IF d = c THEN "bye_notify" ELSE at[d]
    BY <2>1 DEF Typed, TypeOK, SigTypeOK
  <2>3. SocketInv' /\ DepartedInv'
    BY <2>1, <2>2 DEF RegistryInv, SocketInv, DepartedInv, acceptVars
  <2>4. StopInv' /\ CountIsExact'
    BY <2>1 DEF RegistryInv, StopInv, CountIsExact, acceptVars
  <2> QED
    BY <2>3, <2>4 DEF RegistryInv
<1>5. CASE ApplyOffer(c)
  <2>1. /\ at[c] = "offer_call" /\ home[c] # "none" /\ current' = c
        /\ UNCHANGED <<sigRunning, accepting, registryVars, acceptVars, ws, home, apiAt>>
        /\ \E label \in {"offer_call", "offer_answer", "idle"} : at' = [at EXCEPT ![c] = label]
    BY <1>5 DEF ApplyOffer, Typed, TypeOK, SigTypeOK
  <2> QED
    BY <2>1, MoveRegistry
<1>6. CASE CreateAnswer(c) \/ AddIceCandidate(c)
  <2>1. PICK label \in {"answer", "idle"} : at' = [at EXCEPT ![c] = label]
    BY <1>6 DEF CreateAnswer, AddIceCandidate
  <2>2. /\ home[c] # "none"
        /\ UNCHANGED <<sigRunning, accepting, registryVars, acceptVars, ws, home, apiAt, current>>
    BY <1>6 DEF CreateAnswer, AddIceCandidate
  <2> QED
    BY <1>0, <2>1, <2>2, MoveRegistry
<1>7. CASE ForgetClient(c)
  <2>1. /\ home[c] # "none" /\ at[c] = "bye_call" /\ at' = [at EXCEPT ![c] = "leave"]
        /\ current' = IF current = c THEN NoClient ELSE current
        /\ UNCHANGED <<sigRunning, accepting, registryVars, acceptVars, ws, home, apiAt>>
    BY <1>7 DEF ForgetClient
  <2> QED
    BY <1>0, <2>1, MoveRegistry, ClientsAssumption
<1> QED
  BY <1>1, <1>2, <1>3, <1>4, <1>5, <1>6, <1>7 DEF SocketThread

\* The signalling server is replaced or destroyed.
LEMMA ReplaceRegistry ==
  ASSUME Typed, RegistryInv, NEW exists, SigReplace(exists), UNCHANGED current,
         apiAt # "sig_clear", apiAt' # "sig_join", UNCHANGED apiAt \/ acc = "accept" \/ apiAt # "sig_join"
  PROVE  RegistryInv'
<1>1. /\ clients' = {} /\ \A c \in Clients : home[c] = "none" <=> home'[c] = "none"
      /\ UNCHANGED <<sigRunning, accepting, acceptVars, ws, at>>
  BY DEF SigReplace, Typed, TypeOK, SigTypeOK, threadVars
<1>2. SocketInv' /\ DepartedInv'
  BY <1>1 DEF RegistryInv, SocketInv, DepartedInv, acceptVars, Typed, TypeOK, SigTypeOK
<1>3. StopInv' /\ CountIsExact'
  BY <1>1 DEF RegistryInv, StopInv, CountIsExact, acceptVars
<1> QED
  BY <1>2, <1>3 DEF RegistryInv

\* The API calls of the coordinator keep the registry, or empty it with its counter.
LEMMA ApiRegistry ==
  ASSUME Typed, RegistryInv, ApiCall \/ ApiThread
  PROVE  RegistryInv'
<1> USE DEF ApiGo, ApiReturn
<1>1. CASE Initialize
  <2>1. UNCHANGED <<current, apiAt>> /\ apiAt = "idle"
    BY <1>1 DEF Initialize, CanCall
  <2>2. CASE SigReplace(TRUE)
    BY <2>1, <2>2, ReplaceRegistry
  <2>3. CASE UNCHANGED sigVars
    <3>1. UNCHANGED <<registryView, apiAt>>
      BY <2>1, <2>3 DEF registryView, sigVars, serverVars, socketVars, threadVars
    <3> QED
      BY <3>1, RegistryQuiet
  <2> QED
    BY <1>1, <2>2, <2>3 DEF Initialize
<1>2. CASE CallStart \/ CallStop \/ CallShutdown
  <2>1. /\ UNCHANGED registryView /\ apiAt = "idle"
        /\ apiAt' \notin {"sig_clear", "sig_join"}
    BY <1>2
    DEF CallStart, CallStop, CallShutdown, CanCall, registryView, sigVars, serverVars,
        socketVars, threadVars
  <2> QED
    BY <2>1, RegistryQuiet
<1>3. CASE StartSignaling
  <2>1. CASE UNCHANGED sigVars
    <3>1. /\ UNCHANGED registryView
          /\ {apiAt, apiAt'} \cap {"sig_clear", "sig_join"} = {}
      BY <1>3, <2>1
      DEF StartSignaling, registryView, sigVars, serverVars, socketVars, threadVars
    <3> QED
      BY <3>1, RegistryQuiet
  <2>2. CASE SigStart
    <3>1. /\ sigRunning' = TRUE /\ accepting' = TRUE
          /\ UNCHANGED <<registryVars, acceptVars, ws, home, at, current>>
      BY <1>3, <2>2 DEF StartSignaling, SigStart, socketVars, threadVars
    <3> QED
      BY <3>1
      DEF RegistryInv, SocketInv, DepartedInv, StopInv, CountIsExact, registryVars, acceptVars
  <2> QED
    BY <1>3, <2>1, <2>2 DEF StartSignaling
<1>4. CASE \/ StartCapture \/ StartJoin \/ StopJoin \/ CloseTransport \/ DestroyParts
           \/ HttpServerStop \/ HttpServerJoin \/ DestroyHttpServer
  <2>1. /\ UNCHANGED registryView
        /\ {apiAt, apiAt'} \cap {"sig_clear", "sig_join"} = {}
    BY <1>4
    DEF StartCapture, StartJoin, StopJoin, CloseTransport, DestroyParts, HttpServerStop,
        HttpServerJoin, DestroyHttpServer, AfterHttpStop, registryView, sigVars, serverVars,
        socketVars, threadVars
  <2> QED
    BY <2>1, RegistryQuiet
<1>5. CASE SigStop
  <2>1. CASE sigRunning
    <3>1. /\ apiAt = "sig_stop" /\ apiAt' = "sig_clear"
          /\ UNCHANGED <<accepting, registryVars, acceptVars, ws, home, at, current>>
      BY <1>5, <2>1 DEF SigStop, socketVars, threadVars
    <3> QED
      BY <3>1
      DEF RegistryInv, SocketInv, DepartedInv, StopInv, CountIsExact, registryVars, acceptVars
  <2>2. CASE ~sigRunning /\ apiFor = "shutdown"
    BY <1>5, <2>2, ReplaceRegistry DEF SigStop, AfterSigStop
  <2>3. CASE ~sigRunning /\ apiFor # "shutdown"
    <3>1. UNCHANGED registryView /\ {apiAt, apiAt'} \cap {"sig_clear", "sig_join"} = {}
      BY <1>5, <2>3
      DEF SigStop, AfterSigStop, registryView, sigVars, serverVars, socketVars, threadVars
    <3> QED
      BY <3>1, RegistryQuiet
  <2> QED
    BY <2>1, <2>2, <2>3
<1>6. CASE SigStopClear
  <2>1. /\ apiAt' = "sig_join" /\ clients' = {} /\ accepting' = FALSE
        /\ UNCHANGED <<sigRunning, acceptVars, home, at, current>>
        /\ \A c \in Clients : ws'[c] = IF ws[c] = "calling" THEN "closed" ELSE ws[c]
    BY <1>6 DEF SigStopClear, SigClear, threadVars
  <2> QED
    BY <2>1
    DEF RegistryInv, SocketInv, DepartedInv, StopInv, CountIsExact, acceptVars, Typed,
        TypeOK, SigTypeOK
<1>7. CASE SigStopJoin
  <2>1. CASE apiFor = "shutdown"
    BY <1>7, <2>1, ReplaceRegistry DEF SigStopJoin, AfterSigStop
  <2>2. CASE apiFor # "shutdown"
    <3>1. /\ UNCHANGED registryView /\ acc = "accept"
          /\ apiAt = "sig_join" /\ apiAt' \in {"idle", "http_stop"}
      BY <1>7, <2>2
      DEF SigStopJoin, AfterSigStop, registryView, sigVars, serverVars, socketVars, threadVars
    <3> QED
      BY <3>1
      DEF RegistryInv, SocketInv, DepartedInv, StopInv, CountIsExact, registryView,
          registryVars, acceptVars
  <2> QED
    BY <2>1, <2>2
<1> QED
  BY <1>1, <1>2, <1>3, <1>4, <1>5, <1>6, <1>7 DEF ApiCall, ApiThread

\* Every step keeps the invariant of the registry.
LEMMA NextRegistry == Typed /\ RegistryInv /\ [Next]_vars => RegistryInv'
<1> SUFFICES ASSUME Typed, RegistryInv, [Next]_vars PROVE RegistryInv'
  OBVIOUS
<1>1. CASE UNCHANGED vars
  <2>1. UNCHANGED <<registryView, apiAt>>
    BY <1>1 DEF vars, sigVars, rdsVars, registryView, serverVars, socketVars, threadVars, apiVars
  <2> QED
    BY <2>1, RegistryQuiet
<1>2. CASE PcThread \/ PcEvent \/ CaptureThread
  <2>1. UNCHANGED <<registryView, apiAt>>
    BY <1>2
    DEF PcThread, PcEvent, CaptureThread, OnIceCandidate, SendIceCandidate, LocalCandidate,
        StateChange, DataChannelChange, LoopTest, NextFrame, sigVars, registryView, serverVars,
        socketVars,
        threadVars, apiVars
  <2> QED
    BY <2>1, RegistryQuiet
<1>3. CASE Listener(HttpThread) \/ Listener(HttpTrouble)
  <2>1. UNCHANGED <<registryView, apiAt>>
    BY <1>3 DEF Listener, sigVars, registryView, serverVars, socketVars, threadVars, apiVars
  <2> QED
    BY <2>1, RegistryQuiet
<1> QED
  BY <1>1, <1>2, <1>3, NetworkRegistry, AcceptRegistry, SocketRegistry, ApiRegistry DEF Next

\* The types and the invariant of the registry hold in every reachable state.
LEMMA RegistryAlways == Spec => [](Typed /\ RegistryInv)
<1>1. Init => RegistryInv
  BY DEF Init, SigInit, RegistryInv, SocketInv, DepartedInv, StopInv, CountIsExact
<1> QED
  BY <1>1, InitTyped, NextTyped, NextRegistry, PTL DEF Spec

\* A browser whose disconnection has been handled is in no registry and is not
\* the target of candidates, whatever offers and API calls were in progress.
THEOREM DepartedAreForgottenAlways == Spec => []DepartedAreForgotten
<1>1. RegistryInv => DepartedAreForgotten
  BY DEF RegistryInv, DepartedInv, DepartedAreForgotten
<1> QED
  BY <1>1, RegistryAlways, PTL

\* client_count_ is the size of the registry whenever the registry is not empty.
THEOREM CountIsExactAlways == Spec => []CountIsExact
<1>1. RegistryInv => CountIsExact
  BY DEF RegistryInv
<1> QED
  BY <1>1, RegistryAlways, PTL

\* A signalling server that is stopped has no clients, however a connection
\* raced with stop().
THEOREM StoppedRegistryIsEmptyAlways == Spec => []StoppedRegistryIsEmpty
<1>1. RegistryInv => StoppedRegistryIsEmpty
  BY DEF RegistryInv, StopInv, StoppedRegistryIsEmpty
<1> QED
  BY <1>1, RegistryAlways, PTL
-----------------------------------------------------------------------------
(* The services start and stop together. *)

\* No listening thread is left, or it has ended.
Off == listener \in {"none", "ended"}

\* It serves, will, or has ended by a failure of its own.
Up ==
  \/ httpRunning /\ listener \in {"spawned", "accepting"}
  \/ httpRunning /\ listener = "ended" /\ decommissioned
  \/ ~httpRunning /\ listener = "ended"

\* A listening thread can be joined; one that was told to stop, or missed it, is
\* being joined.  Without an HTTP server there is none.
ListenerInv ==
  /\ ~Off => joinable
  /\ listener \in {"spawned", "accepting"} => httpRunning
  /\ listener \in {"missed", "closing"} => apiAt = "http_join"
  /\ ~httpAlive => Off

\* What the API thread may count on at each of its labels.
PhaseInv ==
  /\ ListenerInv
  /\ apiAt = "idle" /\ running =>
       /\ Up /\ sigRunning /\ accepting
       /\ capture = "capturing" /\ loop \in {"top", "frame"}
  /\ apiAt = "idle" /\ ~running => Off /\ ~sigRunning /\ ~accepting
  /\ apiAt = "start_signaling" =>
       ~running /\ Up /\ ~sigRunning /\ ~accepting /\ apiFor = "start"
  /\ apiAt = "start_capture" =>
       ~running /\ Up /\ sigRunning /\ accepting /\ apiFor = "start"
  /\ apiAt = "start_join" =>
       running /\ Up /\ sigRunning /\ accepting /\ capture = "capturing"
  /\ apiAt = "stop_join" => ~running /\ sigRunning /\ accepting
  /\ apiAt \in {"close", "destroy"} =>
       ~running /\ sigRunning = accepting /\ apiFor = "shutdown"
  /\ apiAt \in {"http_stop", "http_join"} =>
       /\ ~running /\ sigRunning = accepting
       /\ apiFor \notin {"undo", "shutdown"} => ~sigRunning
  /\ apiAt = "http_destroy" =>
       ~running /\ sigRunning = accepting /\ apiFor = "shutdown" /\ Off
  /\ apiAt = "sig_stop" =>
       /\ ~running /\ sigRunning = accepting
       /\ apiFor # "stop" => Off
  /\ apiAt \in {"sig_clear", "sig_join"} =>
       /\ ~running /\ ~sigRunning
       /\ apiFor # "stop" => Off
  /\ apiAt = "sig_join" => ~accepting

\* What PhaseInv depends on.
phaseView == <<sigRunning, accepting, apiAt, apiFor, partVars>>

\* The listening thread moves on by itself, or fails: it stays up or off.
LEMMA ListenerPhase ==
  ASSUME Typed, PhaseInv, Listener(HttpThread) \/ Listener(HttpTrouble)
  PROVE  PhaseInv'
<1>1. /\ UNCHANGED <<sigRunning, accepting, apiAt, apiFor, running, httpAlive, capture, loop,
                     joinable>>
      /\ ~Off
  BY DEF Listener, sigVars, serverVars, apiVars, HttpThread, HttpTrouble, Listen, ListenEnds,
         AcceptFails, ListenThrows, Off
<1>2. Up => Up'
  BY DEF Listener, HttpThread, HttpTrouble, Listen, ListenEnds, AcceptFails, ListenThrows,
         Up, Typed, TypeOK, HttpTypeOK
<1>3. ListenerInv'
  BY <1>1
  DEF Listener, HttpThread, HttpTrouble, Listen, ListenEnds, AcceptFails, ListenThrows,
      PhaseInv, ListenerInv, Off
<1> QED
  BY <1>1, <1>2, <1>3 DEF PhaseInv

\* HttpServer::stop up to its join: a thread that is left is joined next.
LEMMA HttpStopPhase ==
  ASSUME Typed, PhaseInv, HttpServerStop
  PROVE  PhaseInv'
<1>1. /\ apiAt = "http_stop" /\ HttpStop
      /\ UNCHANGED <<sigRunning, accepting, running, httpAlive, capture, loop>>
  BY DEF HttpServerStop, sigVars, serverVars
<1>2. /\ ~running /\ sigRunning = accepting
      /\ apiFor \notin {"undo", "shutdown"} => ~sigRunning
      /\ ListenerInv /\ HttpTypeOK /\ sigRunning \in BOOLEAN /\ accepting \in BOOLEAN
  BY <1>1 DEF PhaseInv, Typed, TypeOK, SigTypeOK
<1>3. CASE httpRunning
  <2>1. apiAt' = "http_join" /\ apiFor' = apiFor
    BY <1>3 DEF HttpServerStop, ApiGo
  <2>2. UNCHANGED joinable /\ (Off => Off') /\ listener' \notin {"spawned", "accepting"}
    BY <1>1, <1>2, <1>3 DEF HttpStop, HttpTypeOK, Off
  <2>3. ListenerInv'
    BY <1>1, <1>2, <2>1, <2>2 DEF ListenerInv
  <2> QED
    BY <1>1, <1>2, <2>1, <2>3 DEF PhaseInv
<1>4. CASE ~httpRunning
  <2>1. UNCHANGED httpVars
    BY <1>1, <1>4 DEF HttpStop
  <2>2. Off
    BY <1>1, <1>2, <1>4 DEF ListenerInv, Off, HttpTypeOK
  <2>3. Off' /\ ListenerInv'
    BY <2>1, <2>2 DEF ListenerInv, Off, httpVars
  <2>4. AfterHttpStop
    BY <1>4 DEF HttpServerStop
  <2> QED
    BY <1>1, <1>2, <2>3, <2>4 DEF AfterHttpStop, ApiGo, ApiReturn, PhaseInv
<1> QED
  BY <1>3, <1>4

\* Its join: the thread has ended.
LEMMA HttpJoinPhase ==
  ASSUME Typed, PhaseInv, HttpServerJoin
  PROVE  PhaseInv'
<1>1. /\ apiAt = "http_join" /\ HttpJoin /\ AfterHttpStop
      /\ UNCHANGED <<sigRunning, accepting, running, httpAlive, capture, loop>>
  BY DEF HttpServerJoin, sigVars, serverVars
<1>2. /\ ~running /\ sigRunning = accepting
      /\ apiFor \notin {"undo", "shutdown"} => ~sigRunning
      /\ ListenerInv
  BY <1>1 DEF PhaseInv
<1>3. Off' /\ ListenerInv'
  BY <1>1, <1>2 DEF HttpJoin, ListenerInv, Off
<1> QED
  BY <1>1, <1>2, <1>3 DEF AfterHttpStop, ApiGo, ApiReturn, PhaseInv

\* The owner's calls, up to their first wait.
LEMMA CallPhase ==
  ASSUME Typed, PhaseInv, ApiCall
  PROVE  PhaseInv'
<1>0. apiAt = "idle" /\ (~running => Off /\ ~sigRunning /\ ~accepting) /\ ListenerInv
  BY DEF ApiCall, Initialize, CallStart, CallStop, CallShutdown, CanCall, PhaseInv
<1>1. CASE Initialize
  <2>1. /\ UNCHANGED <<sigRunning, accepting, apiAt, running>> /\ ~running
        /\ \/ HttpReplace
           \/ UNCHANGED httpVars
    BY <1>1 DEF Initialize, SigReplace, sigVars, serverVars
  <2>2. Off' /\ ListenerInv'
    BY <1>0, <2>1 DEF HttpReplace, httpVars, ListenerInv, Off
  <2> QED
    BY <1>0, <2>1, <2>2 DEF PhaseInv
<1>2. CASE CallStart
  <2>1. UNCHANGED <<sigRunning, accepting, running, httpAlive, capture, loop>>
    BY <1>2 DEF CallStart, sigVars, serverVars
  <2>2. CASE HttpStart /\ ~running /\ httpAlive /\ ApiGo("start", "start_signaling")
    <3>1. Up' /\ ListenerInv'
      BY <2>1, <2>2 DEF HttpStart, Up, ListenerInv, Off
    <3> QED
      BY <1>0, <2>1, <2>2, <3>1 DEF ApiGo, PhaseInv
  <2>3. CASE UNCHANGED <<apiAt, apiFor, httpVars>>
    BY <2>1, <2>3 DEF PhaseInv, ListenerInv, Off, Up, httpVars
  <2>4. CASE HttpStartFails /\ ~running /\ UNCHANGED <<apiAt, apiFor>>
    <3>1. Off' /\ ListenerInv'
      BY <1>0, <2>1, <2>4 DEF HttpStartFails, httpVars, Off, ListenerInv
    <3> QED
      BY <1>0, <2>1, <2>4, <3>1 DEF PhaseInv
  <2> QED
    BY <1>2, <2>2, <2>3, <2>4 DEF CallStart
<1>3. CASE CallStop \/ CallShutdown
  <2>1. /\ UNCHANGED <<sigRunning, accepting, webVars, capture, loop>> /\ running' = FALSE
        /\ \/ running /\ ApiGo("stop", "stop_join")
           \/ ~running /\ UNCHANGED <<apiAt, apiFor>>
           \/ ApiGo("shutdown", "close") \/ ApiGo("shutdown", "destroy")
    BY <1>3 DEF CallStop, CallShutdown, sigVars, serverVars, Typed, TypeOK
  <2>2. ListenerInv' /\ (Off => Off')
    BY <1>0, <2>1 DEF ListenerInv, Off, webVars, httpVars
  <2>3. sigRunning = accepting
    BY <1>0 DEF PhaseInv, Typed, TypeOK, SigTypeOK
  <2> QED
    BY <1>0, <2>1, <2>2, <2>3 DEF ApiGo, PhaseInv
<1> QED
  BY <1>1, <1>2, <1>3 DEF ApiCall

\* The rest of its calls.
LEMMA ApiPhase ==
  ASSUME Typed, PhaseInv, ApiThread
  PROVE  PhaseInv'
<1>1. ASSUME UNCHANGED webVars, apiAt # "http_join"
      PROVE  ListenerInv' /\ (Off => Off') /\ (Up => Up')
  BY <1>1 DEF PhaseInv, ListenerInv, Off, Up, webVars, httpVars
<1> USE DEF ApiGo, ApiReturn, Typed, TypeOK, SigTypeOK
<1>2. CASE StartSignaling
  BY <1>1, <1>2 DEF StartSignaling, SigStart, sigVars, serverVars, partVars, PhaseInv
<1>3. CASE StartCapture
  BY <1>1, <1>3 DEF StartCapture, sigVars, serverVars, PhaseInv
<1>4. CASE StartJoin
  BY <1>1, <1>4 DEF StartJoin, sigVars, serverVars, PhaseInv
<1>5. CASE StopJoin
  BY <1>1, <1>5 DEF StopJoin, sigVars, serverVars, PhaseInv
<1>6. CASE SigStop \/ SigStopJoin
  <2>1. /\ apiAt \in {"sig_stop", "sig_join"} /\ UNCHANGED partVars
        /\ UNCHANGED <<accepting, running>>
    BY <1>6
    DEF SigStop, SigStopJoin, AfterSigStop, SigReplace, sigVars, serverVars, partVars
  <2>2. ListenerInv' /\ (Off => Off')
    BY <1>1, <2>1 DEF partVars
  <2>3. CASE SigStop /\ sigRunning
    BY <2>1, <2>2, <2>3 DEF SigStop, PhaseInv
  <2>4. CASE ~(SigStop /\ sigRunning)
    <3>1. /\ AfterSigStop /\ ~sigRunning /\ ~accepting
          /\ UNCHANGED sigRunning
      BY <1>6, <2>1, <2>4
      DEF SigStop, SigStopJoin, AfterSigStop, SigReplace, sigVars, serverVars, PhaseInv
    <3>2. \/ apiFor = "stop" /\ apiAt' = "http_stop" /\ apiFor' = "stop"
          \/ apiFor # "stop" /\ apiAt' = "idle"
      BY <3>1 DEF AfterSigStop
    <3> QED
      BY <2>1, <2>2, <3>1, <3>2 DEF PhaseInv
  <2> QED
    BY <2>3, <2>4
<1>7. CASE SigStopClear
  BY <1>1, <1>7 DEF SigStopClear, SigClear, partVars, PhaseInv
<1>8. CASE HttpServerStop \/ HttpServerJoin
  BY <1>8, HttpStopPhase, HttpJoinPhase
<1>9. CASE DestroyHttpServer
  <2>1. Off' /\ ListenerInv'
    BY <1>9 DEF DestroyHttpServer, HttpDestroy, PhaseInv, ListenerInv, Off
  <2> QED
    BY <1>9, <2>1 DEF DestroyHttpServer, sigVars, serverVars, PhaseInv
<1>10. CASE CloseTransport
  BY <1>1, <1>10 DEF CloseTransport, sigVars, serverVars, partVars, PhaseInv
<1>11. CASE DestroyParts
  <2>1. ListenerInv' /\ (~httpAlive => Off')
    BY <1>1, <1>11 DEF DestroyParts, PhaseInv, ListenerInv
  <2> QED
    BY <1>11, <2>1 DEF DestroyParts, sigVars, serverVars, PhaseInv
<1> QED
  BY <1>2, <1>3, <1>4, <1>5, <1>6, <1>7, <1>8, <1>9, <1>10, <1>11 DEF ApiThread

\* Every step keeps what the phase of an API call says of the parts.
LEMMA NextPhase == Typed /\ PhaseInv /\ [Next]_vars => PhaseInv'
<1> SUFFICES ASSUME Typed, PhaseInv, [Next]_vars PROVE PhaseInv'
  OBVIOUS
<1>1. ASSUME UNCHANGED phaseView PROVE PhaseInv'
  BY <1>1 DEF PhaseInv, ListenerInv, Off, Up, phaseView, partVars, webVars, httpVars
<1>2. CASE UNCHANGED vars
  BY <1>1, <1>2 DEF vars, sigVars, serverVars, rdsVars, apiVars, phaseView
<1>3. ASSUME NEW c \in Clients, Sig(Network(c)) \/ SocketThread(c) PROVE PhaseInv'
  <2>1. CASE Sig(Network(c))
    BY <1>1, <2>1
    DEF Sig, Network, Dial, Handshake, ReadJoin, Hangup, BrowserSends, serverVars,
        rdsVars, apiVars, phaseView
  <2>2. CASE SocketThread(c)
    BY <1>1, <2>2
    DEF SocketThread, Sig, OnOpen, OnMessage, OnClosed, TakeCallback, SendAnswer,
        EraseClient, BroadcastLeave, ApplyOffer, CreateAnswer, AddIceCandidate,
        ForgetClient, UseDestroyedSignaling, sigVars, serverVars, rdsVars, apiVars, phaseView
  <2> QED
    BY <1>3, <2>1, <2>2
<1>4. CASE AcceptThread \/ PcThread \/ PcEvent
  BY <1>1, <1>4
  DEF AcceptThread, Sig, Accept, InsertClient, HookClient, PcThread, PcEvent,
      OnIceCandidate, SendIceCandidate, LocalCandidate, StateChange,
      DataChannelChange, sigVars, serverVars,
      rdsVars, apiVars, phaseView
<1>5. CASE CaptureThread
  <2>1. /\ UNCHANGED <<sigRunning, accepting, apiAt, apiFor, running, webVars, capture>>
        /\ running => loop' \in {"top", "frame"}
    BY <1>5 DEF CaptureThread, LoopTest, NextFrame, sigVars, serverVars, apiVars
  <2>2. ListenerInv' /\ (Off => Off') /\ (Up => Up')
    BY <2>1 DEF PhaseInv, ListenerInv, Off, Up, webVars, httpVars
  <2> QED
    BY <2>1, <2>2 DEF PhaseInv
<1> QED
  BY <1>2, <1>3, <1>4, <1>5, ListenerPhase, CallPhase, ApiPhase DEF Next

\* Whichever step of start() fails and wherever stop() and shutdown() come in, the
\* signalling server, the capture and its thread are up together or down together
\* whenever no API call is in progress, and the listener of the HTTP server is up,
\* or has ended by a failure of its own, with the others, and off without them.
THEOREM ServicesTogetherAlways == Spec => []ServicesTogether
<1>1. Init => PhaseInv
  BY DEF Init, SigInit, HttpInit, PhaseInv, ListenerInv, Off
<1>2. Typed /\ PhaseInv => ServicesTogether
  BY DEF PhaseInv, Up, Off, ServicesTogether, Typed, TypeOK
<1>3. Spec => [](Typed /\ PhaseInv)
  BY <1>1, InitTyped, NextTyped, NextPhase, PTL DEF Spec
<1> QED
  BY <1>2, <1>3, PTL
-----------------------------------------------------------------------------
(* Nothing that is gone is used before shutdown(). *)

\* A server that has not been shut down keeps every object a callback or the
\* capture thread can reach; one without a transport, whose initialize() failed,
\* has no thread that could reach it, until start() has opened the sockets.
LiveInv ==
  ~tornDown =>
    /\ \A c \in Clients : home[c] # "dangling"
    /\ capture = "null" <=> transport = "null"
    /\ transport = "null" => loop = "none"
    /\ transport = "null" /\ apiAt # "start_capture" =>
         acc = "accept" /\ ~accepting /\ \A c \in Clients : home[c] = "none"
    /\ apiFor # "shutdown" /\ apiAt \notin {"close", "destroy", "http_destroy"}

FaultInv == (fault = "none" => LiveInv) /\ FaultsNeedTearDown

\* What FaultInv depends on.
faultView ==
  <<home, acc, accepting, apiAt, apiFor, capture, loop, transport, ghostVars>>

\* Every step keeps what the noted faults say of the parts.
LEMMA NextFault == Typed /\ FaultInv /\ [Next]_vars => FaultInv'
<1> SUFFICES ASSUME Typed, FaultInv, [Next]_vars PROVE FaultInv'
  OBVIOUS
<1>1. ASSUME UNCHANGED faultView PROVE FaultInv'
  BY <1>1 DEF FaultInv, LiveInv, FaultsNeedTearDown, faultView, ghostVars
<1>2. CASE UNCHANGED vars
  BY <1>1, <1>2
  DEF vars, sigVars, serverVars, acceptVars, socketVars, rdsVars, apiVars, partVars, rtcVars,
      faultView
<1> SUFFICES ASSUME Next PROVE FaultInv'
  BY <1>2
<1>0. fault = "none" /\ LiveInv
  BY DEF FaultInv, Next, Executing
<1>3. ASSUME NEW c \in Clients, Sig(Network(c)) PROVE FaultInv'
  BY <1>1, <1>3
  DEF Sig, Network, Dial, Handshake, ReadJoin, Hangup, BrowserSends, serverVars, acceptVars,
      rdsVars, apiVars, partVars, rtcVars, faultView
<1>4. CASE AcceptThread
  <2>1. /\ UNCHANGED <<accepting, apiAt, apiFor, capture, loop, transport, ghostVars>>
        /\ acc # "accept" \/ accepting
    BY <1>4
    DEF AcceptThread, Sig, Accept, InsertClient, HookClient, serverVars, rdsVars, apiVars,
        partVars, rtcVars
  <2>2. \A c \in Clients : home[c] # "dangling" => home'[c] # "dangling"
    BY <1>4
    DEF AcceptThread, Sig, Accept, InsertClient, HookClient, socketVars, Typed, TypeOK, SigTypeOK
  <2> QED
    BY <1>0, <2>1, <2>2 DEF FaultInv, LiveInv, FaultsNeedTearDown, ghostVars
<1>5. ASSUME NEW c \in Clients, SocketThread(c) PROVE FaultInv'
  <2>1. CASE ApplyOffer(c) \/ AddIceCandidate(c)
    <3>1. /\ UNCHANGED <<home, acc, accepting, apiAt, apiFor, capture, loop, transport, tornDown>>
          /\ UNCHANGED fault \/ (fault' = "transport" /\ transport = "null")
      BY <2>1
      DEF ApplyOffer, AddIceCandidate, serverVars, acceptVars, socketVars, apiVars, partVars,
          rtcVars, ghostVars
    <3> QED
      BY <1>0, <3>1 DEF FaultInv, LiveInv, FaultsNeedTearDown
  <2>2. CASE UseDestroyedSignaling(c)
    <3>1. home[c] = "dangling" /\ fault' = "signaling" /\ UNCHANGED tornDown
      BY <2>2 DEF UseDestroyedSignaling, RunsOnDestroyed
    <3>2. tornDown
      BY <1>0, <3>1 DEF LiveInv
    <3> QED
      BY <3>1, <3>2 DEF FaultInv, FaultsNeedTearDown
  <2>3. CASE CreateAnswer(c) \/ ForgetClient(c)
    BY <1>1, <2>3
    DEF CreateAnswer, ForgetClient, serverVars, acceptVars, socketVars, apiVars, partVars,
        rtcVars, faultView
  <2>4. CASE \/ Sig(OnOpen(c)) \/ Sig(OnMessage(c)) \/ Sig(OnClosed(c)) \/ Sig(TakeCallback(c))
             \/ Sig(SendAnswer(c, ClientsFree)) \/ Sig(EraseClient(c, ClientsFree))
             \/ Sig(BroadcastLeave(c, ClientsFree))
    BY <1>1, <2>4
    DEF Sig, OnOpen, OnMessage, OnClosed, TakeCallback, SendAnswer, EraseClient,
        BroadcastLeave, serverVars, acceptVars, socketVars, rdsVars, apiVars, partVars, rtcVars,
        faultView
  <2> QED
    BY <1>5, <2>1, <2>2, <2>3, <2>4 DEF SocketThread
<1>6. CASE PcThread \/ PcEvent
  BY <1>1, <1>6
  DEF PcThread, PcEvent, OnIceCandidate, SendIceCandidate, LocalCandidate, StateChange,
      DataChannelChange, sigVars, serverVars, acceptVars, socketVars, apiVars, partVars,
      faultView
<1>10. CASE Listener(HttpThread) \/ Listener(HttpTrouble)
  BY <1>1, <1>10
  DEF Listener, sigVars, serverVars, acceptVars, socketVars, apiVars, rtcVars, faultView
<1>7. CASE CaptureThread
  <2>1. /\ loop # "none" /\ loop' # "none"
        /\ UNCHANGED <<home, acc, accepting, apiAt, apiFor, capture, transport, tornDown>>
        /\ UNCHANGED fault \/ (fault' = "loop_capture" /\ capture = "null")
    BY <1>7
    DEF CaptureThread, LoopTest, NextFrame, sigVars, serverVars, acceptVars, socketVars,
        apiVars, rtcVars, ghostVars
  <2> QED
    BY <1>0, <2>1 DEF FaultInv, LiveInv, FaultsNeedTearDown
<1>8. CASE ApiCall
  <2> USE <1>0 DEF CanCall, ApiGo, FaultInv, LiveInv, FaultsNeedTearDown, ghostVars
  <2>1. CASE Initialize
    <3>1. /\ UNCHANGED home \/ \A c \in Clients : home'[c] = IF home[c] = "live" THEN "dangling" ELSE home[c]
          /\ UNCHANGED <<acc, accepting, apiAt, apiFor, loop, tornDown, fault>>
      BY <2>1 DEF Initialize, SigReplace, sigVars, serverVars, acceptVars, socketVars
    <3>2. /\ apiAt = "idle" /\ transport = "null"
          /\ \/ UNCHANGED <<capture, transport>>
             \/ capture' = "null" /\ UNCHANGED transport
             \/ capture' # "null" /\ transport' # "null"
      BY <2>1 DEF Initialize, InitializeTransport
    <3> QED
      BY <3>1, <3>2
  <2>2. CASE CallStart
    BY <2>2 DEF CallStart, sigVars, serverVars, acceptVars, socketVars, rtcVars
  <2>3. CASE CallStop
    BY <2>3 DEF CallStop, sigVars, serverVars, acceptVars, socketVars, rtcVars
  <2>4. CASE CallShutdown
    BY <2>4 DEF CallShutdown
  <2> QED
    BY <1>8, <2>1, <2>2, <2>3, <2>4 DEF ApiCall
<1>9. CASE ApiThread
  <2> USE <1>0 DEF ApiGo, ApiReturn, FaultInv, LiveInv, FaultsNeedTearDown
  <2>1. CASE StartSignaling
    BY <2>1
    DEF StartSignaling, SigStart, sigVars, serverVars, acceptVars, socketVars, partVars,
        rtcVars, ghostVars
  <2>2. CASE StartCapture
    <3>1. UNCHANGED <<home, acc, accepting, transport, tornDown>>
      BY <2>2 DEF StartCapture, sigVars, serverVars, acceptVars, socketVars, rtcVars
    <3>2. CASE capture = "null"
      BY <2>2, <3>1, <3>2 DEF StartCapture
    <3>3. CASE capture # "null"
      <4>1. /\ capture' # "null" /\ apiFor' \in {"start", "undo", "none"}
            /\ apiAt' \in {"http_stop", "start_join", "idle"} /\ UNCHANGED fault
        BY <2>2, <3>3 DEF StartCapture
      <4> QED
        BY <3>1, <3>3, <4>1
    <3> QED
      BY <3>2, <3>3
  <2>3. CASE StartJoin
    BY <2>3 DEF StartJoin, sigVars, serverVars, acceptVars, socketVars, rtcVars, ghostVars
  <2>4. CASE StopJoin
    BY <2>4 DEF StopJoin, sigVars, serverVars, acceptVars, socketVars, rtcVars, ghostVars
  <2>5. CASE SigStop
    <3>1. CASE tornDown
      BY <2>5, <3>1 DEF SigStop, ghostVars
    <3>2. CASE ~tornDown
      <4>1. /\ UNCHANGED <<home, acc, accepting, capture, loop, transport, tornDown, fault>>
            /\ apiFor' # "shutdown" /\ apiAt' \in {"sig_clear", "http_stop", "idle"}
            /\ apiAt = "sig_stop"
        BY <2>5, <3>2
        DEF SigStop, AfterSigStop, sigVars, serverVars, acceptVars, socketVars, partVars,
            rtcVars, ghostVars
      <4> QED
        BY <3>2, <4>1
    <3> QED
      BY <3>1, <3>2
  <2>6. CASE SigStopClear
    BY <2>6 DEF SigStopClear, SigClear, acceptVars, partVars, rtcVars, ghostVars
  <2>7. CASE SigStopJoin
    <3>1. CASE tornDown
      BY <2>7, <3>1 DEF SigStopJoin, ghostVars
    <3>2. CASE ~tornDown
      <4>1. /\ UNCHANGED <<home, acc, accepting, capture, loop, transport, tornDown, fault>>
            /\ apiFor' # "shutdown" /\ apiAt' \in {"http_stop", "idle"}
            /\ apiAt = "sig_join"
        BY <2>7, <3>2
        DEF SigStopJoin, AfterSigStop, sigVars, serverVars, acceptVars, socketVars, partVars,
            rtcVars, ghostVars
      <4> QED
        BY <3>2, <4>1
    <3> QED
      BY <3>1, <3>2
  <2>8. CASE CloseTransport \/ DestroyParts \/ DestroyHttpServer
    <3>1. tornDown /\ UNCHANGED <<tornDown, fault>>
      BY <2>8 DEF CloseTransport, DestroyParts, DestroyHttpServer, ghostVars
    <3> QED
      BY <3>1
  <2>9. CASE HttpServerStop \/ HttpServerJoin
    <3>1. /\ UNCHANGED <<home, acc, accepting, capture, loop, transport, tornDown, fault>>
          /\ apiAt # "start_capture"
          /\ apiAt' \in {"http_join", "http_destroy", "sig_stop", "idle"}
          /\ apiFor' \in {apiFor, "none"}
          /\ apiAt' = "http_destroy" => apiFor = "shutdown"
      BY <2>9
      DEF HttpServerStop, HttpServerJoin, AfterHttpStop, sigVars, serverVars, acceptVars,
          socketVars, rtcVars, ghostVars
    <3> QED
      BY <3>1
  <2> QED
    BY <1>9, <2>1, <2>2, <2>3, <2>4, <2>5, <2>6, <2>7, <2>8, <2>9 DEF ApiThread
<1> QED
  BY <1>3, <1>4, <1>5, <1>6, <1>7, <1>8, <1>9, <1>10 DEF Next

\* Until shutdown() is called no callback, API call or capture step uses an
\* object that is gone, except after an initialize() that failed.
THEOREM FaultsNeedTearDownAlways == Spec => []FaultsNeedTearDown
<1>1. Init => FaultInv
  BY DEF Init, SigInit, FaultInv, LiveInv, FaultsNeedTearDown
<1>2. FaultInv => FaultsNeedTearDown
  BY DEF FaultInv
<1>3. Spec => [](Typed /\ FaultInv)
  BY <1>1, InitTyped, NextTyped, NextFault, PTL DEF Spec
<1> QED
  BY <1>2, <1>3, PTL
-----------------------------------------------------------------------------
(* Circular waits. *)

\* Every chain of waits leads to the API thread: callback_mutex_ is held by
\* threads that wait for mutex_ or clients_mutex_, mutex_ by ones that wait for
\* clients_mutex_ alone, and clients_mutex_ by stop().
LEMMA WaitsLeadToApi ==
  ASSUME Typed, NEW S \in SUBSET Threads, S # {}, \A t \in S : WaitsFor(t) \cap S # {}
  PROVE  "api" \in S
<1> SUFFICES ASSUME "api" \notin S PROVE FALSE
  OBVIOUS
<1> USE ThreadNamesAssumption DEF WaitsFor, ClientsHolders
<1>1. "accept" \notin S
  OBVIOUS
<1>2. \A c \in Clients \cap S : at[c] \notin {"offer_answer", "answer", "bye", "leave", "idle", "gone", "ice_call"}
  OBVIOUS
<1>3. "pc" \notin S
  <2> SUFFICES ASSUME "pc" \in S PROVE FALSE
    OBVIOUS
  <2>1. pcAt = "candidate"
    OBVIOUS
  <2>2. PICK c \in Clients \cap S : at[c] = "offer_answer"
    BY <2>1 DEF ServerHolders
  <2> QED
    BY <1>2, <2>2
<1>4. \A c \in Clients \cap S : at[c] \notin {"offer_call", "bye_call"}
  BY <1>2, <1>3 DEF ServerHolders
<1>5. CallbackHolders \cap S = {}
  BY <1>2, <1>4 DEF CallbackHolders, CallbackLabels
<1>6. ASSUME NEW c \in Clients, c \in S PROVE FALSE
  <2>1. c \notin {"api", "accept", "pc"} /\ WaitsFor(c) \cap S # {}
    BY <1>6
  <2>2. WaitsFor(c) \in {CallbackHolders, {}}
    BY <1>2, <1>4, <1>6, <2>1
  <2> QED
    BY <1>5, <2>1, <2>2
<1> QED
  BY <1>1, <1>3, <1>6 DEF Threads

\* A set of threads of which each waits for another of the set holds the API thread
\* and the accept thread or the thread of the PeerConnection.
LEMMA TypedWaits ==
  ASSUME Typed, NEW S \in SUBSET Threads, S # {}, \A t \in S : WaitsFor(t) \cap S # {}
  PROVE  \/ StopWaitsForAccept /\ {"api", "accept"} \subseteq S
         \/ CloseWaitsForCandidate /\ {"api", "pc"} \subseteq S
<1>1. "api" \in S
  BY WaitsLeadToApi
<1>2. \/ apiAt = "sig_join" /\ acc # "accept" /\ "accept" \in S
      \/ apiAt = "close" /\ pcAt # "idle" /\ "pc" \in S
  BY <1>1 DEF WaitsFor
<1>3. ASSUME apiAt = "sig_join", "accept" \in S PROVE acc = "insert"
  BY <1>3 DEF WaitsFor
<1>4. ASSUME apiAt = "close", pcAt # "idle", "pc" \in S PROVE pcAt = "candidate"
  BY <1>4 DEF WaitsFor, ClientsHolders, Typed, TypeOK
<1> QED
  BY <1>1, <1>2, <1>3, <1>4 DEF StopWaitsForAccept, CloseWaitsForCandidate

\* With any number of browsers, no set of threads waits in a circle but the
\* accept thread with stop() and the candidate callback with shutdown().
THEOREM OnlyKnownDeadlocksAlways == Spec => []OnlyKnownDeadlocks
<1>1. ASSUME Typed PROVE OnlyKnownDeadlocks
  <2> SUFFICES ASSUME NEW S \in (SUBSET Threads) \ {{}},
                      \A t \in S : WaitsFor(t) \cap S # {}
               PROVE  \/ StopWaitsForAccept /\ {"api", "accept"} \subseteq S
                      \/ CloseWaitsForCandidate /\ {"api", "pc"} \subseteq S
    BY DEF OnlyKnownDeadlocks
  <2> QED
    BY <1>1, TypedWaits
<1>2. Spec => []Typed
  BY InitTyped, NextTyped, PTL DEF Spec
<1> QED
  BY <1>1, <1>2, PTL
=============================================================================

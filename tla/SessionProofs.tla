---------------------------- MODULE SessionProofs ----------------------------
(***************************************************************************)
(* Safety of Session, for any number of threads and calls.                 *)
(*                                                                         *)
(* AnonymousOnlyAfterError follows the history: MarkedAnonymous says of    *)
(* every state but kDisconnected, kError included, what the property says  *)
(* of those that follow.  StoppedMeansSilent needs to know what the flags  *)
(* of the HTTP server say of its thread at each place of a call: one       *)
(* thread is inside mutex_ (OneInside), and while the listening thread     *)
(* lives it can be joined, running_ is set or a join is next               *)
(* (LiveIsJoined), and the desktop server runs or is being started or      *)
(* stopped (LiveIsOwned); the same is said of the signalling server        *)
(* (SignalingIsOwned).                                                     *)
(***************************************************************************)
EXTENDS Session, SequenceTheorems, TLAPS

OneInside == \A s, t \in Threads : at[s] # "out" /\ at[t] # "out" => s = t
InsideIsIdle == \A t \in Threads : at[t] # "out" => desktop = "idle"

JoinLabels == {"undo_join", "stop_join", "destroy_join"}
OwnLabels ==
  JoinLabels \cup {"start_rest", "undo_stop", "stop_signaling", "stop_accept", "stop_http",
                  "close", "destroy_stop"}
SignalingLabels ==
  {"undo_stop", "undo_join", "undo_signaling", "stop_signaling",
   "close", "destroy_stop", "destroy_join", "destroy", "destroy_signaling"}

Live == listener \in {"spawned", "accepting", "missed", "closing"}
Joining == \E t \in Threads : at[t] \in JoinLabels

LiveIsJoined == Live => joinable /\ (httpRunning \/ Joining)
LiveIsOwned == Live => desktop = "running" \/ \E t \in Threads : at[t] \in OwnLabels

SignalingIsOwned ==
  signaling => desktop = "running" \/ \E t \in Threads : at[t] \in SignalingLabels

LostAfterThrow ==
  /\ joinable /\ ~httpRunning /\ ~Joining => threw
  /\ terminated => threw

JoinAfterStop == \A t \in Threads : at[t] \in JoinLabels \cup {"destroy"} => ~httpRunning

HistoryEnds == Len(history) > 0 /\ history[Len(history)] = state

\* Some error came while the session was disconnected.
Marked(h) ==
  \E i \in 1 .. Len(h) - 1 : h[i] = "kDisconnected" /\ h[i + 1] = "kError"

MarkedAnonymous == client = NoClient /\ state # "kDisconnected" => Marked(history)

IInv ==
  /\ TypeOK /\ HistoryEnds /\ MarkedAnonymous
  /\ OneInside /\ InsideIsIdle /\ JoinAfterStop
  /\ LiveIsJoined /\ LiveIsOwned /\ SignalingIsOwned /\ LostAfterThrow

-----------------------------------------------------------------------------
(* Helpers. *)

\* What push_back does to the history of states.
LEMMA BecomesExtends ==
  ASSUME TypeOK, HistoryEnds, NEW s \in States, Becomes(s)
  PROVE  /\ state' \in States /\ history' \in Seq(States) /\ HistoryEnds'
         /\ Marked(history) => Marked(history')
         /\ state = "kDisconnected" /\ s = "kError" => Marked(history')
<1> DEFINE h == Append(history, s)
<1>1. /\ history \in Seq(States) /\ Len(history) \in Nat \ {0}
      /\ state' = s /\ history' = h
  BY LenProperties DEF TypeOK, HistoryEnds, Becomes
<1>2. /\ h \in Seq(States) /\ Len(h) = Len(history) + 1 /\ h[Len(history) + 1] = s
      /\ \A i \in 1 .. Len(history) : h[i] = history[i]
  BY <1>1, AppendProperties
<1> HIDE DEF h
<1>3. HistoryEnds'
  BY <1>1, <1>2 DEF HistoryEnds
<1>4. Marked(history) => Marked(h)
  BY <1>1, <1>2 DEF Marked
<1>5. ASSUME state = "kDisconnected", s = "kError" PROVE Marked(h)
  <2>1. /\ Len(history) \in 1 .. Len(h) - 1
        /\ h[Len(history)] = "kDisconnected" /\ h[Len(history) + 1] = "kError"
    BY <1>1, <1>2, <1>5 DEF HistoryEnds
  <2> QED
    BY <2>1 DEF Marked
<1> QED
  BY <1>1, <1>2, <1>3, <1>4, <1>5

\* A thread inside a call is the only one, the desktop server does not run, and
\* the thread of the HTTP server lives only at some places of the call.
LEMMA InsideAlone ==
  ASSUME IInv, NEW t \in Threads, at[t] # "out"
  PROVE  /\ \A s \in Threads \ {t} : at[s] = "out"
         /\ desktop = "idle"
         /\ Joining <=> at[t] \in JoinLabels
         /\ Live => at[t] \in OwnLabels
         /\ signaling => at[t] \in SignalingLabels
BY DEF IInv, OneInside, InsideIsIdle, LiveIsOwned, SignalingIsOwned, Joining, JoinLabels,
       OwnLabels, SignalingLabels

\* What GoTo does to the labels.
LEMMA GoToMoves ==
  ASSUME TypeOK, NEW t \in Threads, NEW label \in Labels, GoTo(t, label)
  PROVE  /\ at' \in [Threads -> Labels] /\ at'[t] = label
         /\ \A s \in Threads \ {t} : at'[s] = at[s]
BY DEF TypeOK, GoTo

-----------------------------------------------------------------------------
\* The invariant holds of a session that has just been built.
LEMMA InitIInv == Init => IInv
<1> SUFFICES ASSUME Init PROVE IInv
  OBVIOUS
<1>1. TypeOK
  <2>1. HttpTypeOK
    BY DEF Init, HttpInit, HttpTypeOK
  <2>2. history \in Seq(States)
    BY DEF Init, States
  <2> QED
    BY <2>1, <2>2 DEF Init, TypeOK, Labels, States
<1>2. HistoryEnds /\ MarkedAnonymous
  BY DEF Init, HistoryEnds, MarkedAnonymous
<1>3. /\ OneInside /\ InsideIsIdle /\ JoinAfterStop
      /\ LiveIsJoined /\ LiveIsOwned /\ SignalingIsOwned /\ LostAfterThrow
  BY DEF Init, HttpInit, OneInside, InsideIsIdle, JoinAfterStop, LiveIsJoined, LiveIsOwned,
         SignalingIsOwned, LostAfterThrow, Live
<1> QED
  BY <1>1, <1>2, <1>3 DEF IInv

\* connect, setConnected, disconnect, reconnect, setError and the setters: the
\* desktop server is left alone.
LEMMA ConnectionStep ==
  ASSUME IInv, NEW t \in Threads,
         \/ Connect(t) \/ SetConnected(t) \/ Disconnect(t) \/ Reconnect(t) \/ SetError(t)
         \/ SetDisplaySourceId(t) \/ UpdateLatency(t) \/ IncrementReconnectionAttempts(t)
         \/ ResetReconnectionAttempts(t)
  PROVE  IInv'
<1> USE DEF Locked, Enters
<1>1. /\ UNCHANGED <<at, desktop, servicesVars, destroyed, httpVars, threw>>
      /\ calls' = calls + 1
  BY DEF Connect, SetConnected, Disconnect, Reconnect, SetError, SetDisplaySourceId,
         UpdateLatency, IncrementReconnectionAttempts, ResetReconnectionAttempts, desktopVars
<1>2. /\ OneInside' /\ InsideIsIdle' /\ JoinAfterStop'
      /\ LiveIsJoined' /\ LiveIsOwned' /\ SignalingIsOwned' /\ LostAfterThrow'
      /\ HttpTypeOK' /\ at' \in [Threads -> Labels] /\ calls' \in Nat
      /\ desktop' \in {"none", "idle", "running"} /\ destroyed' \in BOOLEAN
      /\ signaling' \in BOOLEAN /\ admitting' \in BOOLEAN /\ threw' \in BOOLEAN
      /\ pc' \in {"fresh", "idle", "candidate", "closed"}
  BY <1>1
  DEF IInv, OneInside, InsideIsIdle, JoinAfterStop, LiveIsJoined, LiveIsOwned,
      SignalingIsOwned, LostAfterThrow, Live, Joining, TypeOK, HttpTypeOK, httpVars,
      servicesVars
<1>3. /\ client' \in Clients \cup {NoClient} /\ display' \in Displays \cup {NoDisplay}
      /\ attempts' \in Nat /\ latency' \in BOOLEAN
  <2>1. /\ client \in Clients \cup {NoClient} /\ display \in Displays \cup {NoDisplay}
        /\ attempts \in Nat /\ latency \in BOOLEAN
    BY DEF IInv, TypeOK
  <2>2. client' \in Clients \cup {client, NoClient}
    BY DEF Connect, SetConnected, Disconnect, Reconnect, SetError, SetDisplaySourceId,
           UpdateLatency, IncrementReconnectionAttempts, ResetReconnectionAttempts
  <2>3. display' \in Displays \cup {display, NoDisplay} /\ attempts' \in {attempts, attempts + 1, 0}
    BY DEF Connect, SetConnected, Disconnect, Reconnect, SetError, SetDisplaySourceId,
           UpdateLatency, IncrementReconnectionAttempts, ResetReconnectionAttempts
  <2>4. latency' \in BOOLEAN
    BY <2>1, Zenon
    DEF Connect, SetConnected, Disconnect, Reconnect, SetError, SetDisplaySourceId,
        UpdateLatency, IncrementReconnectionAttempts, ResetReconnectionAttempts
  <2> QED
    BY <2>1, <2>2, <2>3, <2>4
<1>4. /\ state' \in States /\ history' \in Seq(States)
      /\ HistoryEnds' /\ MarkedAnonymous'
  <2>1. CASE UNCHANGED <<state, history, client>>
    BY <2>1 DEF IInv, TypeOK, HistoryEnds, MarkedAnonymous
  <2>2. CASE Becomes("kConnecting") /\ client' \in Clients
    BY <2>2, BecomesExtends, ClientsAssumption DEF IInv, States, MarkedAnonymous
  <2>3. CASE Becomes("kDisconnected") /\ client' = NoClient
    BY <2>3, BecomesExtends DEF IInv, States, MarkedAnonymous, Becomes
  <2>4. CASE Becomes("kError") /\ UNCHANGED client
    BY <2>4, BecomesExtends DEF IInv, States, MarkedAnonymous
  <2>5. CASE /\ UNCHANGED client /\ state # "kDisconnected"
             /\ Becomes("kConnected") \/ Becomes("kReconnecting")
    BY <2>5, BecomesExtends DEF IInv, States, MarkedAnonymous
  <2> QED
    BY <2>1, <2>2, <2>3, <2>4, <2>5
    DEF Connect, SetConnected, Disconnect, Reconnect, SetError, SetDisplaySourceId,
        UpdateLatency, IncrementReconnectionAttempts, ResetReconnectionAttempts,
        IsValidStateTransition
<1> QED
  BY <1>2, <1>3, <1>4 DEF IInv, TypeOK

\* What the listening thread does by itself ends it or leaves it alive.
LEMMA HttpStep ==
  ASSUME IInv, Http \/ Trouble
  PROVE  IInv'
<1>1. /\ UNCHANGED <<at, sessionVars, desktop, servicesVars, destroyed, calls>>
      /\ UNCHANGED <<joinable, terminated>>
  BY DEF Http, Trouble, OutsideCalls, HttpThread, Listen, ListenEnds, AcceptFails,
         ListenThrows
<1>2. /\ HttpTypeOK' /\ (Live' => Live) /\ threw' \in BOOLEAN /\ (threw => threw')
      /\ httpRunning' = httpRunning \/ (httpRunning' = FALSE /\ threw' /\ ~Live')
  <2>1. \/ (Listen \/ ListenEnds \/ AcceptFails) /\ threw' = threw
        \/ ListenThrows /\ threw' = TRUE
    BY DEF Http, Trouble, HttpThread
  <2>2. HttpTypeOK /\ threw \in BOOLEAN
    BY DEF IInv, TypeOK
  <2>3. CASE Listen
    BY <2>1, <2>2, <2>3 DEF Listen, HttpTypeOK, Live, ListenThrows
  <2>4. CASE ListenEnds
    BY <2>1, <2>2, <2>4 DEF ListenEnds, HttpTypeOK, Live, ListenThrows
  <2>5. CASE AcceptFails
    BY <2>1, <2>2, <2>5 DEF AcceptFails, HttpTypeOK, Live, ListenThrows
  <2>6. CASE ListenThrows /\ threw' = TRUE
    BY <2>2, <2>6 DEF ListenThrows, HttpTypeOK, Live
  <2> QED
    BY <2>1, <2>3, <2>4, <2>5, <2>6
<1>3. TypeOK' /\ HistoryEnds' /\ MarkedAnonymous'
  BY <1>1, <1>2 DEF IInv, TypeOK, HistoryEnds, MarkedAnonymous, sessionVars, servicesVars
<1>4. OneInside' /\ InsideIsIdle' /\ JoinAfterStop' /\ LiveIsOwned' /\ SignalingIsOwned'
  BY <1>1, <1>2
  DEF IInv, OneInside, InsideIsIdle, JoinAfterStop, LiveIsOwned, SignalingIsOwned, servicesVars
<1>5. LiveIsJoined' /\ LostAfterThrow'
  BY <1>1, <1>2 DEF IInv, LiveIsJoined, LostAfterThrow, Joining
<1> QED
  BY <1>3, <1>4, <1>5 DEF IInv

\* What the accept thread and the PeerConnection do leaves the calls, and what the
\* servers say of themselves, alone.
LEMMA ServiceStep ==
  ASSUME IInv, Admit \/ Register \/ LocalCandidate \/ OnIceCandidate
  PROVE  IInv'
<1>1. /\ UNCHANGED <<at, sessionVars, desktop, signaling, destroyed, calls, httpVars, threw>>
      /\ admitting' \in BOOLEAN /\ pc' \in {"fresh", "idle", "candidate", "closed"}
  BY DEF IInv, TypeOK, Admit, Register, LocalCandidate, OnIceCandidate, OutsideCalls
<1>2. TypeOK' /\ HistoryEnds' /\ MarkedAnonymous'
  BY <1>1
  DEF IInv, TypeOK, HttpTypeOK, HistoryEnds, MarkedAnonymous, sessionVars, httpVars
<1>3. /\ OneInside' /\ InsideIsIdle' /\ JoinAfterStop' /\ LiveIsOwned' /\ SignalingIsOwned'
      /\ LiveIsJoined' /\ LostAfterThrow'
  BY <1>1
  DEF IInv, OneInside, InsideIsIdle, JoinAfterStop, LiveIsOwned, SignalingIsOwned,
      LiveIsJoined, LostAfterThrow, Live, Joining, httpVars
<1> QED
  BY <1>2, <1>3 DEF IInv

-----------------------------------------------------------------------------
(* The calls of the desktop server. *)

\* A thread enters one of them: the mutex was free, so neither a listening thread nor
\* the signalling server is up unless the desktop server runs.
LEMMA EnterStep ==
  ASSUME IInv, NEW t \in Threads,
         \/ InitializeDesktopServer(t) \/ StartDesktopServer(t) \/ StopDesktopServer(t)
         \/ Destroy(t)
  PROVE  IInv'
<1>1. /\ UNCHANGED <<sessionVars, servicesVars, httpVars, threw>> /\ calls' = calls + 1
      /\ at[t] = "out" /\ \A s \in Threads : at[s] = "out"
  BY DEF InitializeDesktopServer, StartDesktopServer, StopDesktopServer, Destroy,
         EntersDesktop, Enters, MutexFree
<1>2. ~Joining /\ (Live \/ signaling => desktop = "running")
  BY <1>1
  DEF IInv, LiveIsOwned, SignalingIsOwned, Joining, JoinLabels, OwnLabels, SignalingLabels
<1>3. \/ UNCHANGED at /\ (Live \/ signaling => desktop' = "running")
      \/ /\ desktop' = "idle"
         /\ \/ GoTo(t, "start_http") /\ ~Live /\ ~signaling
            \/ GoTo(t, "stop_signaling")
            \/ GoTo(t, "close")
  BY <1>2
  DEF IInv, TypeOK, InitializeDesktopServer, StartDesktopServer, StopDesktopServer, Destroy
<1>4. desktop' \in {"none", "idle", "running"} /\ destroyed' \in BOOLEAN
  BY DEF IInv, TypeOK, InitializeDesktopServer, StartDesktopServer, StopDesktopServer, Destroy
<1>5. HistoryEnds' /\ MarkedAnonymous' /\ HttpTypeOK'
  BY <1>1 DEF IInv, TypeOK, HistoryEnds, MarkedAnonymous, sessionVars, httpVars, HttpTypeOK
<1>6. UNCHANGED <<listener, joinable, httpRunning, threw, terminated, Live, signaling>>
  BY <1>1 DEF httpVars, Live, servicesVars
<1>7. CASE UNCHANGED at /\ (Live \/ signaling => desktop' = "running")
  <2>1. TypeOK'
    BY <1>1, <1>4, <1>5, <1>7 DEF IInv, TypeOK, sessionVars, servicesVars
  <2>2. /\ OneInside' /\ InsideIsIdle' /\ JoinAfterStop' /\ LiveIsOwned'
        /\ SignalingIsOwned' /\ ~Joining'
    BY <1>1, <1>2, <1>6, <1>7
    DEF OneInside, InsideIsIdle, JoinAfterStop, LiveIsOwned, SignalingIsOwned, Joining,
        JoinLabels
  <2>3. LiveIsJoined' /\ LostAfterThrow'
    BY <1>2, <1>6, <2>2 DEF IInv, LiveIsJoined, LostAfterThrow
  <2> QED
    BY <1>5, <2>1, <2>2, <2>3 DEF IInv
<1>8. CASE /\ desktop' = "idle"
           /\ \E label \in {"start_http", "stop_signaling", "close"} :
                GoTo(t, label) /\ (label = "start_http" => ~Live /\ ~signaling)
  <2> PICK label \in {"start_http", "stop_signaling", "close"} :
        GoTo(t, label) /\ (label = "start_http" => ~Live /\ ~signaling)
    BY <1>8
  <2>1. /\ at' \in [Threads -> Labels] /\ at'[t] = label
        /\ \A s \in Threads \ {t} : at'[s] = "out"
    BY <1>1, GoToMoves DEF IInv, Labels
  <2>2. TypeOK'
    BY <1>1, <1>4, <1>5, <2>1 DEF IInv, TypeOK, sessionVars, servicesVars
  <2>3. /\ OneInside' /\ InsideIsIdle' /\ JoinAfterStop' /\ LiveIsOwned'
        /\ SignalingIsOwned' /\ ~Joining'
    BY <1>6, <1>8, <2>1
    DEF OneInside, InsideIsIdle, JoinAfterStop, LiveIsOwned, SignalingIsOwned, Joining,
        JoinLabels, OwnLabels, SignalingLabels
  <2>4. LiveIsJoined' /\ LostAfterThrow'
    BY <1>2, <1>6, <2>3 DEF IInv, LiveIsJoined, LostAfterThrow
  <2> QED
    BY <1>5, <2>2, <2>3, <2>4 DEF IInv
<1> QED
  BY <1>3, <1>7, <1>8

\* The steps inside such a call leave the session's own state alone: what is to
\* be shown is about the one thread inside, and the servers.
LEMMA InsideStep ==
  ASSUME IInv, InDesktop, HttpTypeOK', desktop' \in {"none", "idle", "running"},
         signaling' \in BOOLEAN, admitting' = admitting,
         pc' \in {"fresh", "idle", "candidate", "closed"},
         NEW t \in Threads, at[t] # "out", NEW label \in Labels, GoTo(t, label),
         label # "out" => desktop' = "idle",
         label \in JoinLabels \cup {"destroy"} => ~httpRunning',
         Live' => /\ joinable' /\ (httpRunning' \/ label \in JoinLabels)
                  /\ desktop' = "running" \/ label \in OwnLabels,
         signaling' => desktop' = "running" \/ label \in SignalingLabels,
         joinable' /\ ~httpRunning' /\ label \notin JoinLabels => threw,
         terminated' => threw
  PROVE  IInv'
<1>1. /\ at' \in [Threads -> Labels] /\ at'[t] = label
      /\ \A s \in Threads \ {t} : at'[s] = "out"
  BY GoToMoves, InsideAlone DEF IInv
<1>2. (Joining' <=> label \in JoinLabels) /\ threw' = threw
  BY <1>1 DEF Joining, JoinLabels, InDesktop
<1>3. TypeOK' /\ HistoryEnds' /\ MarkedAnonymous'
  BY <1>1, <1>2 DEF IInv, TypeOK, InDesktop, HistoryEnds, MarkedAnonymous, sessionVars
<1>4. OneInside' /\ InsideIsIdle' /\ JoinAfterStop' /\ LiveIsOwned' /\ SignalingIsOwned'
  BY <1>1
  DEF OneInside, InsideIsIdle, JoinAfterStop, JoinLabels, LiveIsOwned, SignalingIsOwned
<1>5. LiveIsJoined' /\ LostAfterThrow'
  BY <1>2 DEF LiveIsJoined, LostAfterThrow
<1> QED
  BY <1>3, <1>4, <1>5 DEF IInv

\* What is so where a thread is inside.
LEMMA InsideFacts ==
  ASSUME IInv, NEW t \in Threads, at[t] # "out"
  PROVE  /\ HttpTypeOK /\ signaling \in BOOLEAN
         /\ pc \in {"fresh", "idle", "candidate", "closed"}
         /\ desktop = "idle"
         /\ Live => joinable /\ (httpRunning \/ at[t] \in JoinLabels) /\ at[t] \in OwnLabels
         /\ signaling => at[t] \in SignalingLabels
         /\ joinable /\ ~httpRunning /\ at[t] \notin JoinLabels => threw
         /\ terminated => threw
         /\ at[t] \in JoinLabels \cup {"destroy"} => ~httpRunning
<1>1. /\ Joining <=> at[t] \in JoinLabels
      /\ Live => at[t] \in OwnLabels
      /\ signaling => at[t] \in SignalingLabels
      /\ desktop = "idle"
  BY InsideAlone
<1> QED
  BY <1>1 DEF IInv, TypeOK, LiveIsJoined, LostAfterThrow, JoinAfterStop

\* HttpServer::start: the thread that was there has ended, and a joinable one is
\* lost only after listen threw.
LEMMA StartHttpStep ==
  ASSUME IInv, NEW t \in Threads, StartHttp(t)
  PROVE  IInv'
<1>1. /\ at[t] = "start_http" /\ at[t] # "out" /\ InDesktop
      /\ UNCHANGED <<desktop, signaling, admitting, pc>>
      /\ at[t] \notin JoinLabels /\ at[t] \notin OwnLabels /\ at[t] \notin SignalingLabels
  BY DEF StartHttp, servicesVars, JoinLabels, OwnLabels, SignalingLabels
<1>2. /\ HttpTypeOK /\ signaling = FALSE
      /\ pc \in {"fresh", "idle", "candidate", "closed"}
      /\ desktop = "idle" /\ ~Live
      /\ joinable /\ ~httpRunning => threw
      /\ terminated => threw
  BY <1>1, InsideFacts
<1>3. CASE HttpStart /\ GoTo(t, "start_rest")
  <2>1. HttpTypeOK' /\ joinable' /\ httpRunning' /\ (terminated' => threw)
    BY <1>2, <1>3 DEF HttpStart, HttpTypeOK
  <2>2. "start_rest" \in Labels /\ "start_rest" \in OwnLabels /\ "start_rest" \notin JoinLabels
    BY DEF Labels, OwnLabels, JoinLabels
  <2> QED
    BY <1>1, <1>2, <1>3, <2>1, <2>2, InsideStep
<1>4. CASE HttpStartFails /\ GoTo(t, "out")
  <2>1. HttpTypeOK'
    BY <1>2, <1>4 DEF HttpStartFails, httpVars, HttpTypeOK
  <2>2. /\ UNCHANGED <<listener, joinable, terminated>>
        /\ httpRunning' = httpRunning \/ httpRunning' = TRUE
    BY <1>4 DEF HttpStartFails, httpVars
  <2>3. ~Live' /\ (joinable' /\ ~httpRunning' => threw) /\ (terminated' => threw)
    BY <1>2, <2>2 DEF Live
  <2>4. "out" \in Labels /\ "out" \notin JoinLabels \cup {"destroy"}
    BY DEF Labels, JoinLabels
  <2> QED
    BY <1>1, <1>2, <1>4, <2>1, <2>3, <2>4, InsideStep
<1> QED
  BY <1>3, <1>4 DEF StartHttp

\* Signalling and capture start, or what was started is to be stopped again.
LEMMA StartRestStep ==
  ASSUME IInv, NEW t \in Threads, StartRest(t)
  PROVE  IInv'
<1>1. /\ at[t] = "start_rest" /\ at[t] # "out" /\ at[t] \notin JoinLabels
      /\ InDesktop /\ UNCHANGED <<admitting, pc, httpVars>>
  BY DEF StartRest, JoinLabels
<1>2. /\ HttpTypeOK /\ desktop = "idle"
      /\ pc \in {"fresh", "idle", "candidate", "closed"}
      /\ Live => joinable /\ httpRunning
      /\ joinable /\ ~httpRunning => threw
      /\ terminated => threw
  BY <1>1, InsideFacts
<1>3. /\ HttpTypeOK' /\ (Live' => Live)
      /\ UNCHANGED <<joinable, httpRunning, terminated>>
  BY <1>1, <1>2 DEF HttpTypeOK, httpVars, Live
<1>4. \/ desktop' = "running" /\ signaling' = TRUE /\ GoTo(t, "out")
      \/ desktop' = "idle" /\ signaling' \in BOOLEAN /\ GoTo(t, "undo_stop")
  BY <1>2 DEF StartRest
<1>5. /\ {"out", "undo_stop"} \subseteq Labels \ (JoinLabels \cup {"destroy"})
      /\ "undo_stop" \in OwnLabels \cap SignalingLabels
  BY DEF Labels, JoinLabels, OwnLabels, SignalingLabels
<1> QED
  BY <1>1, <1>2, <1>3, <1>4, <1>5, InsideStep

\* HttpServer::stop up to the join: a server that does not run has no thread.
LEMMA StopsStep ==
  ASSUME IInv, NEW t \in Threads,
         NEW here \in Labels \ (JoinLabels \cup {"out"}),
         NEW joining \in JoinLabels, NEW otherwise \in Labels \ JoinLabels,
         Stops(t, here, joining, otherwise),
         signaling => joining \in SignalingLabels /\ otherwise \in SignalingLabels
  PROVE  IInv'
<1>1. /\ at[t] = here /\ at[t] # "out" /\ at[t] \notin JoinLabels /\ HttpStop
      /\ InDesktop /\ UNCHANGED <<desktop, signaling, admitting, pc>>
      /\ GoTo(t, IF httpRunning THEN joining ELSE otherwise)
  BY DEF Stops, servicesVars
<1>2. /\ HttpTypeOK /\ desktop = "idle" /\ signaling \in BOOLEAN
      /\ pc \in {"fresh", "idle", "candidate", "closed"}
      /\ Live => joinable /\ httpRunning
      /\ joinable /\ ~httpRunning => threw
      /\ terminated => threw
  BY <1>1, InsideFacts
<1>3. joining \in Labels /\ joining \in OwnLabels /\ joining # "out"
  BY DEF JoinLabels, OwnLabels, Labels
<1>4. CASE httpRunning
  <2>1. /\ HttpTypeOK' /\ (Live' => Live)
        /\ ~httpRunning' /\ UNCHANGED <<joinable, terminated>>
    BY <1>1, <1>2, <1>4 DEF HttpStop, HttpTypeOK, Live
  <2> QED
    BY <1>1, <1>2, <1>3, <1>4, <2>1, InsideStep
<1>5. CASE ~httpRunning
  <2>1. HttpTypeOK' /\ ~Live' /\ UNCHANGED <<joinable, httpRunning, terminated>>
    BY <1>1, <1>2, <1>5 DEF HttpStop, HttpTypeOK, httpVars, Live
  <2> QED
    BY <1>1, <1>2, <1>3, <1>5, <2>1, InsideStep
<1> QED
  BY <1>4, <1>5

\* The join of the listening thread.
LEMMA JoinsStep ==
  ASSUME IInv, NEW t \in Threads, NEW here \in JoinLabels,
         NEW label \in Labels \ JoinLabels, Joins(t, here, label),
         signaling => label \in SignalingLabels
  PROVE  IInv'
<1>1. /\ at[t] = here /\ at[t] # "out" /\ HttpJoin /\ GoTo(t, label)
      /\ InDesktop /\ UNCHANGED <<desktop, signaling, admitting, pc>>
  BY DEF Joins, JoinLabels, servicesVars
<1>2. /\ HttpTypeOK /\ desktop = "idle" /\ signaling \in BOOLEAN
      /\ pc \in {"fresh", "idle", "candidate", "closed"}
      /\ Live => joinable
      /\ terminated => threw
      /\ ~httpRunning
  BY <1>1, InsideFacts
<1>3. HttpTypeOK'
  BY <1>1, <1>2 DEF HttpJoin, HttpTypeOK
<1>4. ~Live' /\ joinable' = FALSE /\ ~httpRunning' /\ UNCHANGED terminated
  BY <1>1, <1>2 DEF HttpJoin, Live
<1> QED
  BY <1>1, <1>2, <1>3, <1>4, InsideStep

\* SignalingServer::stop, up to the join of its accept thread, and the join: the
\* listening thread, if it lives, is the business of a later step.
LEMMA SignalingStep ==
  ASSUME IInv, NEW t \in Threads,
         NEW here \in Labels \ (JoinLabels \cup {"out"}),
         NEW label \in Labels \ (JoinLabels \cup {"destroy"}), GoTo(t, label),
         at[t] = here, InDesktop, UNCHANGED <<admitting, pc, httpVars>>,
         here \in OwnLabels => label \in OwnLabels,
         \/ signaling' = FALSE
         \/ here \notin SignalingLabels /\ UNCHANGED signaling,
         desktop' = "idle" \/ (desktop' = "none" /\ label = "out")
  PROVE  IInv'
<1>1. at[t] # "out" /\ at[t] \notin JoinLabels
  OBVIOUS
<1>2. /\ HttpTypeOK /\ signaling \in BOOLEAN
      /\ pc \in {"fresh", "idle", "candidate", "closed"}
      /\ Live => joinable /\ httpRunning /\ here \in OwnLabels
      /\ signaling => here \in SignalingLabels
      /\ joinable /\ ~httpRunning => threw
      /\ terminated => threw
  BY <1>1, InsideFacts
<1>3. HttpTypeOK' /\ (Live' => Live) /\ UNCHANGED <<joinable, httpRunning, terminated>>
  BY <1>2 DEF HttpTypeOK, httpVars, Live
<1>4. signaling' = FALSE
  BY <1>2
<1>5. UNCHANGED <<admitting, pc>> /\ label \in Labels
  OBVIOUS
<1> QED
  BY <1>1, <1>2, <1>3, <1>4, <1>5, InsideStep

\* The PeerConnection is closed: the servers still run.
LEMMA CloseStep ==
  ASSUME IInv, NEW t \in Threads, Close(t)
  PROVE  IInv'
<1>1. /\ at[t] = "close" /\ at[t] # "out" /\ at[t] \notin JoinLabels /\ pc' = "closed"
      /\ InDesktop /\ GoTo(t, "destroy_stop")
      /\ UNCHANGED <<desktop, signaling, admitting, httpVars>>
  BY DEF Close, JoinLabels
<1>2. /\ HttpTypeOK /\ desktop = "idle" /\ signaling \in BOOLEAN
      /\ Live => joinable /\ httpRunning
      /\ joinable /\ ~httpRunning => threw
      /\ terminated => threw
  BY <1>1, InsideFacts
<1>3. HttpTypeOK' /\ (Live' => Live) /\ UNCHANGED <<joinable, httpRunning, terminated>>
  BY <1>1, <1>2 DEF HttpTypeOK, httpVars, Live
<1>4. "destroy_stop" \in (Labels \cap OwnLabels \cap SignalingLabels) \ JoinLabels
  BY DEF Labels, OwnLabels, SignalingLabels, JoinLabels
<1> QED
  BY <1>1, <1>2, <1>3, <1>4, InsideStep

\* The destructor of the HTTP server.
LEMMA DestroyHttpStep ==
  ASSUME IInv, NEW t \in Threads, DestroyHttp(t)
  PROVE  IInv'
<1>1. /\ at[t] = "destroy" /\ at[t] # "out" /\ HttpDestroy /\ GoTo(t, "destroy_signaling")
      /\ InDesktop /\ UNCHANGED <<desktop, signaling, admitting, pc>>
      /\ at[t] \notin JoinLabels /\ at[t] \notin OwnLabels
  BY DEF DestroyHttp, servicesVars, JoinLabels, OwnLabels
<1>2. /\ HttpTypeOK /\ desktop = "idle" /\ signaling \in BOOLEAN /\ ~Live
      /\ pc \in {"fresh", "idle", "candidate", "closed"}
      /\ joinable /\ ~httpRunning => threw
      /\ terminated => threw
      /\ ~httpRunning
  BY <1>1, InsideFacts
<1>3. HttpTypeOK'
  BY <1>1, <1>2 DEF HttpDestroy, HttpTypeOK
<1>4. ~Live' /\ joinable' = FALSE /\ (terminated' => threw)
  BY <1>1, <1>2 DEF HttpDestroy, Live
<1>5. "destroy_signaling" \in (Labels \cap SignalingLabels) \ (JoinLabels \cup {"destroy"})
  BY DEF Labels, SignalingLabels, JoinLabels
<1> QED
  BY <1>1, <1>2, <1>3, <1>4, <1>5, InsideStep

-----------------------------------------------------------------------------
\* Each step of a call of the desktop server.
LEMMA DesktopStepIInv ==
  ASSUME IInv, NEW t \in Threads, DesktopStep(t)
  PROVE  IInv'
<1> USE DEF Labels, JoinLabels, OwnLabels, SignalingLabels
<1>1. CASE StartHttp(t) \/ StartRest(t) \/ Close(t) \/ DestroyHttp(t)
  BY <1>1, StartHttpStep, StartRestStep, CloseStep, DestroyHttpStep
<1>2. CASE UndoStop(t) \/ StopHttp(t) \/ DestroyStop(t)
  <2>1. CASE UndoStop(t)
    BY <2>1, StopsStep DEF UndoStop, AfterUndo
  <2>2. CASE StopHttp(t)
    <3>1. at[t] = "stop_http"
      BY <2>2 DEF StopHttp, Stops
    <3>2. ~signaling
      BY <3>1, InsideFacts
    <3> QED
      BY <2>2, <3>2, StopsStep DEF StopHttp
  <2>3. CASE DestroyStop(t)
    BY <2>3, StopsStep DEF DestroyStop
  <2> QED
    BY <1>2, <2>1, <2>2, <2>3
<1>3. CASE UndoJoin(t) \/ StopJoin(t) \/ DestroyJoin(t)
  <2>1. CASE UndoJoin(t)
    BY <2>1, JoinsStep DEF UndoJoin, AfterUndo
  <2>2. CASE StopJoin(t)
    <3>1. at[t] = "stop_join"
      BY <2>2 DEF StopJoin, Joins
    <3>2. ~signaling
      BY <3>1, InsideFacts
    <3> QED
      BY <2>2, <3>2, JoinsStep DEF StopJoin
  <2>3. CASE DestroyJoin(t)
    BY <2>3, JoinsStep DEF DestroyJoin
  <2> QED
    BY <1>3, <2>1, <2>2, <2>3
<1>4. CASE UndoSignaling(t) \/ StopSignaling(t) \/ DestroySignaling(t)
  <2>1. PICK here \in {"undo_signaling", "stop_signaling", "destroy_signaling"},
             label \in {"undo_accept", "out", "stop_accept", "stop_http", "destroy_accept"} :
          /\ at[t] = here /\ GoTo(t, label) /\ signaling' = FALSE
          /\ here \in OwnLabels => label \in OwnLabels
    BY <1>4 DEF UndoSignaling, StopSignaling, DestroySignaling, StopsSignaling
  <2>2. UNCHANGED <<desktop, admitting, pc, httpVars>> /\ InDesktop
    BY <1>4 DEF UndoSignaling, StopSignaling, DestroySignaling, StopsSignaling
  <2>3. desktop' = "idle"
    BY <2>1, <2>2, InsideFacts
  <2> QED
    BY <2>1, <2>2, <2>3, SignalingStep
<1>5. CASE UndoAccept(t) \/ StopAccept(t) \/ DestroyAccept(t)
  <2>1. PICK here \in {"undo_accept", "stop_accept", "destroy_accept"},
             label \in {"out", "stop_http"} :
          /\ at[t] = here /\ GoTo(t, label)
          /\ here \in OwnLabels => label \in OwnLabels
          /\ UNCHANGED desktop \/ (desktop' = "none" /\ label = "out")
    BY <1>5 DEF UndoAccept, StopAccept, DestroyAccept, JoinsAccept
  <2>2. UNCHANGED <<signaling, admitting, pc, httpVars>> /\ InDesktop
    BY <1>5 DEF UndoAccept, StopAccept, DestroyAccept, JoinsAccept, servicesVars
  <2>3. desktop = "idle"
    BY <2>1, InsideFacts
  <2> QED
    BY <2>1, <2>2, <2>3, SignalingStep
<1> QED
  BY <1>1, <1>2, <1>3, <1>4, <1>5 DEF DesktopStep

\* Every step of the desktop server's threads and of a caller keeps the invariant.
LEMMA NextIInv == IInv /\ [Next]_vars => IInv'
<1> SUFFICES ASSUME IInv, [Next]_vars PROVE IInv'
  OBVIOUS
<1>1. CASE Http \/ Trouble \/ Admit \/ Register \/ LocalCandidate \/ OnIceCandidate
  BY <1>1, HttpStep, ServiceStep
<1>2. ASSUME NEW t \in Threads, DesktopStep(t) PROVE IInv'
  BY <1>2, DesktopStepIInv
<1>3. ASSUME NEW t \in Threads, SessionCall(t) PROVE IInv'
  BY <1>3, ConnectionStep, EnterStep DEF SessionCall
<1>4. CASE UNCHANGED vars
  BY <1>4
  DEF vars, sessionVars, desktopVars, servicesVars, httpVars, IInv, TypeOK, HttpTypeOK,
      HistoryEnds, MarkedAnonymous, OneInside, InsideIsIdle, JoinAfterStop, LiveIsJoined,
      LiveIsOwned, SignalingIsOwned, LostAfterThrow, Live, Joining
<1> QED
  BY <1>1, <1>2, <1>3, <1>4 DEF Next

\* Every reachable state of a session satisfies the inductive invariant.
THEOREM Invariance == Spec => []IInv
<1> QED
  BY InitIInv, NextIInv, PTL DEF Spec

\* Type correctness of the session and the servers its desktop server owns.
THEOREM TypeCorrect == Spec => []TypeOK
<1>1. IInv => TypeOK
  BY DEF IInv
<1> QED
  BY <1>1, Invariance, PTL

\* A session that is connected, or on its way, without a client went through an
\* error while it was disconnected, whatever calls were made and by whom.
THEOREM AnonymousOnlyAfterErrorAlways == Spec => []AnonymousOnlyAfterError
<1>1. IInv => AnonymousOnlyAfterError
  BY DEF IInv, MarkedAnonymous, Marked, AnonymousOnlyAfterError
<1> QED
  BY <1>1, Invariance, PTL

\* Between calls neither the signalling server nor a thread of the HTTP server
\* outlives a desktop server that is not running, and a joinable one is lost only
\* after listen threw.
THEOREM StoppedMeansSilentAlways == Spec => []StoppedMeansSilent
<1>1. ASSUME IInv PROVE StoppedMeansSilent
  <2>1. ASSUME MutexFree, desktop # "running" PROVE ~Live /\ ~signaling
    BY <1>1, <2>1
    DEF IInv, LiveIsOwned, SignalingIsOwned, MutexFree, OwnLabels, JoinLabels, SignalingLabels
  <2> QED
    BY <1>1, <2>1 DEF IInv, TypeOK, HttpTypeOK, Live, LostAfterThrow, StoppedMeansSilent
<1> QED
  BY <1>1, Invariance, PTL
=============================================================================

------------------------------- MODULE Session -------------------------------
(***************************************************************************)
(* core/session: one object that several threads call, its connection      *)
(* states and the desktop server it owns.  Every call but the two that     *)
(* touch an atomic counter holds mutex_ throughout, those of the desktop   *)
(* server included, however long they wait.  So of the desktop server this *)
(* module keeps what its calls wait for: the HTTP server, the accept       *)
(* thread of the signalling server and the candidate callbacks of the      *)
(* PeerConnection (all of it is in RemoteDesktopServer).  Timestamps and   *)
(* the ids of tracks and channels are left out.                            *)
(***************************************************************************)
EXTENDS HttpServer, Sequences

CONSTANTS Threads, Clients, Displays,
          MaxCalls    \* bound: calls of the session

ASSUME MaxCallsAssumption == MaxCalls \in Nat

VARIABLES
  at,        \* where each thread stands; all but "out" hold mutex_
  state,     \* state_
  history,   \* state_history_
  client,    \* client_ip_
  display,   \* display_source_id_
  attempts,  \* reconnection_attempts_
  latency,   \* whether latency_ms_ is above zero
  desktop,   \* desktop_server_ and its running_: none, idle or running
  signaling, \* its SignalingServer::running_
  admitting, \* whether the accept thread has a connection to enter in the registry
  pc,        \* its PeerConnection: fresh, without an offer yet; then idle or in a
             \* candidate callback; closed
  threw,     \* history: whether listen threw
  destroyed, \* whether the session was destroyed
  calls      \* number of calls so far

sessionVars == <<state, history, client, display, attempts, latency>>
servicesVars == <<signaling, admitting, pc>>
desktopVars == <<desktop, servicesVars, destroyed, httpVars, threw>>
vars == <<at, sessionVars, desktopVars, calls>>

NoClient == "no client"
NoDisplay == "no display"

\* Addresses are not empty; connect does not look.
ASSUME ClientsAssumption == NoClient \notin Clients

States == {"kDisconnected", "kConnecting", "kConnected", "kReconnecting", "kError"}
Labels == {"out", "start_http", "start_rest",
           "undo_stop", "undo_join", "undo_signaling", "undo_accept",
           "stop_signaling", "stop_accept", "stop_http", "stop_join",
           "close", "destroy_stop", "destroy_join", "destroy",
           "destroy_signaling", "destroy_accept"}

Init ==
  /\ HttpInit
  /\ at = [t \in Threads |-> "out"]
  /\ state = "kDisconnected" /\ history = <<"kDisconnected">>
  /\ client = NoClient /\ display = NoDisplay
  /\ attempts = 0 /\ latency = FALSE
  /\ desktop = "none" /\ destroyed = FALSE
  /\ signaling = FALSE /\ admitting = FALSE /\ pc = "fresh" /\ threw = FALSE
  /\ calls = 0

IsValidStateTransition(from, to) ==
  to \in CASE from = "kDisconnected" -> {"kConnecting"}
           [] from = "kConnecting"   -> {"kConnected", "kDisconnected"}
           [] from = "kConnected"    -> {"kDisconnected"}
           [] from = "kReconnecting" -> {"kConnected", "kError"}
           [] from = "kError"        -> {"kReconnecting", "kDisconnected"}

\* A thread enters a call: lock-free, or with mutex_.
Enters(t) ==
  /\ at[t] = "out" /\ ~destroyed /\ calls < MaxCalls
  /\ calls' = calls + 1

MutexFree == \A t \in Threads : at[t] = "out"

Locked(t) == Enters(t) /\ MutexFree /\ UNCHANGED <<at, desktopVars>>

\* The state and its history change together.
Becomes(s) == state' = s /\ history' = Append(history, s)

-----------------------------------------------------------------------------
(* The connection. *)

Connect(t) ==
  /\ Locked(t)
  /\ IF IsValidStateTransition(state, "kConnecting")
       THEN Becomes("kConnecting") /\ client' \in Clients
       ELSE UNCHANGED <<state, history, client>>
  /\ UNCHANGED <<display, attempts, latency>>

\* Mutant: the transition is not checked.
SetConnectedUnchecked(t) ==
  /\ Locked(t)
  /\ Becomes("kConnected")
  /\ UNCHANGED <<client, display, attempts, latency>>

SetConnected(t) ==
  /\ Locked(t)
  /\ IF IsValidStateTransition(state, "kConnected")
       THEN Becomes("kConnected")
       ELSE UNCHANGED <<state, history>>
  /\ UNCHANGED <<client, display, attempts, latency>>

\* In any state, whatever the table of transitions says.
Disconnect(t) ==
  /\ Locked(t)
  /\ Becomes("kDisconnected")
  /\ client' = NoClient /\ display' = NoDisplay /\ attempts' = 0 /\ latency' = FALSE

Reconnect(t) ==
  /\ Locked(t)
  /\ IF IsValidStateTransition(state, "kReconnecting")
       THEN Becomes("kReconnecting")
       ELSE UNCHANGED <<state, history>>
  /\ UNCHANGED <<client, display, attempts, latency>>

\* In any state, too.
SetError(t) ==
  /\ Locked(t)
  /\ Becomes("kError")
  /\ UNCHANGED <<client, display, attempts, latency>>

SetDisplaySourceId(t) ==
  /\ Locked(t)
  /\ display' \in Displays
  /\ UNCHANGED <<state, history, client, attempts, latency>>

UpdateLatency(t) ==
  /\ Enters(t)
  /\ latency' \in BOOLEAN
  /\ UNCHANGED <<at, state, history, client, display, attempts, desktopVars>>

IncrementReconnectionAttempts(t) ==
  /\ Enters(t)
  /\ attempts' = attempts + 1
  /\ UNCHANGED <<at, state, history, client, display, latency, desktopVars>>

ResetReconnectionAttempts(t) ==
  /\ Enters(t)
  /\ attempts' = 0
  /\ UNCHANGED <<at, state, history, client, display, latency, desktopVars>>

-----------------------------------------------------------------------------
(* The desktop server, with mutex_ held to the end of each call. *)

GoTo(t, label) == at' = [at EXCEPT ![t] = label]

EntersDesktop(t) ==
  Enters(t) /\ MutexFree /\ UNCHANGED <<sessionVars, servicesVars, httpVars, threw>>

\* A failed initialization discards the server.
InitializeDesktopServer(t) ==
  /\ EntersDesktop(t)
  /\ desktop' \in IF desktop = "none" THEN {"none", "idle"} ELSE {desktop}
  /\ UNCHANGED <<at, destroyed>>

StartDesktopServer(t) ==
  /\ EntersDesktop(t)
  /\ IF desktop = "idle" THEN GoTo(t, "start_http") ELSE UNCHANGED at
  /\ UNCHANGED <<desktop, destroyed>>

StopDesktopServer(t) ==
  /\ EntersDesktop(t)
  /\ IF desktop = "running" THEN desktop' = "idle" /\ GoTo(t, "stop_signaling")
     ELSE UNCHANGED <<desktop, at>>
  /\ UNCHANGED destroyed

\* Nobody calls a session that is being destroyed.  The desktop server is shut
\* down without being stopped before.
Destroy(t) ==
  /\ EntersDesktop(t)
  /\ destroyed' = TRUE
  /\ IF desktop = "none" THEN UNCHANGED at ELSE GoTo(t, "close")
  /\ desktop' = IF desktop = "running" THEN "idle" ELSE desktop

InDesktop == UNCHANGED <<sessionVars, destroyed, threw, calls>>

StartHttp(t) ==
  /\ at[t] = "start_http"
  /\ \/ HttpStart /\ GoTo(t, "start_rest")
     \/ HttpStartFails /\ GoTo(t, "out")
  /\ UNCHANGED <<desktop, servicesVars>> /\ InDesktop

\* Signalling and capture start; or the first of them, or the second, does not.
StartRest(t) ==
  /\ at[t] = "start_rest"
  /\ \/ desktop' = "running" /\ signaling' = TRUE /\ GoTo(t, "out")
     \/ UNCHANGED desktop /\ signaling' \in BOOLEAN /\ GoTo(t, "undo_stop")
  /\ UNCHANGED <<admitting, pc, httpVars>> /\ InDesktop

\* HttpServer::stop joins only if it found the server running.
Stops(t, here, joining, otherwise) ==
  /\ at[t] = here
  /\ HttpStop
  /\ GoTo(t, IF httpRunning THEN joining ELSE otherwise)
  /\ UNCHANGED <<desktop, servicesVars>> /\ InDesktop

Joins(t, here, label) ==
  /\ at[t] = here
  /\ HttpJoin
  /\ GoTo(t, label)
  /\ UNCHANGED <<desktop, servicesVars>> /\ InDesktop

\* SignalingServer::stop, up to the join of the accept thread ...
StopsSignaling(t, here, joining, otherwise) ==
  /\ at[t] = here
  /\ signaling' = FALSE
  /\ GoTo(t, IF signaling THEN joining ELSE otherwise)
  /\ UNCHANGED <<desktop, admitting, pc, httpVars>> /\ InDesktop

\* ... for which it holds clients_mutex_.
JoinsAccept(t, here, label) ==
  /\ at[t] = here /\ ~admitting
  /\ GoTo(t, label)
  /\ UNCHANGED <<servicesVars, httpVars>> /\ InDesktop

\* A start that failed stops the HTTP server before the signalling server.
AfterUndo == IF signaling THEN "undo_signaling" ELSE "out"
UndoStop(t) == Stops(t, "undo_stop", "undo_join", AfterUndo)
UndoJoin(t) == Joins(t, "undo_join", AfterUndo)
UndoSignaling(t) == StopsSignaling(t, "undo_signaling", "undo_accept", "out")
UndoAccept(t) == JoinsAccept(t, "undo_accept", "out") /\ UNCHANGED desktop

StopSignaling(t) == StopsSignaling(t, "stop_signaling", "stop_accept", "stop_http")
StopAccept(t) == JoinsAccept(t, "stop_accept", "stop_http") /\ UNCHANGED desktop
StopHttp(t) == Stops(t, "stop_http", "stop_join", "out")
StopJoin(t) == Joins(t, "stop_join", "out")

\* Closing the PeerConnection waits for a callback in flight.
Close(t) ==
  /\ at[t] = "close" /\ pc # "candidate"
  /\ pc' = "closed"
  /\ GoTo(t, "destroy_stop")
  /\ UNCHANGED <<desktop, signaling, admitting, httpVars>> /\ InDesktop

DestroyStop(t) == Stops(t, "destroy_stop", "destroy_join", "destroy")
DestroyJoin(t) == Joins(t, "destroy_join", "destroy")

DestroyHttp(t) ==
  /\ at[t] = "destroy"
  /\ HttpDestroy
  /\ GoTo(t, "destroy_signaling")
  /\ UNCHANGED <<desktop, servicesVars>> /\ InDesktop

\* The rtc::WebSocketServer of one that was stopped joins, too, when destroyed.
DestroySignaling(t) ==
  StopsSignaling(t, "destroy_signaling", "destroy_accept", "destroy_accept")
DestroyAccept(t) == JoinsAccept(t, "destroy_accept", "out") /\ desktop' = "none"

-----------------------------------------------------------------------------
(* The threads of the desktop server. *)

OutsideCalls == UNCHANGED <<at, sessionVars, desktop, destroyed, calls>>

\* A browser connects, and is entered in the registry under clients_mutex_.
Admit ==
  /\ signaling /\ ~admitting /\ admitting' = TRUE
  /\ UNCHANGED <<signaling, pc, httpVars, threw>> /\ OutsideCalls

AcceptJoins == {"undo_accept", "stop_accept", "destroy_accept"}
Register ==
  /\ admitting /\ \A t \in Threads : at[t] \notin AcceptJoins
  /\ admitting' = FALSE
  /\ UNCHANGED <<signaling, pc, httpVars, threw>> /\ OutsideCalls

\* A candidate, of an offer that came through the signalling server; its callback
\* needs the mutex_ of the desktop server, which each of the calls above holds.
LocalCandidate ==
  /\ pc = "idle" \/ (pc = "fresh" /\ signaling)
  /\ pc' = "candidate"
  /\ UNCHANGED <<signaling, admitting, httpVars, threw>> /\ OutsideCalls

OnIceCandidate ==
  /\ pc = "candidate" /\ MutexFree
  /\ pc' = "idle"
  /\ UNCHANGED <<signaling, admitting, httpVars, threw>> /\ OutsideCalls

Http == HttpThread /\ UNCHANGED <<servicesVars, threw>> /\ OutsideCalls
Trouble ==
  /\ \/ AcceptFails /\ UNCHANGED threw
     \/ ListenThrows /\ threw' = TRUE
  /\ UNCHANGED servicesVars /\ OutsideCalls

-----------------------------------------------------------------------------
DesktopStep(t) ==
  \/ StartHttp(t) \/ StartRest(t)
  \/ UndoStop(t) \/ UndoJoin(t) \/ UndoSignaling(t) \/ UndoAccept(t)
  \/ StopSignaling(t) \/ StopAccept(t) \/ StopHttp(t) \/ StopJoin(t)
  \/ Close(t) \/ DestroyStop(t) \/ DestroyJoin(t) \/ DestroyHttp(t)
  \/ DestroySignaling(t) \/ DestroyAccept(t)

SessionCall(t) ==
  \/ Connect(t) \/ SetConnected(t) \/ Disconnect(t) \/ Reconnect(t) \/ SetError(t)
  \/ SetDisplaySourceId(t) \/ UpdateLatency(t) \/ IncrementReconnectionAttempts(t)
  \/ ResetReconnectionAttempts(t)
  \/ InitializeDesktopServer(t) \/ StartDesktopServer(t) \/ StopDesktopServer(t)
  \/ Destroy(t)

Next ==
  \/ Http \/ Trouble \/ Admit \/ Register \/ LocalCandidate \/ OnIceCandidate
  \/ \E t \in Threads : DesktopStep(t) \/ SessionCall(t)

\* The threads are scheduled; calls, browsers and failures are free to come or not.
Fairness ==
  /\ WF_vars(Http) /\ WF_vars(Register) /\ WF_vars(OnIceCandidate)
  /\ \A t \in Threads : WF_vars(DesktopStep(t))

Spec == Init /\ [][Next]_vars /\ Fairness

-----------------------------------------------------------------------------
(* Properties. *)

\* The values the members of session and HTTP server may hold.
TypeOK ==
  /\ HttpTypeOK
  /\ at \in [Threads -> Labels] /\ state \in States /\ history \in Seq(States)
  /\ client \in Clients \cup {NoClient} /\ display \in Displays \cup {NoDisplay}
  /\ attempts \in Nat /\ latency \in BOOLEAN
  /\ desktop \in {"none", "idle", "running"} /\ destroyed \in BOOLEAN /\ calls \in Nat
  /\ signaling \in BOOLEAN /\ admitting \in BOOLEAN /\ threw \in BOOLEAN
  /\ pc \in {"fresh", "idle", "candidate", "closed"}

\* A session that is connected, or on its way, knows its client, but for one path
\* that setError opens: an error while disconnected lets reconnect and
\* setConnected follow without any connect.
AnonymousOnlyAfterError ==
  client = NoClient /\ state \notin {"kDisconnected", "kError"} =>
    \E i \in 1 .. Len(history) - 1 :
      history[i] = "kDisconnected" /\ history[i + 1] = "kError"

\* Whatever went before, a desktop server that is not running, and in no call,
\* has neither a signalling server nor a listener of the HTTP server up; and the
\* thread of the latter is lost, which ends the program, only after listen threw.
StoppedMeansSilent ==
  /\ MutexFree /\ desktop # "running" => ~signaling /\ listener \in {"none", "ended"}
  /\ terminated => threw

\* httplib ignored a stop that came before its thread accepted connections, and the
\* join waits for that thread.
WaitsForListener ==
  /\ listener = "missed"
  /\ \E t \in Threads : at[t] \in {"undo_join", "stop_join", "destroy_join"}
\* The accept thread is joined with clients_mutex_ held, which it needs.
WaitsForAccept == admitting /\ \E t \in Threads : at[t] \in AcceptJoins
\* The PeerConnection is closed with a mutex held that its callback needs.
WaitsForCandidate == pc = "candidate" /\ \E t \in Threads : at[t] = "close"

\* Every call returns, and with it mutex_, unless one of these three waits of the
\* desktop server, each of which may last for good, is met with the session's mutex held.
CallsReturn ==
  \A t \in Threads :
    at[t] # "out" ~>
      at[t] = "out" \/ WaitsForListener \/ WaitsForAccept \/ WaitsForCandidate
=============================================================================

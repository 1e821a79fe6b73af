----------------------------- MODULE HttpServer ------------------------------
(***************************************************************************)
(* server/http_server: start and stop under server_mutex_, and the thread  *)
(* that listens.  httplib's Server::stop does nothing to a server whose    *)
(* thread is not accepting connections yet, and a server that could not    *)
(* bind refuses to listen until the next stop.  Its routes are left out.   *)
(* RemoteDesktopServer and Session extend this module and make its calls.  *)
(***************************************************************************)
EXTENDS Naturals

CONSTANT ListenFails  \* bound: whether listen may fail, or throw, in this instance

ASSUME ListenFailsAssumption == ListenFails \in BOOLEAN

VARIABLES
  httpRunning,    \* running_
  listener,       \* where server_thread_ stands
  joinable,       \* server_thread_.joinable()
  decommissioned, \* httplib: is_decommissioned
  terminated      \* history: whether a joinable std::thread was lost

httpVars == <<httpRunning, listener, joinable, decommissioned, terminated>>

HttpInit ==
  /\ httpRunning = FALSE /\ listener = "none" /\ joinable = FALSE
  /\ decommissioned = FALSE /\ terminated = FALSE

\* The root directory is usable, and the thread is created.
HttpStart ==
  /\ ~httpRunning
  /\ httpRunning' = TRUE /\ listener' = "spawned" /\ joinable' = TRUE
  /\ terminated' = (terminated \/ joinable)
  /\ UNCHANGED decommissioned

\* Running already, no usable root directory, or one that httplib refuses: by
\* then running_ is set, and it stays so.
HttpStartFails ==
  \/ UNCHANGED httpVars
  \/ /\ ~httpRunning /\ httpRunning' = TRUE
     /\ UNCHANGED <<listener, joinable, decommissioned, terminated>>

\* Mutant: stop() leaves the thread to itself.
HttpStopDetached ==
  /\ httpRunning' = FALSE /\ joinable' = FALSE
  /\ UNCHANGED <<listener, decommissioned, terminated>>

\* Mutant: httplib is not told to stop.
HttpStopKeepsSocket ==
  IF ~httpRunning THEN UNCHANGED httpVars
  ELSE /\ httpRunning' = FALSE
       /\ UNCHANGED <<listener, joinable, decommissioned, terminated>>

\* stop(), up to the join.  It is lost on a thread that does not accept connections
\* yet.
HttpStop ==
  IF ~httpRunning THEN UNCHANGED httpVars
  ELSE /\ httpRunning' = FALSE /\ decommissioned' = FALSE
       /\ listener' = CASE listener = "accepting" -> "closing"
                         [] listener = "spawned"   -> "missed"
                         [] OTHER                  -> listener
       /\ UNCHANGED <<joinable, terminated>>

\* A stop that found running_ clear returned; the others join.
HttpJoin ==
  /\ joinable => listener = "ended"
  /\ joinable' = FALSE
  /\ UNCHANGED <<httpRunning, listener, decommissioned, terminated>>

\* The destructor of a server that was stopped, or never started.
HttpDestroy ==
  /\ terminated' = (terminated \/ joinable)
  /\ joinable' = FALSE
  /\ UNCHANGED <<httpRunning, listener, decommissioned>>

-----------------------------------------------------------------------------
(* serverThreadFunc: Server::listen. *)

\* The thread binds its port and accepts connections, or refuses to, or cannot.
Listen ==
  /\ listener = "spawned"
  /\ \/ ~decommissioned /\ listener' = "accepting" /\ UNCHANGED decommissioned
     \/ /\ decommissioned \/ ListenFails
        /\ listener' = "ended" /\ decommissioned' = TRUE
  /\ UNCHANGED <<httpRunning, joinable, terminated>>

\* stop closed the socket ...
ListenEnds ==
  /\ listener = "closing"
  /\ listener' = "ended" /\ decommissioned' = FALSE
  /\ UNCHANGED <<httpRunning, joinable, terminated>>

\* ... or bind or accept failed.
AcceptFails ==
  /\ ListenFails /\ listener \in {"accepting", "missed"}
  /\ listener' = "ended" /\ decommissioned' = TRUE
  /\ UNCHANGED <<httpRunning, joinable, terminated>>

\* Only an exception clears running_; listen returning false does not.
ListenThrows ==
  /\ ListenFails /\ listener \in {"spawned", "accepting", "missed"}
  /\ listener' = "ended" /\ httpRunning' = FALSE
  /\ UNCHANGED <<joinable, decommissioned, terminated>>

HttpThread == Listen \/ ListenEnds
HttpTrouble == AcceptFails \/ ListenThrows

HttpTypeOK ==
  /\ httpRunning \in BOOLEAN /\ joinable \in BOOLEAN
  /\ decommissioned \in BOOLEAN /\ terminated \in BOOLEAN
  /\ listener \in {"none", "spawned", "accepting", "missed", "closing", "ended"}
=============================================================================

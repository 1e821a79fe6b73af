------------------------ MODULE MCRemoteDesktopServer ------------------------
(* Instances of RemoteDesktopServer for TLC. *)
EXTENDS RemoteDesktopServer, TLC

\* Browsers are interchangeable; for the runs without liveness.
Symmetry == Permutations(Clients)
=============================================================================

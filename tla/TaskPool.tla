------------------------------ MODULE TaskPool -------------------------------
(***************************************************************************)
(* What utils/thread_pool promises, without mutex, condition variable or   *)
(* workers: accepted tasks are started in the order they were accepted,    *)
(* each once; a closed pool accepts nothing more but still runs what it    *)
(* has; it is gone only when nothing is left.                              *)
(***************************************************************************)
EXTENDS Sequences

CONSTANT Tasks

VARIABLES
  pending,    \* accepted tasks that have not started, in order
  running,    \* tasks that are being executed
  finished,   \* tasks that have been executed
  closed,     \* whether the pool was stopped
  gone        \* whether the pool was destroyed

vars == <<pending, running, finished, closed, gone>>

Init ==
  /\ pending = <<>> /\ running = {} /\ finished = {}
  /\ closed = FALSE /\ gone = FALSE

Known == {pending[i] : i \in DOMAIN pending} \cup running \cup finished

Accept(t) ==
  /\ ~closed /\ t \notin Known
  /\ pending' = Append(pending, t)
  /\ UNCHANGED <<running, finished, closed, gone>>

Start ==
  /\ pending # <<>> /\ ~gone
  /\ running' = running \cup {Head(pending)}
  /\ pending' = Tail(pending)
  /\ UNCHANGED <<finished, closed, gone>>

Complete(t) ==
  /\ t \in running
  /\ running' = running \ {t}
  /\ finished' = finished \cup {t}
  /\ UNCHANGED <<pending, closed, gone>>

Close ==
  /\ closed' = TRUE
  /\ UNCHANGED <<pending, running, finished, gone>>

Retire ==
  /\ closed /\ pending = <<>> /\ running = {}
  /\ gone' = TRUE
  /\ UNCHANGED <<pending, running, finished, closed>>

Next ==
  \/ \E t \in Tasks : Accept(t) \/ Complete(t)
  \/ Start \/ Close \/ Retire

Spec == Init /\ [][Next]_vars
=============================================================================

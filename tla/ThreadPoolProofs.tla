-------------------------- MODULE ThreadPoolProofs ---------------------------
(***************************************************************************)
(* Safety of ThreadPool for any finite set of workers and any callers and  *)
(* tasks.                                                                  *)
(*                                                                         *)
(* No property is inductive alone.  WaitMeansDone needs active to count    *)
(* the busy workers (CountsBusy) and every accepted task to be in one      *)
(* place; DestructorDrains needs that a worker leaves only a stopped and   *)
(* empty pool (ExitedDrained), which stays so because submit refuses.      *)
(* Most actions only move threads between labels none of this mentions:    *)
(* lemma QuietStep does them all.                                          *)
(***************************************************************************)
EXTENDS ThreadPool, FiniteSetTheorems, SequenceTheorems, TLAPS

Running == {w \in Workers : at[w] = "run"}
RunningHasTask == \A w \in Running : task[w] \in Tasks

CountsBusy == active = Cardinality(Busy)

ExitedDrained == \A w \in Workers : at[w] = "exit" => stop /\ tasks = <<>>

DestroyedExited ==
  \A c \in Callers : at[c] = "destroyed" => \A w \in Workers : at[w] = "exit"

DueAccepted == \A c \in Callers : due[c] \subseteq accepted

IInv ==
  /\ TypeOK /\ RunningHasTask /\ TaskInOnePlace /\ CountsBusy
  /\ ExitedDrained /\ DestroyedExited /\ DueAccepted

-----------------------------------------------------------------------------
(* The queue as a set. *)

Elements(s) == {s[i] : i \in DOMAIN s}
NoRepeats(s) == \A i, j \in DOMAIN s : s[i] = s[j] => i = j

\* What std::queue::push adds to the queue.
LEMMA AppendElements ==
  ASSUME NEW S, NEW s \in Seq(S), NEW x \in S
  PROVE  /\ Append(s, x) \in Seq(S)
         /\ Elements(Append(s, x)) = Elements(s) \cup {x}
         /\ NoRepeats(s) /\ x \notin Elements(s) => NoRepeats(Append(s, x))
<1> DEFINE t == Append(s, x)
<1>1. /\ Len(s) \in Nat /\ DOMAIN s = 1..Len(s)
      /\ t \in Seq(S) /\ Len(t) = Len(s) + 1
      /\ \A i \in 1..Len(s) : t[i] = s[i]
      /\ t[Len(s) + 1] = x
  BY LenProperties, AppendProperties
<1>2. DOMAIN t = 1..(Len(s) + 1)
  BY <1>1, LenProperties
<1> HIDE DEF t
<1>3. DOMAIN t = DOMAIN s \cup {Len(s) + 1}
  BY <1>1, <1>2
<1>4. Elements(t) = Elements(s) \cup {x}
  BY <1>1, <1>3 DEF Elements
<1>5. NoRepeats(s) /\ x \notin Elements(s) => NoRepeats(t)
  BY <1>1, <1>3 DEF NoRepeats, Elements
<1> QED
  BY <1>1, <1>4, <1>5 DEF t

\* What front() and pop() take from it.
LEMMA TailElements ==
  ASSUME NEW S, NEW s \in Seq(S), s # <<>>
  PROVE  /\ Head(s) \in S /\ Tail(s) \in Seq(S)
         /\ Elements(s) = {Head(s)} \cup Elements(Tail(s))
         /\ NoRepeats(s) => NoRepeats(Tail(s)) /\ Head(s) \notin Elements(Tail(s))
<1> DEFINE t == Tail(s)
<1>1. /\ Len(s) \in Nat \ {0} /\ DOMAIN s = 1..Len(s)
      /\ Head(s) \in S /\ t \in Seq(S) /\ Len(t) = Len(s) - 1
      /\ \A i \in 1..Len(t) : t[i] = s[i + 1]
  BY LenProperties, EmptySeq, HeadTailProperties
<1>2. DOMAIN t = 1..(Len(s) - 1) /\ Head(s) = s[1]
  BY <1>1, LenProperties
<1> HIDE DEF t
<1>3. \A i \in DOMAIN s : i = 1 \/ (i - 1 \in DOMAIN t /\ s[i] = t[i - 1])
  BY <1>1, <1>2
<1>4. \A i \in DOMAIN t : i + 1 \in DOMAIN s /\ t[i] = s[i + 1]
  BY <1>1, <1>2
<1>5. 1 \in DOMAIN s
  BY <1>1
<1>6. Elements(s) = {Head(s)} \cup Elements(t)
  BY <1>2, <1>3, <1>4, <1>5 DEF Elements
<1>7. NoRepeats(s) => NoRepeats(t)
  <2> SUFFICES ASSUME NoRepeats(s), NEW i \in DOMAIN t, NEW j \in DOMAIN t, t[i] = t[j]
               PROVE  i = j
    BY DEF NoRepeats
  <2>1. s[i + 1] = s[j + 1] /\ i + 1 \in DOMAIN s /\ j + 1 \in DOMAIN s
    BY <1>4
  <2>2. i + 1 = j + 1
    BY <2>1 DEF NoRepeats
  <2> QED
    BY <1>1, <1>2, <2>2
<1>8. NoRepeats(s) => Head(s) \notin Elements(t)
  <2> SUFFICES ASSUME NoRepeats(s), NEW i \in DOMAIN t, Head(s) = t[i]
               PROVE  FALSE
    BY DEF Elements
  <2>1. s[1] = s[i + 1] /\ i + 1 \in DOMAIN s
    BY <1>2, <1>4
  <2>2. 1 = i + 1
    BY <2>1, <1>5 DEF NoRepeats
  <2> QED
    BY <1>1, <1>2, <2>2
<1> QED
  BY <1>1, <1>6, <1>7, <1>8 DEF t

-----------------------------------------------------------------------------
\* The invariant holds of a pool that has just been built.
LEMMA InitIInv == Init => IInv
<1> SUFFICES ASSUME Init PROVE IInv
  OBVIOUS
<1> USE DEF Init
<1>1. TypeOK
  <2>1. /\ at \in [Threads -> WorkerLabels \cup CallerLabels]
        /\ \A w \in Workers : at[w] \in WorkerLabels
        /\ \A c \in Callers : at[c] \in CallerLabels
    BY ThreadsAssumption DEF Threads, WorkerLabels, CallerLabels, WaitLabels
  <2>2. tasks \in Seq(Tasks)
    BY EmptySeq
  <2>3. calls \in 0..MaxCalls /\ spurious \in 0..MaxSpurious
    BY BoundsAssumption
  <2> QED
    BY <2>1, <2>2, <2>3 DEF TypeOK
<1>2. Running = {} /\ Busy = {}
  BY DEF Running, Busy, Threads
<1>3. RunningHasTask /\ CountsBusy
  BY <1>2, FS_EmptySet DEF RunningHasTask, CountsBusy
<1>4. TaskInOnePlace
  BY <1>2 DEF TaskInOnePlace, Running, Queued
<1>5. ExitedDrained /\ DestroyedExited /\ DueAccepted
  BY ThreadsAssumption DEF ExitedDrained, DestroyedExited, DueAccepted, Threads
<1> QED
  BY <1>1, <1>3, <1>4, <1>5 DEF IInv

\* A step that changes neither the pool nor the histories, and moves no thread
\* into or out of running, finishing, leaving or the end of the destructor.
QuietMove ==
  /\ \A t \in Threads : at'[t] # at[t] =>
       /\ at[t] \notin {"run", "finish", "exit", "destroyed"}
       /\ at'[t] \notin {"run", "finish", "exit", "destroyed"}

\* A step that starts and finishes no task keeps the invariant.
LEMMA QuietStep ==
  ASSUME IInv, TypeOK', QuietMove, DueAccepted',
         UNCHANGED <<tasks, active, task, accepted, done>>,
         stop => stop'
  PROVE  IInv'
<1> USE DEF IInv
<1>1. Running' = Running /\ Busy' = Busy
  BY DEF QuietMove, Running, Busy, Threads
<1>2. RunningHasTask' /\ CountsBusy'
  BY <1>1 DEF RunningHasTask, CountsBusy
<1>3. TaskInOnePlace'
  BY <1>1 DEF TaskInOnePlace, Running, Queued
<1>4. ExitedDrained'
  BY DEF ExitedDrained, QuietMove, Threads, TypeOK
<1>5. DestroyedExited'
  BY DEF DestroyedExited, QuietMove, Threads
<1> QED
  BY <1>2, <1>3, <1>4, <1>5
-----------------------------------------------------------------------------
(* Moving threads. *)

AtOK ==
  /\ at \in [Threads -> WorkerLabels \cup CallerLabels]
  /\ \A w \in Workers : at[w] \in WorkerLabels
  /\ \A c \in Callers : at[c] \in CallerLabels

\* What GoTo does to the labels.
LEMMA GoToMoves ==
  ASSUME AtOK, NEW t \in Threads, NEW label, GoTo(t, label),
         t \in Workers => label \in WorkerLabels,
         t \in Callers => label \in CallerLabels
  PROVE  AtOK' /\ at'[t] = label /\ \A s \in Threads \ {t} : at'[s] = at[s]
BY DEF AtOK, GoTo, Threads

\* What notify_all does to them.
LEMMA WakeAllMoves ==
  ASSUME AtOK, NEW t \in Threads, NEW label, WakeAll(t, label),
         t \in Workers => label \in WorkerLabels,
         t \in Callers => label \in CallerLabels
  PROVE  /\ AtOK' /\ at'[t] = label
         /\ \A s \in Threads \ {t} :
              at'[s] = at[s] \/ (at[s] = "sleep" /\ at'[s] = "want")
BY DEF AtOK, WakeAll, Threads, WorkerLabels, CallerLabels, WaitLabels

\* What notify_one does to them.
LEMMA NotifyOneMoves ==
  ASSUME AtOK, NEW c \in Callers, NotifyOne(c)
  PROVE  /\ AtOK' /\ at[c] = "notify_one" /\ at'[c] = "out"
         /\ \A s \in Threads \ {c} :
              at'[s] = at[s] \/ (at[s] = "sleep" /\ at'[s] = "want")
<1>1. CASE Sleeping = {}
  BY <1>1, ThreadsAssumption
  DEF AtOK, NotifyOne, GoTo, Threads, WorkerLabels, CallerLabels, WaitLabels
<1>2. CASE Sleeping # {}
  <2>1. PICK s \in Sleeping : at' = [at EXCEPT ![c] = "out", ![s] = "want"]
    BY <1>2 DEF NotifyOne
  <2>2. s \in Threads /\ at[s] = "sleep" /\ at[c] = "notify_one"
    BY <2>1 DEF Sleeping, NotifyOne
  <2> QED
    BY <2>1, <2>2, ThreadsAssumption
    DEF AtOK, Threads, WorkerLabels, CallerLabels, WaitLabels
<1> QED
  BY <1>1, <1>2

-----------------------------------------------------------------------------
(* Actions that only move threads. *)

\* Asking for the mutex, blocking and waking up keep the invariant.
LEMMA LockStep ==
  ASSUME IInv, NEW t \in Threads, Lock(t) \/ Block(t) \/ WakeSpuriously(t)
  PROVE  IInv' /\ QuietMove /\ UNCHANGED <<poolVars, task, done>>
<1>1. AtOK /\ at[t] \in {"want", "block", "sleep"} /\ UNCHANGED <<poolVars, task, historyVars>>
  BY DEF IInv, TypeOK, AtOK, Lock, Block, WakeSpuriously
<1>2. PICK label \in {"test", "sleep", "want"} : GoTo(t, label)
  BY DEF Lock, Block, WakeSpuriously
<1>3. AtOK' /\ at'[t] = label /\ \A s \in Threads \ {t} : at'[s] = at[s]
  BY <1>1, <1>2, GoToMoves DEF WorkerLabels, CallerLabels, WaitLabels
<1>4. calls' \in 0..MaxCalls /\ spurious' \in 0..MaxSpurious
  BY BoundsAssumption DEF Lock, Block, WakeSpuriously, boundVars, IInv, TypeOK
<1>5. TypeOK' /\ DueAccepted'
  BY <1>1, <1>3, <1>4 DEF IInv, TypeOK, AtOK, DueAccepted, poolVars, historyVars
<1>6. QuietMove
  BY <1>1, <1>3 DEF QuietMove
<1> QED
  BY <1>1, <1>5, <1>6, QuietStep DEF poolVars, historyVars

\* Waking the workers keeps the invariant.
LEMMA NotifyStep ==
  ASSUME IInv, NEW t \in Threads,
         \/ t \in Callers /\ (NotifyOne(t) \/ NotifyAll(t) \/ DestroyNotify(t))
         \/ t \in Workers /\ NotifyFinished(t)
  PROVE  IInv' /\ QuietMove /\ UNCHANGED <<poolVars, task, done>>
<1> DEFINE Quiet == {"notify_one", "notify_all", "destroy_notify", "notify", "out", "join", "want"}
<1>1. AtOK /\ at[t] \in Quiet /\ UNCHANGED <<poolVars, task, historyVars, boundVars>>
  BY DEF IInv, TypeOK, AtOK, NotifyOne, NotifyAll, DestroyNotify, NotifyFinished
<1>2. /\ AtOK' /\ at'[t] \in Quiet
      /\ \A s \in Threads \ {t} :
           at'[s] = at[s] \/ (at[s] = "sleep" /\ at'[s] = "want")
  <2>1. CASE t \in Callers /\ NotifyOne(t)
    BY <1>1, <2>1, NotifyOneMoves
  <2>2. CASE t \in Callers /\ NotifyAll(t)
    BY <1>1, <2>2, WakeAllMoves, ThreadsAssumption DEF NotifyAll, CallerLabels
  <2>3. CASE t \in Callers /\ DestroyNotify(t)
    BY <1>1, <2>3, WakeAllMoves, ThreadsAssumption DEF DestroyNotify, CallerLabels, DestroyLabels
  <2>4. CASE t \in Workers /\ NotifyFinished(t)
    BY <1>1, <2>4, WakeAllMoves, ThreadsAssumption DEF NotifyFinished, WorkerLabels, WaitLabels
  <2> QED
    BY <2>1, <2>2, <2>3, <2>4
<1>3. TypeOK' /\ DueAccepted'
  BY <1>1, <1>2 DEF IInv, TypeOK, AtOK, DueAccepted, poolVars, historyVars, boundVars
<1>4. QuietMove
  BY <1>1, <1>2 DEF QuietMove
<1> QED
  BY <1>1, <1>3, <1>4, QuietStep DEF poolVars, historyVars

\* waitForAll() and the first steps of shutdown() and of the destructor keep the
\* invariant.
LEMMA CallStep ==
  ASSUME IInv, NEW c \in Callers,
         WaitForAll(c) \/ WaiterTest(c) \/ Stop(c) \/ Destroy(c)
  PROVE  IInv' /\ QuietMove /\ UNCHANGED <<tasks, task, done>>
<1> DEFINE Quiet == {"want", "test", "block", "out", "notify_all", "destroy_notify"}
<1>1. /\ AtOK /\ c \in Threads /\ c \notin Workers
      /\ at[c] \in Quiet /\ UNCHANGED <<tasks, active, task, accepted, done>>
  BY ThreadsAssumption
  DEF IInv, TypeOK, AtOK, Threads, WaitForAll, WaiterTest, Stop, Destroy, CanCall,
      poolVars, historyVars
<1>2. PICK label \in Quiet : GoTo(c, label)
  BY DEF WaitForAll, WaiterTest, Stop, Destroy
<1>3. AtOK' /\ at'[c] = label /\ \A s \in Threads \ {c} : at'[s] = at[s]
  BY <1>1, <1>2, GoToMoves DEF CallerLabels, WaitLabels, DestroyLabels
<1>4. stop' \in BOOLEAN /\ (stop => stop')
  BY DEF IInv, TypeOK, WaitForAll, WaiterTest, Stop, Destroy, poolVars
<1>5. due' \in [Callers -> SUBSET Tasks] /\ DueAccepted'
  BY <1>1 DEF IInv, TypeOK, DueAccepted, WaitForAll, WaiterTest, Stop, Destroy, historyVars
<1>6. calls' \in 0..MaxCalls /\ spurious' \in 0..MaxSpurious
  BY BoundsAssumption
  DEF IInv, TypeOK, WaitForAll, WaiterTest, Stop, Destroy, CountCall, boundVars
<1>7. TypeOK'
  BY <1>1, <1>3, <1>4, <1>5, <1>6 DEF IInv, TypeOK, AtOK
<1>8. QuietMove
  BY <1>1, <1>3 DEF QuietMove
<1> QED
  BY <1>1, <1>4, <1>5, <1>7, <1>8, QuietStep
-----------------------------------------------------------------------------
(* Actions that change the pool. *)

\* submit: a task nobody has seen joins the queue of a pool that is not stopped.
LEMMA SubmitStep ==
  ASSUME IInv, NEW c \in Callers, NEW t \in Tasks, Submit(c, t)
  PROVE  IInv'
<1>1. /\ AtOK /\ c \in Threads /\ c \notin Workers
      /\ at[c] = "out" /\ ~stop /\ t \in Tasks \ accepted /\ tasks \in Seq(Tasks)
      /\ tasks' = Append(tasks, t) /\ accepted' = accepted \cup {t}
      /\ GoTo(c, "notify_one")
      /\ UNCHANGED <<active, stop, task, done, due, calls, spurious>>
  BY ThreadsAssumption DEF IInv, TypeOK, AtOK, Threads, Submit, CanCall, boundVars
<1>2. AtOK' /\ at'[c] = "notify_one" /\ \A s \in Threads \ {c} : at'[s] = at[s]
  BY <1>1, GoToMoves DEF CallerLabels
<1>3. /\ tasks' \in Seq(Tasks)
      /\ Elements(tasks') = Elements(tasks) \cup {t}
      /\ NoRepeats(tasks) /\ t \notin Elements(tasks) => NoRepeats(tasks')
  BY <1>1, AppendElements
<1>4. TypeOK'
  BY <1>1, <1>2, <1>3 DEF IInv, TypeOK, AtOK
<1>5. Running' = Running /\ Busy' = Busy
  BY <1>1, <1>2 DEF Running, Busy, Threads
<1>6. TaskInOnePlace'
  BY <1>1, <1>3, <1>5 DEF IInv, TaskInOnePlace, Running, Queued, Elements, NoRepeats
<1>7. RunningHasTask' /\ CountsBusy'
  BY <1>1, <1>5 DEF IInv, RunningHasTask, CountsBusy
<1>8. ExitedDrained'
  BY <1>1, <1>2 DEF IInv, ExitedDrained, Threads
<1>9. DestroyedExited' /\ DueAccepted'
  BY <1>1, <1>2 DEF IInv, DestroyedExited, DueAccepted, Threads
<1> QED
  BY <1>4, <1>6, <1>7, <1>8, <1>9 DEF IInv

\* The destructor has joined every worker.
LEMMA JoinStep ==
  ASSUME IInv, NEW c \in Callers, Join(c)
  PROVE  IInv'
<1>1. /\ AtOK /\ c \in Threads /\ c \notin Workers /\ GoTo(c, "destroyed")
      /\ UNCHANGED <<poolVars, task, historyVars, boundVars>>
  BY ThreadsAssumption DEF IInv, TypeOK, AtOK, Threads, Join
<1>2. AtOK' /\ at'[c] = "destroyed" /\ \A s \in Threads \ {c} : at'[s] = at[s]
  BY <1>1, GoToMoves DEF CallerLabels, DestroyLabels
<1>3. Running' = Running /\ Busy' = Busy
  BY <1>1, <1>2 DEF Running, Busy, Threads
<1>4. TypeOK'
  BY <1>1, <1>2 DEF IInv, TypeOK, AtOK, poolVars, historyVars, boundVars
<1>5. TaskInOnePlace' /\ RunningHasTask' /\ CountsBusy'
  BY <1>1, <1>3
  DEF IInv, TaskInOnePlace, RunningHasTask, CountsBusy, Running, Queued, poolVars, historyVars
<1>6. ExitedDrained' /\ DestroyedExited' /\ DueAccepted'
  BY <1>1, <1>2
  DEF IInv, ExitedDrained, DestroyedExited, DueAccepted, Join, Threads, poolVars, historyVars
<1> QED
  BY <1>4, <1>5, <1>6 DEF IInv

\* The counter follows the workers that enter and leave Busy.
LEMMA BusyChanges ==
  ASSUME CountsBusy, NEW w \in Workers, active \in Nat
  PROVE  /\ w \notin Busy /\ Busy' = Busy \cup {w} /\ active' = active + 1 => CountsBusy'
         /\ w \in Busy /\ Busy' = Busy \ {w} /\ active' = active - 1 =>
              CountsBusy' /\ active' \in Nat
<1>1. IsFiniteSet(Busy)
  BY FS_Subset, ThreadsAssumption DEF Busy
<1>2. ASSUME w \notin Busy, Busy' = Busy \cup {w}, active' = active + 1
      PROVE  CountsBusy'
  <2>1. Cardinality(Busy \cup {w}) = Cardinality(Busy) + 1
    BY <1>1, <1>2, FS_AddElement
  <2> QED
    BY <1>2, <2>1 DEF CountsBusy
<1>3. ASSUME w \in Busy, Busy' = Busy \ {w}, active' = active - 1
      PROVE  CountsBusy' /\ active' \in Nat
  <2>1. /\ Cardinality(Busy \ {w}) = Cardinality(Busy) - 1
        /\ Cardinality(Busy \ {w}) \in Nat
    BY <1>1, <1>3, FS_RemoveElement, FS_CardinalityType
  <2> QED
    BY <1>3, <2>1 DEF CountsBusy
<1> QED
  BY <1>2, <1>3

\* A worker takes the head of the queue.
LEMMA TakeStep ==
  ASSUME IInv, NEW w \in Workers, WorkerTest(w), tasks # <<>>
  PROVE  IInv'
<1>1. /\ AtOK /\ w \in Threads /\ at[w] = "test" /\ tasks \in Seq(Tasks) /\ active \in Nat
      /\ task' = [task EXCEPT ![w] = Head(tasks)] /\ tasks' = Tail(tasks)
      /\ active' = active + 1 /\ GoTo(w, "run")
      /\ UNCHANGED <<stop, accepted, done, due, calls, spurious>>
  BY DEF IInv, TypeOK, AtOK, Threads, WorkerTest, historyVars, boundVars
<1>2. AtOK' /\ at'[w] = "run" /\ \A s \in Threads \ {w} : at'[s] = at[s]
  BY <1>1, GoToMoves, ThreadsAssumption DEF WorkerLabels
<1>3. /\ Head(tasks) \in Tasks /\ tasks' \in Seq(Tasks)
      /\ Elements(tasks) = {Head(tasks)} \cup Elements(tasks')
      /\ NoRepeats(tasks) => NoRepeats(tasks') /\ Head(tasks) \notin Elements(tasks')
  BY <1>1, TailElements
<1>4. task \in [Workers -> Tasks \cup {NoTask}] /\ task' \in [Workers -> Tasks \cup {NoTask}]
  BY <1>1, <1>3 DEF IInv, TypeOK
<1>5. task'[w] = Head(tasks) /\ \A v \in Workers \ {w} : task'[v] = task[v]
  BY <1>1, <1>4
<1>6. TypeOK'
  BY <1>1, <1>2, <1>3, <1>4 DEF IInv, TypeOK, AtOK
<1>7. /\ w \notin Running /\ Running' = Running \cup {w}
      /\ w \notin Busy /\ Busy' = Busy \cup {w}
  BY <1>1, <1>2 DEF Running, Busy, Threads
<1>8. CountsBusy'
  BY <1>1, <1>7, BusyChanges DEF IInv
<1>9. RunningHasTask'
  BY <1>3, <1>5, <1>7 DEF IInv, RunningHasTask, Running
<1>10. TaskInOnePlace'
  <2>1. /\ accepted = Elements(tasks) \cup {task[v] : v \in Running} \cup done
        /\ NoRepeats(tasks)
        /\ \A u, v \in Running : task[u] = task[v] => u = v
        /\ \A v \in Running : task[v] \notin Elements(tasks) \cup done
        /\ Elements(tasks) \cap done = {}
    BY DEF IInv, TaskInOnePlace, Running, Queued, Elements, NoRepeats
  <2>2. {task'[v] : v \in Running'} = {task[v] : v \in Running} \cup {Head(tasks)}
    BY <1>5, <1>7 DEF Running
  <2>3. accepted' = Elements(tasks') \cup {task'[v] : v \in Running'} \cup done'
    BY <1>1, <1>3, <2>1, <2>2
  <2>4. NoRepeats(tasks')
    BY <1>3, <2>1
  <2>5. \A u, v \in Running' : task'[u] = task'[v] => u = v
    BY <1>3, <1>5, <1>7, <2>1 DEF Running
  <2>6. \A v \in Running' : task'[v] \notin Elements(tasks') \cup done'
    BY <1>1, <1>3, <1>5, <1>7, <2>1 DEF Running
  <2>7. Elements(tasks') \cap done' = {}
    BY <1>1, <1>3, <2>1
  <2> QED
    BY <2>3, <2>4, <2>5, <2>6, <2>7 DEF TaskInOnePlace, Running, Queued, Elements, NoRepeats
<1>11. ExitedDrained' /\ DestroyedExited' /\ DueAccepted'
  <2>1. \A v \in Workers : at'[v] = "exit" => at[v] = "exit"
    BY <1>2 DEF Threads
  <2>2. \A v \in Workers : at[v] # "exit"
    BY DEF IInv, ExitedDrained
  <2>3. \A c \in Callers : at'[c] = at[c]
    BY <1>2, ThreadsAssumption DEF Threads
  <2> QED
    BY <1>1, <2>1, <2>2, <2>3 DEF IInv, ExitedDrained, DestroyedExited, DueAccepted
<1> QED
  BY <1>6, <1>8, <1>9, <1>10, <1>11 DEF IInv
\* A worker finds the queue empty: it leaves a stopped pool, or goes to sleep.
LEMMA EmptyStep ==
  ASSUME IInv, NEW w \in Workers, WorkerTest(w), tasks = <<>>
  PROVE  IInv'
<1>1. /\ AtOK /\ w \in Threads /\ w \notin Callers /\ at[w] = "test"
      /\ UNCHANGED <<poolVars, task, historyVars, boundVars>>
  BY ThreadsAssumption DEF IInv, TypeOK, AtOK, Threads, WorkerTest, poolVars
<1>2. PICK label \in {"exit", "block"} : GoTo(w, label) /\ (label = "exit" => stop)
  BY DEF WorkerTest
<1>3. AtOK' /\ at'[w] = label /\ \A s \in Threads \ {w} : at'[s] = at[s]
  BY <1>1, <1>2, GoToMoves, ThreadsAssumption DEF WorkerLabels, WaitLabels
<1>4. Running' = Running /\ Busy' = Busy
  BY <1>1, <1>3 DEF Running, Busy, Threads
<1>5. TypeOK'
  BY <1>1, <1>3 DEF IInv, TypeOK, AtOK, poolVars, historyVars, boundVars
<1>6. TaskInOnePlace' /\ RunningHasTask' /\ CountsBusy'
  BY <1>1, <1>4
  DEF IInv, TaskInOnePlace, RunningHasTask, CountsBusy, Running, Queued, poolVars, historyVars
<1>7. ExitedDrained'
  BY <1>1, <1>2, <1>3 DEF IInv, ExitedDrained, Threads, poolVars
<1>8. DestroyedExited' /\ DueAccepted'
  BY <1>1, <1>3 DEF IInv, DestroyedExited, DueAccepted, Threads, historyVars
<1> QED
  BY <1>5, <1>6, <1>7, <1>8 DEF IInv

\* A task has run.
LEMMA RunStep ==
  ASSUME IInv, NEW w \in Workers, Run(w)
  PROVE  IInv'
<1>1. /\ AtOK /\ w \in Threads /\ w \notin Callers /\ at[w] = "run" /\ GoTo(w, "finish")
      /\ done' = done \cup {task[w]} /\ task[w] \in Tasks
      /\ UNCHANGED <<tasks, active, stop, task, accepted, due, calls, spurious>>
  BY ThreadsAssumption
  DEF IInv, TypeOK, AtOK, Threads, Run, RunningHasTask, Running, poolVars, boundVars
<1>2. AtOK' /\ at'[w] = "finish" /\ \A s \in Threads \ {w} : at'[s] = at[s]
  BY <1>1, GoToMoves DEF WorkerLabels
<1>3. w \in Running /\ Running' = Running \ {w} /\ Busy' = Busy
  BY <1>1, <1>2 DEF Running, Busy, Threads
<1>4. TypeOK'
  BY <1>1, <1>2 DEF IInv, TypeOK, AtOK
<1>5. RunningHasTask' /\ CountsBusy'
  BY <1>1, <1>3 DEF IInv, RunningHasTask, CountsBusy
<1>6. TaskInOnePlace'
  BY <1>1, <1>3 DEF IInv, TaskInOnePlace, Running, Queued
<1>7. ExitedDrained' /\ DestroyedExited' /\ DueAccepted'
  BY <1>1, <1>2 DEF IInv, ExitedDrained, DestroyedExited, DueAccepted, Threads
<1> QED
  BY <1>4, <1>5, <1>6, <1>7 DEF IInv

\* active_tasks_--.
LEMMA FinishStep ==
  ASSUME IInv, NEW w \in Workers, Finish(w)
  PROVE  IInv'
<1>1. /\ AtOK /\ w \in Threads /\ w \notin Callers /\ at[w] = "finish"
      /\ GoTo(w, "notify") /\ active \in Nat
      /\ active' = active - 1 /\ task' = [task EXCEPT ![w] = NoTask]
      /\ UNCHANGED <<tasks, stop, accepted, done, due, calls, spurious>>
  BY ThreadsAssumption DEF IInv, TypeOK, AtOK, Threads, Finish, historyVars, boundVars
<1>2. AtOK' /\ at'[w] = "notify" /\ \A s \in Threads \ {w} : at'[s] = at[s]
  BY <1>1, GoToMoves DEF WorkerLabels
<1>3. Running' = Running /\ w \notin Running /\ w \in Busy /\ Busy' = Busy \ {w}
  BY <1>1, <1>2 DEF Running, Busy, Threads
<1>4. CountsBusy' /\ active' \in Nat
  BY <1>1, <1>3, BusyChanges DEF IInv
<1>5. task' \in [Workers -> Tasks \cup {NoTask}] /\ \A v \in Running : task'[v] = task[v]
  BY <1>1, <1>3 DEF IInv, TypeOK, Running
<1>6. TypeOK'
  BY <1>1, <1>2, <1>4, <1>5 DEF IInv, TypeOK, AtOK
<1>7. RunningHasTask'
  BY <1>3, <1>5 DEF IInv, RunningHasTask
<1>8. {task'[v] : v \in Running'} = {task[v] : v \in Running}
  BY <1>3, <1>5
<1>9. TaskInOnePlace'
  BY <1>1, <1>3, <1>5, <1>8 DEF IInv, TaskInOnePlace, Running, Queued
<1>10. ExitedDrained' /\ DestroyedExited' /\ DueAccepted'
  BY <1>1, <1>2 DEF IInv, ExitedDrained, DestroyedExited, DueAccepted, Threads
<1> QED
  BY <1>4, <1>6, <1>7, <1>9, <1>10 DEF IInv

-----------------------------------------------------------------------------
\* Every step of a worker or a caller keeps the invariant.
LEMMA NextIInv == IInv /\ [Next]_vars => IInv'
<1> SUFFICES ASSUME IInv, [Next]_vars PROVE IInv'
  OBVIOUS
<1>1. CASE \E w \in Workers : WorkerStep(w)
  <2> PICK w \in Workers : WorkerStep(w)
    BY <1>1
  <2>1. CASE Waiting(w)
    BY <2>1, LockStep DEF Waiting, Threads
  <2>2. CASE WorkerTest(w)
    BY <2>2, TakeStep, EmptyStep
  <2>3. CASE Run(w)
    BY <2>3, RunStep
  <2>4. CASE Finish(w)
    BY <2>4, FinishStep
  <2>5. CASE NotifyFinished(w)
    BY <2>5, NotifyStep DEF Threads
  <2> QED
    BY <2>1, <2>2, <2>3, <2>4, <2>5 DEF WorkerStep
<1>2. CASE \E c \in Callers : CallerStep(c) \/ Call(c)
  <2> PICK c \in Callers : CallerStep(c) \/ Call(c)
    BY <1>2
  <2>1. CASE Waiting(c)
    BY <2>1, LockStep DEF Waiting, Threads
  <2>2. CASE NotifyOne(c) \/ NotifyAll(c) \/ DestroyNotify(c)
    BY <2>2, NotifyStep DEF Threads
  <2>3. CASE WaitForAll(c) \/ WaiterTest(c) \/ Stop(c) \/ Destroy(c)
    BY <2>3, CallStep
  <2>4. CASE Join(c)
    BY <2>4, JoinStep
  <2>5. CASE \E t \in Tasks : Submit(c, t)
    BY <2>5, SubmitStep
  <2> QED
    BY <2>1, <2>2, <2>3, <2>4, <2>5 DEF CallerStep, Call
<1>3. CASE \E t \in Threads : WakeSpuriously(t)
  BY <1>3, LockStep
<1>4. CASE UNCHANGED vars
  BY <1>4
  DEF vars, poolVars, historyVars, boundVars, IInv, TypeOK, RunningHasTask, Running,
      TaskInOnePlace, CountsBusy, Busy, ExitedDrained, DestroyedExited, DueAccepted, Queued
<1> QED
  BY <1>1, <1>2, <1>3, <1>4 DEF Next

\* Every reachable state of a pool satisfies the inductive invariant.
THEOREM Invariance == Spec => []IInv
<1> QED
  BY InitIInv, NextIInv, PTL DEF Spec

\* Type correctness; the part about active says that --active_tasks_ never
\* takes the unsigned counter below zero.
THEOREM TypeCorrect == Spec => []TypeOK
<1>1. IInv => TypeOK
  BY DEF IInv
<1> QED
  BY <1>1, Invariance, PTL

\* Every submitted task is in exactly one place, however the workers and the
\* callers interleave: none is lost by the queue and none is run twice.
THEOREM TaskInOnePlaceAlways == Spec => []TaskInOnePlace
<1>1. IInv => TaskInOnePlace
  BY DEF IInv
<1> QED
  BY <1>1, Invariance, PTL

\* Whatever was submitted has run when the destructor returns.
THEOREM DestructorDrainsAlways == Spec => []DestructorDrains
<1>1. ASSUME IInv PROVE DestructorDrains
  <2> SUFFICES ASSUME NEW c \in Callers, at[c] = "destroyed" PROVE accepted = done
    BY DEF DestructorDrains
  <2>1. \A w \in Workers : at[w] = "exit"
    BY <1>1 DEF IInv, DestroyedExited
  <2>2. tasks = <<>>
    BY <1>1, <2>1, ThreadsAssumption DEF IInv, ExitedDrained
  <2>3. Queued = {} /\ Running = {}
    BY <2>1, <2>2 DEF Queued, Running
  <2> QED
    BY <1>1, <2>3 DEF IInv, TaskInOnePlace, Running
<1> QED
  BY <1>1, Invariance, PTL

\* When waitForAll returns from a pool that was not stopped, every task that
\* was submitted before the call has run.
THEOREM WaitMeansDoneAlways == Spec => WaitMeansDone
<1> DEFINE Returns(c) == at[c] = "test" /\ at'[c] = "out"
<1>1. ASSUME IInv, [Next]_vars
      PROVE  [\A c \in Callers : Returns(c) => due[c] \subseteq done \/ stop]_vars
  <2> SUFFICES ASSUME NEW c \in Callers, Returns(c), ~stop, Next
               PROVE  due[c] \subseteq done
    BY <1>1
  <2>1. WaiterTest(c)
    <3>1. c \in Threads /\ c \notin Workers /\ AtOK
      BY <1>1, ThreadsAssumption DEF Threads, IInv, TypeOK, AtOK
    <3>2. ASSUME NEW t \in Threads, NEW label, GoTo(t, label) PROVE t = c /\ label = "out"
      BY <3>1, <3>2 DEF GoTo, AtOK
    <3>3. ASSUME NEW t \in Threads, NEW label, WakeAll(t, label) PROVE t = c /\ label = "out"
      BY <3>1, <3>3 DEF WakeAll, AtOK
    <3>4. \A d \in Callers : ~NotifyOne(d)
      BY <3>1, NotifyOneMoves
    <3>5. \A w \in Workers : ~WorkerStep(w)
      <4> SUFFICES ASSUME NEW w \in Workers, WorkerStep(w) PROVE FALSE
        OBVIOUS
      <4>1. \E label : GoTo(w, label) \/ WakeAll(w, label)
        BY DEF WorkerStep, Waiting, Lock, Block, WorkerTest, Run, Finish, NotifyFinished
      <4> QED
        BY <4>1, <3>1, <3>2, <3>3 DEF Threads
    <3>6. \A d \in Callers : ~Call(d)
      <4> SUFFICES ASSUME NEW d \in Callers, Call(d) PROVE FALSE
        OBVIOUS
      <4>1. /\ \E label : GoTo(d, label)
            /\ at[d] = "out"
        BY DEF Call, Submit, WaitForAll, Stop, Destroy, CanCall
      <4> QED
        BY <4>1, <3>2 DEF Threads
    <3>7. \A t \in Threads : ~WakeSpuriously(t)
      BY <3>2 DEF WakeSpuriously
    <3>8. PICK d \in Callers : CallerStep(d)
      BY <3>5, <3>6, <3>7 DEF Next
    <3>9. \E label : GoTo(d, label) \/ WakeAll(d, label)
      BY <3>4, <3>8
      DEF CallerStep, Waiting, Lock, Block, WaiterTest, NotifyAll, DestroyNotify, Join
    <3>10. d = c
      BY <3>2, <3>3, <3>9 DEF Threads
    <3> QED
      BY <3>2, <3>4, <3>8, <3>10
      DEF CallerStep, Waiting, Lock, Block, NotifyAll, DestroyNotify, Join, Threads
  <2>2. tasks = <<>> /\ active = 0
    BY <2>1 DEF WaiterTest, GoTo, AtOK, IInv, TypeOK, Threads
  <2>3. Queued = {}
    BY <2>2 DEF Queued
  <2>4. Running = {}
    <3>1. IsFiniteSet(Busy)
      BY FS_Subset, ThreadsAssumption DEF Busy
    <3>2. Busy = {}
      BY <1>1, <2>2, <3>1, FS_EmptySet DEF IInv, CountsBusy
    <3> QED
      BY <3>2 DEF Busy, Running
  <2>5. accepted = done
    BY <1>1, <2>3, <2>4 DEF IInv, TaskInOnePlace, Running
  <2> QED
    BY <1>1, <2>5 DEF IInv, DueAccepted
<1> QED
  BY <1>1, Invariance, PTL DEF Spec, WaitMeansDone

-----------------------------------------------------------------------------
(* The refinement.  Pool!Next steps are those of submit, of a worker that  *)
(* takes or has run a task, of stop and of the join; the rest stutters.    *)

Gone == \E c \in Callers : at[c] = "destroyed"
Started == {task[w] : w \in Running}

\* Moving threads between the labels QuietMove leaves is nothing to TaskPool.
LEMMA QuietStutters ==
  ASSUME QuietMove, UNCHANGED <<tasks, task, done>>
  PROVE  Started' = Started /\ Gone' = Gone
<1>1. Running' = Running
  BY DEF QuietMove, Running, Threads
<1>2. \A c \in Callers : at'[c] = "destroyed" <=> at[c] = "destroyed"
  BY DEF QuietMove, Threads
<1> QED
  BY <1>1, <1>2 DEF Started, Gone

\* One thread moves, to and from labels other than "run" and "destroyed".
LEMMA MoveStutters ==
  ASSUME NEW t \in Threads, \A s \in Threads \ {t} : at'[s] = at[s],
         {at[t], at'[t]} \cap {"run", "destroyed"} = {},
         \A w \in Running : task'[w] = task[w]
  PROVE  Started' = Started /\ Gone' = Gone
<1>1. Running' = Running
  BY DEF Running, Threads
<1>2. \A c \in Callers : at'[c] = "destroyed" <=> at[c] = "destroyed"
  BY DEF Threads
<1> QED
  BY <1>1, <1>2 DEF Started, Gone

\* A pool that has just been built is an empty TaskPool.
LEMMA RefinesInit == Init => Pool!Init
<1> SUFFICES ASSUME Init PROVE Pool!Init
  OBVIOUS
<1>1. Started = {} /\ ~Gone
  BY ThreadsAssumption DEF Init, Started, Running, Gone, Threads
<1> QED
  BY <1>1 DEF Init, Pool!Init, Started, Running, Gone

\* submit accepts a task: one no queue, worker or history holds.
LEMMA RefinesAccept ==
  ASSUME IInv, NEW c \in Callers, NEW t \in Tasks, Submit(c, t)
  PROVE  Pool!Accept(t)
<1>1. AtOK /\ c \in Threads /\ at[c] = "out" /\ GoTo(c, "notify_one") /\ UNCHANGED task
  BY DEF IInv, TypeOK, AtOK, Threads, Submit, CanCall
<1>2. at'[c] = "notify_one" /\ \A s \in Threads \ {c} : at'[s] = at[s]
  BY <1>1, GoToMoves, ThreadsAssumption DEF CallerLabels
<1>3. Started' = Started /\ Gone' = Gone
  BY <1>1, <1>2, MoveStutters
<1>4. t \notin Queued \cup Started \cup done
  BY DEF IInv, TaskInOnePlace, Started, Running, Submit
<1> QED
  BY <1>3, <1>4
  DEF Submit, Pool!Accept, Pool!Known, Started, Running, Gone, Queued

\* A worker takes the head of the queue; a destroyed pool has no worker left.
LEMMA RefinesStart ==
  ASSUME IInv, NEW w \in Workers, WorkerTest(w), tasks # <<>>
  PROVE  Pool!Start
<1>1. /\ AtOK /\ w \in Threads /\ w \notin Callers /\ at[w] = "test" /\ GoTo(w, "run")
      /\ task' = [task EXCEPT ![w] = Head(tasks)] /\ task \in [Workers -> Tasks \cup {NoTask}]
      /\ tasks' = Tail(tasks) /\ UNCHANGED <<done, stop>>
  BY ThreadsAssumption DEF IInv, TypeOK, AtOK, Threads, WorkerTest, historyVars
<1>2. at'[w] = "run" /\ \A s \in Threads \ {w} : at'[s] = at[s]
  BY <1>1, GoToMoves DEF WorkerLabels
<1>3. Running' = Running \cup {w} /\ w \notin Running
  BY <1>1, <1>2 DEF Running, Threads
<1>4. task'[w] = Head(tasks) /\ \A v \in Running : task'[v] = task[v]
  BY <1>1, <1>3 DEF Running
<1>5. Started' = Started \cup {Head(tasks)}
  BY <1>3, <1>4 DEF Started
<1>6. ~Gone /\ ~Gone'
  BY <1>1, <1>2 DEF IInv, DestroyedExited, Gone, Threads
<1> QED
  BY <1>1, <1>5, <1>6 DEF Pool!Start, Started, Running, Gone

\* A worker has run its task, which no other worker runs.
LEMMA RefinesComplete ==
  ASSUME IInv, NEW w \in Workers, Run(w)
  PROVE  \E x \in Tasks : Pool!Complete(x)
<1>1. /\ AtOK /\ w \in Threads /\ w \notin Callers /\ at[w] = "run" /\ GoTo(w, "finish")
      /\ done' = done \cup {task[w]} /\ UNCHANGED <<tasks, stop, task>>
  BY ThreadsAssumption DEF IInv, TypeOK, AtOK, Threads, Run, poolVars
<1>2. at'[w] = "finish" /\ \A s \in Threads \ {w} : at'[s] = at[s]
  BY <1>1, GoToMoves DEF WorkerLabels
<1>3. w \in Running /\ Running' = Running \ {w} /\ Gone' = Gone
  BY <1>1, <1>2 DEF Running, Threads, Gone
<1>4. \A v \in Running : task[v] = task[w] => v = w
  BY <1>3 DEF IInv, TaskInOnePlace, Running
<1>5. task[w] \in Started /\ Started' = Started \ {task[w]}
  BY <1>1, <1>3, <1>4 DEF Started
<1>6. PICK x \in Tasks : x = task[w]
  BY <1>3 DEF IInv, RunningHasTask
<1>7. Pool!Complete(x)
  BY <1>1, <1>3, <1>5, <1>6 DEF Pool!Complete, Started, Running, Gone
<1> QED
  BY <1>7

\* The destructor has joined every worker: nothing is queued, nothing runs.
LEMMA RefinesRetire ==
  ASSUME IInv, NEW c \in Callers, Join(c)
  PROVE  Pool!Retire
<1>1. /\ AtOK /\ c \in Threads /\ c \notin Workers /\ GoTo(c, "destroyed")
      /\ UNCHANGED <<tasks, stop, task, done>> /\ \A w \in Workers : at[w] = "exit"
  BY ThreadsAssumption DEF IInv, TypeOK, AtOK, Threads, Join, poolVars, historyVars
<1>2. at'[c] = "destroyed" /\ \A s \in Threads \ {c} : at'[s] = at[s]
  BY <1>1, GoToMoves DEF CallerLabels, DestroyLabels
<1>3. stop /\ tasks = <<>>
  BY <1>1, ThreadsAssumption DEF IInv, ExitedDrained
<1>4. Started = {} /\ Started' = {} /\ Gone'
  BY <1>1, <1>2 DEF Started, Running, Gone, Threads
<1> QED
  BY <1>1, <1>3, <1>4 DEF Pool!Retire, Started, Running, Gone

\* Every step of the pool is a step of the abstract pool of tasks, or leaves it alone.
LEMMA RefinesNext == IInv /\ [Next]_vars => [Pool!Next]_(Pool!vars)
<1> SUFFICES ASSUME IInv, [Next]_vars PROVE Pool!Next \/ UNCHANGED Pool!vars
  OBVIOUS
<1>1. ASSUME UNCHANGED <<tasks, done, stop>>, Started' = Started, Gone' = Gone
      PROVE  UNCHANGED Pool!vars
  BY <1>1 DEF Pool!vars, Started, Running, Gone
<1>2. ASSUME NEW t \in Threads, \/ t \in Workers /\ WorkerStep(t)
                                \/ WakeSpuriously(t)
      PROVE  Pool!Next \/ UNCHANGED Pool!vars
  <2>1. CASE Lock(t) \/ Block(t) \/ WakeSpuriously(t)
    BY <1>1, <2>1, LockStep, QuietStutters DEF poolVars
  <2>2. CASE t \in Workers /\ NotifyFinished(t)
    BY <1>1, <2>2, NotifyStep, QuietStutters DEF poolVars
  <2>3. CASE t \in Workers /\ WorkerTest(t) /\ tasks # <<>>
    BY <2>3, RefinesStart DEF Pool!Next
  <2>4. CASE t \in Workers /\ WorkerTest(t) /\ tasks = <<>>
    <3>1. /\ AtOK /\ at[t] = "test" /\ UNCHANGED <<tasks, done, stop, task>>
          /\ \E label \in {"exit", "block"} : GoTo(t, label)
      BY <2>4 DEF IInv, TypeOK, AtOK, WorkerTest, historyVars
    <3>2. at'[t] \in {"exit", "block"} /\ \A s \in Threads \ {t} : at'[s] = at[s]
      BY <2>4, <3>1, GoToMoves, ThreadsAssumption DEF WorkerLabels, WaitLabels
    <3> QED
      BY <1>1, <3>1, <3>2, MoveStutters
  <2>5. CASE t \in Workers /\ Run(t)
    BY <2>5, RefinesComplete DEF Pool!Next
  <2>6. CASE t \in Workers /\ Finish(t)
    <3>1. /\ AtOK /\ at[t] = "finish" /\ GoTo(t, "notify")
          /\ UNCHANGED <<tasks, done, stop>>
          /\ task' = [task EXCEPT ![t] = NoTask] /\ task \in [Workers -> Tasks \cup {NoTask}]
      BY <2>6 DEF IInv, TypeOK, AtOK, Finish, historyVars
    <3>2. at'[t] = "notify" /\ \A s \in Threads \ {t} : at'[s] = at[s]
      BY <2>6, <3>1, GoToMoves, ThreadsAssumption DEF WorkerLabels
    <3>3. \A w \in Running : task'[w] = task[w]
      BY <3>1 DEF Running
    <3> QED
      BY <1>1, <3>1, <3>2, <3>3, MoveStutters
  <2> QED
    BY <1>2, <2>1, <2>2, <2>3, <2>4, <2>5, <2>6 DEF WorkerStep, Waiting
<1>3. ASSUME NEW c \in Callers, CallerStep(c) \/ Call(c)
      PROVE  Pool!Next \/ UNCHANGED Pool!vars
  <2>1. CASE Lock(c) \/ Block(c)
    BY <1>1, <2>1, LockStep, QuietStutters DEF poolVars, Threads
  <2>2. CASE NotifyOne(c) \/ NotifyAll(c) \/ DestroyNotify(c)
    BY <1>1, <2>2, NotifyStep, QuietStutters DEF poolVars, Threads
  <2>3. CASE WaitForAll(c) \/ WaiterTest(c)
    <3>1. UNCHANGED stop
      BY <2>3 DEF WaitForAll, WaiterTest, poolVars
    <3> QED
      BY <1>1, <2>3, <3>1, CallStep, QuietStutters
  <2>4. CASE Stop(c) \/ Destroy(c)
    <3>1. stop' = TRUE /\ UNCHANGED <<tasks, done>> /\ Started' = Started /\ Gone' = Gone
      BY <2>4, CallStep, QuietStutters DEF Stop, Destroy
    <3>2. Pool!Close
      BY <3>1 DEF Pool!Close, Started, Running, Gone
    <3> QED
      BY <3>2 DEF Pool!Next
  <2>5. CASE Join(c)
    BY <2>5, RefinesRetire DEF Pool!Next
  <2>6. CASE \E t \in Tasks : Submit(c, t)
    BY <2>6, RefinesAccept DEF Pool!Next
  <2> QED
    BY <1>3, <2>1, <2>2, <2>3, <2>4, <2>5, <2>6 DEF CallerStep, Waiting, Call
<1>4. CASE UNCHANGED vars
  <2>1. UNCHANGED <<tasks, done, stop, at, task>>
    BY <1>4 DEF vars, poolVars, historyVars
  <2> QED
    BY <1>1, <2>1 DEF Started, Running, Gone
<1> QED
  BY <1>2, <1>3, <1>4 DEF Next, Threads

\* submit, the workers, stop and the destructor implement TaskPool for any
\* number of threads and tasks: tasks start in the order of submission, each
\* once, none after the pool is gone, and the pool is gone only when empty.
THEOREM Implements == Spec => ImplementsTaskPool
<1> QED
  BY Invariance, RefinesInit, RefinesNext, PTL DEF Spec, ImplementsTaskPool, Pool!Spec
=============================================================================

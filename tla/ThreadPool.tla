----------------------------- MODULE ThreadPool ------------------------------
(***************************************************************************)
(* utils/thread_pool: worker threads, callers of submit, waitForAll, stop  *)
(* and the destructor, one mutex and one condition variable that workers   *)
(* and waiters share.                                                      *)
(*                                                                         *)
(* condition_.wait(lock, predicate) is three steps: with the mutex held    *)
(* the predicate is tested; if it is false the thread, still holding the   *)
(* mutex, goes to sleep, which releases it; a notification, or nothing at  *)
(* all (a spurious wakeup), makes it ask for the mutex again.  A           *)
(* notification reaches only the threads asleep at that moment.            *)
(***************************************************************************)
EXTENDS Naturals, Sequences, FiniteSets

CONSTANTS Workers, Callers,
          Tasks,          \* bound: the tasks there are; each is submitted once
          NoTask,
          MaxCalls,       \* bound: calls of waitForAll and stop
          MaxSpurious     \* bound: spurious wakeups

ASSUME ThreadsAssumption ==
  IsFiniteSet(Workers) /\ Workers # {} /\ Workers \cap Callers = {}
ASSUME NoTaskAssumption == NoTask \notin Tasks
ASSUME BoundsAssumption == MaxCalls \in Nat /\ MaxSpurious \in Nat

VARIABLES
  tasks,      \* tasks_
  active,     \* active_tasks_
  stop,       \* stop_
  at,         \* where each thread stands
  task,       \* the local `task` of each worker
  accepted,   \* history: tasks that were submitted
  done,       \* history: tasks that have run
  due,        \* history: what was accepted when a caller's waitForAll began
  calls,      \* number of calls of waitForAll and stop so far
  spurious    \* number of spurious wakeups so far

poolVars == <<tasks, active, stop>>
historyVars == <<accepted, done, due>>
boundVars == <<calls, spurious>>
vars == <<poolVars, at, task, historyVars, boundVars>>

Threads == Workers \cup Callers
WaitLabels == {"want", "test", "block", "sleep"}
DestroyLabels == {"destroy_notify", "join", "destroyed"}
WorkerLabels == WaitLabels \cup {"run", "finish", "notify", "exit"}
CallerLabels == WaitLabels \cup DestroyLabels \cup {"out", "notify_one", "notify_all"}

Init ==
  /\ tasks = <<>> /\ active = 0 /\ stop = FALSE
  /\ at = [t \in Threads |-> IF t \in Workers THEN "want" ELSE "out"]
  /\ task = [w \in Workers |-> NoTask]
  /\ accepted = {} /\ done = {}
  /\ due = [c \in Callers |-> {}]
  /\ calls = 0 /\ spurious = 0

\* queue_mutex_ is held across steps only by a thread inside a wait.
MutexFree == \A t \in Threads : at[t] \notin {"test", "block"}
Sleeping == {t \in Threads : at[t] = "sleep"}

GoTo(t, label) == at' = [at EXCEPT ![t] = label]

\* notify_all, after which the notifying thread is at label.
WakeAll(t, label) ==
  at' = [s \in Threads |-> IF s = t THEN label
                           ELSE IF at[s] = "sleep" THEN "want" ELSE at[s]]

-----------------------------------------------------------------------------
(* Waiting on the condition variable. *)

Lock(t) ==
  /\ at[t] = "want" /\ MutexFree
  /\ GoTo(t, "test")
  /\ UNCHANGED <<poolVars, task, historyVars, boundVars>>

Block(t) ==
  /\ at[t] = "block"
  /\ GoTo(t, "sleep")
  /\ UNCHANGED <<poolVars, task, historyVars, boundVars>>

WakeSpuriously(t) ==
  /\ at[t] = "sleep" /\ spurious < MaxSpurious
  /\ spurious' = spurious + 1
  /\ GoTo(t, "want")
  /\ UNCHANGED <<poolVars, task, historyVars, calls>>

-----------------------------------------------------------------------------
(* Callers. *)

\* Nobody uses a pool that is being destroyed.
CanCall(c) == at[c] = "out" /\ \A d \in Callers : at[d] \notin DestroyLabels

CountCall == calls < MaxCalls /\ calls' = calls + 1

\* Mutant: a new task overtakes those that wait.
SubmitInFront(c, t) ==
  /\ CanCall(c) /\ MutexFree /\ ~stop /\ t \in Tasks \ accepted
  /\ tasks' = <<t>> \o tasks
  /\ accepted' = accepted \cup {t}
  /\ GoTo(c, "notify_one")
  /\ UNCHANGED <<active, stop, task, done, due, boundVars>>

\* submit and enqueue; on a stopped pool they throw and change nothing.
Submit(c, t) ==
  /\ CanCall(c) /\ MutexFree /\ ~stop /\ t \in Tasks \ accepted
  /\ tasks' = Append(tasks, t)
  /\ accepted' = accepted \cup {t}
  /\ GoTo(c, "notify_one")
  /\ UNCHANGED <<active, stop, task, done, due, boundVars>>

\* Mutant: submit() does not notify.
NotifyNobody(c) ==
  /\ at[c] = "notify_one"
  /\ GoTo(c, "out")
  /\ UNCHANGED <<poolVars, task, historyVars, boundVars>>

\* notify_one may pick a caller of waitForAll instead of a worker.
NotifyOne(c) ==
  /\ at[c] = "notify_one"
  /\ IF Sleeping = {} THEN GoTo(c, "out")
     ELSE \E s \in Sleeping : at' = [at EXCEPT ![c] = "out", ![s] = "want"]
  /\ UNCHANGED <<poolVars, task, historyVars, boundVars>>

WaitForAll(c) ==
  /\ CanCall(c) /\ CountCall
  /\ due' = [due EXCEPT ![c] = accepted]
  /\ GoTo(c, "want")
  /\ UNCHANGED <<poolVars, task, accepted, done, spurious>>

\* Mutant: tasks being executed are not waited for.
WaiterTestQueueOnly(c) ==
  /\ at[c] = "test"
  /\ GoTo(c, IF tasks = <<>> \/ stop THEN "out" ELSE "block")
  /\ UNCHANGED <<poolVars, task, historyVars, boundVars>>

\* The predicate of waitForAll; if it holds, the call returns.
WaiterTest(c) ==
  /\ at[c] = "test"
  /\ GoTo(c, IF (tasks = <<>> /\ active = 0) \/ stop THEN "out" ELSE "block")
  /\ UNCHANGED <<poolVars, task, historyVars, boundVars>>

Stop(c) ==
  /\ CanCall(c) /\ CountCall /\ MutexFree
  /\ stop' = TRUE
  /\ GoTo(c, "notify_all")
  /\ UNCHANGED <<tasks, active, task, historyVars, spurious>>

NotifyAll(c) ==
  /\ at[c] = "notify_all"
  /\ WakeAll(c, "out")
  /\ UNCHANGED <<poolVars, task, historyVars, boundVars>>

\* ~ThreadPool: stop(), then the workers are joined.  The owner destroys a
\* pool that nobody else is calling.
Destroy(c) ==
  /\ \A d \in Callers : at[d] = "out"
  /\ MutexFree
  /\ stop' = TRUE
  /\ GoTo(c, "destroy_notify")
  /\ UNCHANGED <<tasks, active, task, historyVars, boundVars>>

\* Mutant: stop() wakes one thread.
DestroyNotifyOne(c) ==
  /\ at[c] = "destroy_notify"
  /\ IF Sleeping = {} THEN GoTo(c, "join")
     ELSE \E s \in Sleeping : at' = [at EXCEPT ![c] = "join", ![s] = "want"]
  /\ UNCHANGED <<poolVars, task, historyVars, boundVars>>

DestroyNotify(c) ==
  /\ at[c] = "destroy_notify"
  /\ WakeAll(c, "join")
  /\ UNCHANGED <<poolVars, task, historyVars, boundVars>>

Join(c) ==
  /\ at[c] = "join" /\ \A w \in Workers : at[w] = "exit"
  /\ GoTo(c, "destroyed")
  /\ UNCHANGED <<poolVars, task, historyVars, boundVars>>

-----------------------------------------------------------------------------
(* Workers. *)

\* Mutant: a stopped worker leaves what is queued.
WorkerTestNoDrain(w) ==
  /\ at[w] = "test"
  /\ IF tasks # <<>> /\ ~stop
       THEN /\ task' = [task EXCEPT ![w] = Head(tasks)] /\ tasks' = Tail(tasks)
            /\ active' = active + 1 /\ GoTo(w, "run")
       ELSE /\ GoTo(w, IF stop THEN "exit" ELSE "block")
            /\ UNCHANGED <<tasks, active, task>>
  /\ UNCHANGED <<stop, historyVars, boundVars>>

\* Mutant: the task is left in the queue while it runs.
WorkerTestNoPop(w) ==
  /\ at[w] = "test"
  /\ IF tasks # <<>>
       THEN /\ task' = [task EXCEPT ![w] = Head(tasks)]
            /\ active' = active + 1 /\ GoTo(w, "run")
            /\ UNCHANGED tasks
       ELSE /\ GoTo(w, IF stop THEN "exit" ELSE "block")
            /\ UNCHANGED <<tasks, active, task>>
  /\ UNCHANGED <<stop, historyVars, boundVars>>

\* The predicate of worker(), and what is done before the mutex is released:
\* a task is taken whether or not the pool was stopped.
WorkerTest(w) ==
  /\ at[w] = "test"
  /\ IF tasks # <<>>
       THEN /\ task' = [task EXCEPT ![w] = Head(tasks)] /\ tasks' = Tail(tasks)
            /\ active' = active + 1 /\ GoTo(w, "run")
       ELSE /\ GoTo(w, IF stop THEN "exit" ELSE "block")
            /\ UNCHANGED <<tasks, active, task>>
  /\ UNCHANGED <<stop, historyVars, boundVars>>

Run(w) ==
  /\ at[w] = "run"
  /\ done' = done \cup {task[w]}
  /\ GoTo(w, "finish")
  /\ UNCHANGED <<poolVars, task, accepted, due, boundVars>>

\* Mutant: the counter is decremented twice.
FinishTwice(w) ==
  /\ at[w] = "finish"
  /\ active' = active - 2 /\ task' = [task EXCEPT ![w] = NoTask]
  /\ GoTo(w, "notify")
  /\ UNCHANGED <<tasks, stop, historyVars, boundVars>>

\* active_tasks_-- and notify_all are done without the mutex.
Finish(w) ==
  /\ at[w] = "finish"
  /\ active' = active - 1 /\ task' = [task EXCEPT ![w] = NoTask]
  /\ GoTo(w, "notify")
  /\ UNCHANGED <<tasks, stop, historyVars, boundVars>>

NotifyFinished(w) ==
  /\ at[w] = "notify"
  /\ WakeAll(w, "want")
  /\ UNCHANGED <<poolVars, task, historyVars, boundVars>>

-----------------------------------------------------------------------------
Waiting(t) == Lock(t) \/ Block(t)

WorkerStep(w) ==
  Waiting(w) \/ WorkerTest(w) \/ Run(w) \/ Finish(w) \/ NotifyFinished(w)

\* What a caller does once it is inside a call.
CallerStep(c) ==
  \/ Waiting(c) \/ WaiterTest(c) \/ NotifyOne(c) \/ NotifyAll(c)
  \/ DestroyNotify(c) \/ Join(c)

Call(c) ==
  (\E t \in Tasks : Submit(c, t)) \/ WaitForAll(c) \/ Stop(c) \/ Destroy(c)

Next ==
  \/ \E w \in Workers : WorkerStep(w)
  \/ \E c \in Callers : CallerStep(c) \/ Call(c)
  \/ \E t \in Threads : WakeSpuriously(t)

\* The operating system schedules every thread; tasks return.
Fairness ==
  /\ \A w \in Workers : WF_vars(WorkerStep(w))
  /\ \A c \in Callers : WF_vars(CallerStep(c))

Spec == Init /\ [][Next]_vars /\ Fairness

-----------------------------------------------------------------------------
Queued == {tasks[i] : i \in DOMAIN tasks}
Busy == {w \in Workers : at[w] \in {"run", "finish"}}

TypeOK ==
  /\ tasks \in Seq(Tasks) /\ active \in Nat /\ stop \in BOOLEAN
  /\ at \in [Threads -> WorkerLabels \cup CallerLabels]
  /\ \A w \in Workers : at[w] \in WorkerLabels
  /\ \A c \in Callers : at[c] \in CallerLabels
  /\ task \in [Workers -> Tasks \cup {NoTask}]
  /\ accepted \in SUBSET Tasks /\ done \in SUBSET Tasks
  /\ due \in [Callers -> SUBSET Tasks]
  /\ calls \in 0..MaxCalls /\ spurious \in 0..MaxSpurious

\* Every submitted task is in exactly one place: once in the queue, with the
\* one worker that is to run it, or run.  So none is lost and none runs twice
\* (worker() pops under the mutex).
TaskInOnePlace ==
  LET Running == {w \in Workers : at[w] = "run"}
  IN  /\ accepted = Queued \cup {task[w] : w \in Running} \cup done
      /\ \A i, j \in DOMAIN tasks : tasks[i] = tasks[j] => i = j
      /\ \A v, w \in Running : task[v] = task[w] => v = w
      /\ \A w \in Running : task[w] \notin Queued \cup done
      /\ Queued \cap done = {}

\* The pool as TaskPool describes it: what is under the mutex is one step
\* there, what the threads do among themselves is none.
Pool == INSTANCE TaskPool WITH
  pending <- tasks,
  running <- {task[w] : w \in {v \in Workers : at[v] = "run"}},
  finished <- done,
  closed <- stop,
  gone <- \E c \in Callers : at[c] = "destroyed"

\* submit, worker and the destructor implement TaskPool, workers and waiters
\* racing for one condition variable included: tasks start in the order of
\* submission, each once, and the destructor returns when all are done.
ImplementsTaskPool == Pool!Spec

\* waitForAll "waits for all queued tasks to complete": when it returns, every
\* task that was submitted before the call has run, or the pool was stopped.
WaitMeansDone ==
  [][\A c \in Callers :
       at[c] = "test" /\ at'[c] = "out" => due[c] \subseteq done \/ stop]_vars

\* "Destructor - waits for all tasks to complete": stopped workers drain the
\* queue before they exit.
DestructorDrains ==
  \A c \in Callers : at[c] = "destroyed" => accepted = done

\* A caller of waitForAll and every worker asleep, and no notification under
\* way: only another call of the pool can wake anyone.
Stranded ==
  /\ \E c \in Callers : at[c] = "sleep"
  /\ \A w \in Workers : at[w] = "sleep"
  /\ \A c \in Callers : at[c] \in {"sleep", "out"}

\* A submitted task runs, or its notify_one was taken by a caller of waitForAll
\* and all are stranded: no worker goes to sleep on a task, and without
\* waitForAll no task is lost.
TasksRunUnlessStranded == \A t \in Tasks : t \in accepted ~> (t \in done \/ Stranded)

\* The destructor returns: no worker sleeps through stop().
DestructorReturns == \A c \in Callers : at[c] = "destroy_notify" ~> at[c] = "destroyed"

\* waitForAll returns: every caller inside it gets out.
WaitForAllReturns == \A c \in Callers : at[c] = "want" ~> at[c] = "out"
=============================================================================

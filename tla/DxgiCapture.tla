----------------------------- MODULE DxgiCapture -----------------------------
(***************************************************************************)
(* capture/dxgi_capture: the calls init, start, stop and uninit, the       *)
(* capture thread they create and the recovery thread that rebuilds the    *)
(* duplication of the desktop after an error.  No mutex protects the DXGI  *)
(* objects; capture_mutex_ only keeps stop and uninit apart.               *)
(*                                                                         *)
(* start() assigns a new jthread to capture_thread_, which first creates   *)
(* the new thread, then stops and joins the old one.  An old thread that   *)
(* gave up but has not yet ended sees running_ set again and goes on for   *)
(* that long, so there can be two capture loops: they have two slots.      *)
(*                                                                         *)
(* The graphics system may fail any call at any time.  The frame callback  *)
(* is set and the callbacks return.                                        *)
(***************************************************************************)
EXTENDS Naturals, FiniteSets

CONSTANTS Callers,
          kMaxConsecutiveFailures,
          MaxCalls        \* bound: calls of init, start, stop and uninit

ASSUME CallersAssumption == IsFiniteSet(Callers)
ASSUME BoundsAssumption == kMaxConsecutiveFailures \in Nat /\ MaxCalls \in Nat

VARIABLES
  resources,         \* duplication_ and texture_copy_: none, duplicated, both
  running,           \* running_
  recovery_running,  \* recovery_running_
  recovery_needed,   \* recovery_needed_
  failures,          \* consecutive_failures_
  loop,              \* where the capture loop of each slot stands
  stop_requested,    \* its stop token
  has_last_frame,    \* its local has_last_frame
  current,           \* the slot capture_thread_ stands for
  recovery,          \* where the recovery thread stands
  at,                \* where each caller stands
  call,              \* the call each caller is in
  calls,             \* number of calls so far
  attempted,         \* history: recovery released the objects since failures was 0
  kept               \* history: stop() ended recovery and left the objects

flagVars == <<running, recovery_running, recovery_needed, failures>>
loopVars == <<loop, stop_requested, has_last_frame>>
callerVars == <<at, call, calls>>
historyVars == <<attempted, kept>>
vars == <<resources, flagVars, loopVars, current, recovery, callerVars, historyVars>>

Slots == {0, 1}
Other(s) == 1 - s
Calls == {"init", "start", "stop", "uninit"}
ResourceStates == {"none", "duplicated", "ready"}
LoopLabels == {"none", "test", "check", "frame", "failed", "count", "trigger", "giveup",
               "captured", "missed", "deliver", "ended"}
RecoveryLabels == {"none", "test", "poll", "cooldown", "release", "rebuild",
                   "texture", "clear", "reset", "ended"}
CallerLabels == {"out", "join_old", "release_old", "duplicate", "texture", "recover",
                 "set", "spawn", "assign", "replace",
                 "lock", "join_loop", "end_recovery", "join_recovery", "release"}

Init ==
  /\ resources = "none"
  /\ running = FALSE /\ recovery_running = FALSE /\ recovery_needed = FALSE
  /\ failures = 0
  /\ loop = [s \in Slots |-> "none"]
  /\ stop_requested = [s \in Slots |-> FALSE]
  /\ has_last_frame = [s \in Slots |-> FALSE]
  /\ current = 0
  /\ recovery = "none"
  /\ at = [c \in Callers |-> "out"]
  /\ call = [c \in Callers |-> "none"]
  /\ calls = 0
  /\ attempted = FALSE /\ kept = FALSE

CallerAt(c, from, to) ==
  /\ at[c] = from /\ at' = [at EXCEPT ![c] = to]
  /\ call' = [call EXCEPT ![c] = IF to = "out" THEN "none" ELSE @]
LoopAt(s, from, to) == loop[s] = from /\ loop' = [loop EXCEPT ![s] = to]
RecoveryAt(from, to) == recovery = from /\ recovery' = to

Alive(s) == loop[s] \notin {"none", "ended"}
\* join() returns, on the loop of a slot or on the recovery thread.
Joined(label) == label \in {"none", "ended"}

\* The loop of slot s is joined: nothing is left of its thread.
JoinSlot(s) ==
  /\ Joined(loop[s])
  /\ loop' = [loop EXCEPT ![s] = "none"]
  /\ stop_requested' = [stop_requested EXCEPT ![s] = FALSE]
  /\ has_last_frame' = [has_last_frame EXCEPT ![s] = FALSE]

\* releaseDxgi(); a loop that is using the objects is left with freed ones, and
\* may see any result.
ReleaseDxgi == resources' = "none"

-----------------------------------------------------------------------------
(* captureLoop(): the capture threads. *)

\* The loop condition.
TestLoop(s) ==
  /\ LoopAt(s, "test", IF stop_requested[s] \/ ~running THEN "ended" ELSE "check")
  /\ UNCHANGED <<resources, flagVars, stop_requested, has_last_frame, current,
                 recovery, callerVars, historyVars>>

\* The null check of captureFrame().
CheckResources(s) ==
  /\ LoopAt(s, "check", IF resources = "ready" THEN "frame" ELSE "missed")
  /\ UNCHANGED <<resources, flagVars, stop_requested, has_last_frame, current,
                 recovery, callerVars, historyVars>>

\* AcquireNextFrame() and the copy: a frame; a timeout or a failed copy; or an
\* error.
CaptureFrame(s) ==
  /\ \E result \in {"captured", "missed", "failed"} : LoopAt(s, "frame", result)
  /\ UNCHANGED <<resources, flagVars, stop_requested, has_last_frame, current,
                 recovery, callerVars, historyVars>>

\* handleError(): the limit, the counter and the request are separate atomics.
HandleError(s) ==
  /\ LoopAt(s, "failed", IF failures >= kMaxConsecutiveFailures THEN "giveup" ELSE "count")
  /\ UNCHANGED <<resources, flagVars, stop_requested, has_last_frame, current,
                 recovery, callerVars, historyVars>>

CountFailure(s) ==
  /\ LoopAt(s, "count", "trigger")
  /\ failures' = failures + 1
  /\ UNCHANGED <<resources, running, recovery_running, recovery_needed, stop_requested,
                 has_last_frame, current, recovery, callerVars, historyVars>>

TriggerRecovery(s) ==
  /\ LoopAt(s, "trigger", "missed")
  /\ recovery_needed' = TRUE
  /\ UNCHANGED <<resources, running, recovery_running, failures, stop_requested,
                 has_last_frame, current, recovery, callerVars, historyVars>>

\* Mutant: the loop ends by itself and leaves running_ set.
GiveUpSilently(s) ==
  /\ LoopAt(s, "giveup", "ended")
  /\ UNCHANGED <<resources, flagVars, stop_requested, has_last_frame, current,
                 recovery, callerVars, historyVars>>

\* The error was fatal: handleError() has reported it, captureFrame() ends the
\* capture.
GiveUp(s) ==
  /\ LoopAt(s, "giveup", "missed")
  /\ running' = FALSE
  /\ UNCHANGED <<resources, recovery_running, recovery_needed, failures, stop_requested,
                 has_last_frame, current, recovery, callerVars, historyVars>>

\* Mutant: a frame takes back one failure instead of all.
ForgiveOneFailure(s) ==
  /\ LoopAt(s, "captured", "deliver")
  /\ failures' = failures - 1 /\ attempted' = FALSE
  /\ UNCHANGED <<resources, running, recovery_running, recovery_needed, stop_requested,
                 has_last_frame, current, recovery, callerVars, kept>>

ResetFailures(s) ==
  /\ LoopAt(s, "captured", "deliver")
  /\ failures' = 0 /\ attempted' = FALSE
  /\ UNCHANGED <<resources, running, recovery_running, recovery_needed, stop_requested,
                 has_last_frame, current, recovery, callerVars, kept>>

\* Without a new frame the last one is sent again, unless recovery is needed.
RepeatLastFrame(s) ==
  /\ LoopAt(s, "missed",
            IF has_last_frame[s] /\ ~recovery_needed THEN "deliver" ELSE "test")
  /\ UNCHANGED <<resources, flagVars, stop_requested, has_last_frame, current,
                 recovery, callerVars, historyVars>>

\* frame_callback_ returns; the frame is kept as the last one.
Delivered(s) ==
  /\ LoopAt(s, "deliver", "test")
  /\ has_last_frame' = [has_last_frame EXCEPT ![s] = TRUE]
  /\ UNCHANGED <<resources, flagVars, stop_requested, current, recovery,
                 callerVars, historyVars>>

-----------------------------------------------------------------------------
(* recoveryLoop(): the recovery thread. *)

TestRecovery ==
  /\ RecoveryAt("test", IF recovery_running THEN "poll" ELSE "ended")
  /\ UNCHANGED <<resources, flagVars, loopVars, current, callerVars, historyVars>>

PollRecovery ==
  /\ RecoveryAt("poll", IF recovery_needed THEN "cooldown" ELSE "test")
  /\ UNCHANGED <<resources, flagVars, loopVars, current, callerVars, historyVars>>

\* The second of waiting is over; recovery is for a capture that is running.
EndCooldown ==
  /\ RecoveryAt("cooldown", IF running THEN "release" ELSE "test")
  /\ recovery_needed' = (recovery_needed /\ running)
  /\ UNCHANGED <<resources, running, recovery_running, failures, loopVars, current,
                 callerVars, historyVars>>

ReleaseForRecovery ==
  /\ RecoveryAt("release", "rebuild")
  /\ ReleaseDxgi
  /\ attempted' = TRUE
  /\ UNCHANGED <<flagVars, loopVars, current, callerVars, kept>>

\* initializeDxgiInternal() up to DuplicateOutput(), then the texture.
RebuildDuplication ==
  /\ \/ RecoveryAt("rebuild", "texture") /\ resources' = "duplicated"
     \/ RecoveryAt("rebuild", "test") /\ UNCHANGED resources
  /\ UNCHANGED <<flagVars, loopVars, current, callerVars, historyVars>>

RebuildTexture ==
  /\ \/ RecoveryAt("texture", "clear") /\ resources' = "ready"
     \/ RecoveryAt("texture", "test") /\ resources' = "none"
  /\ UNCHANGED <<flagVars, loopVars, current, callerVars, historyVars>>

ClearRequest ==
  /\ RecoveryAt("clear", "reset")
  /\ recovery_needed' = FALSE
  /\ UNCHANGED <<resources, running, recovery_running, failures, loopVars, current,
                 callerVars, historyVars>>

ResetAfterRecovery ==
  /\ RecoveryAt("reset", "test")
  /\ failures' = 0 /\ attempted' = FALSE
  /\ UNCHANGED <<resources, running, recovery_running, recovery_needed, loopVars,
                 current, callerVars, kept>>

-----------------------------------------------------------------------------
(* init() and start().  Nothing protects them: as everywhere in the code, no *)
(* other call is made meanwhile, and init() only while running_ is not set.  *)
(* With running_ set start() returns at once.                                *)

BeginCall(c, name, to) ==
  /\ calls < MaxCalls /\ calls' = calls + 1
  /\ at[c] = "out" /\ at' = [at EXCEPT ![c] = to]
  /\ call' = [call EXCEPT ![c] = name]

NoCall == \A c \in Callers : at[c] = "out"

InitCall(c) ==
  /\ NoCall /\ ~running
  /\ BeginCall(c, "init", "join_old")
  /\ recovery_running' = FALSE
  /\ UNCHANGED <<resources, running, recovery_needed, failures, loopVars, current,
                 recovery, historyVars>>

\* Without duplication_ start() calls init().
StartCall(c) ==
  /\ NoCall /\ ~running
  /\ BeginCall(c, "start", IF resources = "none" THEN "join_old" ELSE "set")
  /\ recovery_running' = (recovery_running /\ resources # "none")
  /\ UNCHANGED <<resources, running, recovery_needed, failures, loopVars, current,
                 recovery, historyVars>>

\* Mutant: init() does not wait for the old recovery thread.
LeaveOldRecovery(c) ==
  /\ CallerAt(c, "join_old", "release_old")
  /\ UNCHANGED <<resources, flagVars, loopVars, current, recovery, calls, historyVars>>

JoinOldRecovery(c) ==
  /\ CallerAt(c, "join_old", "release_old")
  /\ Joined(recovery) /\ recovery' = "none"
  /\ UNCHANGED <<resources, flagVars, loopVars, current, calls, historyVars>>

ReleaseOld(c) ==
  /\ CallerAt(c, "release_old", "duplicate")
  /\ ReleaseDxgi
  /\ UNCHANGED <<flagVars, loopVars, current, recovery, calls, attempted, kept>>

Duplicate(c) ==
  /\ \/ CallerAt(c, "duplicate", "texture") /\ resources' = "duplicated"
     \/ CallerAt(c, "duplicate", "out") /\ UNCHANGED resources
  /\ UNCHANGED <<flagVars, loopVars, current, recovery, calls, historyVars>>

CreateTexture(c) ==
  /\ \/ CallerAt(c, "texture", "recover") /\ resources' = "ready"
     \/ CallerAt(c, "texture", "out") /\ resources' = "none"
  /\ UNCHANGED <<flagVars, loopVars, current, recovery, calls, historyVars>>

\* Mutant: init() does not create the recovery thread again.
ForgetRecovery(c) ==
  /\ CallerAt(c, "recover", IF call[c] = "start" THEN "set" ELSE "out")
  /\ kept' = FALSE
  /\ UNCHANGED <<resources, flagVars, loopVars, current, recovery, calls, attempted>>

StartRecovery(c) ==
  /\ CallerAt(c, "recover", IF call[c] = "start" THEN "set" ELSE "out")
  /\ recovery_running' = TRUE /\ recovery' = "test"
  /\ kept' = FALSE
  /\ UNCHANGED <<resources, running, recovery_needed, failures, loopVars, current,
                 calls, attempted>>

SetRunning(c) ==
  /\ CallerAt(c, "set", "spawn")
  /\ running' = TRUE
  /\ UNCHANGED <<resources, recovery_running, recovery_needed, failures, loopVars,
                 current, recovery, calls, historyVars>>

SpawnLoop(c) ==
  /\ CallerAt(c, "spawn", "assign")
  /\ loop' = [loop EXCEPT ![Other(current)] = "test"]
  /\ UNCHANGED <<resources, flagVars, stop_requested, has_last_frame, current,
                 recovery, calls, historyVars>>

\* The assignment stops the old thread ...
AssignLoop(c) ==
  /\ CallerAt(c, "assign", "replace")
  /\ stop_requested' = [stop_requested EXCEPT ![current] = TRUE]
  /\ UNCHANGED <<resources, flagVars, loop, has_last_frame, current, recovery, calls,
                 historyVars>>

\* Mutant: the old thread is detached.
DetachLoop(c) ==
  /\ CallerAt(c, "replace", "out")
  /\ current' = Other(current)
  /\ UNCHANGED <<resources, flagVars, loopVars, recovery, calls, historyVars>>

\* ... and joins it.
ReplaceLoop(c) ==
  /\ CallerAt(c, "replace", "out")
  /\ JoinSlot(current)
  /\ current' = Other(current)
  /\ UNCHANGED <<resources, flagVars, recovery, calls, historyVars>>

-----------------------------------------------------------------------------
(* stop() and uninit(), which the destructor calls too.                      *)

Locked == {"join_loop", "end_recovery", "join_recovery", "release"}
Closing == {"lock"} \cup Locked

CloseCall(c, name) ==
  /\ \A d \in Callers : at[d] \in Closing \cup {"out"}
  /\ BeginCall(c, name, "lock")
  /\ UNCHANGED <<resources, flagVars, loopVars, current, recovery, historyVars>>

\* stop() does nothing when running_ is not set.
EndCapture(c) ==
  /\ \A d \in Callers : at[d] \notin Locked
  /\ CallerAt(c, "lock", IF running \/ call[c] = "uninit" THEN "join_loop" ELSE "out")
  /\ running' = FALSE
  /\ stop_requested' = [stop_requested EXCEPT
                          ![current] = @ \/ running \/ call[c] = "uninit"]
  /\ UNCHANGED <<resources, recovery_running, recovery_needed, failures, loop,
                 has_last_frame, current, recovery, calls, historyVars>>

\* Mutant: the capture thread is not joined.
DoNotJoinLoop(c) ==
  /\ CallerAt(c, "join_loop", "end_recovery")
  /\ UNCHANGED <<resources, flagVars, loopVars, current, recovery, calls, historyVars>>

JoinLoop(c) ==
  /\ CallerAt(c, "join_loop", "end_recovery")
  /\ JoinSlot(current)
  /\ UNCHANGED <<resources, flagVars, current, recovery, calls, historyVars>>

\* Mutant: recovery_running_ stays set.
KeepRecoveryRunning(c) ==
  /\ CallerAt(c, "end_recovery", "join_recovery")
  /\ UNCHANGED <<resources, flagVars, loopVars, current, recovery, calls, historyVars>>

EndRecovery(c) ==
  /\ CallerAt(c, "end_recovery", "join_recovery")
  /\ recovery_running' = FALSE
  /\ UNCHANGED <<resources, running, recovery_needed, failures, loopVars, current,
                 recovery, calls, historyVars>>

\* Mutant: the recovery thread is not joined.
DoNotJoinRecovery(c) ==
  /\ CallerAt(c, "join_recovery", IF call[c] = "stop" THEN "out" ELSE "release")
  /\ kept' = (call[c] = "stop")
  /\ UNCHANGED <<resources, flagVars, loopVars, current, recovery, calls, attempted>>

\* stop() is done and leaves the DXGI objects in place.
JoinRecovery(c) ==
  /\ CallerAt(c, "join_recovery", IF call[c] = "stop" THEN "out" ELSE "release")
  /\ Joined(recovery) /\ recovery' = "none"
  /\ kept' = (call[c] = "stop")
  /\ UNCHANGED <<resources, flagVars, loopVars, current, calls, attempted>>

Release(c) ==
  /\ CallerAt(c, "release", "out")
  /\ ReleaseDxgi
  /\ UNCHANGED <<flagVars, loopVars, current, recovery, calls, attempted, kept>>

-----------------------------------------------------------------------------
LoopStep(s) ==
  \/ TestLoop(s) \/ CheckResources(s) \/ CaptureFrame(s) \/ HandleError(s)
  \/ CountFailure(s) \/ TriggerRecovery(s) \/ GiveUp(s) \/ ResetFailures(s)
  \/ RepeatLastFrame(s) \/ Delivered(s)

RecoveryStep ==
  \/ TestRecovery \/ PollRecovery \/ EndCooldown \/ ReleaseForRecovery
  \/ RebuildDuplication \/ RebuildTexture \/ ClearRequest \/ ResetAfterRecovery

\* What a caller does once it is inside a call.
CallerStep(c) ==
  \/ JoinOldRecovery(c) \/ ReleaseOld(c) \/ Duplicate(c) \/ CreateTexture(c)
  \/ StartRecovery(c) \/ SetRunning(c) \/ SpawnLoop(c) \/ AssignLoop(c) \/ ReplaceLoop(c)
  \/ EndCapture(c) \/ JoinLoop(c) \/ EndRecovery(c) \/ JoinRecovery(c) \/ Release(c)

Call(c) ==
  InitCall(c) \/ StartCall(c) \/ \E name \in {"stop", "uninit"} : CloseCall(c, name)

Next ==
  \/ \E s \in Slots : LoopStep(s)
  \/ RecoveryStep
  \/ \E c \in Callers : CallerStep(c) \/ Call(c)

\* The operating system schedules every thread, and the mutex is fair enough
\* for the finitely many calls that want it.
Fairness ==
  /\ \A s \in Slots : WF_vars(LoopStep(s))
  /\ WF_vars(RecoveryStep)
  /\ \A c \in Callers : WF_vars(CallerStep(c))

Spec == Init /\ [][Next]_vars /\ Fairness

-----------------------------------------------------------------------------
TypeOK ==
  /\ resources \in ResourceStates
  /\ running \in BOOLEAN /\ recovery_running \in BOOLEAN
  /\ recovery_needed \in BOOLEAN /\ failures \in Nat
  /\ loop \in [Slots -> LoopLabels]
  /\ stop_requested \in [Slots -> BOOLEAN] /\ has_last_frame \in [Slots -> BOOLEAN]
  /\ current \in Slots
  /\ recovery \in RecoveryLabels
  /\ at \in [Callers -> CallerLabels] /\ call \in [Callers -> Calls \cup {"none"}]
  /\ calls \in 0..MaxCalls
  /\ attempted \in BOOLEAN /\ kept \in BOOLEAN

\* running_ tells the truth: whenever no call is in progress and it is set, the
\* thread of capture_thread_ is in its loop and nobody has asked it to stop,
\* although a loop can clear the flag while start() replaces that loop.
RunningMeansCapturing ==
  running /\ NoCall => Alive(current) /\ ~stop_requested[current]

\* Two capture loops are alive only while start() replaces the one by the
\* other, and the failures they count between them exceed the limit by one at
\* most: each tests the counter before it adds to it (handleError()).
LoopsOverlapOnlyInStart ==
  /\ (\A s \in Slots : Alive(s)) => \E c \in Callers : at[c] \in {"assign", "replace"}
  /\ failures <= kMaxConsecutiveFailures + 1

\* init() rebuilds the DXGI objects and creates the recovery thread only when
\* the old one is joined: two threads never rebuild at a time, and no joinable
\* std::thread is overwritten, which would terminate the program.
OneRebuilder ==
  (\E c \in Callers : at[c] \in {"release_old", "duplicate", "texture", "recover"})
    => recovery = "none"

\* uninit() never frees the DXGI objects under a thread that captures with them.
UninitReleasesAlone ==
  (\E c \in Callers : at[c] = "release") => \A s \in Slots : ~Alive(s)

\* A capture runs without its recovery thread only on objects that an earlier
\* stop() left: start() finds duplication_ and does not call init().
RecoveryLostOnlyByStop ==
  running /\ NoCall => ~Joined(recovery) \/ kept

\* uninit() leaves no thread and no DXGI object behind, and neither does stop()
\* leave a thread, unless it found the capture not running.
TearDownComplete ==
  [][\A c \in Callers :
       at[c] \in Locked /\ at'[c] = "out" =>
         /\ \A s \in Slots : loop'[s] = "none"
         /\ recovery' = "none"
         /\ call[c] = "uninit" => resources' = "none"]_vars

\* Every call returns: each join is of a thread that was told to end and sees it.
CallsReturn == \A c \in Callers : at[c] # "out" ~> at[c] = "out"

\* "Max recovery attempts exceeded" is reported only when the objects were
\* rebuilt at least once since a frame was captured.
GivesUpAfterAttempt ==
  [][\A s \in Slots : loop[s] = "failed" /\ loop'[s] = "giveup" => attempted]_vars
=============================================================================

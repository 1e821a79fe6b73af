-------------------------- MODULE DxgiCaptureProofs --------------------------
(***************************************************************************)
(* Safety of DxgiCapture for any callers, any retry limit and any number   *)
(* of calls.                                                               *)
(*                                                                         *)
(* Everything follows from who may run when (Alone): init and start have   *)
(* the object to themselves, stop and uninit its mutex.  From that, what   *)
(* each join has established stays so until the call returns               *)
(* (JoinsHold), the slot of the loop that capture_thread_ does not stand   *)
(* for is empty but for the assignment in start (OtherSlotFree), and       *)
(* running_ and the recovery thread agree with the calls made so far       *)
(* (RunningAgrees, RecoveryAgrees).  CountingBound counts the failure that *)
(* each loop is about to add.                                              *)
(***************************************************************************)
EXTENDS DxgiCapture, TLAPS

Rebuilding == {"release_old", "duplicate", "texture", "recover"}
Replacing == {"assign", "replace"}
Owning == {"join_old", "set", "spawn"} \cup Rebuilding \cup Replacing
Unjoined == {"join_old", "join_recovery", "release"} \cup Rebuilding

\* Some caller is at one of the labels.
Somebody(labels) == \E c \in Callers : at[c] \in labels

Alone ==
  \A c, d \in Callers : c # d =>
    /\ at[c] \in Owning => at[d] = "out"
    /\ at[c] \in Locked => at[d] \notin Locked

JoinsHold ==
  \A c \in Callers :
    /\ at[c] \in {"end_recovery", "join_recovery", "release"} => loop[current] = "none"
    /\ at[c] \in Rebuilding \cup {"release"} => recovery = "none"
    /\ at[c] = "duplicate" => resources = "none"

OtherSlotFree ==
  /\ ~stop_requested[Other(current)]
  /\ Somebody(Replacing) \/ loop[Other(current)] = "none"

Capturing(s) == Alive(s) /\ ~stop_requested[s]

RunningAgrees ==
  /\ Somebody(Locked \cup Rebuilding \cup {"join_old", "set"}) => ~running
  /\ running => \/ Somebody({"spawn"})
                \/ Somebody(Replacing) /\ Capturing(Other(current))
                \/ ~Somebody(Replacing) /\ Capturing(current)

Recovering == recovery_running /\ ~Joined(recovery)

RecoveryAgrees ==
  /\ \/ Somebody(Unjoined) \/ kept \/ Recovering
     \/ resources = "none" /\ recovery = "none" /\ ~running
  /\ Somebody({"set", "spawn"} \cup Replacing) => kept \/ Recovering

Counting(s) == IF loop[s] = "count" THEN 1 ELSE 0

CountingBound ==
  /\ failures + Counting(0) + Counting(1) <= kMaxConsecutiveFailures + 1
  /\ \A s \in Slots : loop[s] = "count" => kMaxConsecutiveFailures > 0

IInv ==
  /\ TypeOK /\ Alone /\ JoinsHold /\ OtherSlotFree /\ RunningAgrees
  /\ RecoveryAgrees /\ CountingBound

-----------------------------------------------------------------------------
\* Init() of the object: nothing runs and nobody calls.
LEMMA InitIInv == Init => IInv
<1> SUFFICES ASSUME Init PROVE IInv
  OBVIOUS
<1> USE DEF Init, Slots
<1>1. TypeOK
  <2>1. calls \in 0..MaxCalls
    BY BoundsAssumption
  <2> QED
    BY <2>1 DEF TypeOK, LoopLabels, RecoveryLabels, CallerLabels, Calls, ResourceStates
<1>2. Alone /\ JoinsHold
  BY DEF Alone, JoinsHold, Owning, Rebuilding, Replacing, Locked
<1>3. OtherSlotFree /\ RunningAgrees /\ RecoveryAgrees
  BY DEF OtherSlotFree, RunningAgrees, RecoveryAgrees, Somebody, Other, Locked,
         Rebuilding, Replacing
<1>4. CountingBound
  BY BoundsAssumption DEF CountingBound, Counting
<1> QED
  BY <1>1, <1>2, <1>3, <1>4 DEF IInv

\* Every action keeps the types.
LEMMA TypeStep == TypeOK /\ [Next]_vars => TypeOK'
<1> SUFFICES ASSUME TypeOK, [Next]_vars PROVE TypeOK'
  OBVIOUS
<1> USE DEF TypeOK, LoopLabels, RecoveryLabels, CallerLabels, Calls, ResourceStates,
            flagVars, loopVars, callerVars, historyVars
<1>1. ASSUME NEW s \in Slots, LoopStep(s) PROVE TypeOK'
  <2>1. CASE TestLoop(s)
    BY <2>1 DEF TestLoop, LoopAt
  <2>2. CASE CheckResources(s)
    BY <2>2 DEF CheckResources, LoopAt
  <2>3. CASE CaptureFrame(s)
    BY <2>3 DEF CaptureFrame, LoopAt
  <2>4. CASE HandleError(s)
    BY <2>4 DEF HandleError, LoopAt
  <2>5. CASE CountFailure(s)
    BY <2>5 DEF CountFailure, LoopAt
  <2>6. CASE TriggerRecovery(s)
    BY <2>6 DEF TriggerRecovery, LoopAt
  <2>7. CASE GiveUp(s)
    BY <2>7 DEF GiveUp, LoopAt
  <2>8. CASE ResetFailures(s)
    BY <2>8 DEF ResetFailures, LoopAt
  <2>9. CASE RepeatLastFrame(s)
    BY <2>9 DEF RepeatLastFrame, LoopAt
  <2>10. CASE Delivered(s)
    BY <2>10 DEF Delivered, LoopAt
  <2> QED
    BY <1>1, <2>1, <2>2, <2>3, <2>4, <2>5, <2>6, <2>7, <2>8, <2>9, <2>10 DEF LoopStep
<1>2. ASSUME RecoveryStep PROVE TypeOK'
  <2>1. CASE TestRecovery
    BY <2>1 DEF TestRecovery, RecoveryAt
  <2>2. CASE PollRecovery
    BY <2>2 DEF PollRecovery, RecoveryAt
  <2>3. CASE EndCooldown
    BY <2>3 DEF EndCooldown, RecoveryAt
  <2>4. CASE ReleaseForRecovery
    BY <2>4 DEF ReleaseForRecovery, RecoveryAt, ReleaseDxgi
  <2>5. CASE RebuildDuplication
    BY <2>5 DEF RebuildDuplication, RecoveryAt
  <2>6. CASE RebuildTexture
    BY <2>6 DEF RebuildTexture, RecoveryAt
  <2>7. CASE ClearRequest
    BY <2>7 DEF ClearRequest, RecoveryAt
  <2>8. CASE ResetAfterRecovery
    BY <2>8 DEF ResetAfterRecovery, RecoveryAt
  <2> QED
    BY <1>2, <2>1, <2>2, <2>3, <2>4, <2>5, <2>6, <2>7, <2>8 DEF RecoveryStep
<1>3. ASSUME NEW c \in Callers, CallerStep(c) PROVE TypeOK'
  <2>1. CASE JoinOldRecovery(c)
    BY <2>1 DEF JoinOldRecovery, CallerAt
  <2>2. CASE ReleaseOld(c)
    BY <2>2 DEF ReleaseOld, CallerAt, ReleaseDxgi
  <2>3. CASE Duplicate(c)
    BY <2>3 DEF Duplicate, CallerAt
  <2>4. CASE CreateTexture(c)
    BY <2>4 DEF CreateTexture, CallerAt
  <2>5. CASE StartRecovery(c)
    BY <2>5 DEF StartRecovery, CallerAt
  <2>6. CASE SetRunning(c)
    BY <2>6 DEF SetRunning, CallerAt
  <2>7. CASE SpawnLoop(c)
    BY <2>7 DEF SpawnLoop, CallerAt, Other, Slots
  <2>8. CASE AssignLoop(c)
    BY <2>8 DEF AssignLoop, CallerAt
  <2>9. CASE ReplaceLoop(c)
    BY <2>9 DEF ReplaceLoop, CallerAt, JoinSlot, Other, Slots
  <2>10. CASE EndCapture(c)
    BY <2>10 DEF EndCapture, CallerAt
  <2>11. CASE JoinLoop(c)
    BY <2>11 DEF JoinLoop, CallerAt, JoinSlot
  <2>12. CASE EndRecovery(c)
    BY <2>12 DEF EndRecovery, CallerAt
  <2>13. CASE JoinRecovery(c)
    BY <2>13 DEF JoinRecovery, CallerAt
  <2>14. CASE Release(c)
    BY <2>14 DEF Release, CallerAt, ReleaseDxgi
  <2> QED
    BY <1>3, <2>1, <2>2, <2>3, <2>4, <2>5, <2>6, <2>7, <2>8, <2>9, <2>10,
       <2>11, <2>12, <2>13, <2>14 DEF CallerStep
<1>4. ASSUME NEW c \in Callers, Call(c) PROVE TypeOK'
  <2>1. \E name \in Calls, to \in CallerLabels : BeginCall(c, name, to)
    BY <1>4 DEF Call, InitCall, StartCall, CloseCall
  <2>2. /\ at' \in [Callers -> CallerLabels]
        /\ call' \in [Callers -> Calls \cup {"none"}]
    BY <2>1 DEF BeginCall
  <2>3. calls' \in 0..MaxCalls
    BY <2>1, BoundsAssumption DEF BeginCall
  <2>4. /\ recovery_running' \in BOOLEAN
        /\ UNCHANGED <<resources, running, recovery_needed, failures, loop, stop_requested,
                       has_last_frame, current, recovery, attempted, kept>>
    BY <1>4 DEF Call, InitCall, StartCall, CloseCall
  <2> QED
    BY <2>2, <2>3, <2>4
<1>5. CASE UNCHANGED vars
  BY <1>5 DEF vars
<1> QED
  BY <1>1, <1>2, <1>3, <1>4, <1>5 DEF Next

-----------------------------------------------------------------------------
(* A step of a capture loop. *)

\* All that the invariant needs to know of a step of the loop in slot s: it
\* moves a live loop, which ends only when it was told to.
LoopMove(s, to) ==
  /\ loop' = [loop EXCEPT ![s] = to]
  /\ Alive(s) /\ to # "none"
  /\ to = "ended" => stop_requested[s] \/ ~running
  /\ running' => running
  /\ UNCHANGED <<resources, recovery_running, stop_requested, current, recovery, at, kept>>

\* Every step of captureLoop() is such a move.
LEMMA LoopMoves ==
  ASSUME TypeOK, NEW s \in Slots, LoopStep(s)
  PROVE  \E to \in LoopLabels : LoopMove(s, to)
<1> USE DEF LoopAt, LoopMove, Alive, LoopLabels, flagVars, loopVars, callerVars, historyVars
<1>1. CASE TestLoop(s) \/ CheckResources(s) \/ CaptureFrame(s)
  BY <1>1 DEF TestLoop, CheckResources, CaptureFrame
<1>2. CASE HandleError(s) \/ CountFailure(s) \/ TriggerRecovery(s)
  BY <1>2 DEF HandleError, CountFailure, TriggerRecovery
<1>3. CASE GiveUp(s) \/ ResetFailures(s)
  BY <1>3 DEF GiveUp, ResetFailures
<1>4. CASE RepeatLastFrame(s) \/ Delivered(s)
  BY <1>4 DEF RepeatLastFrame, Delivered
<1> QED
  BY <1>1, <1>2, <1>3, <1>4 DEF LoopStep

\* So it keeps every part of the invariant but the bound of the counter.
LEMMA LoopKeeps ==
  ASSUME IInv, NEW s \in Slots, LoopStep(s)
  PROVE  (Alone /\ JoinsHold /\ OtherSlotFree /\ RunningAgrees /\ RecoveryAgrees)'
<1>1. PICK to \in LoopLabels : LoopMove(s, to)
  BY LoopMoves DEF IInv
<1> USE <1>1 DEF IInv, TypeOK, LoopMove
<1>2. Alone'
  BY DEF Alone
<1>3. JoinsHold'
  BY DEF JoinsHold, Alive
<1>4. OtherSlotFree'
  BY DEF OtherSlotFree, Somebody, Alive, Other, Slots
<1>5. RunningAgrees'
  BY DEF RunningAgrees, Capturing, Somebody, Alive, Other, Slots
<1>6. RecoveryAgrees'
  BY DEF RecoveryAgrees, Recovering, Somebody
<1> QED
  BY <1>2, <1>3, <1>4, <1>5, <1>6

\* The counter never runs past the limit by more than the one failure that
\* the other loop had already decided to count.
LEMMA LoopCounts ==
  ASSUME IInv, NEW s \in Slots, LoopStep(s)
  PROVE  CountingBound'
<1> USE BoundsAssumption DEF IInv, TypeOK, CountingBound, Counting, Slots, LoopAt, flagVars
<1>1. CASE TestLoop(s) \/ CheckResources(s) \/ CaptureFrame(s)
  BY <1>1 DEF TestLoop, CheckResources, CaptureFrame
<1>2. CASE HandleError(s)
  BY <1>2 DEF HandleError
<1>3. CASE CountFailure(s)
  BY <1>3 DEF CountFailure
<1>4. CASE TriggerRecovery(s) \/ GiveUp(s)
  BY <1>4 DEF TriggerRecovery, GiveUp
<1>5. CASE ResetFailures(s)
  BY <1>5 DEF ResetFailures
<1>6. CASE RepeatLastFrame(s) \/ Delivered(s)
  BY <1>6 DEF RepeatLastFrame, Delivered
<1> QED
  BY <1>1, <1>2, <1>3, <1>4, <1>5, <1>6 DEF LoopStep

-----------------------------------------------------------------------------
(* A step of the recovery thread. *)

\* A step of recoveryThread() starts and joins no thread: it only ends itself.
LEMMA RecoveryKeeps ==
  ASSUME IInv, RecoveryStep
  PROVE  (Alone /\ JoinsHold /\ OtherSlotFree /\ RunningAgrees /\ RecoveryAgrees)'
<1>1. /\ ~Joined(recovery) /\ recovery' # "none"
      /\ recovery' = "ended" => ~recovery_running
      /\ UNCHANGED <<running, recovery_running, loop, stop_requested, current, at, kept>>
  BY DEF RecoveryStep, TestRecovery, PollRecovery, EndCooldown, ReleaseForRecovery,
     RebuildDuplication, RebuildTexture, ClearRequest, ResetAfterRecovery, RecoveryAt,
     Joined, flagVars, loopVars, callerVars, historyVars
<1> USE <1>1 DEF IInv
<1>2. Alone'
  BY DEF Alone
<1>3. JoinsHold'
  BY DEF JoinsHold, Rebuilding, Joined
<1>4. OtherSlotFree'
  BY DEF OtherSlotFree, Somebody
<1>5. RunningAgrees'
  BY DEF RunningAgrees, Capturing, Somebody, Alive
<1>6. RecoveryAgrees'
  BY DEF RecoveryAgrees, Recovering, Somebody, Joined
<1> QED
  BY <1>2, <1>3, <1>4, <1>5, <1>6

\* The recovery thread can only reset the counter of failures.
LEMMA RecoveryCounts ==
  ASSUME IInv, RecoveryStep
  PROVE  CountingBound'
<1>1. (failures' = failures \/ failures' = 0) /\ loop' = loop
  BY DEF RecoveryStep, TestRecovery, PollRecovery, EndCooldown, ReleaseForRecovery,
     RebuildDuplication, RebuildTexture, ClearRequest, ResetAfterRecovery,
     flagVars, loopVars
<1> QED
  BY <1>1, BoundsAssumption DEF IInv, TypeOK, CountingBound, Counting, Slots

-----------------------------------------------------------------------------
(* A step of a caller. *)

\* Only the mutex lets a call of stop or uninit go on beside another.
LEMMA CallerAlone ==
  ASSUME IInv, NEW c \in Callers, CallerStep(c)
  PROVE  Alone'
<1> USE DEF IInv, TypeOK, Alone, Owning, Rebuilding, Replacing, Locked, CallerAt
<1>1. CASE \/ JoinOldRecovery(c) \/ ReleaseOld(c) \/ Duplicate(c)
           \/ CreateTexture(c) \/ StartRecovery(c)
  BY <1>1 DEF JoinOldRecovery, ReleaseOld, Duplicate, CreateTexture, StartRecovery
<1>2. CASE SetRunning(c) \/ SpawnLoop(c) \/ AssignLoop(c) \/ ReplaceLoop(c)
  BY <1>2 DEF SetRunning, SpawnLoop, AssignLoop, ReplaceLoop
<1>3. CASE EndCapture(c)
  BY <1>3 DEF EndCapture
<1>4. CASE JoinLoop(c) \/ EndRecovery(c) \/ JoinRecovery(c) \/ Release(c)
  BY <1>4 DEF JoinLoop, EndRecovery, JoinRecovery, Release
<1> QED
  BY <1>1, <1>2, <1>3, <1>4 DEF CallerStep

\* What a join established holds until the call returns: nobody else may act.
LEMMA CallerJoins ==
  ASSUME IInv, NEW c \in Callers, CallerStep(c)
  PROVE  JoinsHold'
<1> USE DEF IInv, TypeOK, Alone, JoinsHold, Owning, Rebuilding, Replacing, Locked,
            CallerAt, flagVars, loopVars
<1>1. CASE JoinOldRecovery(c)
  BY <1>1 DEF JoinOldRecovery
<1>2. CASE ReleaseOld(c)
  BY <1>2 DEF ReleaseOld, ReleaseDxgi
<1>3. CASE Duplicate(c)
  BY <1>3 DEF Duplicate
<1>4. CASE CreateTexture(c)
  BY <1>4 DEF CreateTexture
<1>5. CASE StartRecovery(c)
  BY <1>5 DEF StartRecovery
<1>6. CASE SetRunning(c)
  BY <1>6 DEF SetRunning
<1>7. CASE SpawnLoop(c)
  BY <1>7 DEF SpawnLoop
<1>8. CASE AssignLoop(c)
  BY <1>8 DEF AssignLoop
<1>9. CASE ReplaceLoop(c)
  BY <1>9 DEF ReplaceLoop, JoinSlot
<1>10. CASE EndCapture(c)
  BY <1>10 DEF EndCapture
<1>11. CASE JoinLoop(c)
  BY <1>11 DEF JoinLoop, JoinSlot
<1>12. CASE EndRecovery(c)
  BY <1>12 DEF EndRecovery
<1>13. CASE JoinRecovery(c)
  BY <1>13 DEF JoinRecovery
<1>14. CASE Release(c)
  BY <1>14 DEF Release, ReleaseDxgi
<1> QED
  BY <1>1, <1>2, <1>3, <1>4, <1>5, <1>6, <1>7, <1>8, <1>9, <1>10,
     <1>11, <1>12, <1>13, <1>14 DEF CallerStep

\* The slot beside capture_thread_ is filled by start() and freed by its join.
LEMMA CallerSlots ==
  ASSUME IInv, NEW c \in Callers, CallerStep(c)
  PROVE  OtherSlotFree'
<1> USE DEF IInv, TypeOK, Alone, OtherSlotFree, Somebody, Owning, Replacing, Locked,
            CallerAt, Other, Slots, loopVars
<1>1. CASE JoinOldRecovery(c)
  BY <1>1 DEF JoinOldRecovery
<1>2. CASE ReleaseOld(c)
  BY <1>2 DEF ReleaseOld
<1>3. CASE Duplicate(c)
  BY <1>3 DEF Duplicate
<1>4. CASE CreateTexture(c)
  BY <1>4 DEF CreateTexture
<1>5. CASE StartRecovery(c)
  BY <1>5 DEF StartRecovery
<1>6. CASE SetRunning(c)
  BY <1>6 DEF SetRunning
<1>7. CASE SpawnLoop(c)
  BY <1>7 DEF SpawnLoop
<1>8. CASE AssignLoop(c)
  BY <1>8 DEF AssignLoop
<1>9. CASE ReplaceLoop(c)
  BY <1>9 DEF ReplaceLoop, JoinSlot
<1>10. CASE EndCapture(c)
  BY <1>10 DEF EndCapture
<1>11. CASE JoinLoop(c)
  BY <1>11 DEF JoinLoop, JoinSlot
<1>12. CASE EndRecovery(c)
  BY <1>12 DEF EndRecovery
<1>13. CASE JoinRecovery(c)
  BY <1>13 DEF JoinRecovery
<1>14. CASE Release(c)
  BY <1>14 DEF Release
<1> QED
  BY <1>1, <1>2, <1>3, <1>4, <1>5, <1>6, <1>7, <1>8, <1>9, <1>10,
     <1>11, <1>12, <1>13, <1>14 DEF CallerStep

\* running_ is set before the loop is created and cleared before it is joined.
LEMMA CallerRunning ==
  ASSUME IInv, NEW c \in Callers, CallerStep(c)
  PROVE  RunningAgrees'
<1> USE DEF IInv, TypeOK, Alone, OtherSlotFree, RunningAgrees, Capturing, Somebody, Alive,
            Joined, Other, Slots, Owning, Rebuilding, Replacing, Locked, CallerAt,
            flagVars, loopVars
<1>1. CASE JoinOldRecovery(c)
  BY <1>1 DEF JoinOldRecovery
<1>2. CASE ReleaseOld(c)
  BY <1>2 DEF ReleaseOld
<1>3. CASE Duplicate(c)
  BY <1>3 DEF Duplicate
<1>4. CASE CreateTexture(c)
  BY <1>4 DEF CreateTexture
<1>5. CASE StartRecovery(c)
  BY <1>5 DEF StartRecovery
<1>6. CASE SetRunning(c)
  BY <1>6 DEF SetRunning
<1>7. CASE SpawnLoop(c)
  BY <1>7 DEF SpawnLoop
<1>8. CASE AssignLoop(c)
  BY <1>8 DEF AssignLoop
<1>9. CASE ReplaceLoop(c)
  BY <1>9 DEF ReplaceLoop, JoinSlot
<1>10. CASE EndCapture(c)
  BY <1>10 DEF EndCapture
<1>11. CASE JoinLoop(c)
  BY <1>11 DEF JoinLoop, JoinSlot
<1>12. CASE EndRecovery(c)
  BY <1>12 DEF EndRecovery
<1>13. CASE JoinRecovery(c)
  BY <1>13 DEF JoinRecovery
<1>14. CASE Release(c)
  BY <1>14 DEF Release
<1> QED
  BY <1>1, <1>2, <1>3, <1>4, <1>5, <1>6, <1>7, <1>8, <1>9, <1>10,
     <1>11, <1>12, <1>13, <1>14 DEF CallerStep

\* Whoever ends the recovery thread joins it, and leaves no objects but in stop().
LEMMA CallerRecovery ==
  ASSUME IInv, NEW c \in Callers, CallerStep(c)
  PROVE  RecoveryAgrees'
<1> USE DEF IInv, TypeOK, Alone, JoinsHold, RunningAgrees, RecoveryAgrees, Recovering,
            Somebody, Joined, Owning, Rebuilding, Replacing, Unjoined, Locked, CallerAt,
            flagVars, historyVars
<1>1. CASE JoinOldRecovery(c)
  BY <1>1 DEF JoinOldRecovery
<1>2. CASE ReleaseOld(c)
  BY <1>2 DEF ReleaseOld, ReleaseDxgi
<1>3. CASE Duplicate(c)
  BY <1>3 DEF Duplicate
<1>4. CASE CreateTexture(c)
  BY <1>4 DEF CreateTexture
<1>5. CASE StartRecovery(c)
  BY <1>5 DEF StartRecovery
<1>6. CASE SetRunning(c)
  BY <1>6 DEF SetRunning
<1>7. CASE SpawnLoop(c)
  BY <1>7 DEF SpawnLoop
<1>8. CASE AssignLoop(c)
  BY <1>8 DEF AssignLoop
<1>9. CASE ReplaceLoop(c)
  BY <1>9 DEF ReplaceLoop
<1>10. CASE EndCapture(c)
  BY <1>10 DEF EndCapture
<1>11. CASE JoinLoop(c)
  BY <1>11 DEF JoinLoop
<1>12. CASE EndRecovery(c)
  BY <1>12 DEF EndRecovery
<1>13. CASE JoinRecovery(c)
  BY <1>13 DEF JoinRecovery
<1>14. CASE Release(c)
  BY <1>14 DEF Release, ReleaseDxgi
<1> QED
  BY <1>1, <1>2, <1>3, <1>4, <1>5, <1>6, <1>7, <1>8, <1>9, <1>10,
     <1>11, <1>12, <1>13, <1>14 DEF CallerStep

\* A caller leaves the counter alone, and starts no loop in the midst of a count.
LEMMA CallerCounts ==
  ASSUME IInv, NEW c \in Callers, CallerStep(c) \/ Call(c)
  PROVE  CountingBound'
<1>1. /\ failures' = failures
      /\ \A s \in Slots : loop'[s] = "count" => loop[s] = "count"
  <2>1. CASE JoinLoop(c) \/ ReplaceLoop(c)
    BY <2>1 DEF JoinLoop, ReplaceLoop, JoinSlot, flagVars, IInv, TypeOK, Slots
  <2>2. CASE SpawnLoop(c)
    BY <2>2 DEF SpawnLoop, flagVars, IInv, TypeOK, Slots, Other
  <2>3. CASE JoinOldRecovery(c) \/ ReleaseOld(c) \/ Duplicate(c) \/ CreateTexture(c)
    BY <2>3 DEF JoinOldRecovery, ReleaseOld, Duplicate, CreateTexture, flagVars, loopVars
  <2>4. CASE StartRecovery(c) \/ SetRunning(c) \/ AssignLoop(c) \/ EndCapture(c)
    BY <2>4 DEF StartRecovery, SetRunning, AssignLoop, EndCapture, flagVars, loopVars
  <2>5. CASE EndRecovery(c) \/ JoinRecovery(c) \/ Release(c)
    BY <2>5 DEF EndRecovery, JoinRecovery, Release, flagVars, loopVars
  <2>6. CASE Call(c)
    BY <2>6 DEF Call, InitCall, StartCall, CloseCall, flagVars, loopVars
  <2> QED
    BY <2>1, <2>2, <2>3, <2>4, <2>5, <2>6 DEF CallerStep
<1> QED
  BY <1>1, BoundsAssumption DEF IInv, TypeOK, CountingBound, Counting, Slots

\* A call begins: init and start find nobody else calling, stop and uninit only
\* each other.
LEMMA CallKeeps ==
  ASSUME IInv, NEW c \in Callers, Call(c)
  PROVE  (Alone /\ JoinsHold /\ OtherSlotFree /\ RunningAgrees /\ RecoveryAgrees)'
<1> USE DEF IInv, TypeOK, BeginCall, NoCall, Somebody, Owning, Rebuilding, Replacing,
            Locked, Closing, flagVars, loopVars, historyVars
<1>1. ASSUME InitCall(c) \/ StartCall(c)
      PROVE  (Alone /\ JoinsHold /\ OtherSlotFree /\ RunningAgrees /\ RecoveryAgrees)'
  <2> USE <1>1 DEF InitCall, StartCall
  <2>1. Alone' /\ JoinsHold'
    BY DEF Alone, JoinsHold
  <2>2. OtherSlotFree' /\ RunningAgrees'
    BY DEF OtherSlotFree, RunningAgrees, Capturing, Alive
  <2>3. RecoveryAgrees'
    BY DEF RecoveryAgrees, Recovering, Unjoined
  <2> QED
    BY <2>1, <2>2, <2>3
<1>2. ASSUME NEW name \in {"stop", "uninit"}, CloseCall(c, name)
      PROVE  (Alone /\ JoinsHold /\ OtherSlotFree /\ RunningAgrees /\ RecoveryAgrees)'
  <2> USE <1>2 DEF CloseCall
  <2>1. Alone' /\ JoinsHold'
    BY DEF Alone, JoinsHold
  <2>2. OtherSlotFree' /\ RunningAgrees'
    BY DEF OtherSlotFree, RunningAgrees, Capturing, Alive
  <2>3. RecoveryAgrees'
    BY DEF RecoveryAgrees, Recovering, Unjoined
  <2> QED
    BY <2>1, <2>2, <2>3
<1> QED
  BY <1>1, <1>2 DEF Call

-----------------------------------------------------------------------------
\* The inductive invariant holds in every reachable state.
THEOREM Invariance == Spec => []IInv
<1>1. Init => IInv
  BY InitIInv
<1>2. IInv /\ [Next]_vars => IInv'
  <2> SUFFICES ASSUME IInv, [Next]_vars PROVE IInv'
    OBVIOUS
  <2>1. TypeOK'
    BY TypeStep DEF IInv
  <2>2. ASSUME NEW s \in Slots, LoopStep(s) PROVE IInv'
    BY <2>1, <2>2, LoopKeeps, LoopCounts DEF IInv
  <2>3. CASE RecoveryStep
    BY <2>1, <2>3, RecoveryKeeps, RecoveryCounts DEF IInv
  <2>4. ASSUME NEW c \in Callers, CallerStep(c) PROVE IInv'
    BY <2>1, <2>4, CallerAlone, CallerJoins, CallerSlots, CallerRunning, CallerRecovery,
       CallerCounts DEF IInv
  <2>5. ASSUME NEW c \in Callers, Call(c) PROVE IInv'
    BY <2>1, <2>5, CallKeeps, CallerCounts DEF IInv
  <2>6. CASE UNCHANGED vars
    BY <2>6 DEF vars, flagVars, loopVars, callerVars, historyVars, IInv, TypeOK, Alone,
       JoinsHold, OtherSlotFree, RunningAgrees, RecoveryAgrees, CountingBound, Capturing,
       Recovering, Counting, Somebody, Alive
  <2> QED
    BY <2>2, <2>3, <2>4, <2>5, <2>6 DEF Next
<1> QED
  BY <1>1, <1>2, PTL DEF Spec

\* Every variable of the capture keeps its type.
THEOREM TypeCorrect == Spec => []TypeOK
<1>1. IInv => TypeOK
  BY DEF IInv
<1> QED
  BY <1>1, Invariance, PTL

\* With no call in progress, running_ is set only if the capture thread is in
\* its loop and not asked to stop.
THEOREM RunningMeansCapturingAlways == Spec => []RunningMeansCapturing
<1>1. IInv => RunningMeansCapturing
  BY DEF IInv, RunningAgrees, RunningMeansCapturing, NoCall, Somebody, Replacing, Capturing
<1> QED
  BY <1>1, Invariance, PTL

\* Two capture loops live only inside start(), and count one failure too many
\* at most.
THEOREM LoopsOverlapOnlyInStartAlways == Spec => []LoopsOverlapOnlyInStart
<1>1. ASSUME IInv PROVE LoopsOverlapOnlyInStart
  <2>1. failures <= kMaxConsecutiveFailures + 1
    BY <1>1, BoundsAssumption DEF IInv, TypeOK, CountingBound, Counting
  <2>2. Other(current) \in Slots
    BY <1>1 DEF IInv, TypeOK, Other, Slots
  <2> QED
    BY <1>1, <2>1, <2>2 DEF IInv, LoopsOverlapOnlyInStart, OtherSlotFree, Somebody,
       Replacing, Alive
<1> QED
  BY <1>1, Invariance, PTL

\* init() never rebuilds beside a recovery thread and never overwrites one.
THEOREM OneRebuilderAlways == Spec => []OneRebuilder
<1>1. IInv => OneRebuilder
  BY DEF IInv, JoinsHold, OneRebuilder, Rebuilding
<1> QED
  BY <1>1, Invariance, PTL

\* uninit() frees the DXGI objects only when no capture loop is alive.
THEOREM UninitReleasesAloneAlways == Spec => []UninitReleasesAlone
<1>1. ASSUME IInv PROVE UninitReleasesAlone
  <2> SUFFICES ASSUME NEW c \in Callers, at[c] = "release", NEW s \in Slots
               PROVE  ~Alive(s)
    BY DEF UninitReleasesAlone
  <2>1. ~Somebody(Replacing)
    BY <1>1 DEF IInv, Alone, Somebody, Owning, Replacing
  <2>2. loop[current] = "none" /\ loop[Other(current)] = "none"
    BY <1>1, <2>1 DEF IInv, JoinsHold, OtherSlotFree
  <2> QED
    BY <1>1, <2>2 DEF IInv, TypeOK, Other, Slots, Alive
<1> QED
  BY <1>1, Invariance, PTL

\* A capture lacks its recovery thread only on objects that stop() had left.
THEOREM RecoveryLostOnlyByStopAlways == Spec => []RecoveryLostOnlyByStop
<1>1. IInv => RecoveryLostOnlyByStop
  BY DEF IInv, RecoveryAgrees, RecoveryLostOnlyByStop, Recovering, NoCall, Somebody,
     Unjoined, Rebuilding
<1> QED
  BY <1>1, Invariance, PTL

\* stop() and uninit() return with every thread joined, and uninit() with the
\* DXGI objects released.
THEOREM TearDownCompleteAlways == Spec => TearDownComplete
<1> DEFINE Returns(c) == at[c] \in Locked /\ at'[c] = "out"
           Gone(c) == /\ \A s \in Slots : loop'[s] = "none"
                      /\ recovery' = "none"
                      /\ call[c] = "uninit" => resources' = "none"
<1>1. ASSUME IInv, [Next]_vars
      PROVE  [\A c \in Callers : Returns(c) => Gone(c)]_vars
  <2> SUFFICES ASSUME NEW c \in Callers, Returns(c), Next PROVE Gone(c)
    BY <1>1
  <2> USE <1>1 DEF IInv, TypeOK
  <2>1. at[c] # "out" /\ at'[c] # at[c]
    BY DEF Locked
  <2>2. \A s \in Slots : ~LoopStep(s)
    BY <2>1, LoopMoves DEF LoopMove
  <2>3. ~RecoveryStep
    BY <2>1 DEF RecoveryStep, TestRecovery, PollRecovery, EndCooldown, ReleaseForRecovery,
       RebuildDuplication, RebuildTexture, ClearRequest, ResetAfterRecovery, callerVars
  <2>4. \A d \in Callers : ~Call(d)
    BY <2>1 DEF Call, InitCall, StartCall, CloseCall, BeginCall, Closing, Locked
  <2>5. CallerStep(c)
    <3>1. PICK d \in Callers : CallerStep(d)
      BY <2>2, <2>3, <2>4 DEF Next
    <3>2. \E from, to \in CallerLabels : CallerAt(d, from, to)
      BY <3>1 DEF CallerStep, JoinOldRecovery, ReleaseOld, Duplicate, CreateTexture,
         StartRecovery, SetRunning, SpawnLoop, AssignLoop, ReplaceLoop, EndCapture, JoinLoop,
         EndRecovery, JoinRecovery, Release, CallerLabels
    <3>3. d = c
      BY <2>1, <3>2 DEF CallerAt
    <3> QED
      BY <3>1, <3>3
  <2>6. (JoinRecovery(c) /\ call[c] = "stop") \/ Release(c)
    BY <2>5 DEF CallerStep, JoinOldRecovery, ReleaseOld, Duplicate, CreateTexture,
       StartRecovery, SetRunning, SpawnLoop, AssignLoop, ReplaceLoop, EndCapture, JoinLoop,
       EndRecovery, JoinRecovery, Release, CallerAt, Locked
  <2>7. \A s \in Slots : loop[s] = "none"
    <3>1. at[c] \in {"join_recovery", "release"}
      BY <2>6 DEF JoinRecovery, Release, CallerAt
    <3>2. ~Somebody(Replacing)
      BY <3>1 DEF Alone, Somebody, Owning, Replacing
    <3> QED
      BY <3>1, <3>2 DEF JoinsHold, OtherSlotFree, Other, Slots
  <2>8. CASE JoinRecovery(c) /\ call[c] = "stop"
    BY <2>7, <2>8 DEF JoinRecovery, loopVars
  <2>9. CASE Release(c)
    BY <2>7, <2>9 DEF Release, ReleaseDxgi, loopVars, JoinsHold, CallerAt
  <2> QED
    BY <2>6, <2>8, <2>9
<1> QED
  BY <1>1, Invariance, PTL DEF Spec, TearDownComplete
=============================================================================

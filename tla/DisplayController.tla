-------------------------- MODULE DisplayController --------------------------
(***************************************************************************)
(* core/display_controller with the detector it refreshes from, called by  *)
(* several threads, and the switch callback that starts a renegotiation    *)
(* (SdpRenegotiation) on the peer Host.                                    *)
(*                                                                         *)
(* A display id is a position in the list of the last refresh, so of a     *)
(* list only the length is kept; displays come and go.  Three mutexes:     *)
(* displays_mutex_, callback_mutex_ and session_display_mutex_.  A section *)
(* that takes and releases one mutex and calls nothing is one step; those  *)
(* that call back, or take a second mutex, are several.                    *)
(***************************************************************************)
EXTENDS SdpRenegotiation

CONSTANTS Threads, Sessions, Host,
          MaxDisplays,   \* bound: displays plugged in at once
          MaxCalls,      \* bound: calls of the controller
          MaxChanges     \* bound: changes of what is plugged in

ASSUME HostAssumption == Host \in Peers
ASSUME BoundsAssumption ==
  MaxDisplays \in Nat \ {0} /\ MaxCalls \in Nat /\ MaxChanges \in Nat

VARIABLES
  plugged,        \* environment: how many displays the system enumerates
  displays,       \* displays_: how many were there at the last refresh
  lastCount,      \* DisplayDetector::last_display_count_
  initialized,    \* initialized_
  current,        \* current_display_id_
  sessionDisplay, \* session_display_map_; -1: no entry
  at,             \* where each thread stands
  call,           \* the call it is in, whether it found its new display, and
                  \* (history) whether the list changed since the call began
  told,           \* history: each session's display, as the application knows it
  calls, changes  \* number of calls and changes so far

listVars == <<displays, lastCount, initialized>>
selectionVars == <<current, sessionDisplay>>
boundVars == <<calls, changes>>
threadVars == <<at, call>>
vars == <<sdpVars, plugged, listVars, selectionVars, threadVars, told,
          boundVars>>

NoSession == "none"
ListOps == {"initialize", "close", "refresh", "detect"}
Ids == 0..(MaxDisplays - 1)
NewCall(op, s, id) ==
  [op |-> op, session |-> s, id |-> id, found |-> FALSE, shifted |-> FALSE]
NoCall == NewCall("none", NoSession, -1)
Calls ==
  {NewCall(op, NoSession, -1) : op \in ListOps}
    \cup {NewCall(op, s, id) :
             op \in {"select", "switch"}, s \in {NoSession} \cup Sessions, id \in Ids}
    \cup {NewCall("get", s, -1) : s \in Sessions}
Labels == {"out", "begin", "enter", "old", "new", "store", "notify", "asking",
           "switching", "changed", "read", "hung"}

Init ==
  /\ SdpInit
  /\ plugged \in 0..MaxDisplays
  /\ displays = 0 /\ lastCount = 0 /\ initialized = FALSE
  /\ current = -1 /\ sessionDisplay = [s \in Sessions |-> -1]
  /\ at = [t \in Threads |-> "out"] /\ call = [t \in Threads |-> NoCall]
  /\ told = [s \in Sessions |-> -1]
  /\ calls = 0 /\ changes = 0

-----------------------------------------------------------------------------
(* The mutexes, as predicates on where the threads stand. *)

\* Mutant: switchDisplay keeps the list locked from its lookups on.
DisplaysHeldBySwitch ==
  \A t \in Threads :
    /\ call[t].op = "detect" => at[t] \notin {"notify", "changed", "hung"}
    /\ call[t].op = "switch" => at[t] \notin {"store", "notify", "asking"}

DisplaysFree ==
  \A t \in Threads : call[t].op = "detect" => at[t] \notin {"notify", "changed", "hung"}

CallbackFree ==
  \A t \in Threads : at[t] \notin {"asking", "switching", "changed", "hung"}

\* Mutant: the sessions are unlocked before the callback.
SessionsFreeEarly ==
  \A t \in Threads :
    call[t].session # NoSession => at[t] \notin {"old", "new", "store", "read"}

\* Held from the lookup of the session to the return of the callback.
SessionsFree ==
  \A t \in Threads :
    call[t].session # NoSession =>
      at[t] \notin {"old", "new", "store", "notify", "asking", "switching", "read", "hung"}

GoTo(t, label) ==
  /\ at' = [at EXCEPT ![t] = label]
  /\ call' = IF label = "out" THEN [call EXCEPT ![t] = NoCall] ELSE call

\* getDisplayById finds one; it returns an empty display when there is none.
GetDisplayById(id) == initialized /\ id < displays

\* Mutant: ids are checked against what is plugged in now.
ValidNow(id) == initialized /\ id < plugged

Valid(id) == initialized /\ id < displays

-----------------------------------------------------------------------------
(* The environment, and the beginning of a call. *)

Replug ==
  /\ changes < MaxChanges /\ changes' = changes + 1
  /\ plugged' \in (0..MaxDisplays) \ {plugged}
  /\ UNCHANGED <<sdpVars, listVars, selectionVars, threadVars, told, calls>>

Call(t) ==
  /\ at[t] = "out" /\ calls < MaxCalls /\ calls' = calls + 1
  /\ \E c \in Calls :
       /\ call' = [call EXCEPT ![t] = c]
       /\ at' = [at EXCEPT ![t] = IF c.op = "get" THEN "enter" ELSE "begin"]
  /\ UNCHANGED <<sdpVars, plugged, listVars, selectionVars, told, changes>>

-----------------------------------------------------------------------------
(* The list of displays, under displays_mutex_. *)

ListOnly == UNCHANGED <<sdpVars, plugged, sessionDisplay, told, boundVars>>

Begins(t, op) == at[t] = "begin" /\ call[t].op = op /\ DisplaysFree

\* The list changes, and call t returns.
ListShifts(t) ==
  /\ at' = [at EXCEPT ![t] = "out"]
  /\ call' = [u \in Threads |-> IF u = t \/ at[u] = "out" THEN NoCall
                                ELSE [call[u] EXCEPT !.shifted = TRUE]]

\* DisplayDetector::refresh, then its list converted.
TakeList(t) == displays' = plugged /\ lastCount' = plugged /\ ListShifts(t)

Initialize(t) ==
  /\ Begins(t, "initialize")
  /\ IF initialized THEN UNCHANGED listVars /\ GoTo(t, "out")
     ELSE TakeList(t) /\ initialized' = (plugged > 0)
  /\ UNCHANGED current /\ ListOnly

\* The sessions keep their displays; a select under way may set current again.
Close(t) ==
  /\ Begins(t, "close")
  /\ displays' = 0 /\ initialized' = FALSE /\ current' = -1
  /\ ListShifts(t)
  /\ UNCHANGED lastCount /\ ListOnly

\* Nothing checks the selected ids against the new list.
RefreshDisplayList(t) ==
  /\ Begins(t, "refresh")
  /\ IF initialized THEN TakeList(t)
     ELSE UNCHANGED <<displays, lastCount>> /\ GoTo(t, "out")
  /\ UNCHANGED <<initialized, current>> /\ ListOnly

\* A count of zero passes for the first call, and equal counts for no change.
HasDisplayChanged == lastCount # 0 /\ plugged # lastCount

\* With displays_mutex_ held to the end of the callback.
DetectDisplayChanges(t) ==
  /\ Begins(t, "detect")
  /\ lastCount' = IF initialized THEN plugged ELSE lastCount
  /\ GoTo(t, IF initialized /\ HasDisplayChanged THEN "notify" ELSE "out")
  /\ UNCHANGED <<displays, initialized, current>> /\ ListOnly

NotifyChange(t) ==
  /\ at[t] = "notify" /\ call[t].op = "detect" /\ CallbackFree
  /\ GoTo(t, "changed")
  /\ UNCHANGED <<listVars, current>> /\ ListOnly

\* A callback that asks for the list locks displays_mutex_ again, which may
\* block for ever.
ChangeCallback(t) ==
  /\ at[t] = "changed"
  /\ \E label \in {"out", "hung"} : GoTo(t, label)
  /\ UNCHANGED <<listVars, current>> /\ ListOnly

-----------------------------------------------------------------------------
(* Selecting and switching. *)

SelectionOnly == UNCHANGED <<plugged, listVars, boundVars>>

ValidateDisplayId(t) ==
  /\ at[t] = "begin" /\ call[t].op \in {"select", "switch"} /\ DisplaysFree
  /\ GoTo(t, IF ~Valid(call[t].id) THEN "out"
             ELSE IF call[t].session # NoSession THEN "enter"
             ELSE IF call[t].op = "switch" THEN "old" ELSE "store")
  /\ UNCHANGED <<sdpVars, selectionVars, told>> /\ SelectionOnly

\* session_display_mutex_: selectDisplayForSession is done at once.
EnterSession(t) ==
  LET c == call[t]
  IN  /\ at[t] = "enter" /\ SessionsFree
      /\ IF c.op = "select"
           THEN /\ sessionDisplay' = [sessionDisplay EXCEPT ![c.session] = c.id]
                /\ told' = [told EXCEPT ![c.session] = c.id]
           ELSE UNCHANGED <<sessionDisplay, told>>
      /\ GoTo(t, CASE c.op = "select" -> "out"
                   [] c.op = "switch" ->
                        IF sessionDisplay[c.session] = -1 THEN "new" ELSE "old"
                   [] c.op = "get" ->
                        IF sessionDisplay[c.session] = -1 THEN "out" ELSE "read")
      /\ UNCHANGED <<sdpVars, current>> /\ SelectionOnly

\* getDisplayForSession takes displays_mutex_ inside session_display_mutex_.
GetDisplayForSession(t) ==
  /\ at[t] = "read" /\ DisplaysFree
  /\ GoTo(t, "out")
  /\ UNCHANGED <<sdpVars, selectionVars, told>> /\ SelectionOnly

LookUpOld(t) ==
  /\ at[t] = "old" /\ DisplaysFree
  /\ GoTo(t, "new")
  /\ UNCHANGED <<sdpVars, selectionVars, told>> /\ SelectionOnly

LookUpNew(t) ==
  /\ at[t] = "new" /\ DisplaysFree
  /\ call' = [call EXCEPT ![t].found = GetDisplayById(call[t].id)]
  /\ at' = [at EXCEPT ![t] = "store"]
  /\ UNCHANGED <<sdpVars, selectionVars, told>> /\ SelectionOnly

\* Written after the lookups; current_display_id_ without any mutex.
Store(t) ==
  LET c == call[t]
  IN  /\ at[t] = "store"
      /\ IF c.session = NoSession
           THEN current' = c.id /\ UNCHANGED sessionDisplay
           ELSE /\ sessionDisplay' = [sessionDisplay EXCEPT ![c.session] = c.id]
                /\ UNCHANGED current
      /\ GoTo(t, IF c.op = "select" THEN "out" ELSE "notify")
      /\ UNCHANGED <<sdpVars, told>> /\ SelectionOnly

NotifySwitch(t) ==
  /\ at[t] = "notify" /\ call[t].op = "switch" /\ CallbackFree
  /\ told' = IF call[t].session = NoSession THEN told
             ELSE [told EXCEPT ![call[t].session] = call[t].id]
  /\ \E label \in {"asking", "switching"} : GoTo(t, label)
  /\ UNCHANGED <<sdpVars, selectionVars>> /\ SelectionOnly

\* The switch callback may ask for the list first ...
AskInCallback(t) ==
  /\ at[t] = "asking" /\ DisplaysFree
  /\ GoTo(t, "switching")
  /\ UNCHANGED <<sdpVars, selectionVars, told>> /\ SelectionOnly

\* ... and calls initiateDisplaySwitch, from which it may not return.
SwitchCallback(t) ==
  /\ at[t] = "switching"
  /\ InitiateDisplaySwitch(Host)
  /\ GoTo(t, IF Host \in stuck' THEN "hung" ELSE "out")
  /\ UNCHANGED <<selectionVars, told>> /\ SelectionOnly

-----------------------------------------------------------------------------
(* The renegotiation apart from the callback. *)

ControllerIdle ==
  UNCHANGED <<plugged, listVars, selectionVars, threadVars, told, boundVars>>

ReceiveDescription(p) == Receive(p) /\ ControllerIdle

\* bound: the other peer makes one offer, when the host's is on its way.
ViewerInitiates(p) ==
  /\ p # Host /\ offers[p] = 0 /\ reneg[Host] = "kOfferCreated"
  /\ InitiateDisplaySwitch(p) /\ ControllerIdle

GiveUp(p) == IsRenegotiating(p) /\ Reset(p) /\ ControllerIdle

Step(t) ==
  \/ Initialize(t) \/ Close(t) \/ RefreshDisplayList(t) \/ DetectDisplayChanges(t)
  \/ NotifyChange(t) \/ ChangeCallback(t)
  \/ ValidateDisplayId(t) \/ EnterSession(t) \/ GetDisplayForSession(t)
  \/ LookUpOld(t) \/ LookUpNew(t) \/ Store(t) \/ NotifySwitch(t)
  \/ AskInCallback(t) \/ SwitchCallback(t)

Next ==
  \/ \E t \in Threads : Call(t) \/ Step(t)
  \/ \E p \in Peers : ReceiveDescription(p) \/ ViewerInitiates(p) \/ GiveUp(p)
  \/ Replug

\* Threads are scheduled, and what reaches a peer is handled.
Fairness ==
  /\ \A t \in Threads : WF_vars(Step(t))
  /\ \A p \in Peers : WF_vars(ReceiveDescription(p))

Spec == Init /\ [][Next]_vars /\ Fairness

-----------------------------------------------------------------------------
(* Properties. *)

CallRecords ==
  [op : ListOps \cup {"none", "select", "switch", "get"}, session : {NoSession} \cup Sessions,
   id : Ids \cup {-1}, found : BOOLEAN, shifted : BOOLEAN]

ControllerTypeOK ==
  /\ {plugged, displays, lastCount} \subseteq 0..MaxDisplays /\ initialized \in BOOLEAN
  /\ current \in Ids \cup {-1} /\ sessionDisplay \in [Sessions -> Ids \cup {-1}]
  /\ at \in [Threads -> Labels] /\ call \in [Threads -> CallRecords]
  /\ told \in [Sessions -> Ids \cup {-1}]
  /\ calls \in 0..MaxCalls /\ changes \in 0..MaxChanges

\* The values the members, the threads and their calls may hold.
TypeOK == SdpTypeOK /\ ControllerTypeOK

\* Whenever no thread is inside session_display_mutex_, the display of every
\* session is the one the application last selected for it or was told of by the
\* switch callback: switchDisplayForSession of two threads cannot report their
\* switches in another order than they took effect.
SessionSwitchesInOrder == SessionsFree => \A s \in Sessions : sessionDisplay[s] = told[s]

\* A switch callback is given an empty new display only if the list was refreshed
\* during the call: once its id was validated, a second lookup finds it while the
\* list is left alone (switchDisplay and switchDisplayForSession take
\* displays_mutex_ anew for each).
EmptyOnlyAfterChange ==
  \A t \in Threads :
    (call[t].op = "switch" /\ at[t] \in {"store", "notify", "asking", "switching"}
       /\ ~call[t].found) => call[t].shifted

\* detectDisplayChanges waits for callback_mutex_ with displays_mutex_ held, and
\* a switch callback that asks for the list does the opposite.
Embrace ==
  \E t, u \in Threads : /\ at[t] = "notify" /\ call[t].op = "detect"
                        /\ at[u] = "asking"

\* Every call of the controller returns, whatever the other threads call, unless
\* the callbacks ask the controller and meet as in Embrace, or a mutex locked
\* twice by one thread blocks.
CallsReturn ==
  \A t \in Threads :
    at[t] # "out" ~> (at[t] = "out" \/ Embrace \/ stuck # {} \/ \E u \in Threads : at[u] = "hung")

\* An answer completes the offer it was made for: unless the application gave a
\* negotiation up, a peer is kReady only for its last offer (handleRemoteAnswer
\* looks only at the state, so a late answer passes for the next one's).
ReadyMeansAgreed ==
  \A p \in Peers : reneg[p] = "kReady" => agreed[p] = offers[p] \/ resets > 0

\* A peer does not wait for an answer for ever, unless the other one turned the
\* offer down without a word: offers that cross, offers to a peer that has
\* answered one before (kAnswerCreated is left only by reset), or a failure.
OfferSettles ==
  \A p \in Peers : reneg[p] = "kOfferCreated" ~>
    (reneg[p] # "kOfferCreated" \/ p \in unanswered \/ stuck # {})
=============================================================================

--------------------------- MODULE DisplaySelector ---------------------------
(***************************************************************************)
(* display_selector.js and the display requests of client.js.  Each keeps  *)
(* the current display for itself: the selector the one it shows, the      *)
(* client the one it asked for or was told of.  An await of a function     *)
(* that does not wait lets no message in between, so a handler is one step.*)
(***************************************************************************)
EXTENDS Naturals, Sequences

CONSTANT DisplayIds

VARIABLES
  listed,    \* DisplaySelector.displays
  shown,     \* DisplaySelector.currentDisplayId
  wanted,    \* RemoteDesktopClient.currentDisplayId
  requests,  \* switch requests on their way to the host
  streamed,  \* host: the display it sends
  missed,    \* history: whether a display had to be shown that was not listed
  failed     \* history: whether a switch failed, or a request was lost or, after
             \* news from the host, not sent

selectorVars == <<listed, shown, wanted, requests, streamed, missed, failed>>

NoDisplay == "no display"

SelectorInit ==
  /\ listed = {} /\ shown = NoDisplay /\ wanted = NoDisplay
  /\ requests = <<>> /\ streamed \in DisplayIds
  /\ missed = FALSE /\ failed = FALSE

\* Mutant: a request that could not be sent is not reverted.
HandleDisplaySelectUnreverted(id, sendable) ==
  /\ shown' = id
  /\ wanted' = IF sendable THEN id ELSE wanted
  /\ requests' = IF sendable THEN Append(requests, id) ELSE requests
  /\ UNCHANGED missed

\* _handleDisplaySelect and _handleDisplaySwitch: the display is shown and asked
\* for, without waiting for the answer.  A request that cannot be sent reverts to
\* what the client wants, if that is listed; to show it is to ask for it again,
\* which fails again.
HandleDisplaySelect(id, sendable) ==
  \/ /\ sendable
     /\ shown' = id /\ wanted' = id /\ requests' = Append(requests, id)
     /\ UNCHANGED missed
  \/ /\ ~sendable
     /\ shown' = IF wanted \in listed THEN wanted ELSE id
     /\ missed' = (missed \/ wanted \notin listed)
     /\ UNCHANGED <<wanted, requests>>

\* The user picks an option, or the page calls switchDisplay.
Pick(id, sendable) ==
  /\ id \in listed \ {shown}
  /\ HandleDisplaySelect(id, sendable)
  /\ UNCHANGED <<listed, streamed, failed>>

\* loadDisplayList and _refreshDisplayList: the promised list is an empty one.
ReloadDisplayList ==
  /\ listed' = {}
  /\ UNCHANGED <<shown, wanted, requests, streamed, missed, failed>>

\* The host's list; the selection is looked for in it, and kept in any case.
UpdateDisplayList(ids) ==
  /\ listed' = ids
  /\ UNCHANGED <<shown, wanted, requests, streamed, missed, failed>>

\* The host's current display is shown by selecting it, which asks the host for it.
DisplayInfo(sendable) ==
  LET id == streamed
  IN  /\ wanted' = id
      /\ IF id \in listed \ {shown}
           THEN /\ shown' = id
                /\ requests' = IF sendable THEN Append(requests, id) ELSE requests
                /\ failed' = (failed \/ ~sendable)
                /\ UNCHANGED missed
           ELSE /\ missed' = (missed \/ id # shown)
                /\ UNCHANGED <<shown, requests, failed>>
      /\ UNCHANGED <<listed, streamed>>

SwitchSucceeds ==
  /\ requests # <<>>
  /\ streamed' = Head(requests) /\ requests' = Tail(requests)
  /\ UNCHANGED <<listed, shown, wanted, missed, failed>>

\* The client reverts to what it wants: as a rule the display that failed.
SwitchFails(sendable) ==
  /\ requests # <<>>
  /\ failed' = TRUE
  /\ IF wanted \in listed \ {shown} /\ sendable
       THEN /\ shown' = wanted /\ requests' = Append(Tail(requests), wanted)
       ELSE /\ shown' = IF wanted \in listed THEN wanted ELSE shown
            /\ requests' = Tail(requests)
  /\ UNCHANGED <<listed, wanted, streamed, missed>>

\* The channel ends with what is on its way.
LoseRequests ==
  /\ failed' = (failed \/ requests # <<>>) /\ requests' = <<>>
  /\ UNCHANGED <<listed, shown, wanted, streamed, missed>>

SelectorTypeOK ==
  /\ listed \subseteq DisplayIds /\ {shown, wanted} \subseteq DisplayIds \cup {NoDisplay}
  /\ requests \in Seq(DisplayIds) /\ streamed \in DisplayIds
  /\ {missed, failed} \subseteq BOOLEAN
=============================================================================

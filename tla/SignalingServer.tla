--------------------------- MODULE SignalingServer ---------------------------
(***************************************************************************)
(* The WebSocket signalling server (server/signaling_server.cpp) and the   *)
(* browser's side of its sockets (web/src/webrtc_connection.js).           *)
(*                                                                         *)
(* Threads.  rtc::WebSocketServer runs one accept thread, which calls      *)
(* onClientConnected; each accepted socket runs its own callbacks one at a *)
(* time, so a client names its socket's thread.  at[c] is where the thread *)
(* of c stands.                                                            *)
(*                                                                         *)
(* Mutexes.  Every lock_guard of the code covers a fixed stretch of code,  *)
(* so a mutex is no variable of its own: the threads standing in such a    *)
(* stretch are its holders (CallbackHolders, ClientsHolders), and taking   *)
(* the mutex is guarded by there being none.                               *)
(*                                                                         *)
(* The calls to ISignalingCallback, and the stretch of stop() run by the   *)
(* owner of the server, belong to RemoteDesktopServer, which extends this  *)
(* module.                                                                 *)
(***************************************************************************)
EXTENDS Naturals, Sequences, FiniteSets

CONSTANTS Clients,      \* browser sessions; each dials once, ids are never reused
          NoClient,     \* the empty client id
          MaxMessages   \* bound: messages one browser session sends

ASSUME ClientsAssumption == NoClient \notin Clients
ASSUME MaxMessagesAssumption == MaxMessages \in Nat

VARIABLES
  alive,       \* the SignalingServer object exists
  sigRunning,  \* SignalingServer::running_
  accepting,   \* the listening socket of rtc::WebSocketServer is open
  clients,     \* keys of clients_
  count,       \* client_count_
  acc,         \* where the accept thread stands
  accClient,   \* the connection it is handling
  ws,          \* the socket of each client
  home,        \* what `this` in the callbacks of the socket refers to
  joined,      \* the join message: not sent, sent, or read by the browser
  inbox,       \* messages of the browser, in order, not yet delivered
  sent,        \* number of messages the browser has sent
  at,          \* where the socket's thread stands
  answer,      \* the local `answer` of handleOffer: whose offer it answers
  answered     \* whose offers the answers sent to each client answer

serverVars == <<alive, sigRunning, accepting>>
registryVars == <<clients, count>>
acceptVars == <<acc, accClient>>
socketVars == <<ws, home, joined, inbox, sent>>
threadVars == <<at, answer, answered>>
sigVars == <<serverVars, registryVars, acceptVars, socketVars, threadVars>>

SocketStates == {"away", "calling", "handshake", "open", "closed"}
AcceptLabels == {"accept", "insert", "hook"}

\* Holding callback_mutex_: handleOffer keeps it across onOfferReceived and
\* sendAnswer, handleIceCandidate and onClientDisconnected across the callback.
CallbackLabels == {"offer_call", "offer_answer", "answer", "ice_call", "bye_call"}
SocketLabels == CallbackLabels \cup
  {"idle", "offer", "ice", "bye", "bye_notify", "leave", "gone"}

Messages == [type : {"offer", "ice-candidate"}, client_id : Clients \cup {NoClient}]

SigInit ==
  /\ alive = FALSE /\ sigRunning = FALSE /\ accepting = FALSE
  /\ clients = {} /\ count = 0
  /\ acc = "accept" /\ accClient = NoClient
  /\ ws = [c \in Clients |-> "away"]
  /\ home = [c \in Clients |-> "none"]
  /\ joined = [c \in Clients |-> "no"]
  /\ inbox = [c \in Clients |-> <<>>]
  /\ sent = [c \in Clients |-> 0]
  /\ at = [c \in Clients |-> "idle"]
  /\ answer = [c \in Clients |-> NoClient]
  /\ answered = [c \in Clients |-> {}]

CallbackHolders == {c \in Clients : at[c] \in CallbackLabels}
CallbackFree == CallbackHolders = {}

GoTo(c, label) == at' = [at EXCEPT ![c] = label]

-----------------------------------------------------------------------------
(* The browser and the network. *)

Dial(c) ==
  /\ ws[c] = "away" /\ accepting
  /\ ws' = [ws EXCEPT ![c] = "calling"]
  /\ UNCHANGED <<serverVars, registryVars, acceptVars, home, joined, inbox, sent, threadVars>>

Handshake(c) ==
  /\ ws[c] = "handshake"
  /\ ws' = [ws EXCEPT ![c] = "open"]
  /\ UNCHANGED <<serverVars, registryVars, acceptVars, home, joined, inbox, sent, threadVars>>

\* The join message reaches _handleSignalingMessage, which stores the id.
ReadJoin(c) ==
  /\ ws[c] = "open" /\ joined[c] = "sent"
  /\ joined' = [joined EXCEPT ![c] = "read"]
  /\ UNCHANGED <<serverVars, registryVars, acceptVars, ws, home, inbox, sent, threadVars>>

\* _sendSignalingMessage stamps whatever clientId is at that moment: nothing
\* makes createOffer, or a candidate event, wait for the join message.
BrowserSends(c, type) ==
  /\ ws[c] = "open" /\ sent[c] < MaxMessages
  /\ sent' = [sent EXCEPT ![c] = @ + 1]
  /\ inbox' = [inbox EXCEPT ![c] = Append(@,
       [type |-> type, client_id |-> IF joined[c] = "read" THEN c ELSE NoClient])]
  /\ UNCHANGED <<serverVars, registryVars, acceptVars, ws, home, joined, threadVars>>

\* close() in the browser, or the connection breaking.
Hangup(c) ==
  /\ ws[c] \in {"handshake", "open"}
  /\ ws' = [ws EXCEPT ![c] = "closed"]
  /\ UNCHANGED <<serverVars, registryVars, acceptVars, home, joined, inbox, sent, threadVars>>

-----------------------------------------------------------------------------
(* The accept thread: onClientConnected. *)

Accept(c) ==
  /\ acc = "accept" /\ accepting /\ ws[c] = "calling"
  /\ ws' = [ws EXCEPT ![c] = "handshake"]
  /\ acc' = "insert" /\ accClient' = c
  /\ UNCHANGED <<serverVars, registryVars, home, joined, inbox, sent, threadVars>>

\* Mutant: the connection is forgotten before its callbacks are installed.
InsertClientTooEarly(clientsFree) ==
  /\ acc = "insert" /\ clientsFree
  /\ clients' = clients \cup {accClient}
  /\ count' = Cardinality(clients')
  /\ acc' = "hook" /\ accClient' = NoClient
  /\ UNCHANGED <<serverVars, socketVars, threadVars>>

\* The block under clients_mutex_.
InsertClient(clientsFree) ==
  /\ acc = "insert" /\ clientsFree
  /\ clients' = clients \cup {accClient}
  /\ count' = Cardinality(clients')
  /\ acc' = "hook"
  /\ UNCHANGED <<serverVars, accClient, socketVars, threadVars>>

\* The callbacks are installed; each keeps the socket and `this`.
HookClient ==
  /\ acc = "hook"
  /\ home' = [home EXCEPT ![accClient] = "live"]
  /\ acc' = "accept" /\ accClient' = NoClient
  /\ UNCHANGED <<serverVars, registryVars, ws, joined, inbox, sent, threadVars>>

-----------------------------------------------------------------------------
(* The socket's thread: onOpen, onMessage, onClosed. *)

\* onOpen uses only what it captured by value, so it also runs after the
\* server object is gone.
OnOpen(c) ==
  /\ at[c] = "idle" /\ home[c] # "none" /\ ws[c] = "open" /\ joined[c] = "no"
  /\ joined' = [joined EXCEPT ![c] = "sent"]
  /\ UNCHANGED <<serverVars, registryVars, acceptVars, ws, home, inbox, sent, threadVars>>

\* onClientMessage.  json::value throws on the null id of a browser that has
\* not read its join message; the catch drops the message.  `running_` and the
\* registry are not consulted.
OnMessage(c) ==
  /\ at[c] = "idle" /\ home[c] = "live" /\ ws[c] = "open" /\ joined[c] # "no"
  /\ inbox[c] # <<>>
  /\ inbox' = [inbox EXCEPT ![c] = Tail(@)]
  /\ LET m == Head(inbox[c])
     IN  GoTo(c, IF m.client_id = NoClient THEN "idle"
                 ELSE IF m.type = "offer" THEN "offer" ELSE "ice")
  /\ UNCHANGED <<serverVars, registryVars, acceptVars, ws, home, joined, sent, answer, answered>>

\* handleOffer and handleIceCandidate take callback_mutex_ and call out.
TakeCallback(c) ==
  /\ home[c] = "live" /\ CallbackFree
  /\ \/ at[c] = "offer" /\ GoTo(c, "offer_call")
     \/ at[c] = "ice" /\ GoTo(c, "ice_call")
     \/ at[c] = "bye_notify" /\ GoTo(c, "bye_call")
  /\ UNCHANGED <<serverVars, registryVars, acceptVars, socketVars, answer, answered>>

\* A client that sendAnswer and sendIceCandidate can reach.
Reachable(c) == c \in clients /\ ws[c] = "open"

\* Mutant: an answer for a client that cannot be reached is tried again.
SendAnswerRetries(c, clientsFree) ==
  /\ at[c] = "answer" /\ home[c] = "live" /\ clientsFree
  /\ Reachable(c)
  /\ GoTo(c, "idle")
  /\ answered' = [answered EXCEPT ![c] = @ \cup {answer[c]}]
  /\ answer' = [answer EXCEPT ![c] = NoClient]
  /\ UNCHANGED <<serverVars, registryVars, acceptVars, socketVars>>

\* sendAnswer, at the end of handleOffer; then callback_mutex_ is released.
SendAnswer(c, clientsFree) ==
  /\ at[c] = "answer" /\ home[c] = "live" /\ clientsFree
  /\ GoTo(c, "idle")
  /\ answered' = IF Reachable(c)
                   THEN [answered EXCEPT ![c] = @ \cup {answer[c]}] ELSE answered
  /\ answer' = [answer EXCEPT ![c] = NoClient]
  /\ UNCHANGED <<serverVars, registryVars, acceptVars, socketVars>>

\* The socket has closed: nothing more is delivered from it but onClosed.
OnClosed(c) ==
  /\ at[c] = "idle" /\ home[c] = "live" /\ ws[c] = "closed"
  /\ inbox' = [inbox EXCEPT ![c] = <<>>]
  /\ GoTo(c, "bye")
  /\ UNCHANGED <<serverVars, registryVars, acceptVars, ws, home, joined, sent, answer, answered>>

\* Mutant: the disconnection leaves client_count_ alone.
EraseClientUncounted(c, clientsFree) ==
  /\ at[c] = "bye" /\ home[c] = "live" /\ clientsFree
  /\ clients' = clients \ {c}
  /\ GoTo(c, "bye_notify")
  /\ UNCHANGED <<serverVars, count, acceptVars, socketVars, answer, answered>>

EraseClient(c, clientsFree) ==
  /\ at[c] = "bye" /\ home[c] = "live" /\ clientsFree
  /\ clients' = clients \ {c}
  /\ count' = Cardinality(clients')
  /\ GoTo(c, "bye_notify")
  /\ UNCHANGED <<serverVars, acceptVars, socketVars, answer, answered>>

\* The leave message, which browsers log and ignore.
BroadcastLeave(c, clientsFree) ==
  /\ at[c] = "leave" /\ home[c] = "live" /\ clientsFree
  /\ GoTo(c, "gone")
  /\ UNCHANGED <<serverVars, registryVars, acceptVars, socketVars, answer, answered>>

-----------------------------------------------------------------------------
(* start() and stop(), as the owner of the server runs them. *)

SigStart ==
  /\ sigRunning' = TRUE /\ accepting' = TRUE
  /\ UNCHANGED <<alive, registryVars, acceptVars, socketVars, threadVars>>

\* stop() up to server_->stop(): the registry is emptied, client_count_ is not
\* touched, and the open sockets keep their callbacks.  rtc closes the
\* listening socket first: connections it has not accepted are refused.
SigClear ==
  /\ clients' = {} /\ accepting' = FALSE
  /\ ws' = [c \in Clients |-> IF ws[c] = "calling" THEN "closed" ELSE ws[c]]
  /\ UNCHANGED <<alive, sigRunning, count, acceptVars, home, joined, inbox, sent, threadVars>>

\* make_unique replaces, and reset() destroys, an object that is not running;
\* callbacks that captured it now hold a dangling pointer.
SigReplace(exists) ==
  /\ alive' = exists
  /\ home' = [c \in Clients |-> IF home[c] = "live" THEN "dangling" ELSE home[c]]
  /\ clients' = {} /\ count' = 0
  /\ UNCHANGED <<sigRunning, accepting, acceptVars, ws, joined, inbox, sent, threadVars>>

\* A thread about to run code of a SignalingServer that is gone.
RunsOnDestroyed(c) ==
  /\ home[c] = "dangling"
  /\ \/ at[c] \notin {"idle", "gone"}
     \/ at[c] = "idle" /\ ws[c] = "closed"
     \/ /\ at[c] = "idle" /\ ws[c] = "open" /\ joined[c] # "no"
        /\ inbox[c] # <<>> /\ Head(inbox[c]).client_id # NoClient
=============================================================================

-------------------------- MODULE SdpRenegotiation ---------------------------
(***************************************************************************)
(* transport/sdp_renegotiation: the offer and answer exchange by which a   *)
(* display switch is negotiated, on the peers that use the class.          *)
(*                                                                         *)
(* Every operation holds callback_mutex_ from its first to its last line,  *)
(* so it is one step; but every operation also locks that mutex again, in  *)
(* updateState.  Locking a std::mutex one holds is undefined: the          *)
(* Microsoft library reports it by an exception, others block for ever,    *)
(* and a mutex without checks lets the thread proceed.  An operation may   *)
(* do any of the three.                                                    *)
(***************************************************************************)
EXTENDS Integers, Sequences, FiniteSets

CONSTANTS Peers, MaxResets   \* bound: calls of reset

ASSUME PeersAssumption == IsFiniteSet(Peers) /\ Cardinality(Peers) = 2
ASSUME MaxResetsAssumption == MaxResets \in Nat

VARIABLES
  reneg,      \* state_ of each peer
  stuck,      \* peers whose callback_mutex_ is held by a thread waiting for it
  inbox,      \* descriptions on their way to each peer, in order
  offers,     \* history: how many offers each peer has made
  agreed,     \* history: the offer whose answer each peer has applied
  unanswered, \* history: peers with an offer the other refused or failed on
  resets      \* number of resets so far

sdpVars == <<reneg, stuck, inbox, offers, agreed, unanswered, resets>>

RenegotiationStates ==
  {"kIdle", "kCreatingOffer", "kOfferCreated", "kSettingRemoteAnswer",
   "kCreatingAnswer", "kAnswerCreated", "kSettingRemoteOffer", "kReady"}
Settled == {"kIdle", "kReady"}

Other(p) == CHOOSE q \in Peers : q # p

SdpInit ==
  /\ reneg = [p \in Peers |-> "kIdle"]
  /\ stuck = {}
  /\ inbox = [p \in Peers |-> <<>>]
  /\ offers = [p \in Peers |-> 0] /\ agreed = [p \in Peers |-> 0]
  /\ unanswered = {}
  /\ resets = 0

IsRenegotiating(p) == reneg[p] \notin Settled

Becomes(p, s) == reneg' = [reneg EXCEPT ![p] = s]

\* updateState outside a try: the state is stored, then locking the mutex again
\* throws, or blocks for ever.
UpdateFails(p, s) ==
  /\ Becomes(p, s)
  /\ stuck' \in {stuck, stuck \cup {p}}

Send(p, m) == inbox' = [inbox EXCEPT ![Other(p)] = Append(@, m)]

\* Mutant: a switch during a renegotiation makes another offer.
InitiateAnyway(p) ==
  /\ p \notin stuck
  /\ Becomes(p, "kOfferCreated")
  /\ offers' = [offers EXCEPT ![p] = @ + 1]
  /\ Send(p, [type |-> "offer", n |-> offers[p] + 1])
  /\ UNCHANGED <<stuck, agreed, unanswered, resets>>

\* The offer goes to the other peer from the local description callback.
InitiateDisplaySwitch(p) ==
  /\ p \notin stuck
  /\ \/ /\ IsRenegotiating(p)
        /\ UNCHANGED <<reneg, stuck, inbox, offers>>
     \/ /\ ~IsRenegotiating(p)
        /\ UpdateFails(p, "kCreatingOffer")
        /\ UNCHANGED <<inbox, offers>>
     \/ /\ ~IsRenegotiating(p)
        /\ \/ Becomes(p, "kIdle") /\ UNCHANGED <<inbox, offers>>
           \/ /\ Becomes(p, "kOfferCreated")
              /\ offers' = [offers EXCEPT ![p] = @ + 1]
              /\ Send(p, [type |-> "offer", n |-> offers[p] + 1])
        /\ UNCHANGED stuck
  /\ UNCHANGED <<agreed, unanswered, resets>>

\* Mutant: the answer is kept from the local description callback.
HandleRemoteOfferSilently(p, m) ==
  /\ p \notin stuck /\ ~IsRenegotiating(p)
  /\ Becomes(p, "kAnswerCreated")
  /\ inbox' = [inbox EXCEPT ![p] = Tail(@)]
  /\ UNCHANGED <<stuck, unanswered, offers, agreed, resets>>

\* A renegotiation under way, or a description or an answer that libdatachannel
\* rejects: the offer gets no answer, and nothing tells the other peer.
HandleRemoteOffer(p, m) ==
  /\ p \notin stuck
  /\ \/ /\ unanswered' = unanswered \cup {Other(p)}
        /\ \/ IsRenegotiating(p) /\ UNCHANGED <<reneg, stuck>>
           \/ ~IsRenegotiating(p) /\ UpdateFails(p, "kSettingRemoteOffer")
           \/ ~IsRenegotiating(p) /\ Becomes(p, "kIdle") /\ UNCHANGED stuck
        /\ inbox' = [inbox EXCEPT ![p] = Tail(@)]
     \/ /\ ~IsRenegotiating(p)
        /\ Becomes(p, "kAnswerCreated")
        /\ inbox' = [inbox EXCEPT ![p] = Tail(@),
                       ![Other(p)] = Append(@, [type |-> "answer", n |-> m.n])]
        /\ UNCHANGED <<stuck, unanswered>>
  /\ UNCHANGED <<offers, agreed, resets>>

\* An answer is not matched with the offer it answers.
HandleRemoteAnswer(p, m) ==
  /\ p \notin stuck
  /\ \/ reneg[p] # "kOfferCreated" /\ UNCHANGED <<reneg, stuck, agreed>>
     \/ /\ reneg[p] = "kOfferCreated"
        /\ UpdateFails(p, "kSettingRemoteAnswer") /\ UNCHANGED agreed
     \/ /\ reneg[p] = "kOfferCreated"
        /\ \/ Becomes(p, "kReady") /\ agreed' = [agreed EXCEPT ![p] = m.n]
           \/ Becomes(p, "kIdle") /\ UNCHANGED agreed
        /\ UNCHANGED stuck
  /\ inbox' = [inbox EXCEPT ![p] = Tail(@)]
  /\ UNCHANGED <<offers, unanswered, resets>>

Receive(p) ==
  /\ inbox[p] # <<>>
  /\ LET m == Head(inbox[p])
     IN  \/ m.type = "offer" /\ HandleRemoteOffer(p, m)
         \/ m.type = "answer" /\ HandleRemoteAnswer(p, m)

\* The application gives the negotiation up.
Reset(p) ==
  /\ p \notin stuck /\ resets < MaxResets
  /\ resets' = resets + 1
  /\ UpdateFails(p, "kIdle")
  /\ UNCHANGED <<inbox, offers, agreed, unanswered>>

SdpTypeOK ==
  /\ reneg \in [Peers -> RenegotiationStates]
  /\ stuck \in SUBSET Peers /\ unanswered \in SUBSET Peers
  /\ inbox \in [Peers -> Seq([type : {"offer", "answer"}, n : Nat])]
  /\ offers \in [Peers -> Nat] /\ agreed \in [Peers -> Nat]
  /\ resets \in 0..MaxResets
=============================================================================

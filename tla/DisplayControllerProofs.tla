----------------------- MODULE DisplayControllerProofs -----------------------
(***************************************************************************)
(* Safety of DisplayController and of the renegotiation it starts, for any *)
(* number of threads, sessions, displays and calls.                        *)
(*                                                                         *)
(* SessionSwitchesInOrder needs one thread inside session_display_mutex_   *)
(* (OneInSection): the sessions of which the application has yet to be     *)
(* told (UntoldIsNotified) are then that thread's, whose new display is    *)
(* stored before it is told (StoredBeforeTold).  EmptyOnlyAfterChange      *)
(* needs what the validation of an id leaves true up to the second lookup  *)
(* (ValidOrShifted).  ReadyMeansAgreed needs every exchange to be about    *)
(* the last offer: without reset a peer has at most one description on its *)
(* way, an offer or the answer to it (OneExchange).                        *)
(***************************************************************************)
EXTENDS DisplayController, FiniteSetTheorems, SequenceTheorems, TLAPS

SectionLabels == {"old", "new", "store", "notify", "asking", "switching", "read", "hung"}
InSection(t) == call[t].session # NoSession /\ at[t] \in SectionLabels

OneInSection == \A t, u \in Threads : InSection(t) /\ InSection(u) => t = u

\* Which calls reach which place.
CallFits(t) ==
  LET c == call[t]
  IN  /\ c.op \in ListOps \cup {"none"} => c.session = NoSession
      /\ c.op \in {"select", "switch"} => c.id \in Ids
      /\ c.op = "get" => c.session \in Sessions
      /\ at[t] = "enter" => \/ c.op = "get"
                            \/ c.op \in {"select", "switch"} /\ c.session # NoSession
      /\ at[t] \in {"old", "new", "asking", "switching"} => c.op = "switch"
      /\ at[t] = "store" => c.op = "switch" \/ (c.op = "select" /\ c.session = NoSession)
      /\ at[t] = "notify" => c.op \in {"detect", "switch"}
      /\ at[t] = "changed" => c.op = "detect"
CallsFit == \A t \in Threads : CallFits(t)

Notifying(t) == at[t] = "notify" /\ call[t].op = "switch" /\ call[t].session # NoSession

UntoldIsNotified ==
  \A s \in Sessions : sessionDisplay[s] # told[s] =>
    \E t \in Threads : Notifying(t) /\ call[t].session = s

StoredBeforeTold ==
  \A t \in Threads : Notifying(t) => sessionDisplay[call[t].session] = call[t].id

ValidOrShifted ==
  \A t \in Threads : call[t].op = "switch" /\ at[t] \in {"enter", "old", "new"} =>
    Valid(call[t].id) \/ call[t].shifted

\* Messages of a type: whether there is one, at most one, and with which number.
Has(s, type) == \E i \in DOMAIN s : s[i].type = type
Single(s, type) == \A i, j \in DOMAIN s : s[i].type = type /\ s[j].type = type => i = j
Numbered(s, type, n) == \A i \in DOMAIN s : s[i].type = type => s[i].n = n

\* What is on its way for the offer of p: the offer or its answer, while p waits.
OneExchange(p) ==
  /\ Single(inbox[Other(p)], "offer") /\ Single(inbox[p], "answer")
  /\ ~ (Has(inbox[Other(p)], "offer") /\ Has(inbox[p], "answer"))
  /\ Has(inbox[Other(p)], "offer") \/ Has(inbox[p], "answer") => reneg[p] = "kOfferCreated"
  /\ Numbered(inbox[Other(p)], "offer", offers[p]) /\ Numbered(inbox[p], "answer", offers[p])

OneExchangeEach == resets = 0 => \A p \in Peers : OneExchange(p)

SdpInv == SdpTypeOK /\ OneExchangeEach /\ ReadyMeansAgreed

ControllerInv ==
  /\ ControllerTypeOK /\ CallsFit /\ OneInSection /\ UntoldIsNotified /\ StoredBeforeTold
  /\ ValidOrShifted /\ EmptyOnlyAfterChange

IInv == SdpInv /\ ControllerInv

-----------------------------------------------------------------------------
(* The renegotiation. *)

Messages == [type : {"offer", "answer"}, n : Nat]

\* There are two peers, each the other of the other.
LEMMA OtherPeer ==
  ASSUME NEW p \in Peers
  PROVE  /\ Other(p) \in Peers /\ Other(p) # p /\ Other(Other(p)) = p
         /\ \A q \in Peers : q = p \/ q = Other(p)
<1>1. ASSUME NEW a \in Peers PROVE \E b \in Peers : b # a /\ \A q \in Peers : q = a \/ q = b
  <2>1. IsFiniteSet(Peers \ {a}) /\ Cardinality(Peers \ {a}) = 1
    BY PeersAssumption, FS_RemoveElement
  <2>2. PICK b : Peers \ {a} = {b}
    BY <2>1, FS_Singleton
  <2> QED
    BY <2>2
<1>2. ASSUME NEW a \in Peers
      PROVE  Other(a) \in Peers /\ Other(a) # a /\ \A q \in Peers : q = a \/ q = Other(a)
  BY <1>1 DEF Other
<1> QED
  BY <1>2

\* What sending a message does to those on their way.
LEMMA AppendMessage ==
  ASSUME NEW s \in Seq(Messages), NEW m \in Messages, NEW type, NEW n
  PROVE  /\ Append(s, m) \in Seq(Messages)
         /\ Has(Append(s, m), type) => Has(s, type) \/ m.type = type
         /\ Single(s, type) /\ (m.type = type => ~Has(s, type)) => Single(Append(s, m), type)
         /\ Numbered(s, type, n) /\ (m.type = type => m.n = n) =>
              Numbered(Append(s, m), type, n)
<1> DEFINE t == Append(s, m)
<1>1. /\ Len(s) \in Nat /\ DOMAIN s = 1 .. Len(s) /\ t \in Seq(Messages)
      /\ DOMAIN t = 1 .. Len(s) + 1 /\ t[Len(s) + 1] = m
      /\ \A i \in 1 .. Len(s) : t[i] = s[i]
  BY LenProperties, AppendProperties
<1> HIDE DEF t
<1>2. \A i \in DOMAIN t : (i \in DOMAIN s /\ t[i] = s[i]) \/ (i = Len(s) + 1 /\ t[i] = m)
  BY <1>1
<1>3. Has(t, type) => Has(s, type) \/ m.type = type
  BY <1>2 DEF Has
<1>4. Single(s, type) /\ (m.type = type => ~Has(s, type)) => Single(t, type)
  BY <1>2 DEF Single, Has
<1>5. Numbered(s, type, n) /\ (m.type = type => m.n = n) => Numbered(t, type, n)
  BY <1>2 DEF Numbered
<1> QED
  BY <1>1, <1>3, <1>4, <1>5 DEF t

\* What taking the first one does.
LEMMA TailMessage ==
  ASSUME NEW s \in Seq(Messages), s # <<>>, NEW type, NEW n
  PROVE  /\ Head(s) \in Messages /\ Tail(s) \in Seq(Messages)
         /\ Head(s).type = type => Has(s, type)
         /\ Head(s).type = type /\ Numbered(s, type, n) => Head(s).n = n
         /\ Head(s).type = type /\ Single(s, type) => ~Has(Tail(s), type)
         /\ Has(Tail(s), type) => Has(s, type)
         /\ Single(s, type) => Single(Tail(s), type)
         /\ Numbered(s, type, n) => Numbered(Tail(s), type, n)
<1> DEFINE t == Tail(s)
<1>1. /\ Len(s) \in Nat \ {0} /\ DOMAIN s = 1 .. Len(s) /\ t \in Seq(Messages)
      /\ DOMAIN t = 1 .. Len(s) - 1 /\ Head(s) = s[1] /\ s[1] \in Messages
      /\ \A i \in DOMAIN t : t[i] = s[i + 1]
  BY LenProperties, EmptySeq, HeadTailProperties
<1> HIDE DEF t
<1>2. 1 \in DOMAIN s /\ \A i \in DOMAIN t : i + 1 \in DOMAIN s /\ i + 1 # 1 /\ t[i] = s[i + 1]
  BY <1>1
<1>3. Head(s).type = type => Has(s, type)
  BY <1>1, <1>2 DEF Has
<1>4. Head(s).type = type /\ Numbered(s, type, n) => Head(s).n = n
  BY <1>1, <1>2 DEF Numbered
<1>5. Head(s).type = type /\ Single(s, type) => ~Has(t, type)
  BY <1>1, <1>2 DEF Single, Has
<1>6. Has(t, type) => Has(s, type)
  BY <1>2 DEF Has
<1>7. Single(s, type) => Single(t, type)
  <2> SUFFICES ASSUME Single(s, type), NEW i \in DOMAIN t, NEW j \in DOMAIN t,
                      t[i].type = type, t[j].type = type
               PROVE  i = j
    BY DEF Single
  <2>1. i + 1 = j + 1
    BY <1>2 DEF Single
  <2> QED
    BY <1>1, <2>1
<1>8. Numbered(s, type, n) => Numbered(t, type, n)
  BY <1>2 DEF Numbered
<1> QED
  BY <1>1, <1>3, <1>4, <1>5, <1>6, <1>7, <1>8 DEF t

\* updateState outside a try stores one of the states.
LEMMA UpdateFailsType ==
  ASSUME SdpTypeOK, NEW p \in Peers, NEW state \in RenegotiationStates
  PROVE  /\ Becomes(p, state) => /\ reneg' \in [Peers -> RenegotiationStates]
                                 /\ reneg'[p] = state
                                 /\ \A r \in Peers \ {p} : reneg'[r] = reneg[r]
         /\ UpdateFails(p, state) => Becomes(p, state) /\ stuck' \in SUBSET Peers
BY DEF SdpTypeOK, Becomes, UpdateFails

\* initiateDisplaySwitch: a peer that makes an offer has nothing under way.
LEMMA InitiateSdp ==
  ASSUME SdpInv, NEW p \in Peers, InitiateDisplaySwitch(p)
  PROVE  SdpInv'
<1> DEFINE q == Other(p)
           m == [type |-> "offer", n |-> offers[p] + 1]
<1>1. /\ q \in Peers /\ q # p /\ Other(q) = p /\ \A r \in Peers : r = p \/ r = q
      /\ SdpTypeOK /\ UNCHANGED <<agreed, unanswered, resets>>
  BY OtherPeer DEF SdpInv, InitiateDisplaySwitch
<1>2. inbox[q] \in Seq(Messages) /\ m \in Messages /\ m.type = "offer" /\ m.n = offers[p] + 1
  BY <1>1 DEF SdpTypeOK, Messages
<1> HIDE DEF q, m
<1>3. CASE UNCHANGED <<reneg, stuck, inbox, offers>>
  BY <1>1, <1>3
  DEF SdpInv, SdpTypeOK, OneExchangeEach, OneExchange, Has, Single, Numbered, ReadyMeansAgreed
<1>4. CASE /\ ~IsRenegotiating(p) /\ UNCHANGED <<inbox, offers>> /\ stuck' \in SUBSET Peers
           /\ \E state \in {"kCreatingOffer", "kIdle"} : Becomes(p, state)
  <2> PICK state \in {"kCreatingOffer", "kIdle"} : Becomes(p, state)
    BY <1>4
  <2>1. /\ reneg' \in [Peers -> RenegotiationStates]
        /\ reneg'[p] = state /\ reneg'[q] = reneg[q] /\ reneg[p] # "kOfferCreated"
    BY <1>1, <1>4, UpdateFailsType DEF RenegotiationStates, IsRenegotiating, Settled
  <2>2. SdpTypeOK'
    BY <1>1, <1>4, <2>1 DEF SdpTypeOK
  <2>3. ASSUME resets = 0 PROVE OneExchange(p)' /\ OneExchange(q)'
    BY <1>1, <1>4, <2>1, <2>3 DEF SdpInv, OneExchangeEach, OneExchange, q
  <2>4. OneExchangeEach' /\ ReadyMeansAgreed'
    BY <1>1, <1>4, <2>1, <2>3 DEF SdpInv, OneExchangeEach, ReadyMeansAgreed
  <2> QED
    BY <2>2, <2>4 DEF SdpInv
<1>5. CASE /\ ~IsRenegotiating(p) /\ UNCHANGED stuck /\ Becomes(p, "kOfferCreated")
           /\ offers' = [offers EXCEPT ![p] = @ + 1] /\ Send(p, m)
  <2>1. /\ reneg' \in [Peers -> RenegotiationStates]
        /\ reneg'[p] = "kOfferCreated" /\ reneg'[q] = reneg[q] /\ reneg[p] # "kOfferCreated"
    BY <1>1, <1>5, UpdateFailsType DEF RenegotiationStates, IsRenegotiating, Settled
  <2>2. /\ inbox'[q] = Append(inbox[q], m) /\ inbox'[p] = inbox[p]
        /\ offers'[p] = offers[p] + 1 /\ offers'[q] = offers[q]
    BY <1>1, <1>5 DEF Send, SdpTypeOK, q
  <2>3. SdpTypeOK'
    <3>1. Append(inbox[q], m) \in Seq(Messages)
      BY <1>2, AppendMessage
    <3>2. inbox' \in [Peers -> Seq(Messages)]
      BY <1>1, <1>5, <3>1 DEF Send, SdpTypeOK, Messages, q
    <3>3. offers' \in [Peers -> Nat]
      BY <1>1, <1>5 DEF SdpTypeOK
    <3> QED
      BY <1>1, <1>5, <2>1, <3>2, <3>3 DEF SdpTypeOK, Messages
  <2>4. ASSUME resets = 0 PROVE OneExchange(p)' /\ OneExchange(q)'
    <3>1. OneExchange(p) /\ OneExchange(q)
      BY <1>1, <2>4 DEF SdpInv, OneExchangeEach
    <3>2. ~Has(inbox[q], "offer") /\ ~Has(inbox[p], "answer")
      BY <2>1, <3>1 DEF OneExchange, q
    <3>3. /\ Single(inbox'[q], "offer") /\ Numbered(inbox'[q], "offer", offers'[p])
          /\ Single(inbox[p], "answer") /\ Numbered(inbox[p], "answer", offers'[p])
      <4>1. Numbered(inbox[q], "offer", offers'[p]) /\ Numbered(inbox[p], "answer", offers'[p])
        BY <3>2 DEF Has, Numbered
      <4>2. Single(inbox[q], "offer") /\ Single(inbox[p], "answer")
        BY <3>1 DEF OneExchange, q
      <4> QED
        BY <1>2, <2>2, <3>2, <4>1, <4>2, AppendMessage
    <3>4. OneExchange(p)'
      BY <2>1, <2>2, <3>2, <3>3 DEF OneExchange, q
    <3>5. /\ Has(inbox'[q], "answer") => Has(inbox[q], "answer")
          /\ Single(inbox[q], "answer") => Single(inbox'[q], "answer")
          /\ Numbered(inbox[q], "answer", offers[q]) => Numbered(inbox'[q], "answer", offers[q])
      BY <1>2, <2>2, AppendMessage
    <3>6. OneExchange(q)'
      BY <1>1, <2>1, <2>2, <3>1, <3>5 DEF OneExchange
    <3> QED
      BY <3>4, <3>6
  <2>5. OneExchangeEach' /\ ReadyMeansAgreed'
    BY <1>1, <2>1, <2>2, <2>4 DEF SdpInv, OneExchangeEach, ReadyMeansAgreed
  <2> QED
    BY <2>3, <2>5 DEF SdpInv
<1> QED
  BY <1>1, <1>3, <1>4, <1>5, UpdateFailsType
  DEF InitiateDisplaySwitch, UpdateFails, m, RenegotiationStates, SdpTypeOK

\* handleRemoteOffer: the offer, of the other peer, is consumed, and answered or
\* not; the peer has nothing under way itself unless it refuses.
LEMMA RemoteOfferSdp ==
  ASSUME SdpInv, NEW p \in Peers, inbox[p] # <<>>, Head(inbox[p]).type = "offer",
         HandleRemoteOffer(p, Head(inbox[p]))
  PROVE  SdpInv'
<1> DEFINE q == Other(p)
           m == Head(inbox[p])
           a == [type |-> "answer", n |-> m.n]
<1>1. /\ q \in Peers /\ q # p /\ Other(q) = p /\ \A r \in Peers : r = p \/ r = q
      /\ SdpTypeOK /\ UNCHANGED <<offers, agreed, resets>>
  BY OtherPeer DEF SdpInv, HandleRemoteOffer
<1>2. /\ inbox[p] \in Seq(Messages) /\ inbox[q] \in Seq(Messages)
      /\ inbox \in [Peers -> Seq(Messages)]
  BY <1>1 DEF SdpTypeOK, Messages
<1>3. m \in Messages /\ m.type = "offer" /\ Tail(inbox[p]) \in Seq(Messages)
  BY <1>2, TailMessage
<1>4. a \in Messages /\ a.type = "answer" /\ a.n = m.n
  BY <1>3 DEF Messages
<1>5. ASSUME resets = 0
      PROVE  OneExchange(p) /\ OneExchange(q) /\ Has(inbox[p], "offer") /\ m.n = offers[q]
  <2>1. OneExchange(p) /\ OneExchange(q)
    BY <1>1, <1>5 DEF SdpInv, OneExchangeEach
  <2> QED
    BY <1>1, <1>2, <1>3, <2>1, TailMessage DEF OneExchange
<1>6. /\ ~Has(inbox[p], "answer") => ~Has(Tail(inbox[p]), "answer")
      /\ Single(inbox[p], "answer") => Single(Tail(inbox[p]), "answer")
      /\ Numbered(inbox[p], "answer", offers[p]) => Numbered(Tail(inbox[p]), "answer", offers[p])
      /\ Single(inbox[p], "offer") => ~Has(Tail(inbox[p]), "offer")
  BY <1>2, <1>3, TailMessage
<1>7. ASSUME ~Has(Tail(inbox[p]), "offer")
      PROVE  Single(Tail(inbox[p]), "offer") /\ Numbered(Tail(inbox[p]), "offer", offers[q])
  BY <1>7 DEF Has, Single, Numbered
<1> HIDE DEF q, m, a
<1>8. CASE /\ inbox' = [inbox EXCEPT ![p] = Tail(@)]
           /\ unanswered' \in SUBSET Peers /\ stuck' \in SUBSET Peers
           /\ \/ UNCHANGED reneg
              \/ /\ ~IsRenegotiating(p)
                 /\ \E state \in {"kSettingRemoteOffer", "kIdle"} : Becomes(p, state)
  <2>1. inbox'[p] = Tail(inbox[p]) /\ inbox'[q] = inbox[q] /\ inbox' \in [Peers -> Seq(Messages)]
    BY <1>1, <1>2, <1>3, <1>8
  <2>2. /\ reneg' \in [Peers -> RenegotiationStates] /\ reneg'[q] = reneg[q]
        /\ \/ reneg'[p] = reneg[p]
           \/ reneg'[p] # "kReady" /\ reneg[p] # "kOfferCreated"
    <3>1. CASE UNCHANGED reneg
      BY <1>1, <3>1 DEF SdpTypeOK
    <3>2. CASE /\ ~IsRenegotiating(p)
               /\ \E state \in {"kSettingRemoteOffer", "kIdle"} : Becomes(p, state)
      BY <1>1, <3>2, UpdateFailsType DEF RenegotiationStates, IsRenegotiating, Settled
    <3> QED
      BY <1>8, <3>1, <3>2
  <2>3. SdpTypeOK'
    BY <1>1, <1>8, <2>1, <2>2 DEF SdpTypeOK, Messages
  <2>4. ASSUME resets = 0 PROVE OneExchange(p)' /\ OneExchange(q)'
    BY <1>1, <1>5, <1>6, <1>7, <2>1, <2>2, <2>4 DEF OneExchange, q
  <2>5. OneExchangeEach' /\ ReadyMeansAgreed'
    BY <1>1, <2>2, <2>4 DEF SdpInv, OneExchangeEach, ReadyMeansAgreed
  <2> QED
    BY <2>3, <2>5 DEF SdpInv
<1>9. CASE /\ ~IsRenegotiating(p) /\ Becomes(p, "kAnswerCreated")
           /\ inbox' = [inbox EXCEPT ![p] = Tail(@), ![q] = Append(@, a)]
           /\ UNCHANGED <<stuck, unanswered>>
  <2>1. inbox'[p] = Tail(inbox[p]) /\ inbox'[q] = Append(inbox[q], a)
    BY <1>1, <1>2, <1>9
  <2>2. /\ Append(inbox[q], a) \in Seq(Messages)
        /\ Has(Append(inbox[q], a), "offer") => Has(inbox[q], "offer")
        /\ Single(inbox[q], "offer") => Single(Append(inbox[q], a), "offer")
        /\ Numbered(inbox[q], "offer", offers[p]) => Numbered(Append(inbox[q], a), "offer", offers[p])
        /\ Single(inbox[q], "answer") /\ ~Has(inbox[q], "answer") =>
             Single(Append(inbox[q], a), "answer")
        /\ Numbered(inbox[q], "answer", offers[q]) /\ a.n = offers[q] =>
             Numbered(Append(inbox[q], a), "answer", offers[q])
    BY <1>2, <1>4, AppendMessage
  <2>3. inbox' \in [Peers -> Seq(Messages)]
    BY <1>1, <1>2, <1>3, <1>9, <2>2
  <2>4. /\ reneg' \in [Peers -> RenegotiationStates]
        /\ reneg'[p] = "kAnswerCreated" /\ reneg'[q] = reneg[q] /\ reneg[p] # "kOfferCreated"
    BY <1>1, <1>9, UpdateFailsType DEF RenegotiationStates, IsRenegotiating, Settled
  <2>5. SdpTypeOK'
    BY <1>1, <1>9, <2>3, <2>4 DEF SdpTypeOK, Messages
  <2>6. ASSUME resets = 0 PROVE OneExchange(p)' /\ OneExchange(q)'
    <3>1. OneExchange(p)'
      BY <1>1, <1>5, <1>6, <2>1, <2>2, <2>4, <2>6 DEF OneExchange, q
    <3>2. OneExchange(q)'
      BY <1>1, <1>4, <1>5, <1>6, <1>7, <2>1, <2>2, <2>4, <2>6 DEF OneExchange
    <3> QED
      BY <3>1, <3>2
  <2>7. OneExchangeEach' /\ ReadyMeansAgreed'
    BY <1>1, <2>4, <2>6 DEF SdpInv, OneExchangeEach, ReadyMeansAgreed
  <2> QED
    BY <2>5, <2>7 DEF SdpInv
<1>10. unanswered \cup {Other(p)} \in SUBSET Peers /\ unanswered \in SUBSET Peers
       /\ stuck \in SUBSET Peers /\ stuck \cup {p} \in SUBSET Peers
  BY <1>1 DEF SdpTypeOK, q
<1> QED
  BY <1>8, <1>9, <1>10 DEF HandleRemoteOffer, UpdateFails, q, m, a

\* handleRemoteAnswer: the answer, to the peer's last offer, is consumed.
LEMMA RemoteAnswerSdp ==
  ASSUME SdpInv, NEW p \in Peers, inbox[p] # <<>>, Head(inbox[p]).type = "answer",
         HandleRemoteAnswer(p, Head(inbox[p]))
  PROVE  SdpInv'
<1> DEFINE q == Other(p)
           m == Head(inbox[p])
<1>1. /\ q \in Peers /\ q # p /\ Other(q) = p /\ \A r \in Peers : r = p \/ r = q
      /\ SdpTypeOK /\ UNCHANGED <<offers, unanswered, resets>>
      /\ inbox' = [inbox EXCEPT ![p] = Tail(@)]
  BY OtherPeer DEF SdpInv, HandleRemoteAnswer
<1>2. /\ inbox[p] \in Seq(Messages) /\ inbox \in [Peers -> Seq(Messages)]
  BY <1>1 DEF SdpTypeOK, Messages
<1>3. m \in Messages /\ m.n \in Nat /\ m.type = "answer" /\ Tail(inbox[p]) \in Seq(Messages)
  BY <1>2, TailMessage DEF Messages
<1>4. inbox'[p] = Tail(inbox[p]) /\ inbox'[q] = inbox[q] /\ inbox' \in [Peers -> Seq(Messages)]
  BY <1>1, <1>2, <1>3
<1>5. /\ Has(inbox[p], "answer")
      /\ Numbered(inbox[p], "answer", offers[p]) => m.n = offers[p]
      /\ Single(inbox[p], "answer") => ~Has(inbox'[p], "answer")
      /\ ~Has(inbox'[p], "answer") =>
           Single(inbox'[p], "answer") /\ Numbered(inbox'[p], "answer", offers[p])
      /\ Has(inbox'[p], "offer") => Has(inbox[p], "offer")
      /\ Single(inbox[p], "offer") => Single(inbox'[p], "offer")
      /\ Numbered(inbox[p], "offer", offers[q]) => Numbered(inbox'[p], "offer", offers[q])
  <2>1. ~Has(inbox'[p], "answer") =>
          Single(inbox'[p], "answer") /\ Numbered(inbox'[p], "answer", offers[p])
    BY DEF Has, Single, Numbered
  <2>2. /\ Has(inbox[p], "answer")
        /\ Numbered(inbox[p], "answer", offers[p]) => m.n = offers[p]
        /\ Single(inbox[p], "answer") => ~Has(Tail(inbox[p]), "answer")
    BY <1>2, <1>3, TailMessage
  <2>3. /\ Has(Tail(inbox[p]), "offer") => Has(inbox[p], "offer")
        /\ Single(inbox[p], "offer") => Single(Tail(inbox[p]), "offer")
        /\ Numbered(inbox[p], "offer", offers[q]) => Numbered(Tail(inbox[p]), "offer", offers[q])
    BY <1>2, TailMessage
  <2> QED
    BY <1>4, <2>1, <2>2, <2>3
<1> HIDE DEF q, m
<1>6. /\ reneg' \in [Peers -> RenegotiationStates] /\ agreed' \in [Peers -> Nat]
      /\ stuck' \in SUBSET Peers
      /\ \A r \in Peers \ {p} : reneg'[r] = reneg[r] /\ agreed'[r] = agreed[r]
      /\ \/ reneg'[p] = reneg[p] /\ agreed'[p] = agreed[p]
         \/ reneg'[p] = "kReady" /\ agreed'[p] = m.n
         \/ reneg'[p] \in {"kSettingRemoteAnswer", "kIdle"}
  <2>1. CASE UNCHANGED <<reneg, stuck, agreed>>
    BY <1>1, <2>1 DEF SdpTypeOK
  <2>2. CASE UpdateFails(p, "kSettingRemoteAnswer") /\ UNCHANGED agreed
    BY <1>1, <2>2, UpdateFailsType DEF SdpTypeOK, RenegotiationStates
  <2>3. CASE Becomes(p, "kReady") /\ agreed' = [agreed EXCEPT ![p] = m.n] /\ UNCHANGED stuck
    BY <1>1, <1>3, <2>3, UpdateFailsType DEF SdpTypeOK, RenegotiationStates
  <2>4. CASE Becomes(p, "kIdle") /\ UNCHANGED <<agreed, stuck>>
    BY <1>1, <2>4, UpdateFailsType DEF SdpTypeOK, RenegotiationStates
  <2> QED
    BY <2>1, <2>2, <2>3, <2>4 DEF HandleRemoteAnswer, m
<1>7. SdpTypeOK'
  BY <1>1, <1>4, <1>6 DEF SdpTypeOK, Messages
<1>8. ASSUME resets = 0 PROVE OneExchange(p)' /\ OneExchange(q)' /\ m.n = offers[p]
  <2>1. OneExchange(p) /\ OneExchange(q)
    BY <1>1, <1>8 DEF SdpInv, OneExchangeEach
  <2>2. OneExchange(p)'
    BY <1>1, <1>4, <1>5, <2>1 DEF OneExchange, q
  <2>3. OneExchange(q)'
    BY <1>1, <1>4, <1>5, <1>6, <2>1 DEF OneExchange
  <2> QED
    BY <1>5, <2>1, <2>2, <2>3 DEF OneExchange
<1>9. OneExchangeEach'
  BY <1>1, <1>8 DEF OneExchangeEach
<1>10. ReadyMeansAgreed'
  <2> SUFFICES ASSUME resets = 0, NEW r \in Peers, reneg'[r] = "kReady"
               PROVE  agreed'[r] = offers[r]
    BY <1>1, <1>7 DEF ReadyMeansAgreed, SdpTypeOK
  <2> QED
    BY <1>1, <1>6, <1>8 DEF SdpInv, SdpTypeOK, ReadyMeansAgreed
<1> QED
  BY <1>7, <1>9, <1>10 DEF SdpInv

\* reset: nothing is said of a peer that was given up.
LEMMA ResetSdp ==
  ASSUME SdpInv, NEW p \in Peers, Reset(p)
  PROVE  SdpInv'
<1>1. /\ SdpTypeOK /\ UpdateFails(p, "kIdle") /\ resets < MaxResets /\ resets' = resets + 1
      /\ UNCHANGED <<inbox, offers, agreed, unanswered>>
  BY DEF SdpInv, Reset
<1>2. resets' \in 0 .. MaxResets /\ resets' > 0
  BY <1>1, MaxResetsAssumption DEF SdpTypeOK
<1>3. SdpTypeOK'
  BY <1>1, <1>2, UpdateFailsType DEF SdpTypeOK, RenegotiationStates
<1> QED
  BY <1>2, <1>3 DEF SdpInv, OneExchangeEach, ReadyMeansAgreed

-----------------------------------------------------------------------------
(* The controller. *)

\* The invariant of the controller without the types.
ThreadsInv ==
  /\ CallsFit /\ OneInSection /\ UntoldIsNotified /\ StoredBeforeTold
  /\ ValidOrShifted /\ EmptyOnlyAfterChange

\* What GoTo does to a thread.
LEMMA GoToMoves ==
  ASSUME ControllerTypeOK, NEW t \in Threads, NEW label \in Labels, GoTo(t, label)
  PROVE  /\ at' \in [Threads -> Labels] /\ call' \in [Threads -> CallRecords]
         /\ at'[t] = label /\ call'[t] = IF label = "out" THEN NoCall ELSE call[t]
         /\ \A u \in Threads \ {t} : at'[u] = at[u] /\ call'[u] = call[u]
<1>1. NoCall \in CallRecords
  BY DEF NoCall, NewCall, CallRecords
<1> QED
  BY <1>1 DEF ControllerTypeOK, GoTo

\* A thread goes from one place of its call to another, out of the session's
\* section or within it, and changes neither list nor selection.
LEMMA MoveStep ==
  ASSUME ControllerInv, NEW t \in Threads, NEW label \in Labels, GoTo(t, label),
         UNCHANGED <<displays, initialized, sessionDisplay, told>>,
         label \in SectionLabels => InSection(t) \/ call[t].session = NoSession,
         ~Notifying(t),
         label = "enter" => call[t].op \in {"select", "switch"} /\ call[t].session # NoSession,
         label \in {"old", "new", "asking", "switching"} => call[t].op = "switch",
         label = "store" => call[t].op = "select" /\ call[t].session = NoSession,
         label \in {"notify", "changed"} => call[t].op = "detect",
         call[t].op = "switch" /\ label \in {"enter", "old", "new"} =>
           Valid(call[t].id) \/ call[t].shifted,
         call[t].op = "switch" /\ label \in {"asking", "switching"} =>
           at[t] \in {"notify", "asking"}
  PROVE  ThreadsInv'
<1>1. /\ ControllerTypeOK /\ at'[t] = label
      /\ call'[t] = IF label = "out" THEN NoCall ELSE call[t]
      /\ \A u \in Threads \ {t} : at'[u] = at[u] /\ call'[u] = call[u]
  BY GoToMoves DEF ControllerInv
<1>2. NoCall.op = "none" /\ NoCall.session = NoSession
  BY DEF NoCall, NewCall
<1>3. CallsFit'
  BY <1>1, <1>2 DEF ControllerInv, CallsFit, CallFits, ListOps
<1>4. OneInSection'
  <2>1. \A u \in Threads : InSection(u)' => InSection(u)
    BY <1>1, <1>2 DEF InSection, SectionLabels
  <2> QED
    BY <2>1 DEF ControllerInv, OneInSection
<1>5. \A u \in Threads : Notifying(u)' <=> Notifying(u)
  BY <1>1, <1>2 DEF Notifying
<1>6. \A u \in Threads : Notifying(u) => call'[u] = call[u]
  BY <1>1
<1>7. UntoldIsNotified' /\ StoredBeforeTold'
  BY <1>5, <1>6 DEF ControllerInv, UntoldIsNotified, StoredBeforeTold
<1>8. ValidOrShifted'
  BY <1>1, <1>2 DEF ControllerInv, ValidOrShifted, Valid
<1>9. EmptyOnlyAfterChange'
  BY <1>1, <1>2 DEF ControllerInv, EmptyOnlyAfterChange
<1> QED
  BY <1>3, <1>4, <1>7, <1>8, <1>9 DEF ThreadsInv

\* The list changes: every other call under way is marked, and t returns.
LEMMA ShiftStep ==
  ASSUME ControllerInv, NEW t \in Threads, ListShifts(t), call[t].op \in ListOps,
         UNCHANGED <<sessionDisplay, told>>
  PROVE  /\ at' \in [Threads -> Labels] /\ call' \in [Threads -> CallRecords]
         /\ ThreadsInv'
<1>1. ControllerTypeOK /\ NoCall \in CallRecords /\ NoCall.op = "none" /\ NoCall.session = NoSession
  BY DEF ControllerInv, NoCall, NewCall, CallRecords
<1>2. /\ at' \in [Threads -> Labels] /\ at'[t] = "out"
      /\ \A u \in Threads \ {t} : at'[u] = at[u]
  BY <1>1 DEF ListShifts, ControllerTypeOK, Labels
<1>3. ASSUME NEW u \in Threads, u # t, at[u] # "out"
      PROVE  /\ call'[u] = [call[u] EXCEPT !.shifted = TRUE] /\ call'[u] \in CallRecords
             /\ call'[u].op = call[u].op /\ call'[u].session = call[u].session
             /\ call'[u].id = call[u].id /\ call'[u].shifted = TRUE
  BY <1>1, <1>3 DEF ListShifts, ControllerTypeOK, CallRecords
<1>4. ASSUME NEW u \in Threads, u = t \/ at[u] = "out"
      PROVE  call'[u] = NoCall
  BY <1>4 DEF ListShifts
<1>5. call' \in [Threads -> CallRecords]
  BY <1>1, <1>3, <1>4 DEF ListShifts
<1>6. CallsFit'
  <2> SUFFICES ASSUME NEW u \in Threads PROVE CallFits(u)'
    BY DEF CallsFit
  <2>1. CASE u = t \/ at[u] = "out"
    <3>1. call'[u] = NoCall /\ at'[u] = "out"
      BY <1>2, <1>4, <2>1
    <3> QED
      BY <1>1, <3>1 DEF CallFits, ListOps
  <2>2. CASE u # t /\ at[u] # "out"
    <3>1. CallFits(u) /\ at'[u] = at[u]
      BY <1>2, <2>2 DEF ControllerInv, CallsFit
    <3> QED
      BY <1>3, <2>2, <3>1 DEF CallFits
  <2> QED
    BY <2>1, <2>2
<1>7. OneInSection'
  <2>1. \A u \in Threads : InSection(u)' => InSection(u)
    BY <1>1, <1>2, <1>3, <1>4 DEF InSection, SectionLabels
  <2> QED
    BY <2>1 DEF ControllerInv, OneInSection
<1>8. \A u \in Threads : /\ Notifying(u)' <=> Notifying(u)
                         /\ Notifying(u) => /\ call'[u].session = call[u].session
                                            /\ call'[u].id = call[u].id
  BY <1>1, <1>2, <1>3, <1>4 DEF Notifying, ListOps
<1>9. UntoldIsNotified' /\ StoredBeforeTold'
  BY <1>8 DEF ControllerInv, UntoldIsNotified, StoredBeforeTold
<1>10. ValidOrShifted' /\ EmptyOnlyAfterChange'
  BY <1>1, <1>2, <1>3, <1>4 DEF ValidOrShifted, EmptyOnlyAfterChange
<1> QED
  BY <1>2, <1>5, <1>6, <1>7, <1>9, <1>10 DEF ThreadsInv

\* What is left of the invariant once the threads are done with.
LEMMA ControllerParts ==
  ASSUME ThreadsInv', ControllerTypeOK'
  PROVE  ControllerInv'
BY DEF ThreadsInv, ControllerInv

\* Display counts stay within the bounds.
LEMMA CountsOK ==
  ASSUME ControllerTypeOK
  PROVE  /\ plugged \in 0..MaxDisplays /\ displays \in 0..MaxDisplays
         /\ lastCount \in 0..MaxDisplays /\ 0 \in 0..MaxDisplays
BY BoundsAssumption DEF ControllerTypeOK

\* initialize, close and refreshDisplayList.
LEMMA ListStep ==
  ASSUME ControllerInv, NEW t \in Threads,
         Initialize(t) \/ Close(t) \/ RefreshDisplayList(t)
  PROVE  ControllerInv'
<1>1. /\ ControllerTypeOK /\ at[t] = "begin" /\ call[t].op \in {"initialize", "close", "refresh"}
      /\ UNCHANGED <<plugged, sessionDisplay, told, calls, changes>>
  BY DEF ControllerInv, Initialize, Close, RefreshDisplayList, Begins, ListOnly, boundVars
<1>2. /\ displays' \in {displays, plugged, 0} /\ lastCount' \in {lastCount, plugged}
      /\ current' \in {current, -1}
  BY DEF Initialize, Close, RefreshDisplayList, TakeList, listVars
<1>3. initialized' \in BOOLEAN
  <2>1. (plugged > 0) \in BOOLEAN /\ initialized \in BOOLEAN
    BY <1>1 DEF ControllerTypeOK
  <2>2. CASE Initialize(t)
    BY <2>1, <2>2 DEF Initialize, listVars
  <2>3. CASE Close(t) \/ RefreshDisplayList(t)
    BY <2>1, <2>3 DEF Close, RefreshDisplayList
  <2> QED
    BY <2>2, <2>3
<1>4. \/ ListShifts(t)
      \/ GoTo(t, "out") /\ UNCHANGED <<displays, initialized>>
  BY DEF Initialize, Close, RefreshDisplayList, TakeList, listVars
<1>5. at' \in [Threads -> Labels] /\ call' \in [Threads -> CallRecords] /\ ThreadsInv'
  <2>1. CASE ListShifts(t)
    BY <1>1, <2>1, ShiftStep DEF ListOps
  <2>2. CASE GoTo(t, "out") /\ UNCHANGED <<displays, initialized>>
    BY <1>1, <2>2, MoveStep, GoToMoves DEF Labels, SectionLabels, Notifying
  <2> QED
    BY <1>4, <2>1, <2>2
<1>6. ControllerTypeOK'
  BY <1>1, <1>2, <1>3, <1>5, CountsOK DEF ControllerTypeOK
<1> QED
  BY <1>5, <1>6, ControllerParts

\* detectDisplayChanges, its callback, and the lookups that only move a thread.
LEMMA LookUpStep ==
  ASSUME ControllerInv, NEW t \in Threads,
         \/ DetectDisplayChanges(t) \/ NotifyChange(t) \/ ChangeCallback(t)
         \/ ValidateDisplayId(t) \/ GetDisplayForSession(t) \/ LookUpOld(t)
         \/ AskInCallback(t) \/ SwitchCallback(t)
  PROVE  ControllerInv'
<1>1. /\ ControllerTypeOK /\ CallFits(t)
      /\ UNCHANGED <<plugged, displays, initialized, current, sessionDisplay, told, calls, changes>>
      /\ lastCount' \in {lastCount, plugged}
  BY DEF ControllerInv, CallsFit, DetectDisplayChanges, NotifyChange, ChangeCallback,
         ValidateDisplayId, GetDisplayForSession, LookUpOld, AskInCallback, SwitchCallback,
         ListOnly, SelectionOnly, selectionVars, listVars, boundVars
<1>2. \E label \in Labels : GoTo(t, label) /\ ThreadsInv'
  <2> USE <1>1 DEF CallFits, ListOps, Labels, SectionLabels, InSection, Notifying
  <2>1. CASE DetectDisplayChanges(t)
    <3>1. /\ call[t].op = "detect" /\ at[t] = "begin"
          /\ \E label \in {"out", "notify"} : GoTo(t, label)
      BY <2>1 DEF DetectDisplayChanges, Begins
    <3> QED
      BY <3>1, MoveStep
  <2>2. CASE NotifyChange(t)
    BY <2>2, MoveStep DEF NotifyChange
  <2>3. CASE ChangeCallback(t)
    <3>1. /\ call[t].op = "detect" /\ at[t] = "changed"
          /\ \E label \in {"out", "hung"} : GoTo(t, label)
      BY <2>3 DEF ChangeCallback
    <3> QED
      BY <3>1, MoveStep
  <2>4. CASE ValidateDisplayId(t)
    <3> DEFINE c == call[t]
    <3>1. PICK label \in {"out", "enter", "old", "store"} :
            /\ GoTo(t, label)
            /\ label # "out" => Valid(c.id)
            /\ label = "enter" => c.session # NoSession
            /\ label \in {"old", "store"} => c.session = NoSession
            /\ label = "old" => c.op = "switch"
            /\ label = "store" => c.op # "switch"
      BY <2>4 DEF ValidateDisplayId
    <3>2. at[t] = "begin" /\ c.op \in {"select", "switch"}
      BY <2>4 DEF ValidateDisplayId
    <3> QED
      BY <3>1, <3>2, MoveStep
  <2>5. CASE GetDisplayForSession(t)
    BY <2>5, MoveStep DEF GetDisplayForSession
  <2>6. CASE LookUpOld(t)
    <3>1. at[t] = "old" /\ call[t].op = "switch" /\ GoTo(t, "new")
      BY <2>6 DEF LookUpOld
    <3>2. Valid(call[t].id) \/ call[t].shifted
      BY <3>1 DEF ControllerInv, ValidOrShifted
    <3> QED
      BY <3>1, <3>2, MoveStep
  <2>7. CASE AskInCallback(t)
    BY <2>7, MoveStep DEF AskInCallback
  <2>8. CASE SwitchCallback(t)
    <3>1. at[t] = "switching" /\ \E label \in {"out", "hung"} : GoTo(t, label)
      BY <2>8 DEF SwitchCallback
    <3> QED
      BY <3>1, MoveStep
  <2> QED
    BY <2>1, <2>2, <2>3, <2>4, <2>5, <2>6, <2>7, <2>8
<1>3. ControllerTypeOK'
  BY <1>1, <1>2, GoToMoves, CountsOK DEF ControllerTypeOK
<1> QED
  BY <1>2, <1>3, ControllerParts

\* A thread enters a call.
LEMMA CallStep ==
  ASSUME ControllerInv, NEW t \in Threads, Call(t)
  PROVE  ControllerInv'
<1>1. PICK c \in Calls : /\ call' = [call EXCEPT ![t] = c]
                         /\ at' = [at EXCEPT ![t] = IF c.op = "get" THEN "enter" ELSE "begin"]
  BY DEF Call
<1>2. /\ ControllerTypeOK /\ at[t] = "out" /\ calls < MaxCalls /\ calls' = calls + 1
      /\ UNCHANGED <<plugged, listVars, selectionVars, told, changes>>
  BY DEF ControllerInv, Call
<1>3. /\ c \in CallRecords /\ c.op \in ListOps \cup {"select", "switch", "get"}
      /\ c.op \in ListOps => c.session = NoSession
      /\ c.op \in {"select", "switch"} => c.id \in Ids
      /\ c.op = "get" => c.session \in Sessions
  <2>1. CASE \E op \in ListOps : c = NewCall(op, NoSession, -1)
    BY <2>1 DEF NewCall, CallRecords, ListOps
  <2>2. CASE \E op \in {"select", "switch"}, s \in {NoSession} \cup Sessions, id \in Ids :
               c = NewCall(op, s, id)
    BY <2>2 DEF NewCall, CallRecords, ListOps
  <2>3. CASE \E s \in Sessions : c = NewCall("get", s, -1)
    BY <2>3 DEF NewCall, CallRecords, ListOps
  <2> QED
    BY <2>1, <2>2, <2>3 DEF Calls
<1>4. /\ at' \in [Threads -> Labels] /\ call' \in [Threads -> CallRecords]
      /\ call'[t] = c /\ at'[t] \in {"begin", "enter"}
      /\ at'[t] = "enter" => c.op = "get"
      /\ \A u \in Threads \ {t} : at'[u] = at[u] /\ call'[u] = call[u]
  BY <1>1, <1>2, <1>3 DEF ControllerTypeOK, Labels
<1>5. ControllerTypeOK'
  BY <1>2, <1>4, CountsOK, BoundsAssumption DEF ControllerTypeOK, listVars, selectionVars
<1>6. CallsFit'
  BY <1>3, <1>4 DEF ControllerInv, CallsFit, CallFits, ListOps
<1>7. \A u \in Threads : (InSection(u)' => InSection(u)) /\ (Notifying(u)' <=> Notifying(u))
  BY <1>2, <1>4 DEF InSection, SectionLabels, Notifying
<1>8. OneInSection'
  BY <1>7 DEF ControllerInv, OneInSection
<1>9. \A u \in Threads : Notifying(u) => call'[u] = call[u]
  BY <1>2, <1>4 DEF Notifying
<1>10. UntoldIsNotified' /\ StoredBeforeTold'
  BY <1>2, <1>7, <1>9 DEF ControllerInv, UntoldIsNotified, StoredBeforeTold, selectionVars
<1>11. ValidOrShifted' /\ EmptyOnlyAfterChange'
  BY <1>2, <1>4 DEF ControllerInv, ValidOrShifted, EmptyOnlyAfterChange, Valid, listVars, ListOps
<1> QED
  BY <1>5, <1>6, <1>8, <1>10, <1>11 DEF ControllerInv

\* session_display_mutex_ is taken, and selectDisplayForSession done: the session
\* and what the application knows of it change together.
LEMMA EnterSessionStep ==
  ASSUME ControllerInv, NEW t \in Threads, EnterSession(t)
  PROVE  ControllerInv'
<1> DEFINE c == call[t]
<1>1. /\ ControllerTypeOK /\ CallFits(t) /\ c \in CallRecords
      /\ at[t] = "enter" /\ SessionsFree
      /\ c.session \in Sessions \/ c.session = NoSession
      /\ UNCHANGED <<plugged, listVars, current, calls, changes>>
  BY DEF ControllerInv, CallsFit, ControllerTypeOK, CallRecords, EnterSession, SelectionOnly,
         boundVars
<1>2. PICK label \in {"out", "new", "old", "read"} :
        /\ GoTo(t, label)
        /\ label \in {"new", "old"} => c.op = "switch"
        /\ c.op = "select" => label = "out"
  BY <1>1 DEF CallFits, EnterSession
<1>3. /\ at' \in [Threads -> Labels] /\ call' \in [Threads -> CallRecords]
      /\ at'[t] = label /\ call'[t] = IF label = "out" THEN NoCall ELSE c
      /\ \A u \in Threads \ {t} : at'[u] = at[u] /\ call'[u] = call[u]
  BY <1>1, <1>2, GoToMoves DEF Labels
<1>4. \/ /\ c.op = "select" /\ c.session # NoSession /\ c.id \in Ids /\ c.session \in Sessions
         /\ sessionDisplay' = [sessionDisplay EXCEPT ![c.session] = c.id]
         /\ told' = [told EXCEPT ![c.session] = c.id]
      \/ UNCHANGED <<sessionDisplay, told>>
  BY <1>1 DEF CallFits, EnterSession
<1>5. ControllerTypeOK'
  <2>1. sessionDisplay' \in [Sessions -> Ids \cup {-1}] /\ told' \in [Sessions -> Ids \cup {-1}]
    BY <1>1, <1>4 DEF ControllerTypeOK
  <2> QED
    BY <1>1, <1>3, <2>1 DEF ControllerTypeOK, listVars
<1>6. NoCall.op = "none" /\ NoCall.session = NoSession
  BY DEF NoCall, NewCall
<1>7. CallsFit'
  BY <1>1, <1>2, <1>3, <1>6 DEF ControllerInv, CallsFit, CallFits, ListOps
<1>8. \A u \in Threads : ~InSection(u) /\ ~Notifying(u)
  BY <1>1 DEF SessionsFree, InSection, SectionLabels, Notifying
<1>9. OneInSection'
  BY <1>3, <1>8 DEF OneInSection, InSection
<1>10. \A u \in Threads : ~Notifying(u)'
  BY <1>3, <1>8 DEF Notifying
<1>11. \A s \in Sessions : sessionDisplay'[s] = told'[s]
  BY <1>1, <1>4, <1>8 DEF ControllerInv, UntoldIsNotified, ControllerTypeOK
<1>12. UntoldIsNotified' /\ StoredBeforeTold'
  BY <1>10, <1>11 DEF UntoldIsNotified, StoredBeforeTold
<1>13. ValidOrShifted' /\ EmptyOnlyAfterChange'
  BY <1>1, <1>3, <1>6
  DEF ControllerInv, ValidOrShifted, EmptyOnlyAfterChange, Valid, listVars
<1> QED
  BY <1>5, <1>7, <1>9, <1>12, <1>13 DEF ControllerInv

\* The second lookup: it finds the display unless the list changed.
LEMMA LookUpNewStep ==
  ASSUME ControllerInv, NEW t \in Threads, LookUpNew(t)
  PROVE  ControllerInv'
<1>1. /\ ControllerTypeOK /\ CallFits(t) /\ call[t] \in CallRecords /\ at[t] = "new"
      /\ call[t].op = "switch"
      /\ call' = [call EXCEPT ![t].found = GetDisplayById(call[t].id)]
      /\ at' = [at EXCEPT ![t] = "store"]
      /\ UNCHANGED <<plugged, listVars, selectionVars, told, calls, changes>>
  BY DEF ControllerInv, CallsFit, CallFits, ControllerTypeOK, LookUpNew, SelectionOnly, boundVars
<1>2. GetDisplayById(call[t].id) \in BOOLEAN
  BY DEF GetDisplayById
<1>3. /\ call'[t] = [call[t] EXCEPT !.found = GetDisplayById(call[t].id)]
      /\ call'[t] \in CallRecords
  BY <1>1, <1>2 DEF ControllerTypeOK, CallRecords
<1>4. /\ call'[t].op = "switch" /\ call'[t].session = call[t].session
      /\ call'[t].id = call[t].id /\ call'[t].shifted = call[t].shifted
      /\ call'[t].found = GetDisplayById(call[t].id)
  BY <1>1, <1>3 DEF CallRecords
<1>5. /\ at' \in [Threads -> Labels] /\ call' \in [Threads -> CallRecords] /\ at'[t] = "store"
      /\ \A u \in Threads \ {t} : at'[u] = at[u] /\ call'[u] = call[u]
  BY <1>1, <1>3 DEF ControllerTypeOK, Labels
<1>6. ControllerTypeOK'
  BY <1>1, <1>5 DEF ControllerTypeOK, listVars, selectionVars
<1>7. CallsFit'
  <2>1. CallFits(t)'
    BY <1>1, <1>4, <1>5 DEF CallFits, ListOps
  <2> QED
    BY <1>5, <2>1 DEF ControllerInv, CallsFit, CallFits
<1>8. \A u \in Threads : /\ InSection(u)' => InSection(u)
                         /\ Notifying(u)' <=> Notifying(u)
                         /\ Notifying(u) => call'[u] = call[u]
  BY <1>1, <1>4, <1>5 DEF InSection, SectionLabels, Notifying
<1>9. OneInSection'
  BY <1>8 DEF ControllerInv, OneInSection
<1>10. UntoldIsNotified' /\ StoredBeforeTold'
  BY <1>1, <1>8 DEF ControllerInv, UntoldIsNotified, StoredBeforeTold, selectionVars
<1>11. ValidOrShifted'
  BY <1>1, <1>5 DEF ControllerInv, ValidOrShifted, Valid, listVars
<1>12. EmptyOnlyAfterChange'
  <2>1. GetDisplayById(call[t].id) \/ call[t].shifted
    BY <1>1 DEF ControllerInv, ValidOrShifted, Valid, GetDisplayById
  <2> QED
    BY <1>4, <1>5, <2>1 DEF ControllerInv, EmptyOnlyAfterChange
<1> QED
  BY <1>6, <1>7, <1>9, <1>10, <1>11, <1>12 DEF ControllerInv

\* The new display is stored; from then to the notification the application knows
\* an older one.
LEMMA StoreStep ==
  ASSUME ControllerInv, NEW t \in Threads, Store(t)
  PROVE  ControllerInv'
<1> DEFINE c == call[t]
<1>1. /\ ControllerTypeOK /\ CallFits(t) /\ c \in CallRecords /\ at[t] = "store"
      /\ c.op = "switch" \/ (c.op = "select" /\ c.session = NoSession)
      /\ c.id \in Ids /\ (c.session \in Sessions \/ c.session = NoSession)
      /\ UNCHANGED <<plugged, listVars, told, calls, changes>>
  BY DEF ControllerInv, CallsFit, CallFits, ControllerTypeOK, CallRecords, Store, SelectionOnly,
         boundVars
<1>2. PICK label \in {"out", "notify"} :
        GoTo(t, label) /\ (label = "out" <=> c.op = "select")
  BY <1>1 DEF Store
<1>3. /\ at' \in [Threads -> Labels] /\ call' \in [Threads -> CallRecords]
      /\ at'[t] = label /\ call'[t] = IF label = "out" THEN NoCall ELSE c
      /\ \A u \in Threads \ {t} : at'[u] = at[u] /\ call'[u] = call[u]
  BY <1>1, <1>2, GoToMoves DEF Labels
<1>4. \/ c.session = NoSession /\ current' = c.id /\ UNCHANGED sessionDisplay
      \/ /\ c.session # NoSession /\ c.session \in Sessions /\ UNCHANGED current
         /\ sessionDisplay' = [sessionDisplay EXCEPT ![c.session] = c.id]
  BY <1>1 DEF Store
<1>5. ControllerTypeOK'
  <2>1. sessionDisplay' \in [Sessions -> Ids \cup {-1}] /\ current' \in Ids \cup {-1}
    BY <1>1, <1>4 DEF ControllerTypeOK
  <2> QED
    BY <1>1, <1>3, <2>1 DEF ControllerTypeOK, listVars
<1>6. NoCall.op = "none" /\ NoCall.session = NoSession
  BY DEF NoCall, NewCall
<1>7. CallsFit'
  BY <1>1, <1>2, <1>3, <1>6 DEF ControllerInv, CallsFit, CallFits, ListOps
<1>8. \A u \in Threads : InSection(u)' => InSection(u)
  BY <1>1, <1>3, <1>6 DEF InSection, SectionLabels
<1>9. OneInSection'
  BY <1>8 DEF ControllerInv, OneInSection
<1>10. \A u \in Threads \ {t} : /\ Notifying(u)' <=> Notifying(u)
                                /\ call'[u] = call[u]
  BY <1>3 DEF Notifying
<1>11. ~Notifying(t) /\ (Notifying(t)' <=> c.session # NoSession)
  BY <1>1, <1>2, <1>3, <1>6 DEF Notifying
<1>12. ASSUME c.session # NoSession PROVE \A u \in Threads \ {t} : ~Notifying(u)
  BY <1>1, <1>12 DEF ControllerInv, OneInSection, InSection, SectionLabels, Notifying
<1>13. UntoldIsNotified' /\ StoredBeforeTold'
  <2>1. CASE c.session = NoSession
    BY <1>1, <1>4, <1>10, <1>11, <2>1
    DEF ControllerInv, UntoldIsNotified, StoredBeforeTold
  <2>2. CASE c.session # NoSession
    <3>1. /\ Notifying(t)' /\ call'[t] = c /\ sessionDisplay'[c.session] = c.id
          /\ \A s \in Sessions \ {c.session} : sessionDisplay'[s] = sessionDisplay[s]
      BY <1>1, <1>2, <1>3, <1>4, <1>11, <2>2 DEF ControllerTypeOK
    <3>2. \A s \in Sessions : sessionDisplay[s] = told[s]
      BY <1>11, <1>12, <2>2 DEF ControllerInv, UntoldIsNotified
    <3>3. UntoldIsNotified'
      BY <1>1, <3>1, <3>2 DEF UntoldIsNotified
    <3>4. StoredBeforeTold'
      BY <1>10, <1>12, <2>2, <3>1 DEF StoredBeforeTold
    <3> QED
      BY <3>3, <3>4
  <2> QED
    BY <2>1, <2>2
<1>14. ValidOrShifted' /\ EmptyOnlyAfterChange'
  BY <1>1, <1>3, <1>6
  DEF ControllerInv, ValidOrShifted, EmptyOnlyAfterChange, Valid, listVars
<1> QED
  BY <1>5, <1>7, <1>9, <1>13, <1>14 DEF ControllerInv

\* The switch callback tells the application what is stored.
LEMMA NotifySwitchStep ==
  ASSUME ControllerInv, NEW t \in Threads, NotifySwitch(t)
  PROVE  ControllerInv'
<1> DEFINE c == call[t]
<1>1. /\ ControllerTypeOK /\ CallFits(t) /\ c \in CallRecords
      /\ at[t] = "notify" /\ c.op = "switch" /\ c.id \in Ids
      /\ c.session \in Sessions \/ c.session = NoSession
      /\ UNCHANGED <<plugged, listVars, selectionVars, calls, changes>>
  BY DEF ControllerInv, CallsFit, CallFits, ControllerTypeOK, CallRecords, NotifySwitch,
         SelectionOnly, boundVars
<1>2. PICK label \in {"asking", "switching"} : GoTo(t, label)
  BY DEF NotifySwitch
<1>3. /\ at' \in [Threads -> Labels] /\ call' \in [Threads -> CallRecords]
      /\ at'[t] = label /\ call'[t] = c
      /\ \A u \in Threads \ {t} : at'[u] = at[u] /\ call'[u] = call[u]
  BY <1>1, <1>2, GoToMoves DEF Labels
<1>4. \/ c.session = NoSession /\ UNCHANGED told
      \/ /\ c.session # NoSession /\ c.session \in Sessions
         /\ told' = [told EXCEPT ![c.session] = c.id]
  BY <1>1 DEF NotifySwitch
<1>5. ControllerTypeOK'
  <2>1. told' \in [Sessions -> Ids \cup {-1}]
    BY <1>1, <1>4 DEF ControllerTypeOK
  <2> QED
    BY <1>1, <1>3, <2>1 DEF ControllerTypeOK, listVars, selectionVars
<1>6. CallsFit'
  BY <1>1, <1>2, <1>3 DEF ControllerInv, CallsFit, CallFits, ListOps
<1>7. OneInSection'
  <2>1. \A u \in Threads : InSection(u)' => InSection(u)
    BY <1>1, <1>3 DEF InSection, SectionLabels
  <2> QED
    BY <2>1 DEF ControllerInv, OneInSection
<1>8. /\ Notifying(t) <=> c.session # NoSession
      /\ ~Notifying(t)'
      /\ \A u \in Threads \ {t} : (Notifying(u)' <=> Notifying(u)) /\ call'[u] = call[u]
  BY <1>1, <1>2, <1>3 DEF Notifying
<1>9. UntoldIsNotified' /\ StoredBeforeTold'
  <2>1. CASE c.session = NoSession
    BY <1>1, <1>4, <1>8, <2>1
    DEF ControllerInv, UntoldIsNotified, StoredBeforeTold, selectionVars
  <2>2. CASE c.session # NoSession
    <3>1. /\ told'[c.session] = c.id /\ sessionDisplay[c.session] = c.id
          /\ \A s \in Sessions \ {c.session} : told'[s] = told[s]
      BY <1>1, <1>4, <1>8, <2>2 DEF ControllerInv, StoredBeforeTold, ControllerTypeOK
    <3>2. \A s \in Sessions \ {c.session} : told[s] = sessionDisplay[s]
      BY <1>1, <2>2 DEF ControllerInv, UntoldIsNotified, OneInSection, InSection, SectionLabels,
                        Notifying
    <3> QED
      BY <1>1, <1>8, <3>1, <3>2
      DEF ControllerInv, UntoldIsNotified, StoredBeforeTold, selectionVars
  <2> QED
    BY <2>1, <2>2
<1>10. ValidOrShifted' /\ EmptyOnlyAfterChange'
  BY <1>1, <1>2, <1>3
  DEF ControllerInv, ValidOrShifted, EmptyOnlyAfterChange, Valid, listVars
<1> QED
  BY <1>5, <1>6, <1>7, <1>9, <1>10 DEF ControllerInv

\* The renegotiation by itself, and what is plugged in, are nothing to it.
LEMMA ControllerKept ==
  ASSUME ControllerInv, UNCHANGED <<listVars, selectionVars, threadVars, told, calls>>,
         plugged' \in 0..MaxDisplays, changes' \in 0..MaxChanges
  PROVE  ControllerInv'
<1>1. ControllerTypeOK'
  BY CountsOK DEF ControllerInv, ControllerTypeOK, listVars, selectionVars, threadVars
<1>2. CallsFit' /\ OneInSection' /\ UntoldIsNotified' /\ StoredBeforeTold'
  BY DEF ControllerInv, CallsFit, CallFits, OneInSection, InSection, UntoldIsNotified,
         StoredBeforeTold, Notifying, selectionVars, threadVars
<1>3. ValidOrShifted' /\ EmptyOnlyAfterChange'
  BY DEF ControllerInv, ValidOrShifted, EmptyOnlyAfterChange, Valid, listVars, threadVars
<1> QED
  BY <1>1, <1>2, <1>3 DEF ControllerInv

-----------------------------------------------------------------------------
\* The invariant holds of a controller and of peers that have just been built.
LEMMA InitIInv == Init => IInv
<1> SUFFICES ASSUME Init PROVE IInv
  OBVIOUS
<1>1. SdpTypeOK
  BY MaxResetsAssumption DEF Init, SdpInit, SdpTypeOK, RenegotiationStates
<1>2. OneExchangeEach /\ ReadyMeansAgreed
  BY OtherPeer
  DEF Init, SdpInit, OneExchangeEach, OneExchange, Has, Single, Numbered, ReadyMeansAgreed
<1>3. ControllerTypeOK
  <2>1. NoCall \in CallRecords
    BY DEF NoCall, NewCall, CallRecords
  <2>2. plugged \in 0..MaxDisplays /\ displays = 0 /\ lastCount = 0 /\ 0 \in 0..MaxDisplays
    BY BoundsAssumption DEF Init
  <2>3. calls \in 0..MaxCalls /\ changes \in 0..MaxChanges
    BY BoundsAssumption DEF Init
  <2> QED
    BY <2>1, <2>2, <2>3 DEF Init, ControllerTypeOK, Labels
<1>4. CallsFit /\ OneInSection /\ UntoldIsNotified /\ StoredBeforeTold
  BY DEF Init, CallsFit, CallFits, NoCall, NewCall, OneInSection, InSection, UntoldIsNotified,
         StoredBeforeTold, Notifying
<1>5. ValidOrShifted /\ EmptyOnlyAfterChange
  BY DEF Init, ValidOrShifted, EmptyOnlyAfterChange, NoCall, NewCall
<1> QED
  BY <1>1, <1>2, <1>3, <1>4, <1>5 DEF IInv, SdpInv, ControllerInv

\* An exchange that nothing touches stays what it is.
LEMMA SdpKept ==
  ASSUME SdpInv, UNCHANGED sdpVars
  PROVE  SdpInv'
BY DEF sdpVars, SdpInv, SdpTypeOK, OneExchangeEach, OneExchange, Has, Single, Numbered,
       ReadyMeansAgreed

\* Every call, step of a thread, message to a peer and replugging keeps the invariant.
LEMMA NextIInv == IInv /\ [Next]_vars => IInv'
<1> SUFFICES ASSUME IInv, [Next]_vars PROVE IInv'
  OBVIOUS
<1>1. SdpInv /\ ControllerInv
  BY DEF IInv
<1>2. ASSUME NEW t \in Threads, Call(t) \/ Step(t) PROVE IInv'
  <2>1. ControllerInv'
    BY <1>1, <1>2, CallStep, ListStep, LookUpStep, EnterSessionStep, LookUpNewStep, StoreStep,
       NotifySwitchStep
    DEF Step
  <2>2. UNCHANGED sdpVars \/ InitiateDisplaySwitch(Host)
    BY <1>2
    DEF Call, Step, Initialize, Close, RefreshDisplayList, DetectDisplayChanges, NotifyChange,
        ChangeCallback, ListOnly, ValidateDisplayId, EnterSession, GetDisplayForSession,
        LookUpOld, LookUpNew, Store, NotifySwitch, AskInCallback, SwitchCallback
  <2>3. SdpInv'
    BY <1>1, <2>2, SdpKept, InitiateSdp, HostAssumption
  <2> QED
    BY <2>1, <2>3 DEF IInv
<1>3. ASSUME NEW p \in Peers, ReceiveDescription(p) \/ ViewerInitiates(p) \/ GiveUp(p)
      PROVE  IInv'
  <2>1. ControllerIdle
    BY <1>3 DEF ReceiveDescription, ViewerInitiates, GiveUp
  <2>2. ControllerInv'
    BY <1>1, <2>1, ControllerKept, CountsOK
    DEF ControllerIdle, boundVars, ControllerInv, ControllerTypeOK
  <2>3. CASE ReceiveDescription(p)
    BY <1>1, <2>2, <2>3, RemoteOfferSdp, RemoteAnswerSdp DEF ReceiveDescription, Receive, IInv
  <2>4. CASE ViewerInitiates(p)
    BY <1>1, <2>2, <2>4, InitiateSdp DEF ViewerInitiates, IInv
  <2>5. CASE GiveUp(p)
    BY <1>1, <2>2, <2>5, ResetSdp DEF GiveUp, IInv
  <2> QED
    BY <1>3, <2>3, <2>4, <2>5
<1>4. CASE Replug
  <2>1. changes' \in 0..MaxChanges /\ plugged' \in 0..MaxDisplays
    BY <1>1, <1>4, BoundsAssumption DEF Replug, ControllerInv, ControllerTypeOK
  <2> QED
    BY <1>1, <1>4, <2>1, SdpKept, ControllerKept DEF Replug, IInv
<1>5. CASE UNCHANGED vars
  <2>1. plugged' \in 0..MaxDisplays /\ changes' \in 0..MaxChanges
    BY <1>1, <1>5, CountsOK DEF vars, boundVars, ControllerInv, ControllerTypeOK
  <2> QED
    BY <1>1, <1>5, <2>1, SdpKept, ControllerKept DEF vars, boundVars, IInv
<1> QED
  BY <1>2, <1>3, <1>4, <1>5 DEF Next

\* Every reachable state satisfies the inductive invariant.
THEOREM Invariance == Spec => []IInv
<1> QED
  BY InitIInv, NextIInv, PTL DEF Spec

\* Type correctness of the controller and of the renegotiation it starts.
THEOREM TypeCorrect == Spec => []TypeOK
<1>1. IInv => TypeOK
  BY DEF IInv, SdpInv, ControllerInv, TypeOK
<1> QED
  BY <1>1, Invariance, PTL

\* Whenever session_display_mutex_ is free, every session's display is the one
\* the application selected last or was told of by the switch callback.
THEOREM SessionSwitchesInOrderAlways == Spec => []SessionSwitchesInOrder
<1>1. ASSUME IInv, SessionsFree PROVE \A s \in Sessions : sessionDisplay[s] = told[s]
  <2>1. \A t \in Threads : ~Notifying(t)
    BY <1>1 DEF SessionsFree, Notifying
  <2> QED
    BY <1>1, <2>1 DEF IInv, ControllerInv, UntoldIsNotified
<1>2. IInv => SessionSwitchesInOrder
  BY <1>1 DEF SessionSwitchesInOrder
<1> QED
  BY <1>2, Invariance, PTL

\* A switch callback is given an empty display only if the list changed after the
\* id was validated.
THEOREM EmptyOnlyAfterChangeAlways == Spec => []EmptyOnlyAfterChange
<1>1. IInv => EmptyOnlyAfterChange
  BY DEF IInv, ControllerInv
<1> QED
  BY <1>1, Invariance, PTL

\* Without reset, a peer that is kReady has the answer to its last offer.
THEOREM ReadyMeansAgreedAlways == Spec => []ReadyMeansAgreed
<1>1. IInv => ReadyMeansAgreed
  BY DEF IInv, SdpInv
<1> QED
  BY <1>1, Invariance, PTL
=============================================================================

--------------------------- MODULE SignalingService ---------------------------
(***************************************************************************)
(* What coordinator and signalling server promise the browsers, without    *)
(* threads, mutexes, sockets or API calls: a browser is admitted once,     *)
(* while the service is open; offers are served one at a time; an answer   *)
(* goes to the member whose offer was served; a browser that departed is   *)
(* never served, or sent candidates, again.                                *)
(***************************************************************************)
CONSTANTS Clients, NoClient

VARIABLES
  open,       \* whether connections are accepted
  stage,      \* new, member, cut (no member, but still connected) or departed
  serving,    \* the browser whose offer was taken and not yet answered
  target,     \* the browser candidates are sent to
  answered    \* whose offers the answers sent to each browser answer

vars == <<open, stage, serving, target, answered>>

Init ==
  /\ open = FALSE /\ stage = [c \in Clients |-> "new"]
  /\ serving = {} /\ target = NoClient
  /\ answered = [c \in Clients |-> {}]

Open ==
  /\ open' = TRUE
  /\ UNCHANGED <<stage, serving, target, answered>>

\* All members are cut off at once; their connections stay.
Close ==
  /\ open' = FALSE
  /\ stage' = [c \in Clients |-> IF stage[c] = "member" THEN "cut" ELSE stage[c]]
  /\ UNCHANGED <<serving, target, answered>>

Admit(c) ==
  /\ open /\ stage[c] = "new"
  /\ stage' = [stage EXCEPT ![c] = "member"]
  /\ UNCHANGED <<open, serving, target, answered>>

\* An offer, taken or refused; not only members make them.
Offer(c) ==
  /\ stage[c] \in {"member", "cut"} /\ serving = {}
  /\ target' = c /\ serving' \in {{}, {c}}
  /\ UNCHANGED <<open, stage, answered>>

\* The browser being served gets its answer.
Answer(c) ==
  /\ c \in serving /\ stage[c] = "member"
  /\ serving' = {}
  /\ answered' = [answered EXCEPT ![c] = @ \cup {c}]
  /\ UNCHANGED <<open, stage, target>>

\* There is no answer, or it does not reach the browser.
Drop ==
  /\ serving' = {}
  /\ UNCHANGED <<open, stage, target, answered>>

Cut(c) ==
  /\ stage[c] = "member"
  /\ stage' = [stage EXCEPT ![c] = "cut"]
  /\ UNCHANGED <<open, serving, target, answered>>

Depart(c) ==
  /\ stage[c] = "cut" /\ c \notin serving
  /\ stage' = [stage EXCEPT ![c] = "departed"]
  /\ target' = IF target = c THEN NoClient ELSE target
  /\ UNCHANGED <<open, serving, answered>>

Next ==
  \/ Open \/ Close \/ Drop
  \/ \E c \in Clients : Admit(c) \/ Offer(c) \/ Answer(c) \/ Cut(c) \/ Depart(c)

Spec == Init /\ [][Next]_vars
=============================================================================

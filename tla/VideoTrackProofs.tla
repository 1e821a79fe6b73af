--------------------------- MODULE VideoTrackProofs ---------------------------
(***************************************************************************)
(* Safety of VideoTrack, for any number of tracks and calls and on any     *)
(* machine.                                                                *)
(*                                                                         *)
(* Three groups of facts.  Those of Threads hold whatever the owner and    *)
(* the network thread do to each other: where their calls return to, that  *)
(* the thread of the source is joined before joinable() says so, and that  *)
(* nothing comes from the network once the PeerConnection is closed.       *)
(* Those of Turns hold while the two took turns: who stops a track stops   *)
(* and joins the source first, so no frame is in the encoder when the      *)
(* stored one is dropped.  Those of Quiet hold while, besides, only onOpen *)
(* started the source: its thread is then idle unless the track is open or *)
(* somebody is about to join it, which is what rules the faults out.       *)
(***************************************************************************)
EXTENDS VideoTrack, TLAPS

\* The thread of the source has not started, or has ended.
Idle == cam \in {"none", "ended"}

InStop(a) == at[a] \in {"stop", "join"}

\* Where a stands, or will stand after the stop it is in.
Heads(a, labels) == at[a] \in labels \/ (InStop(a) /\ ret[a] \in labels)

\* The network thread stops the track for a lost connection, beyond its first test:
\* it ends with the source destroyed.
Lost == Heads("net", {"null", "close_track", "reset_track", "clear", "forget", "forgotten"})

-----------------------------------------------------------------------------
(* Whatever the threads do. *)

Returns ==
  /\ InStop("owner") => ret["owner"] \in {"null", "reset_track", "reset", "free"}
  /\ InStop("net") => ret["net"] \in {"out", "null", "reset_track", "forgotten"}
  /\ after["owner"] \in {"add", "out"}
  /\ at["net"] = "stop_track" \/ Lost => after["net"] = "forget"

JoinedIsIdle == ~joinable => Idle

ClosedIsSilent ==
  /\ Heads("owner", {"destroy", "source", "free", "gone"}) => transport # "live"
  /\ transport = "freed" => Heads("owner", {"source", "free", "gone"})
  /\ transport # "live" => at["net"] = "out"

\* A source is stopped before it is destroyed, and not by two.
FreedIsIdle ==
  /\ at["owner"] = "gone" => source = "freed"
  /\ InStop("owner") /\ ret["owner"] = "free" => source = "live"
  /\ InStop("net") /\ ret["net"] = "forgotten" => source = "live"
  /\ ~early /\ (source = "freed" \/ at["net"] = "forgotten" \/ at["owner"] = "free") => Idle

CaptureFault == "freed capture" \in faults => early

\* A track is begun only below the bound.
BelowBound ==
  /\ at["owner"] = "add" => epoch < MaxTracks
  /\ Heads("owner", {"stop_track", "null", "close_track", "reset_track", "clear"})
       /\ after["owner"] = "add" => epoch < MaxTracks

Threads ==
  /\ Returns /\ JoinedIsIdle /\ ClosedIsSilent /\ FreedIsIdle /\ CaptureFault
  /\ BelowBound

-----------------------------------------------------------------------------
(* While the owner and the network thread took turns. *)

OneBusy == at["owner"] \in {"out", "gone"} \/ at["net"] = "out"

\* The transport forgets a source before that is destroyed.
SourceLives ==
  /\ source = "freed" => ~sourceSet \/ at["owner"] = "gone"
  /\ \A a \in Actors : at[a] = "stop" => source = "live"
  /\ \A a \in Actors : at[a] = "join" => joinable
  /\ at["owner"] = "add" => source = "live"
  /\ Heads("owner", {"stop_track", "null", "close_track", "reset_track", "clear"})
       /\ after["owner"] = "add" => source = "live"
  /\ Heads("net", {"close_track", "reset_track", "clear", "forget", "forgotten"}) => ~sourceSet

\* The track and the source while either thread goes through a call.
TrackInCall ==
  /\ at["owner"] \in {"add", "clear"} => track = "none"
  /\ at["owner"] \in {"encoder", "init", "hook"} => track = "added" /\ sourceSet
  /\ at["net"] \in NetLabels => track = "open"
  /\ at["net"] = "opened_start" => sourceSet
  /\ InStop("net") /\ ret["net"] = "out" => track = "closed"

\* With no source to stop, there is no track, or none that is being encoded for.
NoSourceNoTrack ==
  source = "live" /\ ~Lost /\ ~sourceSet =>
    track = "none" \/ (at["owner"] \in {"close_track", "reset_track"} /\ Idle)

\* While the owner stops a track, and after it, nothing is in the encoder.
StoppedIsDark ==
  source = "live" /\ ~Lost =>
    /\ at["owner"] = "null" => Idle
    /\ at["owner"] \in {"close_track", "reset_track"} => Idle \/ (track = "none" /\ cam # "encoding")
    /\ at["owner"] = "clear" => cam # "encoding"
    /\ at["owner"] \in {"out", "stop_track", "add"} /\ track = "none" =>
         cam # "encoding" /\ nalus = 0

StoredIsLast == nalus # 0 => nalus = epoch

Turns ==
  ~crossed => OneBusy /\ SourceLives /\ TrackInCall /\ NoSourceNoTrack /\ StoppedIsDark
                /\ StoredIsLast

-----------------------------------------------------------------------------
(* While, besides, the owner did not start the source. *)

RunsWhileOpen ==
  ~Idle => track = "open" \/ (track = "closed" /\ \E a \in Actors : InStop(a))

StoppedIsIdle ==
  /\ \A a \in Actors : at[a] \in {"null", "close_track", "reset_track"} => Idle
  /\ at["owner"] \in {"reset", "close_pc", "destroy", "source", "gone"} => Idle
  /\ Heads("owner", {"free"}) => Idle

RunsOrIsJoined == joinable => running \/ \E a \in Actors : at[a] = "join"

EncodesWithEncoder == cam = "encoding" => encoder # NoEncoder

Quiet ==
  ~crossed /\ ~early =>
    RunsWhileOpen /\ StoppedIsIdle /\ RunsOrIsJoined /\ EncodesWithEncoder /\ faults = {}

IInv == TypeOK /\ Threads /\ Turns /\ Quiet

-----------------------------------------------------------------------------
(* Helpers. *)

\* There are two: the owner and the network thread.
LEMMA TwoActors == Actors = {"owner", "net"}
BY DEF Actors

\* The bounds of the counters.
LEMMA Counts ==
  ASSUME TypeOK
  PROVE  /\ MaxTracks \in Nat /\ epoch \in 0 .. MaxTracks /\ nalus \in 0 .. epoch
         /\ epoch \in 0 .. epoch
         /\ MaxCalls \in Nat /\ calls \in 0 .. MaxCalls
<1>1. epoch \in 0 .. MaxTracks /\ nalus \in 0 .. epoch /\ calls \in 0 .. MaxCalls
  BY DEF TypeOK
<1> QED
  BY <1>1, BoundsAssumption

\* A step towards a label moves one of the two.
LEMMA Moves ==
  ASSUME TypeOK, NEW a \in Actors, NEW l \in Labels,
         at' = [at EXCEPT ![a] = l]
  PROVE  /\ at' \in [Actors -> Labels]
         /\ at'[a] = l /\ \A b \in Actors : b # a => at'[b] = at[b]
BY DEF TypeOK

\* What NoteCrossing remembers.
LEMMA Crossing ==
  ASSUME TypeOK, NoteCrossing
  PROVE  crossed' \in BOOLEAN /\ (~crossed' => ~crossed /\ OneBusy')
BY DEF TypeOK, NoteCrossing, OneBusy

-----------------------------------------------------------------------------
(* The thread of the source. *)

\* The source's thread only moves itself and what it encodes.
LEMMA CamNextStep ==
  ASSUME IInv, CamNext
  PROVE  IInv'
<1>1. /\ TypeOK
      /\ UNCHANGED <<at, ret, after, running, joinable, hooked, source, track, sourceSet,
                     started, encoder, transport, epoch, calls, early>>
      /\ sent' = sent
  BY DEF IInv, CamNext, CamStep, threadVars, countVars, CamTest, CamFrame, CheckTrack, Encode,
         SendEncodedFrame, UseTrack
<1>2. crossed' \in BOOLEAN /\ (~crossed' => ~crossed /\ OneBusy')
  BY <1>1, Crossing DEF CamNext
<1>3. /\ ~Idle /\ cam' \in CamLabels
      /\ cam' = "encoding" => track # "none" /\ encoder # NoEncoder
      /\ \/ nalus' = nalus
         \/ cam = "encoding" /\ cam' # "encoding" /\ nalus' = epoch
  BY DEF Idle, CamNext, CamTest, CamFrame, CheckTrack, Encode, SendEncodedFrame, UseTrack,
     CamLabels, CallbackLabels
<1>4. /\ \/ faults' = faults
         \/ cam = "frame" /\ at["owner"] = "gone" /\ faults' = faults \cup {"freed capture"}
         \/ cam = "check" /\ transport = "freed" /\ faults' = faults \cup {"freed transport"}
         \/ /\ cam = "encoding" /\ encoder = NoEncoder
            /\ faults' = faults \cup {"freed encoder"}
         \/ cam = "use" /\ track = "none" /\ faults' = faults \cup {"null track"}
  BY DEF CamNext, CamTest, CamFrame, CheckTrack, Encode, SendEncodedFrame, UseTrack, FaultIf
<1>5. TypeOK'
  <2>1. nalus' \in 0 .. epoch /\ cam' \in CamLabels
    BY <1>1, <1>3, Counts
  <2>2. {running', joinable', hooked', sourceSet', started', sent', early', crossed'}
          \subseteq BOOLEAN
    BY <1>1, <1>2 DEF TypeOK
  <2> QED
    BY <1>1, <1>4, <2>1, <2>2 DEF TypeOK
<1>6. Threads'
  BY <1>1, <1>3, <1>4
  DEF IInv, Threads, Returns, JoinedIsIdle, ClosedIsSilent, FreedIsIdle, CaptureFault,
      BelowBound, InStop, Heads, Lost
<1>7. Turns'
  BY <1>1, <1>2, <1>3
  DEF IInv, Turns, SourceLives, TrackInCall, NoSourceNoTrack, StoppedIsDark, StoredIsLast,
      InStop, Heads, Lost
<1>8. Quiet'
  BY <1>1, <1>2, <1>3, <1>4
  DEF IInv, Threads, Returns, ClosedIsSilent, Quiet, RunsWhileOpen, StoppedIsIdle,
      RunsOrIsJoined, EncodesWithEncoder, InStop, Heads
<1> QED
  BY <1>5, <1>6, <1>7, <1>8 DEF IInv

-----------------------------------------------------------------------------
(* Inside a call. *)

\* IVideoSource::stop, up to the join.
LEMMA StopStep ==
  ASSUME IInv, NEW a \in Actors, Stop(a), NoteCrossing
  PROVE  IInv'
<1> DEFINE l == IF joinable /\ source = "live" THEN "join" ELSE ret[a]
<1>1. /\ TypeOK /\ at[a] = "stop" /\ at' = [at EXCEPT ![a] = l] /\ l \in Labels
      /\ UNCHANGED <<ret, after, cam, joinable, hooked, source, track, sourceSet, started,
                     encoder, nalus, sent, transport, epoch, calls, early>>
  BY DEF IInv, TypeOK, Stop, GoTo, trackVars, countVars, Labels
<1>2. /\ at' \in [Actors -> Labels] /\ at'[a] = l
      /\ \A b \in Actors : b # a => at'[b] = at[b]
  BY <1>1, Moves
<1>3. crossed' \in BOOLEAN /\ (~crossed' => ~crossed /\ OneBusy')
  BY <1>1, Crossing
<1>4. running' \in BOOLEAN /\ (running' => running)
  BY <1>1 DEF TypeOK, Stop
<1>5. \/ faults' = faults
      \/ source = "freed" /\ faults' = faults \cup {"freed source"}
  BY DEF Stop, FaultIf
<1>6. TypeOK'
  BY <1>1, <1>2, <1>3, <1>4, <1>5 DEF TypeOK
<1>7. Threads'
  <2>1. CASE a = "owner"
    BY <1>1, <1>2, <1>5, <2>1, TwoActors
    DEF IInv, Threads, Returns, JoinedIsIdle, ClosedIsSilent, FreedIsIdle, CaptureFault,
        BelowBound, InStop, Heads, Lost, Idle
  <2>2. CASE a = "net"
    BY <1>1, <1>2, <1>5, <2>2, TwoActors
    DEF IInv, Threads, Returns, JoinedIsIdle, ClosedIsSilent, FreedIsIdle, CaptureFault,
        BelowBound, InStop, Heads, Lost, Idle
  <2> QED
    BY <2>1, <2>2, TwoActors
<1>8. Turns'
  <2>1. CASE a = "owner"
    <3> SUFFICES ASSUME ~crossed', ~crossed PROVE Turns'
      BY <1>3 DEF Turns
    <3>1. at["owner"] = "stop" /\ at'["net"] = at["net"] /\ source = "live"
      BY <1>1, <1>2, <2>1, TwoActors DEF IInv, Turns, SourceLives
    <3>2. ret["owner"] \in {"null", "reset_track", "reset", "free"}
      BY <3>1 DEF IInv, Threads, Returns, InStop
    <3>3. SourceLives'
      BY <1>1, <1>2, <2>1, <3>1, <3>2, TwoActors DEF IInv, Turns, SourceLives, InStop, Heads
    <3>4. TrackInCall'
      BY <1>1, <1>2, <2>1, <3>1, <3>2 DEF IInv, Turns, TrackInCall, InStop
    <3>5. NoSourceNoTrack' /\ StoppedIsDark'
      BY <1>1, <3>2
      DEF IInv, Threads, JoinedIsIdle, Turns, NoSourceNoTrack, StoppedIsDark, InStop, Heads,
          Lost, Idle
    <3> QED
      BY <1>1, <1>3, <3>3, <3>4, <3>5 DEF IInv, Turns, StoredIsLast
  <2>2. CASE a = "net"
    <3> SUFFICES ASSUME ~crossed', ~crossed PROVE Turns'
      BY <1>3 DEF Turns
    <3>1. at["net"] = "stop" /\ at'["owner"] = at["owner"] /\ source = "live"
      BY <1>1, <1>2, <2>2, TwoActors DEF IInv, Turns, SourceLives
    <3>2. ret["net"] \in {"out", "null", "reset_track", "forgotten"}
      BY <3>1 DEF IInv, Threads, Returns, InStop
    <3>3. SourceLives'
      BY <1>1, <1>2, <2>2, <3>1, <3>2, TwoActors DEF IInv, Turns, SourceLives, InStop, Heads
    <3>4. TrackInCall'
      BY <1>1, <1>2, <2>2, <3>1, <3>2 DEF IInv, Turns, TrackInCall, InStop, NetLabels
    <3>5. Lost' <=> Lost
      BY <1>1, <1>2, <2>2, <3>1, <3>2 DEF InStop, Heads, Lost
    <3>6. NoSourceNoTrack' /\ StoppedIsDark'
      BY <1>1, <3>1, <3>5 DEF IInv, Turns, NoSourceNoTrack, StoppedIsDark, Idle
    <3> QED
      BY <1>1, <1>3, <3>3, <3>4, <3>6 DEF IInv, Turns, StoredIsLast
  <2> QED
    BY <2>1, <2>2, TwoActors
<1>9. Quiet'
  <2>1. CASE a = "owner"
    BY <1>1, <1>2, <1>3, <1>5, TwoActors
    DEF IInv, Threads, JoinedIsIdle, Turns, SourceLives, Quiet, RunsWhileOpen,
        StoppedIsIdle, RunsOrIsJoined, EncodesWithEncoder, InStop, Heads, Idle
  <2>2. CASE a = "net"
    BY <1>1, <1>2, <1>3, <1>5, TwoActors
    DEF IInv, Threads, JoinedIsIdle, Turns, SourceLives, Quiet, RunsWhileOpen,
        StoppedIsIdle, RunsOrIsJoined, EncodesWithEncoder, InStop, Heads, Idle
  <2> QED
    BY <2>1, <2>2, TwoActors
<1> QED
  BY <1>6, <1>7, <1>8, <1>9 DEF IInv

\* IVideoSource::stop: the thread is joined.
LEMMA JoinStep ==
  ASSUME IInv, NEW a \in Actors, Join(a), NoteCrossing
  PROVE  IInv'
<1> DEFINE l == ret[a]
<1>1. /\ TypeOK /\ at[a] = "join" /\ at' = [at EXCEPT ![a] = l] /\ l \in Labels
      /\ Idle /\ joinable' = FALSE
      /\ UNCHANGED <<ret, after, cam, running, hooked, source, track, sourceSet, started,
                     encoder, nalus, sent, transport, epoch, calls, early>>
  BY DEF IInv, TypeOK, Join, GoTo, trackVars, countVars, Idle
<1>2. /\ at' \in [Actors -> Labels] /\ at'[a] = l
      /\ \A b \in Actors : b # a => at'[b] = at[b]
  BY <1>1, Moves
<1>3. crossed' \in BOOLEAN /\ (~crossed' => ~crossed /\ OneBusy')
  BY <1>1, Crossing
<1>4. \/ faults' = faults
      \/ /\ ~joinable \/ \E b \in Actors \ {a} : at[b] = "join"
         /\ faults' = faults \cup {"joined twice"}
  BY DEF Join, FaultIf
<1>5. TypeOK'
  BY <1>1, <1>2, <1>3, <1>4 DEF TypeOK
<1>6. Threads'
  <2>1. CASE a = "owner"
    BY <1>1, <1>2, <1>4, <2>1, TwoActors
    DEF IInv, Threads, Returns, JoinedIsIdle, ClosedIsSilent, FreedIsIdle, CaptureFault,
        BelowBound, InStop, Heads, Lost, Idle
  <2>2. CASE a = "net"
    BY <1>1, <1>2, <1>4, <2>2, TwoActors
    DEF IInv, Threads, Returns, JoinedIsIdle, ClosedIsSilent, FreedIsIdle, CaptureFault,
        BelowBound, InStop, Heads, Lost, Idle
  <2> QED
    BY <2>1, <2>2, TwoActors
<1>7. Turns'
  <2>1. CASE a = "owner"
    BY <1>1, <1>2, <1>3, <2>1, TwoActors
    DEF IInv, Threads, Returns, Turns, OneBusy, SourceLives, TrackInCall, NoSourceNoTrack,
        StoppedIsDark, StoredIsLast, InStop, Heads, Lost, Idle
  <2>2. CASE a = "net"
    BY <1>1, <1>2, <1>3, <2>2, TwoActors
    DEF IInv, Threads, Returns, Turns, OneBusy, SourceLives, TrackInCall, NoSourceNoTrack,
        StoppedIsDark, StoredIsLast, InStop, Heads, Lost, NetLabels
  <2> QED
    BY <2>1, <2>2, TwoActors
<1>8. Quiet'
  <2>1. CASE a = "owner"
    BY <1>1, <1>3, <1>4, TwoActors
    DEF IInv, Turns, OneBusy, SourceLives, Quiet, RunsWhileOpen, StoppedIsIdle,
        RunsOrIsJoined, EncodesWithEncoder, Idle
  <2>2. CASE a = "net"
    BY <1>1, <1>3, <1>4, TwoActors
    DEF IInv, Turns, OneBusy, SourceLives, Quiet, RunsWhileOpen, StoppedIsIdle,
        RunsOrIsJoined, EncodesWithEncoder, Idle
  <2> QED
    BY <2>1, <2>2, TwoActors
<1> QED
  BY <1>5, <1>6, <1>7, <1>8 DEF IInv

\* stopVideoTrack: the source is stopped, if it is known.
LEMMA StopTrackSourceStep ==
  ASSUME IInv, NEW a \in Actors, StopTrackSource(a), NoteCrossing
  PROVE  IInv'
<1> DEFINE l == IF sourceSet THEN "stop" ELSE "close_track"
<1>1. /\ TypeOK /\ at[a] = "stop_track" /\ at' = [at EXCEPT ![a] = l] /\ l \in Labels
      /\ source \in {"live", "freed"}
      /\ UNCHANGED <<after, cam, running, joinable, hooked, source, track, sourceSet, started,
                     encoder, nalus, sent, transport, epoch, calls, early, faults>>
  BY DEF IInv, TypeOK, StopTrackSource, CallStop, GoTo, sourceVars, trackVars, countVars, Labels
<1>2. /\ at' \in [Actors -> Labels] /\ at'[a] = l
      /\ \A b \in Actors : b # a => at'[b] = at[b]
  BY <1>1, Moves
<1>3. crossed' \in BOOLEAN /\ (~crossed' => ~crossed /\ OneBusy')
  BY <1>1, Crossing
<1>4. /\ ret' \in [Actors -> Labels] /\ \A b \in Actors : b # a => ret'[b] = ret[b]
      /\ ret'[a] = IF sourceSet THEN "null" ELSE ret[a]
  BY DEF IInv, TypeOK, StopTrackSource, CallStop, GoTo, Labels
<1>5. TypeOK'
  BY <1>1, <1>2, <1>3, <1>4 DEF TypeOK
<1>6. Threads'
  <2>1. CASE a = "owner"
    BY <1>1, <1>2, <1>4, <2>1, TwoActors
    DEF IInv, Threads, Returns, JoinedIsIdle, ClosedIsSilent, FreedIsIdle, CaptureFault,
        BelowBound, InStop, Heads, Lost, Idle
  <2>2. CASE a = "net"
    BY <1>1, <1>2, <1>4, <2>2, TwoActors
    DEF IInv, Threads, Returns, JoinedIsIdle, ClosedIsSilent, FreedIsIdle, CaptureFault,
        BelowBound, InStop, Heads, Idle
  <2> QED
    BY <2>1, <2>2, TwoActors
<1>7. Turns'
  <2>1. CASE a = "owner"
    BY <1>1, <1>3, <1>4, <2>1, TwoActors
    DEF IInv, Turns, SourceLives, TrackInCall, NoSourceNoTrack, StoppedIsDark, StoredIsLast,
        InStop, Heads, Lost
  <2>2. CASE a = "net"
    BY <1>1, <1>2, <1>3, <1>4, TwoActors
    DEF IInv, Threads, Turns, SourceLives, TrackInCall, NoSourceNoTrack, StoppedIsDark,
        StoredIsLast, InStop, Heads, Lost, NetLabels, ClosedIsSilent
  <2> QED
    BY <2>1, <2>2, TwoActors
<1>8. Quiet'
  <2>1. CASE a = "owner"
    BY <1>1, <1>3, <1>4, TwoActors
    DEF IInv, Threads, FreedIsIdle, Turns, OneBusy, NoSourceNoTrack, Quiet, RunsWhileOpen,
        StoppedIsIdle, RunsOrIsJoined, EncodesWithEncoder, InStop, Heads, Lost, Idle
  <2>2. CASE a = "net"
    BY <1>1, <1>3, <1>4, <2>2, TwoActors
    DEF IInv, Threads, FreedIsIdle, Turns, NoSourceNoTrack, Quiet, RunsWhileOpen,
        StoppedIsIdle, RunsOrIsJoined, EncodesWithEncoder, InStop, Heads, Lost, Idle
  <2> QED
    BY <2>1, <2>2, TwoActors
<1> QED
  BY <1>5, <1>6, <1>7, <1>8 DEF IInv

\* ... and forgotten.
LEMMA ForgetSourceStep ==
  ASSUME IInv, NEW a \in Actors, ForgetSource(a), NoteCrossing
  PROVE  IInv'
<1> DEFINE l == "close_track"
<1>1. /\ TypeOK /\ at[a] = "null" /\ at' = [at EXCEPT ![a] = l] /\ l \in Labels
      /\ sourceSet' = FALSE /\ started' = FALSE
      /\ UNCHANGED <<ret, after, cam, running, joinable, hooked, source, track, encoder, nalus,
                     sent, transport, epoch, calls, early, faults>>
  BY DEF IInv, ForgetSource, GoTo, sourceVars, countVars, Labels
<1>2. /\ at' \in [Actors -> Labels] /\ at'[a] = l
      /\ \A b \in Actors : b # a => at'[b] = at[b]
  BY <1>1, Moves
<1>3. crossed' \in BOOLEAN /\ (~crossed' => ~crossed /\ OneBusy')
  BY <1>1, Crossing
<1>5. TypeOK'
  BY <1>1, <1>2, <1>3 DEF TypeOK
<1>6. Threads'
  <2>1. CASE a = "owner"
    BY <1>1, <1>2, <2>1, TwoActors
    DEF IInv, Threads, Returns, JoinedIsIdle, ClosedIsSilent, FreedIsIdle, CaptureFault,
        BelowBound, InStop, Heads, Lost, Idle
  <2>2. CASE a = "net"
    BY <1>1, <1>2, <2>2, TwoActors
    DEF IInv, Threads, Returns, JoinedIsIdle, ClosedIsSilent, FreedIsIdle, CaptureFault,
        BelowBound, InStop, Heads, Lost, Idle
  <2> QED
    BY <2>1, <2>2, TwoActors
<1>7. Turns'
  <2>1. CASE a = "owner"
    BY <1>1, <1>2, <1>3, <2>1
    DEF IInv, Turns, OneBusy, SourceLives, TrackInCall, NoSourceNoTrack, StoppedIsDark,
        StoredIsLast, InStop, Heads, Lost, Idle
  <2>2. CASE a = "net"
    BY <1>1, <1>3, <2>2
    DEF IInv, Turns, OneBusy, SourceLives, TrackInCall, NoSourceNoTrack, StoppedIsDark,
        StoredIsLast, InStop, Heads, Lost, NetLabels
  <2> QED
    BY <2>1, <2>2, TwoActors
<1>8. Quiet'
  <2>1. CASE a = "owner"
    BY <1>1, <1>3
    DEF IInv, Quiet, RunsWhileOpen, StoppedIsIdle, RunsOrIsJoined, EncodesWithEncoder, Idle
  <2>2. CASE a = "net"
    BY <1>1, <1>3
    DEF IInv, Quiet, RunsWhileOpen, StoppedIsIdle, RunsOrIsJoined, EncodesWithEncoder, Idle
  <2> QED
    BY <2>1, <2>2, TwoActors
<1> QED
  BY <1>5, <1>6, <1>7, <1>8 DEF IInv

\* The track is dropped.
LEMMA ResetTrackStep ==
  ASSUME IInv, NEW a \in Actors, ResetTrack(a), NoteCrossing
  PROVE  IInv'
<1> DEFINE l == "clear"
<1>1. /\ TypeOK /\ at[a] = "reset_track" /\ at' = [at EXCEPT ![a] = l] /\ l \in Labels
      /\ track' = "none"
      /\ UNCHANGED <<ret, after, cam, running, joinable, hooked, source, sourceSet, started,
                     encoder, nalus, sent, transport, epoch, calls, early, faults>>
  BY DEF IInv, ResetTrack, GoTo, sourceVars, countVars, Labels
<1>2. /\ at' \in [Actors -> Labels] /\ at'[a] = l
      /\ \A b \in Actors : b # a => at'[b] = at[b]
  BY <1>1, Moves
<1>3. crossed' \in BOOLEAN /\ (~crossed' => ~crossed /\ OneBusy')
  BY <1>1, Crossing
<1>5. TypeOK'
  BY <1>1, <1>2, <1>3 DEF TypeOK
<1>6. Threads'
  <2>1. CASE a = "owner"
    BY <1>1, <1>2, <2>1, TwoActors
    DEF IInv, Threads, Returns, JoinedIsIdle, ClosedIsSilent, FreedIsIdle, CaptureFault,
        BelowBound, InStop, Heads, Lost, Idle
  <2>2. CASE a = "net"
    BY <1>1, <1>2, <2>2, TwoActors
    DEF IInv, Threads, Returns, JoinedIsIdle, ClosedIsSilent, FreedIsIdle, CaptureFault,
        BelowBound, InStop, Heads, Lost, Idle
  <2> QED
    BY <2>1, <2>2, TwoActors
<1>7. Turns'
  <2>1. CASE a = "owner"
    BY <1>1, <1>3, TwoActors
    DEF IInv, Turns, OneBusy, SourceLives, TrackInCall, NoSourceNoTrack, StoppedIsDark,
        StoredIsLast, InStop, Heads, Lost, Idle, NetLabels
  <2>2. CASE a = "net"
    BY <1>1, <1>3, <2>2
    DEF IInv, Turns, SourceLives, TrackInCall, NoSourceNoTrack, StoppedIsDark, StoredIsLast,
        InStop, Heads, Lost, NetLabels
  <2> QED
    BY <2>1, <2>2, TwoActors
<1>8. Quiet'
  <2>1. CASE a = "owner"
    BY <1>1, <1>3
    DEF IInv, Quiet, RunsWhileOpen, StoppedIsIdle, RunsOrIsJoined, EncodesWithEncoder, Idle
  <2>2. CASE a = "net"
    BY <1>1, <1>3
    DEF IInv, Quiet, RunsWhileOpen, StoppedIsIdle, RunsOrIsJoined, EncodesWithEncoder, Idle
  <2> QED
    BY <2>1, <2>2, TwoActors
<1> QED
  BY <1>5, <1>6, <1>7, <1>8 DEF IInv

\* What was stored for it is dropped.
LEMMA ClearNalusStep ==
  ASSUME IInv, NEW a \in Actors, ClearNalus(a), NoteCrossing
  PROVE  IInv'
<1> DEFINE l == after[a]
<1>1. /\ TypeOK /\ at[a] = "clear" /\ at' = [at EXCEPT ![a] = l] /\ l \in Labels
      /\ nalus' = 0 /\ sent' = FALSE
      /\ UNCHANGED <<ret, after, cam, running, joinable, hooked, source, track, sourceSet,
                     started, encoder, transport, epoch, calls, early, faults>>
  BY DEF IInv, TypeOK, ClearNalus, GoTo, sourceVars, countVars, Labels
<1>2. /\ at' \in [Actors -> Labels] /\ at'[a] = l
      /\ \A b \in Actors : b # a => at'[b] = at[b]
  BY <1>1, Moves
<1>3. crossed' \in BOOLEAN /\ (~crossed' => ~crossed /\ OneBusy')
  BY <1>1, Crossing
<1>5. TypeOK'
  <2>1. nalus' \in 0 .. epoch
    BY <1>1, Counts
  <2> QED
    BY <1>1, <1>2, <1>3, <2>1 DEF TypeOK
<1>6. Threads'
  <2>1. CASE a = "owner"
    BY <1>1, <1>2, <2>1, TwoActors
    DEF IInv, Threads, Returns, JoinedIsIdle, ClosedIsSilent, FreedIsIdle, CaptureFault,
        BelowBound, InStop, Heads, Lost, Idle
  <2>2. CASE a = "net"
    BY <1>1, <1>2, <2>2, TwoActors
    DEF IInv, Threads, Returns, JoinedIsIdle, ClosedIsSilent, FreedIsIdle, CaptureFault,
        BelowBound, InStop, Heads, Lost, Idle
  <2> QED
    BY <2>1, <2>2, TwoActors
<1>7. Turns'
  <2>1. CASE a = "owner"
    BY <1>1, <1>3, <2>1
    DEF IInv, Threads, Returns, Turns, SourceLives, TrackInCall, NoSourceNoTrack,
        StoppedIsDark, StoredIsLast, InStop, Heads, Lost
  <2>2. CASE a = "net"
    BY <1>1, <1>3, TwoActors
    DEF IInv, Threads, Returns, Turns, SourceLives, TrackInCall, NoSourceNoTrack,
        StoppedIsDark, StoredIsLast, InStop, Heads, Lost, NetLabels
  <2> QED
    BY <2>1, <2>2, TwoActors
<1>8. Quiet'
  <2>1. CASE a = "owner"
    BY <1>1, <1>3, <2>1
    DEF IInv, Turns, TrackInCall, Quiet, RunsWhileOpen, StoppedIsIdle, RunsOrIsJoined,
        EncodesWithEncoder, Idle
  <2>2. CASE a = "net"
    BY <1>1, <1>3, TwoActors
    DEF IInv, Threads, Returns, Quiet, RunsWhileOpen, StoppedIsIdle, RunsOrIsJoined,
        EncodesWithEncoder, InStop, Heads, Lost, Idle
  <2> QED
    BY <2>1, <2>2, TwoActors
<1> QED
  BY <1>5, <1>6, <1>7, <1>8 DEF IInv

\* createEncoder and initialize give encoders.
LEMMA CreatedIsEncoder ==
  /\ NoEncoder \in Encoders /\ CreatedEncoders \subseteq Encoders
  /\ \A e \in Encoders : LET i == [e EXCEPT !.initialized = TRUE]
                        IN  i \in Encoders /\ i # NoEncoder
<1>1. \A type \in {"none", "kSoftwareX264", "kHardwareNVENC"} : NewEncoder(type) \in Encoders
  BY DEF NewEncoder, Encoders
<1>2. GetBestEncoderType \in {"kSoftwareX264", "kHardwareNVENC", "kHardwareQuickSync"}
  BY DEF GetBestEncoderType
<1>3. CreatedEncoders \subseteq {NewEncoder("kSoftwareX264"), NewEncoder("kHardwareNVENC")}
  BY <1>2 DEF CreatedEncoders
<1> QED
  BY <1>1, <1>3 DEF NoEncoder, Encoders

\* startVideoTrack: an earlier track is stopped first.
LEMMA StartVideoTrackStep ==
  ASSUME IInv, StartVideoTrack, NoteCrossing
  PROVE  IInv'
<1> DEFINE l == IF track # "none" THEN "stop_track" ELSE "add"
<1>1. /\ TypeOK /\ at["owner"] = "out" /\ at' = [at EXCEPT !["owner"] = l] /\ l \in Labels
      /\ source = "live" /\ epoch < MaxTracks
      /\ UNCHANGED <<ret, cam, running, joinable, hooked, source, track, sourceSet, started,
                     encoder, nalus, sent, transport, epoch, calls, early, faults>>
  BY DEF IInv, StartVideoTrack, CallStopTrack, GoTo, sourceVars, trackVars, countVars,
         Labels, OwnerLabels
<1>2. /\ at' \in [Actors -> Labels] /\ at'["owner"] = l
      /\ at'["net"] = at["net"]
  BY <1>1, Moves, TwoActors
<1>3. crossed' \in BOOLEAN /\ (~crossed' => ~crossed /\ OneBusy')
  BY <1>1, Crossing
<1>4. /\ after' \in [Actors -> Labels] /\ after'["net"] = after["net"]
      /\ after'["owner"] = IF track # "none" THEN "add" ELSE after["owner"]
  BY DEF IInv, TypeOK, StartVideoTrack, CallStopTrack, GoTo, Labels, Actors, OwnerLabels
<1>5. TypeOK'
  BY <1>1, <1>2, <1>3, <1>4 DEF TypeOK
<1>6. Threads'
  BY <1>1, <1>2, <1>4, TwoActors
  DEF IInv, Threads, Returns, JoinedIsIdle, ClosedIsSilent, FreedIsIdle, CaptureFault,
      BelowBound, InStop, Heads, Lost, Idle
<1>7. Turns'
  BY <1>1, <1>3
  DEF IInv, Turns, SourceLives, TrackInCall, NoSourceNoTrack, StoppedIsDark, StoredIsLast,
      InStop, Heads, Lost
<1>8. Quiet'
  BY <1>1, <1>3
  DEF IInv, Quiet, RunsWhileOpen, StoppedIsIdle, RunsOrIsJoined, EncodesWithEncoder, InStop,
      Heads, Idle
<1> QED
  BY <1>5, <1>6, <1>7, <1>8 DEF IInv

\* The encoder that createEncoder gives.
LEMMA CreateEncoderStep ==
  ASSUME IInv, CreateEncoder, NoteCrossing
  PROVE  IInv'
<1> DEFINE l == IF encoder' = NoEncoder THEN "out" ELSE "init"
<1>1. /\ TypeOK /\ at["owner"] = "encoder" /\ at' = [at EXCEPT !["owner"] = l] /\ l \in Labels
      /\ UNCHANGED <<ret, after, cam, running, joinable, hooked, source, track, sourceSet,
                     started, nalus, sent, transport, epoch, calls, early, faults>>
  BY DEF IInv, CreateEncoder, GoTo, sourceVars, countVars, Labels, OwnerLabels
<1>2. /\ at' \in [Actors -> Labels] /\ at'["owner"] = l
      /\ at'["net"] = at["net"]
  BY <1>1, Moves, TwoActors
<1>3. crossed' \in BOOLEAN /\ (~crossed' => ~crossed /\ OneBusy')
  BY <1>1, Crossing
<1>4. encoder' \in Encoders
  BY CreatedIsEncoder DEF CreateEncoder
<1>5. TypeOK'
  BY <1>1, <1>2, <1>3, <1>4 DEF TypeOK
<1>6. Threads'
  BY <1>1, <1>2, TwoActors
  DEF IInv, Threads, Returns, JoinedIsIdle, ClosedIsSilent, FreedIsIdle, CaptureFault,
      BelowBound, InStop, Heads, Lost, Idle
<1>7. Turns'
  BY <1>1, <1>3
  DEF IInv, Turns, SourceLives, TrackInCall, NoSourceNoTrack, StoppedIsDark, StoredIsLast,
      InStop, Heads
<1>8. Quiet'
  BY <1>1, <1>3
  DEF IInv, Turns, TrackInCall, Quiet, RunsWhileOpen, StoppedIsIdle, RunsOrIsJoined,
      EncodesWithEncoder, Idle
<1> QED
  BY <1>5, <1>6, <1>7, <1>8 DEF IInv

\* The frame callback and those of the track are set.
LEMMA HookCallbacksStep ==
  ASSUME IInv, HookCallbacks, NoteCrossing
  PROVE  IInv'
<1> DEFINE l == "out"
<1>1. /\ TypeOK /\ at["owner"] = "hook" /\ at' = [at EXCEPT !["owner"] = l] /\ l \in Labels
      /\ hooked' = TRUE /\ track' = IF track = "added" THEN "new" ELSE track
      /\ UNCHANGED <<ret, after, cam, running, joinable, source, sourceSet, started,
                     encoder, nalus, sent, transport, epoch, calls, early, faults>>
  BY DEF IInv, HookCallbacks, GoTo, countVars, Labels
<1>2. /\ at' \in [Actors -> Labels] /\ at'["owner"] = l
      /\ at'["net"] = at["net"]
  BY <1>1, Moves, TwoActors
<1>3. crossed' \in BOOLEAN /\ (~crossed' => ~crossed /\ OneBusy')
  BY <1>1, Crossing
<1>5. TypeOK'
  BY <1>1, <1>2, <1>3 DEF TypeOK
<1>6. Threads'
  BY <1>1, <1>2
  DEF IInv, Threads, Returns, JoinedIsIdle, ClosedIsSilent, FreedIsIdle, CaptureFault,
      BelowBound, InStop, Heads, Lost, Idle
<1>7. Turns'
  BY <1>1, <1>2, <1>3
  DEF IInv, Turns, SourceLives, TrackInCall, NoSourceNoTrack, StoppedIsDark, StoredIsLast,
      InStop, Heads
<1>8. Quiet'
  BY <1>1, <1>3
  DEF IInv, Quiet, RunsWhileOpen, StoppedIsIdle, RunsOrIsJoined, EncodesWithEncoder, InStop,
      Heads, Idle
<1> QED
  BY <1>5, <1>6, <1>7, <1>8 DEF IInv

\* The transport is shut down: the track is dropped ...
LEMMA ResetStep ==
  ASSUME IInv, ShutdownReset, NoteCrossing
  PROVE  IInv'
<1> DEFINE l == "close_pc"
<1>1. /\ TypeOK /\ at["owner"] = "reset" /\ at' = [at EXCEPT !["owner"] = l] /\ l \in Labels
      /\ track' = "none"
      /\ UNCHANGED <<ret, after, cam, running, joinable, hooked, source, sourceSet, started,
                     encoder, nalus, sent, transport, epoch, calls, early, faults>>
  BY DEF IInv, ShutdownReset, GoTo, sourceVars, countVars, Labels, OwnerLabels
<1>2. /\ at' \in [Actors -> Labels] /\ at'["owner"] = l
      /\ at'["net"] = at["net"]
  BY <1>1, Moves, TwoActors
<1>3. crossed' \in BOOLEAN /\ (~crossed' => ~crossed /\ OneBusy')
  BY <1>1, Crossing
<1>5. TypeOK'
  BY <1>1, <1>2, <1>3 DEF TypeOK
<1>6. Threads'
  BY <1>1, <1>2
  DEF IInv, Threads, Returns, JoinedIsIdle, ClosedIsSilent, FreedIsIdle, CaptureFault,
      BelowBound, InStop, Heads, Lost, Idle
<1>7. Turns'
  BY <1>1, <1>3
  DEF IInv, Turns, OneBusy, SourceLives, TrackInCall, NoSourceNoTrack, StoppedIsDark,
      StoredIsLast, InStop, Heads, NetLabels
<1>8. Quiet'
  BY <1>1, <1>3
  DEF IInv, Quiet, RunsWhileOpen, StoppedIsIdle, RunsOrIsJoined, EncodesWithEncoder, Idle
<1> QED
  BY <1>5, <1>6, <1>7, <1>8 DEF IInv

\* ... the PeerConnection closed ...
LEMMA ClosePeerConnectionStep ==
  ASSUME IInv, ClosePeerConnection, NoteCrossing
  PROVE  IInv'
<1> DEFINE l == "destroy"
<1>1. /\ TypeOK /\ at["owner"] = "close_pc" /\ at' = [at EXCEPT !["owner"] = l] /\ l \in Labels
      /\ at["net"] = "out"
      /\ transport' = "closed" /\ nalus' = 0 /\ sent' = FALSE
      /\ UNCHANGED <<ret, after, cam, running, joinable, hooked, source, track, sourceSet,
                     started, encoder, epoch, calls, early, faults>>
  BY DEF IInv, ClosePeerConnection, GoTo, sourceVars, countVars, Labels, OwnerLabels
<1>2. /\ at' \in [Actors -> Labels] /\ at'["owner"] = l
      /\ at'["net"] = at["net"]
  BY <1>1, Moves, TwoActors
<1>3. crossed' \in BOOLEAN /\ (~crossed' => ~crossed /\ OneBusy')
  BY <1>1, Crossing
<1>5. TypeOK'
  <2>1. nalus' \in 0 .. epoch
    BY <1>1, Counts
  <2> QED
    BY <1>1, <1>2, <1>3, <2>1 DEF TypeOK
<1>6. Threads'
  BY <1>1, <1>2
  DEF IInv, Threads, Returns, JoinedIsIdle, ClosedIsSilent, FreedIsIdle, CaptureFault,
      BelowBound, InStop, Heads, Lost, Idle
<1>7. Turns'
  BY <1>1, <1>3
  DEF IInv, Turns, SourceLives, TrackInCall, NoSourceNoTrack, StoppedIsDark, StoredIsLast,
      InStop, Heads, Lost
<1>8. Quiet'
  BY <1>1, <1>3
  DEF IInv, Quiet, RunsWhileOpen, StoppedIsIdle, RunsOrIsJoined, EncodesWithEncoder, Idle
<1> QED
  BY <1>5, <1>6, <1>7, <1>8 DEF IInv

\* ... and the transport destroyed, with its encoder.
LEMMA DestroyTransportStep ==
  ASSUME IInv, DestroyTransport, NoteCrossing
  PROVE  IInv'
<1> DEFINE l == "source"
<1>1. /\ TypeOK /\ at["owner"] = "destroy" /\ at' = [at EXCEPT !["owner"] = l] /\ l \in Labels
      /\ transport' = "freed" /\ encoder' = NoEncoder
      /\ UNCHANGED <<ret, after, cam, running, joinable, hooked, source, track, sourceSet,
                     started, nalus, sent, epoch, calls, early>>
  BY DEF IInv, DestroyTransport, GoTo, sourceVars, countVars, Labels, OwnerLabels
<1>2. /\ at' \in [Actors -> Labels] /\ at'["owner"] = l
      /\ at'["net"] = at["net"]
  BY <1>1, Moves, TwoActors
<1>3. crossed' \in BOOLEAN /\ (~crossed' => ~crossed /\ OneBusy')
  BY <1>1, Crossing
<1>4. /\ \/ faults' = faults
         \/ cam = "encoding" /\ faults' = faults \cup {"freed encoder"}
      /\ encoder' \in Encoders
  BY <1>1, CreatedIsEncoder DEF DestroyTransport, FaultIf
<1>5. TypeOK'
  BY <1>1, <1>2, <1>3, <1>4 DEF TypeOK
<1>6. Threads'
  BY <1>1, <1>2, <1>4
  DEF IInv, Threads, Returns, JoinedIsIdle, ClosedIsSilent, FreedIsIdle, CaptureFault,
      BelowBound, InStop, Heads, Lost, Idle
<1>7. Turns'
  BY <1>1, <1>2, <1>3
  DEF IInv, Turns, SourceLives, TrackInCall, NoSourceNoTrack, StoppedIsDark, StoredIsLast,
      InStop, Heads, Lost
<1>8. Quiet'
  BY <1>1, <1>2, <1>3, <1>4
  DEF IInv, Quiet, RunsWhileOpen, StoppedIsIdle, RunsOrIsJoined, EncodesWithEncoder, Idle
<1> QED
  BY <1>5, <1>6, <1>7, <1>8 DEF IInv

\* The coordinator stops its source ...
LEMMA StopSourceStep ==
  ASSUME IInv, StopSource, NoteCrossing
  PROVE  IInv'
<1> DEFINE l == IF source = "live" THEN "stop" ELSE "gone"
<1>1. /\ TypeOK /\ at["owner"] = "source" /\ at' = [at EXCEPT !["owner"] = l] /\ l \in Labels
      /\ source \in {"live", "freed"}
      /\ UNCHANGED <<after, cam, running, joinable, hooked, source, track, sourceSet,
                     started, encoder, nalus, sent, transport, epoch, calls, early, faults>>
  BY DEF IInv, TypeOK, StopSource, CallStop, GoTo, sourceVars, trackVars, countVars, Labels,
         OwnerLabels
<1>2. /\ at' \in [Actors -> Labels] /\ at'["owner"] = l
      /\ at'["net"] = at["net"]
  BY <1>1, Moves, TwoActors
<1>3. crossed' \in BOOLEAN /\ (~crossed' => ~crossed /\ OneBusy')
  BY <1>1, Crossing
<1>4. /\ ret' \in [Actors -> Labels] /\ ret'["net"] = ret["net"]
      /\ ret'["owner"] = IF source = "live" THEN "free" ELSE ret["owner"]
  BY DEF IInv, TypeOK, StopSource, CallStop, GoTo, Labels, Actors, OwnerLabels
<1>5. TypeOK'
  BY <1>1, <1>2, <1>3, <1>4 DEF TypeOK
<1>6. Threads'
  BY <1>1, <1>2, <1>4, TwoActors
  DEF IInv, Threads, Returns, JoinedIsIdle, ClosedIsSilent, FreedIsIdle, CaptureFault,
      BelowBound, InStop, Heads, Lost, Idle
<1>7. Turns'
  BY <1>1, <1>3, <1>4
  DEF IInv, Turns, SourceLives, TrackInCall, NoSourceNoTrack, StoppedIsDark, StoredIsLast,
      InStop, Heads, Lost
<1>8. Quiet'
  BY <1>1, <1>3
  DEF IInv, Quiet, RunsWhileOpen, StoppedIsIdle, RunsOrIsJoined, EncodesWithEncoder, Idle
<1> QED
  BY <1>5, <1>6, <1>7, <1>8 DEF IInv

\* ... and destroys it.
LEMMA FreeSourceStep ==
  ASSUME IInv, FreeSource, NoteCrossing
  PROVE  IInv'
<1> DEFINE l == "gone"
<1>1. /\ TypeOK /\ at["owner"] = "free" /\ at' = [at EXCEPT !["owner"] = l] /\ l \in Labels
      /\ source' = "freed"
      /\ UNCHANGED <<ret, after, cam, running, joinable, hooked, track, sourceSet, started,
                     encoder, nalus, sent, transport, epoch, calls, early, faults>>
  BY DEF IInv, FreeSource, GoTo, trackVars, countVars, Labels, OwnerLabels
<1>2. /\ at' \in [Actors -> Labels] /\ at'["owner"] = l
      /\ at'["net"] = at["net"]
  BY <1>1, Moves, TwoActors
<1>3. crossed' \in BOOLEAN /\ (~crossed' => ~crossed /\ OneBusy')
  BY <1>1, Crossing
<1>5. TypeOK'
  BY <1>1, <1>2, <1>3 DEF TypeOK
<1>6. Threads'
  BY <1>1, <1>2
  DEF IInv, Threads, Returns, JoinedIsIdle, ClosedIsSilent, FreedIsIdle, CaptureFault,
      BelowBound, InStop, Heads, Lost, Idle
<1>7. Turns'
  BY <1>1, <1>2, <1>3, TwoActors
  DEF IInv, Turns, OneBusy, SourceLives, TrackInCall, NoSourceNoTrack, StoppedIsDark,
      StoredIsLast, InStop, Heads
<1>8. Quiet'
  BY <1>1, <1>3
  DEF IInv, Quiet, RunsWhileOpen, StoppedIsIdle, RunsOrIsJoined, EncodesWithEncoder, Heads,
      Idle
<1> QED
  BY <1>5, <1>6, <1>7, <1>8 DEF IInv

\* onOpen sends what was stored ...
LEMMA OnOpenStep ==
  ASSUME IInv, OnOpen, NoteCrossing
  PROVE  IInv'
<1> DEFINE l == "opened_check"
<1>1. /\ TypeOK /\ at["net"] = "opened" /\ at' = [at EXCEPT !["net"] = l] /\ l \in Labels
      /\ UNCHANGED <<ret, after, cam, running, joinable, hooked, source, track, sourceSet,
                     started, encoder, nalus, transport, epoch, calls, early>>
  BY DEF IInv, OnOpen, GoTo, sourceVars, countVars, Labels, NetLabels
<1>2. /\ at' \in [Actors -> Labels] /\ at'["net"] = l
      /\ at'["owner"] = at["owner"]
  BY <1>1, Moves, TwoActors
<1>3. crossed' \in BOOLEAN /\ (~crossed' => ~crossed /\ OneBusy')
  BY <1>1, Crossing
<1>4. /\ sent' \in BOOLEAN
      /\ \/ faults' = faults
         \/ track = "none" /\ faults' = faults \cup {"null track"}
  BY DEF IInv, TypeOK, OnOpen, FaultIf
<1>5. TypeOK'
  BY <1>1, <1>2, <1>3, <1>4 DEF TypeOK
<1>6. Threads'
  BY <1>1, <1>2, <1>4
  DEF IInv, Threads, Returns, JoinedIsIdle, ClosedIsSilent, FreedIsIdle, CaptureFault,
      BelowBound, InStop, Heads, Lost, Idle
<1>7. Turns'
  BY <1>1, <1>3
  DEF IInv, Turns, SourceLives, TrackInCall, NoSourceNoTrack, StoppedIsDark, StoredIsLast,
      InStop, Heads, Lost, Idle, NetLabels
<1>8. Quiet'
  BY <1>1, <1>3, <1>4
  DEF IInv, Turns, TrackInCall, Quiet, RunsWhileOpen, StoppedIsIdle, RunsOrIsJoined,
      EncodesWithEncoder, InStop, Heads, Idle, NetLabels
<1> QED
  BY <1>5, <1>6, <1>7, <1>8 DEF IInv

\* ... and starts the source, if there is one that it did not start yet.
LEMMA OnOpenCheckStep ==
  ASSUME IInv, OnOpenCheck, NoteCrossing
  PROVE  IInv'
<1> DEFINE l == IF sourceSet /\ ~started THEN "opened_start" ELSE "out"
<1>1. /\ TypeOK /\ at["net"] = "opened_check" /\ at' = [at EXCEPT !["net"] = l] /\ l \in Labels
      /\ UNCHANGED <<ret, after, cam, running, joinable, hooked, source, track, sourceSet,
                     started, encoder, nalus, sent, transport, epoch, calls, early, faults>>
  BY DEF IInv, OnOpenCheck, GoTo, sourceVars, trackVars, countVars, Labels, NetLabels
<1>2. /\ at' \in [Actors -> Labels] /\ at'["net"] = l
      /\ at'["owner"] = at["owner"]
  BY <1>1, Moves, TwoActors
<1>3. crossed' \in BOOLEAN /\ (~crossed' => ~crossed /\ OneBusy')
  BY <1>1, Crossing
<1>5. TypeOK'
  BY <1>1, <1>2, <1>3 DEF TypeOK
<1>6. Threads'
  BY <1>1, <1>2, TwoActors
  DEF IInv, Threads, Returns, JoinedIsIdle, ClosedIsSilent, FreedIsIdle, CaptureFault,
      BelowBound, InStop, Heads, Lost, Idle
<1>7. Turns'
  BY <1>1, <1>3
  DEF IInv, Turns, SourceLives, TrackInCall, NoSourceNoTrack, StoppedIsDark, StoredIsLast,
      InStop, Heads, Lost, Idle, NetLabels
<1>8. Quiet'
  BY <1>1, <1>3
  DEF IInv, Quiet, RunsWhileOpen, StoppedIsIdle, RunsOrIsJoined, EncodesWithEncoder, InStop,
      Heads, Idle
<1> QED
  BY <1>5, <1>6, <1>7, <1>8 DEF IInv

\* It notes that it did.
LEMMA OnOpenStartedStep ==
  ASSUME IInv, OnOpenStarted, NoteCrossing
  PROVE  IInv'
<1> DEFINE l == "out"
<1>1. /\ TypeOK /\ at["net"] = "opened_started" /\ at' = [at EXCEPT !["net"] = l] /\ l \in Labels
      /\ started' = TRUE
      /\ UNCHANGED <<ret, after, cam, running, joinable, hooked, source, track, sourceSet,
                     encoder, nalus, sent, transport, epoch, calls, early, faults>>
  BY DEF IInv, OnOpenStarted, GoTo, sourceVars, countVars, Labels
<1>2. /\ at' \in [Actors -> Labels] /\ at'["net"] = l
      /\ at'["owner"] = at["owner"]
  BY <1>1, Moves, TwoActors
<1>3. crossed' \in BOOLEAN /\ (~crossed' => ~crossed /\ OneBusy')
  BY <1>1, Crossing
<1>5. TypeOK'
  BY <1>1, <1>2, <1>3 DEF TypeOK
<1>6. Threads'
  BY <1>1, <1>2
  DEF IInv, Threads, Returns, JoinedIsIdle, ClosedIsSilent, FreedIsIdle, CaptureFault,
      BelowBound, InStop, Heads, Lost, Idle
<1>7. Turns'
  BY <1>1, <1>3
  DEF IInv, Turns, SourceLives, TrackInCall, NoSourceNoTrack, StoppedIsDark, StoredIsLast,
      InStop, Heads, Lost, Idle, NetLabels
<1>8. Quiet'
  BY <1>1, <1>3
  DEF IInv, Quiet, RunsWhileOpen, StoppedIsIdle, RunsOrIsJoined, EncodesWithEncoder, InStop,
      Heads, Idle
<1> QED
  BY <1>5, <1>6, <1>7, <1>8 DEF IInv

\* A lost connection: the track is stopped ...
LEMMA ConnectionLostStep ==
  ASSUME IInv, ConnectionLost, NoteCrossing
  PROVE  IInv'
<1> DEFINE l == "stop_track"
<1>1. /\ TypeOK /\ at["net"] = "out" /\ at' = [at EXCEPT !["net"] = l] /\ l \in Labels
      /\ transport = "live"
      /\ UNCHANGED <<ret, cam, running, joinable, hooked, source, track, sourceSet, started,
                     encoder, nalus, sent, transport, epoch, calls, early, faults>>
  BY DEF IInv, ConnectionLost, NetFree, CallStopTrack, sourceVars, trackVars, countVars,
         Labels
<1>2. /\ at' \in [Actors -> Labels] /\ at'["net"] = l
      /\ at'["owner"] = at["owner"]
  BY <1>1, Moves, TwoActors
<1>3. crossed' \in BOOLEAN /\ (~crossed' => ~crossed /\ OneBusy')
  BY <1>1, Crossing
<1>4. /\ after' \in [Actors -> Labels] /\ after'["owner"] = after["owner"]
      /\ after'["net"] = "forget"
  BY DEF IInv, TypeOK, ConnectionLost, CallStopTrack, Labels, Actors
<1>5. TypeOK'
  BY <1>1, <1>2, <1>3, <1>4 DEF TypeOK
<1>6. Threads'
  BY <1>1, <1>2, <1>4
  DEF IInv, Threads, Returns, JoinedIsIdle, ClosedIsSilent, FreedIsIdle, CaptureFault,
      BelowBound, InStop, Heads, Idle
<1>7. Turns'
  BY <1>1, <1>3, <1>4
  DEF IInv, Turns, SourceLives, TrackInCall, NoSourceNoTrack, StoppedIsDark, StoredIsLast,
      InStop, Heads, Lost, Idle, NetLabels
<1>8. Quiet'
  BY <1>1, <1>3
  DEF IInv, Quiet, RunsWhileOpen, StoppedIsIdle, RunsOrIsJoined, EncodesWithEncoder, InStop,
      Heads, Idle
<1> QED
  BY <1>5, <1>6, <1>7, <1>8 DEF IInv

\* ... then the source ...
LEMMA CoordinatorStopsStep ==
  ASSUME IInv, CoordinatorStops, NoteCrossing
  PROVE  IInv'
<1> DEFINE l == IF source = "live" THEN "stop" ELSE "out"
<1>1. /\ TypeOK /\ at["net"] = "forget" /\ at' = [at EXCEPT !["net"] = l] /\ l \in Labels
      /\ source \in {"live", "freed"}
      /\ UNCHANGED <<after, cam, running, joinable, hooked, source, track, sourceSet,
                     started, encoder, nalus, sent, transport, epoch, calls, early, faults>>
  BY DEF IInv, TypeOK, CoordinatorStops, CallStop, GoTo, sourceVars, trackVars, countVars,
         Labels
<1>2. /\ at' \in [Actors -> Labels] /\ at'["net"] = l
      /\ at'["owner"] = at["owner"]
  BY <1>1, Moves, TwoActors
<1>3. crossed' \in BOOLEAN /\ (~crossed' => ~crossed /\ OneBusy')
  BY <1>1, Crossing
<1>4. /\ ret' \in [Actors -> Labels] /\ ret'["owner"] = ret["owner"]
      /\ ret'["net"] = IF source = "live" THEN "forgotten" ELSE ret["net"]
  BY DEF IInv, TypeOK, CoordinatorStops, CallStop, GoTo, Labels, Actors
<1>5. TypeOK'
  BY <1>1, <1>2, <1>3, <1>4 DEF TypeOK
<1>6. Threads'
  BY <1>1, <1>2, <1>4, TwoActors
  DEF IInv, Threads, Returns, JoinedIsIdle, ClosedIsSilent, FreedIsIdle, CaptureFault,
      BelowBound, InStop, Heads, Lost, Idle
<1>7. Turns'
  BY <1>1, <1>3, <1>4
  DEF IInv, Turns, SourceLives, TrackInCall, NoSourceNoTrack, StoppedIsDark, StoredIsLast,
      InStop, Heads, Lost, NetLabels
<1>8. Quiet'
  BY <1>1, <1>3, <1>4
  DEF IInv, Quiet, RunsWhileOpen, StoppedIsIdle, RunsOrIsJoined, EncodesWithEncoder, InStop,
      Heads, Idle
<1> QED
  BY <1>5, <1>6, <1>7, <1>8 DEF IInv

\* ... which is destroyed.
LEMMA CoordinatorFreesStep ==
  ASSUME IInv, CoordinatorFrees, NoteCrossing
  PROVE  IInv'
<1> DEFINE l == "out"
<1>1. /\ TypeOK /\ at["net"] = "forgotten" /\ at' = [at EXCEPT !["net"] = l] /\ l \in Labels
      /\ source' = "freed"
      /\ UNCHANGED <<ret, after, cam, running, joinable, hooked, track, sourceSet, started,
                     encoder, nalus, sent, transport, epoch, calls, early, faults>>
  BY DEF IInv, CoordinatorFrees, GoTo, trackVars, countVars, Labels
<1>2. /\ at' \in [Actors -> Labels] /\ at'["net"] = l
      /\ at'["owner"] = at["owner"]
  BY <1>1, Moves, TwoActors
<1>3. crossed' \in BOOLEAN /\ (~crossed' => ~crossed /\ OneBusy')
  BY <1>1, Crossing
<1>5. TypeOK'
  BY <1>1, <1>2, <1>3 DEF TypeOK
<1>6. Threads'
  BY <1>1, <1>2
  DEF IInv, Threads, Returns, JoinedIsIdle, ClosedIsSilent, FreedIsIdle, CaptureFault,
      BelowBound, InStop, Heads, Lost, Idle
<1>7. Turns'
  BY <1>1, <1>3, TwoActors
  DEF IInv, Turns, OneBusy, SourceLives, TrackInCall, NoSourceNoTrack, StoppedIsDark,
      StoredIsLast, InStop, Heads, NetLabels
<1>8. Quiet'
  BY <1>1, <1>3
  DEF IInv, Quiet, RunsWhileOpen, StoppedIsIdle, RunsOrIsJoined, EncodesWithEncoder, InStop,
      Heads, Idle
<1> QED
  BY <1>5, <1>6, <1>7, <1>8 DEF IInv

\* Track::close, by whoever closes the track on the way to a label.
LEMMA CloseMoves ==
  ASSUME TypeOK, NEW a \in Actors, NEW label \in Labels, Close(a, label)
  PROVE  LET closes == track \in {"new", "open"}
             l == IF closes /\ sourceSet THEN "stop" ELSE label
         IN  /\ at' = [at EXCEPT ![a] = l] /\ l \in Labels
             /\ at' \in [Actors -> Labels] /\ at'[a] = l
             /\ \A b \in Actors : b # a => at'[b] = at[b]
             /\ ret' \in [Actors -> Labels] /\ \A b \in Actors : b # a => ret'[b] = ret[b]
             /\ ret'[a] = IF closes /\ sourceSet THEN label ELSE ret[a]
             /\ after' = after
             /\ track' = IF closes THEN "closed" ELSE track
BY DEF TypeOK, Close, CallStop, GoTo, Labels

\* The track is closed; the source that is still known is stopped.
LEMMA CloseTrackStep ==
  ASSUME IInv, NEW a \in Actors, CloseTrack(a), NoteCrossing
  PROVE  IInv'
<1> DEFINE closes == track \in {"new", "open"}
<1>1. /\ TypeOK /\ at[a] = "close_track" /\ Close(a, "reset_track") /\ "reset_track" \in Labels
      /\ source \in {"live", "freed"}
      /\ UNCHANGED <<cam, running, joinable, hooked, source, sourceSet, started, encoder, nalus,
                     sent, transport, epoch, calls, early, faults>>
  BY DEF IInv, TypeOK, CloseTrack, sourceVars, countVars, Labels
<1>2. /\ at' \in [Actors -> Labels] /\ ret' \in [Actors -> Labels] /\ after' = after
      /\ at'[a] = (IF closes /\ sourceSet THEN "stop" ELSE "reset_track")
      /\ ret'[a] = (IF closes /\ sourceSet THEN "reset_track" ELSE ret[a])
      /\ track' = (IF closes THEN "closed" ELSE track)
      /\ \A b \in Actors : b # a => at'[b] = at[b] /\ ret'[b] = ret[b]
  BY <1>1, CloseMoves, TwoActors
<1>3. crossed' \in BOOLEAN /\ (~crossed' => ~crossed /\ OneBusy')
  BY <1>1, Crossing
<1>5. TypeOK'
  BY <1>1, <1>2, <1>3 DEF TypeOK
<1>6. Threads'
  <2>1. CASE a = "owner"
    BY <1>1, <1>2, <2>1, TwoActors
    DEF IInv, Threads, Returns, JoinedIsIdle, ClosedIsSilent, FreedIsIdle, CaptureFault,
        BelowBound, InStop, Heads, Lost, Idle
  <2>2. CASE a = "net"
    BY <1>1, <1>2, <2>2, TwoActors
    DEF IInv, Threads, Returns, JoinedIsIdle, ClosedIsSilent, FreedIsIdle, CaptureFault,
        BelowBound, InStop, Heads, Lost, Idle
  <2> QED
    BY <2>1, <2>2, TwoActors
<1>7. Turns'
  <2>1. CASE a = "owner"
    BY <1>1, <1>2, <1>3, TwoActors
    DEF IInv, Turns, OneBusy, SourceLives, TrackInCall, NoSourceNoTrack, StoppedIsDark,
        StoredIsLast, InStop, Heads, Lost, Idle, NetLabels
  <2>2. CASE a = "net"
    BY <1>1, <1>2, <1>3, <2>2, TwoActors
    DEF IInv, Turns, SourceLives, TrackInCall, NoSourceNoTrack, StoppedIsDark, StoredIsLast,
        InStop, Heads, Lost, NetLabels
  <2> QED
    BY <2>1, <2>2, TwoActors
<1>8. Quiet'
  <2>1. CASE a = "owner"
    BY <1>1, <1>2, <1>3
    DEF IInv, Quiet, RunsWhileOpen, StoppedIsIdle, RunsOrIsJoined, EncodesWithEncoder, Idle
  <2>2. CASE a = "net"
    BY <1>1, <1>2, <1>3
    DEF IInv, Quiet, RunsWhileOpen, StoppedIsIdle, RunsOrIsJoined, EncodesWithEncoder, Idle
  <2> QED
    BY <2>1, <2>2, TwoActors
<1> QED
  BY <1>5, <1>6, <1>7, <1>8 DEF IInv

\* The transport's shutdown closes the track.
LEMMA ShutdownStep ==
  ASSUME IInv, Shutdown, NoteCrossing
  PROVE  IInv'
<1> DEFINE closes == track \in {"new", "open"}
<1>1. /\ TypeOK /\ at["owner"] = "out" /\ Close("owner", "reset") /\ "reset" \in Labels
      /\ source \in {"live", "freed"}
      /\ UNCHANGED <<cam, running, joinable, hooked, source, sourceSet, started, encoder, nalus,
                     sent, transport, epoch, calls, early, faults>>
  BY DEF IInv, TypeOK, Shutdown, sourceVars, countVars, Labels, OwnerLabels
<1>2. /\ at' \in [Actors -> Labels] /\ ret' \in [Actors -> Labels] /\ after' = after
      /\ at'["owner"] = (IF closes /\ sourceSet THEN "stop" ELSE "reset")
      /\ ret'["owner"] = (IF closes /\ sourceSet THEN "reset" ELSE ret["owner"])
      /\ track' = (IF closes THEN "closed" ELSE track)
      /\ \A b \in Actors : b # "owner" => at'[b] = at[b] /\ ret'[b] = ret[b]
  BY <1>1, CloseMoves, TwoActors
<1>3. crossed' \in BOOLEAN /\ (~crossed' => ~crossed /\ OneBusy')
  BY <1>1, Crossing
<1>5. TypeOK'
  BY <1>1, <1>2, <1>3 DEF TypeOK
<1>6. Threads'
  BY <1>1, <1>2, TwoActors
  DEF IInv, Threads, Returns, JoinedIsIdle, ClosedIsSilent, FreedIsIdle, CaptureFault,
      BelowBound, InStop, Heads, Lost, Idle
<1>7. Turns'
  BY <1>1, <1>2, <1>3, TwoActors
  DEF IInv, Turns, OneBusy, SourceLives, TrackInCall, NoSourceNoTrack, StoppedIsDark,
      StoredIsLast, InStop, Heads, Lost, NetLabels
<1>8. Quiet'
  BY <1>1, <1>2, <1>3, TwoActors
  DEF IInv, Threads, FreedIsIdle, Turns, OneBusy, NoSourceNoTrack, Quiet, RunsWhileOpen,
      StoppedIsIdle, RunsOrIsJoined, EncodesWithEncoder, InStop, Heads, Lost, Idle
<1> QED
  BY <1>5, <1>6, <1>7, <1>8 DEF IInv

\* The other side closes the track, while the owner may be busy.
LEMMA TrackClosesStep ==
  ASSUME IInv, TrackCloses, NoteCrossing
  PROVE  IInv'
<1> DEFINE closes == track \in {"new", "open"}
<1>1. /\ TypeOK /\ at["net"] = "out" /\ Close("net", "out") /\ "out" \in Labels
      /\ source \in {"live", "freed"} /\ transport = "live" /\ closes
      /\ UNCHANGED <<cam, running, joinable, hooked, source, sourceSet, started, encoder, nalus,
                     sent, transport, epoch, calls, early, faults>>
  BY DEF IInv, TypeOK, TrackCloses, NetFree, sourceVars, countVars, Labels
<1>2. /\ at' \in [Actors -> Labels] /\ ret' \in [Actors -> Labels] /\ after' = after
      /\ at'["net"] = (IF closes /\ sourceSet THEN "stop" ELSE "out")
      /\ ret'["net"] = (IF closes /\ sourceSet THEN "out" ELSE ret["net"])
      /\ track' = (IF closes THEN "closed" ELSE track)
      /\ \A b \in Actors : b # "net" => at'[b] = at[b] /\ ret'[b] = ret[b]
  BY <1>1, CloseMoves, TwoActors
<1>3. crossed' \in BOOLEAN /\ (~crossed' => ~crossed /\ OneBusy')
  BY <1>1, Crossing
<1>5. TypeOK'
  BY <1>1, <1>2, <1>3 DEF TypeOK
<1>6. Threads'
  BY <1>1, <1>2, TwoActors
  DEF IInv, Threads, Returns, JoinedIsIdle, ClosedIsSilent, FreedIsIdle, CaptureFault,
      BelowBound, InStop, Heads, Lost, Idle
<1>7. Turns'
  BY <1>1, <1>2, <1>3, TwoActors
  DEF IInv, Threads, Turns, SourceLives, TrackInCall, NoSourceNoTrack, StoppedIsDark,
      StoredIsLast, InStop, Heads, Lost, Idle, NetLabels, ClosedIsSilent
<1>8. Quiet'
  BY <1>1, <1>2, <1>3, TwoActors
  DEF IInv, Threads, FreedIsIdle, Turns, NoSourceNoTrack, Quiet, RunsWhileOpen,
      StoppedIsIdle, RunsOrIsJoined, EncodesWithEncoder, InStop, Heads, Lost, Idle
<1> QED
  BY <1>5, <1>6, <1>7, <1>8 DEF IInv

\* addTrack gives a track, or none.
LEMMA AddTrackStep ==
  ASSUME IInv, AddTrack, NoteCrossing
  PROVE  IInv'
<1>1. /\ TypeOK /\ at["owner"] = "add" /\ sourceSet' = TRUE
      /\ UNCHANGED <<ret, after, cam, running, joinable, hooked, source, started, encoder, nalus,
                     sent, transport, calls, early, faults>>
  BY DEF IInv, AddTrack, GoTo, sourceVars
<1>2. PICK l \in {"out", "encoder"} :
        /\ at' = [at EXCEPT !["owner"] = l]
        /\ l = "out" => UNCHANGED <<track, epoch>>
        /\ l = "encoder" => track' = "added" /\ epoch' = epoch + 1
  <2>1. CASE UNCHANGED <<track, epoch>> /\ GoTo("owner", "out")
    BY <2>1 DEF GoTo
  <2>2. CASE track' = "added" /\ epoch' = epoch + 1 /\ GoTo("owner", "encoder")
    BY <2>2 DEF GoTo
  <2> QED
    BY <2>1, <2>2 DEF AddTrack
<1>3. crossed' \in BOOLEAN /\ (~crossed' => ~crossed /\ OneBusy')
  BY <1>1, Crossing
<1>4. /\ at' \in [Actors -> Labels] /\ at'["owner"] = l /\ at'["net"] = at["net"]
      /\ epoch' \in 0 .. MaxTracks /\ nalus' \in 0 .. epoch'
  <2>1. l \in Labels
    BY DEF Labels, OwnerLabels
  <2>2. /\ at' \in [Actors -> Labels] /\ at'["owner"] = l /\ at'["net"] = at["net"]
    BY <1>1, <1>2, <2>1, Moves, TwoActors
  <2>3. epoch' \in 0 .. MaxTracks /\ nalus' \in 0 .. epoch'
    <3>1. epoch < MaxTracks
      BY <1>1 DEF IInv, Threads, BelowBound
    <3> QED
      BY <1>1, <1>2, <3>1, Counts
  <2> QED
    BY <2>2, <2>3
<1>5. TypeOK'
  BY <1>1, <1>2, <1>3, <1>4 DEF TypeOK
<1>6. Threads'
  BY <1>1, <1>4
  DEF IInv, Threads, Returns, JoinedIsIdle, ClosedIsSilent, FreedIsIdle, CaptureFault,
      BelowBound, InStop, Heads, Lost, Idle
<1>7. Turns'
  BY <1>1, <1>2, <1>3, <1>4
  DEF IInv, Turns, OneBusy, SourceLives, TrackInCall, NoSourceNoTrack, StoppedIsDark,
      StoredIsLast, InStop, Heads, Lost
<1>8. Quiet'
  BY <1>1, <1>3, <1>4, TwoActors
  DEF IInv, Turns, TrackInCall, Quiet, RunsWhileOpen, StoppedIsIdle, RunsOrIsJoined,
      EncodesWithEncoder, Idle
<1> QED
  BY <1>5, <1>6, <1>7, <1>8 DEF IInv

\* stopVideoTrack, called by the owner.
LEMMA CallStopVideoTrackStep ==
  ASSUME IInv, CallStopVideoTrack, NoteCrossing
  PROVE  IInv'
<1> DEFINE l == "stop_track"
<1>1. /\ TypeOK /\ at["owner"] = "out" /\ at' = [at EXCEPT !["owner"] = l] /\ l \in Labels
      /\ calls < MaxCalls /\ calls' = calls + 1
      /\ UNCHANGED <<ret, cam, running, joinable, hooked, source, track, sourceSet, started,
                     encoder, nalus, sent, transport, epoch, early, faults>>
  BY DEF IInv, CallStopVideoTrack, CallStopTrack, sourceVars, trackVars, Labels
<1>2. /\ at' \in [Actors -> Labels] /\ at'["owner"] = l
      /\ at'["net"] = at["net"]
  BY <1>1, Moves, TwoActors
<1>3. crossed' \in BOOLEAN /\ (~crossed' => ~crossed /\ OneBusy')
  BY <1>1, Crossing
<1>4. /\ after' \in [Actors -> Labels] /\ after'["net"] = after["net"]
      /\ after'["owner"] = "out" /\ calls' \in 0 .. MaxCalls
  <2>1. calls' \in 0 .. MaxCalls
    BY <1>1, Counts
  <2> QED
    BY <1>1, <2>1 DEF TypeOK, CallStopVideoTrack, CallStopTrack, Labels, Actors
<1>5. TypeOK'
  BY <1>1, <1>2, <1>3, <1>4 DEF TypeOK
<1>6. Threads'
  BY <1>1, <1>2, <1>4
  DEF IInv, Threads, Returns, JoinedIsIdle, ClosedIsSilent, FreedIsIdle, CaptureFault,
      BelowBound, InStop, Heads, Lost, Idle
<1>7. Turns'
  BY <1>1, <1>3, <1>4
  DEF IInv, Turns, SourceLives, TrackInCall, NoSourceNoTrack, StoppedIsDark, StoredIsLast,
      InStop, Heads, Lost
<1>8. Quiet'
  BY <1>1, <1>3
  DEF IInv, Quiet, RunsWhileOpen, StoppedIsIdle, RunsOrIsJoined, EncodesWithEncoder, InStop,
      Heads, Idle
<1> QED
  BY <1>5, <1>6, <1>7, <1>8 DEF IInv

\* The encoder takes its configuration, or is deleted.
LEMMA InitEncoderStep ==
  ASSUME IInv, InitEncoder, NoteCrossing
  PROVE  IInv'
<1>1. /\ TypeOK /\ at["owner"] = "init"
      /\ UNCHANGED <<ret, after, cam, running, joinable, hooked, source, track, sourceSet, started,
                     nalus, sent, transport, epoch, calls, early>>
  BY DEF IInv, InitEncoder, GoTo, sourceVars, countVars
<1>2. PICK l \in {"out", "hook"} :
        /\ at' = [at EXCEPT !["owner"] = l]
        /\ encoder' = IF l = "hook" THEN [encoder EXCEPT !.initialized = TRUE] ELSE NoEncoder
        /\ \/ faults' = faults
           \/ cam = "encoding" /\ faults' = faults \cup {"freed encoder"}
  BY DEF InitEncoder, GoTo, FaultIf
<1>3. crossed' \in BOOLEAN /\ (~crossed' => ~crossed /\ OneBusy')
  BY <1>1, Crossing
<1>4. /\ at' \in [Actors -> Labels] /\ at'["owner"] = l /\ at'["net"] = at["net"]
      /\ encoder' \in Encoders
  <2>1. l \in Labels
    BY DEF Labels, OwnerLabels
  <2>2. encoder \in Encoders
    BY <1>1 DEF TypeOK
  <2> QED
    BY <1>1, <1>2, <2>1, <2>2, Moves, TwoActors, CreatedIsEncoder
<1>5. TypeOK'
  BY <1>1, <1>2, <1>3, <1>4 DEF TypeOK
<1>6. Threads'
  BY <1>1, <1>2, <1>4
  DEF IInv, Threads, Returns, JoinedIsIdle, ClosedIsSilent, FreedIsIdle, CaptureFault,
      BelowBound, InStop, Heads, Lost, Idle
<1>7. Turns'
  BY <1>1, <1>3, <1>4, TwoActors
  DEF IInv, Turns, SourceLives, TrackInCall, NoSourceNoTrack, StoppedIsDark, StoredIsLast,
      InStop, Heads
<1>8. Quiet'
  BY <1>1, <1>2, <1>3, <1>4
  DEF IInv, Turns, TrackInCall, Quiet, RunsWhileOpen, StoppedIsIdle, RunsOrIsJoined,
      EncodesWithEncoder, Idle
<1> QED
  BY <1>5, <1>6, <1>7, <1>8 DEF IInv

\* The track opens.
LEMMA TrackOpensStep ==
  ASSUME IInv, TrackOpens, NoteCrossing
  PROVE  IInv'
<1> DEFINE l == "opened"
<1>1. /\ TypeOK /\ at["net"] = "out" /\ at' = [at EXCEPT !["net"] = l] /\ l \in Labels
      /\ transport = "live" /\ track = "new" /\ track' = "open"
      /\ UNCHANGED <<ret, after, cam, running, joinable, hooked, source, sourceSet, started,
                     encoder, nalus, sent, transport, epoch, calls, early, faults>>
  BY DEF IInv, TrackOpens, NetFree, GoTo, sourceVars, countVars, Labels, NetLabels
<1>2. /\ at' \in [Actors -> Labels] /\ at'["net"] = l
      /\ at'["owner"] = at["owner"]
  BY <1>1, Moves, TwoActors
<1>3. crossed' \in BOOLEAN /\ (~crossed' => ~crossed /\ OneBusy')
  BY <1>1, Crossing
<1>5. TypeOK'
  BY <1>1, <1>2, <1>3 DEF TypeOK
<1>6. Threads'
  BY <1>1, <1>2
  DEF IInv, Threads, Returns, JoinedIsIdle, ClosedIsSilent, FreedIsIdle, CaptureFault,
      BelowBound, InStop, Heads, Lost, Idle
<1>7. Turns'
  BY <1>1, <1>3
  DEF IInv, Turns, SourceLives, TrackInCall, NoSourceNoTrack, StoppedIsDark, StoredIsLast,
      InStop, Heads, Lost, Idle
<1>8. Quiet'
  BY <1>1, <1>3
  DEF IInv, Quiet, RunsWhileOpen, StoppedIsIdle, RunsOrIsJoined, EncodesWithEncoder, Idle
<1> QED
  BY <1>5, <1>6, <1>7, <1>8 DEF IInv

\* What start() does to the source.
LEMMA SourceStarts ==
  ASSUME TypeOK, SourceStart
  PROVE  /\ running' = TRUE /\ joinable' = TRUE /\ cam' \in CamLabels
         /\ \/ running /\ cam' = cam
            \/ ~running /\ cam' = "test"
         /\ \/ faults' = faults
            \/ ~running /\ joinable /\ faults' = faults \cup {"terminate"}
BY DEF TypeOK, SourceStart, FaultIf, CamLabels

\* onOpen starts the source.
LEMMA OnOpenStartStep ==
  ASSUME IInv, OnOpenStart, NoteCrossing
  PROVE  IInv'
<1> DEFINE l == "opened_started"
<1>1. /\ TypeOK /\ at["net"] = "opened_start" /\ at' = [at EXCEPT !["net"] = l] /\ l \in Labels
      /\ UNCHANGED <<ret, after, hooked, source, track, sourceSet, started, encoder, nalus, sent,
                     transport, epoch, calls, early>>
  BY DEF IInv, OnOpenStart, GoTo, trackVars, countVars, Labels, NetLabels
<1>2. /\ at' \in [Actors -> Labels] /\ at'["net"] = l
      /\ at'["owner"] = at["owner"]
  BY <1>1, Moves, TwoActors
<1>3. crossed' \in BOOLEAN /\ (~crossed' => ~crossed /\ OneBusy')
  BY <1>1, Crossing
<1>4. \/ /\ source = "live" /\ running' = TRUE /\ joinable' = TRUE /\ cam' \in CamLabels
         /\ \/ running /\ cam' = cam
            \/ ~running /\ cam' = "test"
         /\ \/ faults' = faults
            \/ ~running /\ joinable /\ faults' = faults \cup {"terminate"}
      \/ /\ UNCHANGED <<cam, running, joinable>>
         /\ \/ sourceSet /\ source = "freed" /\ faults' = faults \cup {"freed source"}
            \/ ~sourceSet /\ faults' = faults \cup {"null source"}
  <2>1. CASE sourceSet /\ source = "live"
    BY <1>1, <2>1, SourceStarts DEF OnOpenStart
  <2>2. CASE ~(sourceSet /\ source = "live")
    BY <1>1, <2>2 DEF OnOpenStart, TypeOK
  <2> QED
    BY <2>1, <2>2
<1>5. TypeOK'
  BY <1>1, <1>2, <1>3, <1>4 DEF TypeOK
<1>6. Threads'
  BY <1>1, <1>2, <1>4
  DEF IInv, Threads, Returns, JoinedIsIdle, ClosedIsSilent, FreedIsIdle, CaptureFault,
      BelowBound, InStop, Heads, Lost, Idle
<1>7. Turns'
  BY <1>1, <1>2, <1>3, TwoActors
  DEF IInv, Turns, OneBusy, SourceLives, TrackInCall, NoSourceNoTrack, StoppedIsDark,
      StoredIsLast, InStop, Heads, NetLabels
<1>8. Quiet'
  BY <1>1, <1>2, <1>3, <1>4, TwoActors
  DEF IInv, Threads, ClosedIsSilent, Turns, OneBusy, SourceLives, TrackInCall, Quiet,
      RunsWhileOpen, StoppedIsIdle, RunsOrIsJoined, EncodesWithEncoder, InStop, Heads,
      NetLabels
<1> QED
  BY <1>5, <1>6, <1>7, <1>8 DEF IInv

\* The owner starts the source.
LEMMA OwnerStartsSourceStep ==
  ASSUME IInv, OwnerStartsSource, NoteCrossing
  PROVE  IInv'
<1>1. /\ TypeOK /\ at["owner"] = "out" /\ source = "live" /\ early' = TRUE
      /\ calls < MaxCalls /\ calls' = calls + 1
      /\ UNCHANGED <<at, ret, after, hooked, source, track, sourceSet, started, encoder, nalus,
                     sent, transport, epoch>>
  BY DEF IInv, OwnerStartsSource, threadVars, trackVars
<1>2. /\ running' = TRUE /\ joinable' = TRUE /\ cam' \in CamLabels
      /\ \/ running /\ cam' = cam
         \/ ~running /\ cam' = "test"
      /\ \/ faults' = faults
         \/ ~running /\ joinable /\ faults' = faults \cup {"terminate"}
  BY <1>1, SourceStarts DEF OwnerStartsSource
<1>3. crossed' \in BOOLEAN /\ (~crossed' => ~crossed /\ OneBusy')
  BY <1>1, Crossing
<1>4. calls' \in 0 .. MaxCalls
  BY <1>1, Counts
<1>5. TypeOK'
  BY <1>1, <1>2, <1>3, <1>4 DEF TypeOK
<1>6. Threads'
  BY <1>1, <1>2
  DEF IInv, Threads, Returns, JoinedIsIdle, ClosedIsSilent, FreedIsIdle, CaptureFault,
      BelowBound, InStop, Heads, Lost
<1>7. Turns'
  BY <1>1, <1>2, <1>3
  DEF IInv, Turns, SourceLives, TrackInCall, NoSourceNoTrack, StoppedIsDark, StoredIsLast,
      InStop, Heads, Lost
<1>8. Quiet'
  BY <1>1 DEF IInv, Quiet
<1> QED
  BY <1>5, <1>6, <1>7, <1>8 DEF IInv

-----------------------------------------------------------------------------
(* The theorems. *)

\* What is initially so.
LEMMA InitIInv == Init => IInv
<1> SUFFICES ASSUME Init PROVE IInv
  OBVIOUS
<1>1. /\ at["owner"] = "out" /\ at["net"] = "out" /\ ret["owner"] = "out" /\ ret["net"] = "out"
      /\ after["owner"] = "out" /\ after["net"] = "out"
  BY TwoActors DEF Init
<1>2. TypeOK
  <2>1. /\ at \in [Actors -> Labels] /\ ret \in [Actors -> Labels]
        /\ after \in [Actors -> Labels]
    BY DEF Init, Labels
  <2>2. {running, joinable, hooked, sourceSet, started, sent, early, crossed} \subseteq BOOLEAN
    BY DEF Init
  <2>3. epoch \in 0 .. MaxTracks /\ nalus \in 0 .. epoch /\ calls \in 0 .. MaxCalls
    BY BoundsAssumption DEF Init
  <2>4. cam \in CamLabels /\ encoder \in Encoders
    BY CreatedIsEncoder DEF Init, CamLabels
  <2> QED
    BY <2>1, <2>2, <2>3, <2>4 DEF Init, TypeOK
<1>3. Threads
  BY <1>1
  DEF Init, Threads, Returns, JoinedIsIdle, ClosedIsSilent, FreedIsIdle, CaptureFault,
      BelowBound, InStop, Heads, Lost, Idle
<1>4. Turns
  BY TwoActors
  DEF Init, Turns, OneBusy, SourceLives, TrackInCall, NoSourceNoTrack, StoppedIsDark,
      StoredIsLast, InStop, NetLabels
<1>5. Quiet
  BY DEF Init, Quiet, RunsWhileOpen, StoppedIsIdle, RunsOrIsJoined, EncodesWithEncoder, Idle
<1> QED
  BY <1>2, <1>3, <1>4, <1>5 DEF IInv

\* Every step of the three threads keeps the invariant.
LEMMA NextIInv == IInv /\ [Next]_vars => IInv'
<1> SUFFICES ASSUME IInv, [Next]_vars PROVE IInv'
  OBVIOUS
<1>1. CASE CamNext
  BY <1>1, CamNextStep
<1>2. ASSUME NEW a \in Actors, ActorStep(a), NoteCrossing PROVE IInv'
  BY <1>2, StopStep, JoinStep, StopTrackSourceStep, ForgetSourceStep, CloseTrackStep,
     ResetTrackStep, ClearNalusStep
  DEF ActorStep
<1>3. CASE OwnerStep
  BY <1>2, <1>3, TwoActors, AddTrackStep, CreateEncoderStep, InitEncoderStep, HookCallbacksStep,
     ResetStep, ClosePeerConnectionStep, DestroyTransportStep, StopSourceStep, FreeSourceStep
  DEF OwnerStep
<1>4. CASE NetStep
  BY <1>2, <1>4, TwoActors, OnOpenStep, OnOpenCheckStep, OnOpenStartStep, OnOpenStartedStep,
     CoordinatorStopsStep, CoordinatorFreesStep
  DEF NetStep
<1>5. CASE OwnerCall \/ NetEvent
  BY <1>5, StartVideoTrackStep, CallStopVideoTrackStep, OwnerStartsSourceStep, ShutdownStep,
     TrackOpensStep, TrackClosesStep, ConnectionLostStep
  DEF OwnerCall, NetEvent
<1>6. CASE UNCHANGED vars
  <2>1. UNCHANGED <<at, ret, after, cam, running, joinable, hooked, source, track, sourceSet,
                    started, encoder, nalus, sent, transport, epoch, calls, early, crossed,
                    faults>>
    BY <1>6 DEF vars, threadVars, sourceVars, trackVars, countVars
  <2>2. TypeOK'
    BY <2>1 DEF IInv, TypeOK
  <2>3. Threads'
    <3>1. Returns' /\ BelowBound'
      BY <2>1 DEF IInv, Threads, Returns, BelowBound, InStop, Heads, Lost
    <3>2. JoinedIsIdle' /\ ClosedIsSilent' /\ FreedIsIdle' /\ CaptureFault'
      BY <2>1
      DEF IInv, Threads, JoinedIsIdle, ClosedIsSilent, FreedIsIdle, CaptureFault, InStop,
          Heads, Idle
    <3> QED
      BY <3>1, <3>2 DEF Threads
  <2>4. Turns'
    BY <2>1
    DEF IInv, Turns, OneBusy, SourceLives, TrackInCall, NoSourceNoTrack, StoppedIsDark,
        StoredIsLast, InStop, Heads, Lost, Idle
  <2>5. Quiet'
    BY <2>1
    DEF IInv, Quiet, RunsWhileOpen, StoppedIsIdle, RunsOrIsJoined, EncodesWithEncoder,
        InStop, Heads, Idle
  <2> QED
    BY <2>2, <2>3, <2>4, <2>5 DEF IInv
<1> QED
  BY <1>1, <1>3, <1>4, <1>5, <1>6 DEF Next

\* In every state of the video path, whatever its three threads do to each other,
\* the facts above hold.
THEOREM Invariance == Spec => []IInv
<1>1. Init => IInv
  BY InitIInv
<1>2. IInv /\ [Next]_vars => IInv'
  BY NextIInv
<1> QED
  BY <1>1, <1>2, PTL DEF Spec

\* The members of transport and source hold the values they may hold.
THEOREM TypeCorrect == Spec => []TypeOK
<1>1. IInv => TypeOK
  BY DEF IInv
<1> QED
  BY <1>1, Invariance, PTL

\* No null pointer, destroyed object or second join is met on the video path
\* while owner and network thread take turns and onOpen alone starts the source;
\* and the capture is never used after its end unless the owner started it.
THEOREM FaultsNeedCrossingAlways == Spec => []FaultsNeedCrossing
<1>1. IInv => FaultsNeedCrossing
  BY DEF IInv, Threads, CaptureFault, Quiet, FaultsNeedCrossing
<1> QED
  BY <1>1, Invariance, PTL

\* stopVideoTrack joins the thread that stores the first frame before it drops
\* what is stored: what onOpen sends is of the track that opened.
THEOREM StoredFrameIsOfThisTrackAlways == Spec => []StoredFrameIsOfThisTrack
<1>1. IInv => StoredFrameIsOfThisTrack
  BY DEF IInv, Turns, StoredIsLast, StoredFrameIsOfThisTrack
<1> QED
  BY <1>1, Invariance, PTL
===============================================================================

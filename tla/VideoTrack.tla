----------------------------- MODULE VideoTrack ------------------------------
(***************************************************************************)
(* The path of a frame: capture/screen_capture_video_source, whose thread  *)
(* calls back into the video track of transport/webrtc_transport, which    *)
(* encodes and sends it.  Two more threads act on both: the owner          *)
(* (startVideoTrack, stopVideoTrack, starting the source, and the shutdown *)
(* of the coordinator) and libdatachannel's, on which the track opens and  *)
(* closes and the coordinator reacts to a lost connection.  Neither class  *)
(* has a mutex for these members; the source's mutex_ is held only around  *)
(* the frame callback, by start and by setFrameCallback.                   *)
(*                                                                         *)
(* Where the code would use a null pointer or a destroyed object, join one *)
(* thread twice or assign over one that runs, the model notes it in faults *)
(* and goes on as if the statement had done nothing.                       *)
(***************************************************************************)
EXTENDS Naturals, Encoder

CONSTANTS MaxTracks,    \* bound: calls of startVideoTrack
          MaxCalls      \* bound: the owner's other calls

ASSUME BoundsAssumption == MaxTracks \in Nat /\ MaxCalls \in Nat

VARIABLES
  at,         \* where the owner and the network thread stand
  ret,        \* where each goes on after IVideoSource::stop
  after,      \* where each goes on after stopVideoTrack
  cam,        \* where the thread of the source stands
  running,    \* running_ of the source
  joinable,   \* whether capture_thread_ is joinable
  hooked,     \* whether frame_callback_ is set
  source,     \* the source, which the coordinator owns
  track,      \* video_track_
  sourceSet,  \* whether video_source_ of the transport is not null
  started,    \* video_source_started_
  encoder,    \* encoder_
  nalus,      \* initial_nalus_: of which track, 0 when empty
  sent,       \* initial_nalus_sent_
  transport,  \* the transport and its PeerConnection
  epoch,      \* number of tracks so far
  calls,      \* number of the owner's other calls so far
  early,      \* history: whether the owner ever started the source
  crossed,    \* history: whether owner and network were ever busy at once
  faults      \* history: undefined behaviour met

sourceVars == <<cam, running, joinable, hooked, source>>
trackVars == <<track, sourceSet, started, encoder, nalus, sent, transport>>
threadVars == <<at, ret, after>>
countVars == <<epoch, calls, early>>
vars == <<threadVars, sourceVars, trackVars, countVars, crossed, faults>>

Actors == {"owner", "net"}
CallbackLabels == {"check", "encoding", "send", "use"}
CamLabels == {"none", "test", "frame", "ended"} \cup CallbackLabels
OwnerLabels == {"add", "encoder", "init", "hook", "reset", "close_pc", "destroy",
                "source", "free", "gone"}
NetLabels == {"opened", "opened_check", "opened_start", "opened_started"}
Labels == {"out", "stop", "join", "stop_track", "null", "close_track", "reset_track",
           "clear", "forget", "forgotten"} \cup OwnerLabels \cup NetLabels

Init ==
  /\ at = [a \in Actors |-> "out"]
  /\ ret = [a \in Actors |-> "out"] /\ after = [a \in Actors |-> "out"]
  /\ cam = "none" /\ running = FALSE /\ joinable = FALSE /\ hooked = FALSE
  /\ source = "live"
  /\ track = "none" /\ sourceSet = FALSE /\ started = FALSE
  /\ encoder = NoEncoder /\ nalus = 0 /\ sent = FALSE /\ transport = "live"
  /\ epoch = 0 /\ calls = 0 /\ early = FALSE
  /\ crossed = FALSE /\ faults = {}

GoTo(a, label) == at' = [at EXCEPT ![a] = label] /\ UNCHANGED <<ret, after>>

\* Calls IVideoSource::stop, to go on at label.
CallStop(a, label) ==
  /\ at' = [at EXCEPT ![a] = "stop"] /\ ret' = [ret EXCEPT ![a] = label]
  /\ UNCHANGED after

CallStopTrack(a, label) ==
  /\ at' = [at EXCEPT ![a] = "stop_track"] /\ after' = [after EXCEPT ![a] = label]
  /\ UNCHANGED ret

FaultIf(condition, fault) == faults' = IF condition THEN faults \cup {fault} ELSE faults

SourceMutexFree == cam \notin CallbackLabels

-----------------------------------------------------------------------------
(* The video source. *)

\* start(): assigning over a thread that was not joined ends the program.
SourceStart ==
  /\ SourceMutexFree
  /\ FaultIf(~running /\ joinable, "terminate")
  /\ running' = TRUE /\ joinable' = TRUE
  /\ cam' = IF running THEN cam ELSE "test"

\* Mutant: stop() does not wait for the thread.
StopDetached(a) ==
  /\ at[a] = "stop"
  /\ FaultIf(source = "freed", "freed source")
  /\ running' = FALSE /\ UNCHANGED joinable
  /\ GoTo(a, ret[a])
  /\ UNCHANGED <<cam, hooked, source, trackVars, countVars>>

\* stop() takes no mutex: it clears the flag, tests joinable() and joins.
Stop(a) ==
  /\ at[a] = "stop"
  /\ FaultIf(source = "freed", "freed source")
  /\ running' = (running /\ source = "freed")
  /\ GoTo(a, IF joinable /\ source = "live" THEN "join" ELSE ret[a])
  /\ UNCHANGED <<cam, joinable, hooked, source, trackVars, countVars>>

Join(a) ==
  /\ at[a] = "join" /\ cam \in {"none", "ended"}
  /\ FaultIf(~joinable \/ \E b \in Actors \ {a} : at[b] = "join", "joined twice")
  /\ joinable' = FALSE
  /\ GoTo(a, ret[a])
  /\ UNCHANGED <<cam, running, hooked, source, trackVars, countVars>>

CamStep == UNCHANGED <<threadVars, running, joinable, hooked, source, track, sourceSet,
                       started, encoder, transport, countVars>>

CamTest ==
  /\ cam = "test"
  /\ cam' = IF running THEN "frame" ELSE "ended"
  /\ UNCHANGED <<nalus, sent, faults>> /\ CamStep

\* getNextFrame of a capture that the coordinator destroys after the source.
CamFrame ==
  /\ cam = "frame"
  /\ FaultIf(at["owner"] = "gone", "freed capture")
  /\ cam' \in {"test"} \cup (IF hooked THEN {"check"} ELSE {})
  /\ UNCHANGED <<nalus, sent>> /\ CamStep

\* The frame callback: without a track or an encoder the frame is dropped.
CheckTrack ==
  /\ cam = "check"
  /\ FaultIf(transport = "freed", "freed transport")
  /\ cam' = IF track # "none" /\ encoder # NoEncoder THEN "encoding" ELSE "test"
  /\ UNCHANGED <<nalus, sent>> /\ CamStep

\* The first frame is kept for the moment the track opens; without a result
\* nothing is sent.
Encode ==
  /\ cam = "encoding"
  /\ FaultIf(encoder = NoEncoder, "freed encoder")
  /\ \E success \in EncodeResults(encoder) :
       /\ cam' = IF success THEN "send" ELSE "test"
       /\ nalus' = IF success /\ ~sent /\ nalus = 0 THEN epoch ELSE nalus
  /\ UNCHANGED sent /\ CamStep

\* sendEncodedFrame tests video_track_ and then uses it.
SendEncodedFrame ==
  /\ cam = "send"
  /\ cam' = IF track = "none" THEN "test" ELSE "use"
  /\ UNCHANGED <<nalus, sent, faults>> /\ CamStep

UseTrack ==
  /\ cam = "use"
  /\ FaultIf(track = "none", "null track")
  /\ cam' = "test"
  /\ UNCHANGED <<nalus, sent>> /\ CamStep

-----------------------------------------------------------------------------
(* startVideoTrack and stopVideoTrack. *)

StartVideoTrack ==
  /\ at["owner"] = "out" /\ source = "live" /\ epoch < MaxTracks
  /\ IF track # "none" THEN CallStopTrack("owner", "add") ELSE GoTo("owner", "add")
  /\ UNCHANGED <<sourceVars, trackVars, countVars, faults>>

\* addTrack may give no track; video_source_ is set by then.
AddTrack ==
  /\ at["owner"] = "add"
  /\ sourceSet' = TRUE
  /\ \/ UNCHANGED <<track, epoch>> /\ GoTo("owner", "out")
     \/ track' = "added" /\ epoch' = epoch + 1 /\ GoTo("owner", "encoder")
  /\ UNCHANGED <<sourceVars, started, encoder, nalus, sent, transport, calls, early,
                 faults>>

\* encoder_ is set before it is initialized; the encoder of an earlier track is
\* overwritten and never deleted.
CreateEncoder ==
  /\ at["owner"] = "encoder"
  /\ encoder' \in CreatedEncoders
  /\ GoTo("owner", IF encoder' = NoEncoder THEN "out" ELSE "init")
  /\ UNCHANGED <<sourceVars, track, sourceSet, started, nalus, sent, transport,
                 countVars, faults>>

\* An encoder that refuses its configuration is deleted.
InitEncoder ==
  /\ at["owner"] = "init"
  /\ \E config \in Configs : \E success \in InitializeResults(encoder, config) :
       /\ encoder' = IF success THEN [encoder EXCEPT !.initialized = TRUE] ELSE NoEncoder
       /\ GoTo("owner", IF success THEN "hook" ELSE "out")
       /\ FaultIf(~success /\ cam = "encoding", "freed encoder")
  /\ UNCHANGED <<sourceVars, track, sourceSet, started, nalus, sent, transport, countVars>>

\* The frame callback and the callbacks of the track.
HookCallbacks ==
  /\ at["owner"] = "hook" /\ SourceMutexFree
  /\ hooked' = TRUE
  /\ track' = IF track = "added" THEN "new" ELSE track
  /\ GoTo("owner", "out")
  /\ UNCHANGED <<cam, running, joinable, source, sourceSet, started, encoder, nalus,
                 sent, transport, countVars, faults>>

CallStopVideoTrack ==
  /\ at["owner"] = "out" /\ calls < MaxCalls /\ calls' = calls + 1
  /\ CallStopTrack("owner", "out")
  /\ UNCHANGED <<sourceVars, trackVars, epoch, early, faults>>

StopTrackSource(a) ==
  /\ at[a] = "stop_track"
  /\ IF sourceSet THEN CallStop(a, "null") ELSE GoTo(a, "close_track")
  /\ UNCHANGED <<sourceVars, trackVars, countVars, faults>>

\* Mutant: video_source_started_ is left set.
ForgetSourceStarted(a) ==
  /\ at[a] = "null"
  /\ sourceSet' = FALSE /\ UNCHANGED started
  /\ GoTo(a, "close_track")
  /\ UNCHANGED <<sourceVars, track, encoder, nalus, sent, transport, countVars, faults>>

ForgetSource(a) ==
  /\ at[a] = "null"
  /\ sourceSet' = FALSE /\ started' = FALSE
  /\ GoTo(a, "close_track")
  /\ UNCHANGED <<sourceVars, track, encoder, nalus, sent, transport, countVars, faults>>

\* Track::close calls onClosed, which stops the source if there still is one.
Close(a, label) ==
  IF track \in {"new", "open"}
    THEN /\ track' = "closed"
         /\ IF sourceSet THEN CallStop(a, label) ELSE GoTo(a, label)
    ELSE GoTo(a, label) /\ UNCHANGED track

CloseTrack(a) ==
  /\ at[a] = "close_track"
  /\ Close(a, "reset_track")
  /\ UNCHANGED <<sourceVars, sourceSet, started, encoder, nalus, sent, transport,
                 countVars, faults>>

ResetTrack(a) ==
  /\ at[a] = "reset_track"
  /\ track' = "none"
  /\ GoTo(a, "clear")
  /\ UNCHANGED <<sourceVars, sourceSet, started, encoder, nalus, sent, transport,
                 countVars, faults>>

\* Mutant: the stored frame outlives its track.
ClearNalusNot(a) ==
  /\ at[a] = "clear"
  /\ GoTo(a, after[a])
  /\ UNCHANGED <<sourceVars, trackVars, countVars, faults>>

\* The RTP configuration, the encoder's queue and the stored frame are dropped.
ClearNalus(a) ==
  /\ at[a] = "clear"
  /\ nalus' = 0 /\ sent' = FALSE
  /\ GoTo(a, after[a])
  /\ UNCHANGED <<sourceVars, track, sourceSet, started, encoder, transport, countVars,
                 faults>>

-----------------------------------------------------------------------------
(* The owner's other calls. *)

\* "Video source should be started by the caller at the appropriate time".
OwnerStartsSource ==
  /\ at["owner"] = "out" /\ source = "live" /\ calls < MaxCalls /\ calls' = calls + 1
  /\ SourceStart
  /\ early' = TRUE
  /\ UNCHANGED <<threadVars, hooked, source, trackVars, epoch>>

\* Shutdown of the transport: it closes the track, then the PeerConnection ...
Shutdown ==
  /\ at["owner"] = "out"
  /\ Close("owner", "reset")
  /\ UNCHANGED <<sourceVars, sourceSet, started, encoder, nalus, sent, transport,
                 countVars, faults>>

ShutdownReset ==
  /\ at["owner"] = "reset"
  /\ track' = "none"
  /\ GoTo("owner", "close_pc")
  /\ UNCHANGED <<sourceVars, sourceSet, started, encoder, nalus, sent, transport,
                 countVars, faults>>

\* ... which waits for the callback the network thread is in.
ClosePeerConnection ==
  /\ at["owner"] = "close_pc" /\ at["net"] = "out"
  /\ transport' = "closed" /\ nalus' = 0 /\ sent' = FALSE
  /\ GoTo("owner", "destroy")
  /\ UNCHANGED <<sourceVars, track, sourceSet, started, encoder, countVars, faults>>

\* The destructor deletes the encoder.
DestroyTransport ==
  /\ at["owner"] = "destroy"
  /\ FaultIf(cam = "encoding", "freed encoder")
  /\ transport' = "freed" /\ encoder' = NoEncoder
  /\ GoTo("owner", "source")
  /\ UNCHANGED <<sourceVars, track, sourceSet, started, nalus, sent, countVars>>

\* Only now does the coordinator stop the source.
StopSource ==
  /\ at["owner"] = "source"
  /\ IF source = "live" THEN CallStop("owner", "free") ELSE GoTo("owner", "gone")
  /\ UNCHANGED <<sourceVars, trackVars, countVars, faults>>

FreeSource ==
  /\ at["owner"] = "free"
  /\ source' = "freed"
  /\ GoTo("owner", "gone")
  /\ UNCHANGED <<cam, running, joinable, hooked, trackVars, countVars, faults>>

-----------------------------------------------------------------------------
(* The network thread. *)

NetFree == at["net"] = "out" /\ transport = "live"

TrackOpens ==
  /\ NetFree /\ track = "new"
  /\ track' = "open"
  /\ GoTo("net", "opened")
  /\ UNCHANGED <<sourceVars, sourceSet, started, encoder, nalus, sent, transport,
                 countVars, faults>>

\* onOpen uses video_track_, and sends what was stored.
OnOpen ==
  /\ at["net"] = "opened"
  /\ FaultIf(track = "none", "null track")
  /\ sent' = (sent \/ nalus # 0)
  /\ GoTo("net", "opened_check")
  /\ UNCHANGED <<sourceVars, track, sourceSet, started, encoder, nalus, transport,
                 countVars>>

OnOpenCheck ==
  /\ at["net"] = "opened_check"
  /\ GoTo("net", IF sourceSet /\ ~started THEN "opened_start" ELSE "out")
  /\ UNCHANGED <<sourceVars, trackVars, countVars, faults>>

OnOpenStart ==
  /\ at["net"] = "opened_start"
  /\ IF sourceSet /\ source = "live"
       THEN SourceStart
       ELSE /\ faults' = faults \cup {IF sourceSet THEN "freed source" ELSE "null source"}
            /\ UNCHANGED <<cam, running, joinable>>
  /\ GoTo("net", "opened_started")
  /\ UNCHANGED <<hooked, source, trackVars, countVars>>

OnOpenStarted ==
  /\ at["net"] = "opened_started"
  /\ started' = TRUE
  /\ GoTo("net", "out")
  /\ UNCHANGED <<sourceVars, track, sourceSet, encoder, nalus, sent, transport,
                 countVars, faults>>

\* The other side closes the track: onClosed leaves video_source_started_ set.
TrackCloses ==
  /\ NetFree /\ track \in {"new", "open"}
  /\ Close("net", "out")
  /\ UNCHANGED <<sourceVars, sourceSet, started, encoder, nalus, sent, transport,
                 countVars, faults>>

\* kDisconnected or kClosed: the coordinator stops the track ...
ConnectionLost ==
  /\ NetFree
  /\ CallStopTrack("net", "forget")
  /\ UNCHANGED <<sourceVars, trackVars, countVars, faults>>

\* ... and stops and destroys its source.
CoordinatorStops ==
  /\ at["net"] = "forget"
  /\ IF source = "live" THEN CallStop("net", "forgotten") ELSE GoTo("net", "out")
  /\ UNCHANGED <<sourceVars, trackVars, countVars, faults>>

CoordinatorFrees ==
  /\ at["net"] = "forgotten"
  /\ source' = "freed"
  /\ GoTo("net", "out")
  /\ UNCHANGED <<cam, running, joinable, hooked, trackVars, countVars, faults>>

-----------------------------------------------------------------------------
NoteCrossing ==
  crossed' = (crossed \/ (at'["owner"] \notin {"out", "gone"} /\ at'["net"] # "out"))

CamNext ==
  /\ CamTest \/ CamFrame \/ CheckTrack \/ Encode \/ SendEncodedFrame \/ UseTrack
  /\ NoteCrossing

\* Inside a call or a callback.
ActorStep(a) ==
  \/ Stop(a) \/ Join(a) \/ StopTrackSource(a) \/ ForgetSource(a)
  \/ CloseTrack(a) \/ ResetTrack(a) \/ ClearNalus(a)

OwnerStep ==
  /\ \/ ActorStep("owner") \/ AddTrack \/ CreateEncoder \/ InitEncoder \/ HookCallbacks
     \/ ShutdownReset \/ ClosePeerConnection \/ DestroyTransport
     \/ StopSource \/ FreeSource
  /\ NoteCrossing

NetStep ==
  /\ \/ ActorStep("net") \/ OnOpen \/ OnOpenCheck \/ OnOpenStart \/ OnOpenStarted
     \/ CoordinatorStops \/ CoordinatorFrees
  /\ NoteCrossing

OwnerCall ==
  /\ StartVideoTrack \/ CallStopVideoTrack \/ OwnerStartsSource \/ Shutdown
  /\ NoteCrossing

NetEvent ==
  /\ TrackOpens \/ TrackCloses \/ ConnectionLost
  /\ NoteCrossing

Next == CamNext \/ OwnerStep \/ NetStep \/ OwnerCall \/ NetEvent

\* The three threads are scheduled; calls and events are free to happen or not.
Fairness == WF_vars(CamNext) /\ WF_vars(OwnerStep) /\ WF_vars(NetStep)

Spec == Init /\ [][Next]_vars /\ Fairness
-----------------------------------------------------------------------------
(* Properties. *)

\* The values the members of transport and source may hold.
TypeOK ==
  /\ at \in [Actors -> Labels] /\ ret \in [Actors -> Labels] /\ after \in [Actors -> Labels]
  /\ cam \in CamLabels
  /\ {running, joinable, hooked, sourceSet, started, sent, early, crossed} \subseteq BOOLEAN
  /\ source \in {"live", "freed"} /\ transport \in {"live", "closed", "freed"}
  /\ track \in {"none", "added", "new", "open", "closed"}
  /\ encoder \in Encoders
  /\ epoch \in 0 .. MaxTracks /\ nalus \in 0 .. epoch /\ calls \in 0 .. MaxCalls
  /\ faults \subseteq {"terminate", "joined twice", "freed source", "null source",
                      "freed capture", "freed transport", "freed encoder", "null track"}

\* Without a mutex, the video path is in order only as its users take turns: a
\* null pointer, a destroyed object or a thread joined twice is met only after
\* the owner and the network thread were busy with it at once, or the owner
\* started the source itself, as the comment in startVideoTrack asks it to, and
\* so ahead of the encoder and the track.  The capture of the coordinator
\* outlives the frame callback in either case but the second.
FaultsNeedCrossing ==
  /\ faults # {} => crossed \/ early
  /\ "freed capture" \in faults => early

\* The frame stored for a track that is not open yet is one of that track, not
\* of an earlier one: stopVideoTrack drops it after it joined the thread that
\* might store another.
StoredFrameIsOfThisTrack == ~crossed /\ nalus # 0 => nalus = epoch

\* A track that opens gets its frames: onOpen starts the source unless
\* video_source_started_ says that it runs, and whatever stops a source for good
\* (stopVideoTrack) clears that flag.  The flag is no atomic test and set: where
\* the owner stops the track while onOpen is starting the source, it is left set
\* on a stopped source, and the next track opens without frames.
OpenTrackCaptures ==
  track = "open" ~> \/ cam \notin {"none", "ended"} \/ track # "open"
                    \/ crossed \/ faults # {}
=============================================================================

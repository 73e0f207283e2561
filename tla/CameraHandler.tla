--------------------------- MODULE CameraHandler ---------------------------
(***************************************************************************)
(* AbstractUVCCameraHandler: application threads post messages to the      *)
(* looper of the camera thread, which opens, previews, records and closes. *)
(* A step is what a thread does between two points where another can       *)
(* interfere; a critical section of mSync is one step.  preview is whether *)
(* the native preview uses the application's surface, movie what becomes   *)
(* of the recordings: "active" is recorded, "draining" is still written by *)
(* its encoder threads after the stop, "stopped" has its update scheduled. *)
(* An encoder thread may also come to release the handler itself.          *)
(***************************************************************************)
EXTENDS Naturals, SequencesExt

CONSTANTS
    OPENER,         \* threads that open, start the preview and record
    CLOSER,         \* threads that stop, close and release
    MAX_POSTS,      \* bound: calls of an opener
    MAX_STOPS,      \* bound: calls of a closer
    MAX_MOVIES,     \* bound: recordings
    ENCODER_TYPES   \* which of 0 surface, 1 video, 2 buffer encoder

CLIENT == OPENER \cup CLOSER
MOVIE  == 1 .. MAX_MOVIES

ASSUME HandlerAssumption == /\ OPENER \cap CLOSER = {}
                            /\ MAX_POSTS \in Nat /\ MAX_STOPS \in Nat
                            /\ MAX_MOVIES \in Nat
                            /\ ENCODER_TYPES \subseteq 0 .. 2

VARIABLES
    queue, mReleased,
    mUVCCamera, mIsPreviewing, mIsRecording, mMuxer,
    preview, movie,
    held,                   \* the encoder threads that took a camera which previews
    mEncoderType, parentGone,   \* the activity was found destroyed or collected
    camPc, after,           \* the camera thread; where handleClose returns
    pc, call, calls,        \* the application threads
    stale,                  \* history: a close left mIsPreviewing set
    overlap                 \* history: a recording began while one drained

messages == <<queue, mReleased>>
flags    == <<mUVCCamera, mIsPreviewing, mIsRecording, mMuxer>>
setting  == <<mEncoderType, parentGone>>
outside  == <<preview, movie, held, setting>>
camera   == <<camPc, after>>
clients  == <<pc, call, calls>>
history  == <<stale, overlap>>
vars == <<messages, flags, outside, camera, clients, history>>

Message == {"OPEN", "CLOSE", "PREVIEW_START", "PREVIEW_STOP", "CAPTURE_STILL",
            "CAPTURE_START", "CAPTURE_STOP", "MEDIA_UPDATE", "RELEASE"}

Init ==
    /\ queue = <<>> /\ mReleased = FALSE
    /\ mUVCCamera = FALSE /\ mIsPreviewing = FALSE /\ mIsRecording = FALSE
    /\ mMuxer = 0
    /\ preview = FALSE /\ movie = [m \in MOVIE |-> "none"] /\ held = {}
    /\ mEncoderType \in ENCODER_TYPES /\ parentGone = FALSE
    /\ camPc = "idle" /\ after = "idle"
    /\ pc = [c \in CLIENT |-> "idle"] /\ call = [c \in CLIENT |-> "none"]
    /\ calls = [c \in CLIENT |-> 0]
    /\ stale = FALSE /\ overlap = FALSE

\* An exception nobody catches on the camera thread ends the whole process.
running == camPc \notin {"crashed", "no_camera"}
alive == running /\ camPc # "dead"

\* A message to a looper that has quit is dropped.
send(q, m) == IF alive THEN Append(q, m) ELSE q

\* removeMessages: what is left of q, in its order, without m.
Without(q, m) ==
    LET kept[n \in 0 .. Len(q)] ==
            IF n = 0 THEN <<>>
            ELSE IF q[n] = m THEN kept[n - 1] ELSE Append(kept[n - 1], q[n])
    IN  kept[Len(q)]

-----------------------------------------------------------------------------
(* The application threads.                                                *)

goto(c, label) == pc' = [pc EXCEPT ![c] = label]

\* open, startPreview, startRecording, captureStill look whether the handler is
\* released ...
checkReleased(c, what) ==
    /\ c \in OPENER /\ pc[c] = "idle" /\ calls[c] < MAX_POSTS
    /\ ~mReleased
    /\ calls' = [calls EXCEPT ![c] = @ + 1]
    /\ call' = [call EXCEPT ![c] = what]
    /\ goto(c, "post")
    /\ UNCHANGED <<messages, flags, outside, camera, history>>

\* ... and then post their message: it may have been released in between.
post(c) ==
    /\ pc[c] = "post"
    /\ queue' = send(queue, call[c])
    /\ call' = [call EXCEPT ![c] = "none"]
    /\ goto(c, "idle")
    /\ UNCHANGED <<mReleased, flags, outside, camera, calls, history>>

\* stopRecording, called by itself, does not look.
stopRecording_alone(c) ==
    /\ c \in OPENER /\ pc[c] = "idle" /\ calls[c] < MAX_POSTS
    /\ calls' = [calls EXCEPT ![c] = @ + 1]
    /\ queue' = send(queue, "CAPTURE_STOP")
    /\ UNCHANGED <<mReleased, flags, outside, camera, pc, call, history>>

\* stopPreview, or close and release, which look whether a camera is open.
stop_close_release(c, op) ==
    /\ c \in CLOSER /\ pc[c] = "idle" /\ calls[c] < MAX_STOPS
    /\ calls' = [calls EXCEPT ![c] = @ + 1]
    /\ call' = [call EXCEPT ![c] = op]
    /\ mReleased' = (mReleased \/ op = "release")
    /\ goto(c, IF op = "stop" THEN "stop_preview" ELSE "close")
    /\ UNCHANGED <<queue, flags, outside, camera, history>>

\* Faulty variant: a release without a camera returns like a close.
isOpened_Returns(c) ==
    /\ pc[c] = "close"
    /\ IF mUVCCamera THEN goto(c, "stop_preview")
       ELSE goto(c, IF call[c] = "release" THEN "released" ELSE "idle")
    /\ UNCHANGED <<messages, flags, outside, camera, call, calls, history>>

isOpened(c) ==
    /\ pc[c] = "close"
    /\ IF mUVCCamera THEN goto(c, "stop_preview")
       ELSE goto(c, IF call[c] = "release" THEN "send_release" ELSE "idle")
    /\ UNCHANGED <<messages, flags, outside, camera, call, calls, history>>

\* The starts that are still queued are removed ...
stopPreview(c) ==
    /\ pc[c] = "stop_preview"
    /\ queue' = Without(queue, "PREVIEW_START")
    /\ goto(c, "stop_recording")
    /\ UNCHANGED <<mReleased, flags, outside, camera, call, calls, history>>

\* ... and the recording is asked to stop.
stopRecording(c) ==
    /\ pc[c] = "stop_recording"
    /\ queue' = send(queue, "CAPTURE_STOP")
    /\ goto(c, "is_previewing")
    /\ UNCHANGED <<mReleased, flags, outside, camera, call, calls, history>>

stopped(c) == goto(c, IF call[c] = "stop" THEN "stop_returns" ELSE "send_close")

\* Faulty variant: it waits for the stop of any open camera.
isPreviewing_Opened(c) ==
    /\ pc[c] = "is_previewing"
    /\ IF mUVCCamera THEN goto(c, "stop_and_wait") ELSE stopped(c)
    /\ UNCHANGED <<messages, flags, outside, camera, call, calls, history>>

isPreviewing(c) ==
    /\ pc[c] = "is_previewing"
    /\ IF mUVCCamera /\ mIsPreviewing THEN goto(c, "stop_and_wait")
                                      ELSE stopped(c)
    /\ UNCHANGED <<messages, flags, outside, camera, call, calls, history>>

\* synchronized (mSync) { send; mSync.wait() }: wait once, without a condition.
send_stop_and_wait(c) ==
    /\ pc[c] = "stop_and_wait"
    /\ queue' = send(queue, "PREVIEW_STOP")
    /\ goto(c, "waiting")
    /\ UNCHANGED <<mReleased, flags, outside, camera, call, calls, history>>

woken(c) ==
    /\ pc[c] = "woken"
    /\ stopped(c)
    /\ UNCHANGED <<messages, flags, outside, camera, call, calls, history>>

stopPreview_returns(c) ==
    /\ pc[c] = "stop_returns"
    /\ goto(c, "idle")
    /\ UNCHANGED <<messages, flags, outside, camera, call, calls, history>>

send_close(c) ==
    /\ pc[c] = "send_close"
    /\ queue' = send(queue, "CLOSE")
    /\ goto(c, IF call[c] = "release" THEN "send_release" ELSE "idle")
    /\ UNCHANGED <<mReleased, flags, outside, camera, call, calls, history>>

send_release(c) ==
    /\ pc[c] = "send_release"
    /\ queue' = send(queue, "RELEASE")
    /\ goto(c, "released")
    /\ UNCHANGED <<mReleased, flags, outside, camera, call, calls, history>>

-----------------------------------------------------------------------------
(* The camera thread.                                                      *)

notifyAll == pc' = [c \in CLIENT |-> IF pc[c] = "waiting" THEN "woken" ELSE pc[c]]

\* The message what is the next one, and the thread is free to handle it.
handle(what) == /\ camPc = "idle" /\ queue # <<>>
                /\ Head(queue) = what
                /\ queue' = Tail(queue)

\* Faulty variant: the test for a recording is missing.
takeMuxer_Untested ==
    /\ mMuxer' = 0
    /\ movie' = [m \in MOVIE \cup {mMuxer} |-> IF m = mMuxer THEN "draining"
                                                        ELSE movie[m]]

\* handleStopRecording: the muxer is taken and its recording stopped ...
takeMuxer ==
    /\ mMuxer' = 0
    /\ movie' = [m \in MOVIE |-> IF m = mMuxer THEN "draining" ELSE movie[m]]

\* ... then its frame callback is removed from a camera that is not tested.
remove_callback ==
    /\ camPc = "callback"
    /\ camPc' = IF ~mUVCCamera THEN "no_camera"
                ELSE IF after = "stop" THEN "idle" ELSE "take"
    /\ after' = IF after = "stop" THEN "idle" ELSE after
    /\ UNCHANGED <<messages, flags, outside, clients, history>>

\* handleClose: without a camera it returns, to go on at label.
takeCamera(label) ==
    /\ mUVCCamera' = FALSE
    /\ camPc' = IF mUVCCamera THEN "destroy" ELSE label
    /\ stale' = (stale \/ (mUVCCamera /\ mIsPreviewing))

\* Faulty variant: the recording is not stopped.
handleClose_Recording(label) ==
    /\ after' = label
    /\ takeCamera(label) /\ UNCHANGED <<mMuxer, movie>>

handleClose(label) ==
    /\ after' = label
    /\ IF mMuxer # 0
       THEN takeMuxer /\ camPc' = "callback" /\ UNCHANGED <<mUVCCamera, stale>>
       ELSE takeCamera(label) /\ UNCHANGED <<mMuxer, movie>>

take_camera ==
    /\ camPc = "take"
    /\ takeCamera(after)
    /\ UNCHANGED <<messages, mIsPreviewing, mIsRecording, mMuxer, outside, after,
                   clients, overlap>>

camera_only == UNCHANGED <<mReleased, mIsPreviewing, mIsRecording, preview, held,
                           mEncoderType, overlap, clients>>

handle_open ==
    handle("OPEN") /\ handleClose("open") /\ camera_only /\ UNCHANGED parentGone

handle_close ==
    handle("CLOSE") /\ handleClose("idle") /\ camera_only /\ UNCHANGED parentGone

handle_release ==
    handle("RELEASE") /\ handleClose("release") /\ camera_only /\ UNCHANGED parentGone

\* Faulty variant: it does not look whether the handler was released.
handle_update_media_Only ==
    /\ handle("MEDIA_UPDATE")
    /\ UNCHANGED <<movie, mMuxer, mUVCCamera, parentGone, camera, stale>>
    /\ camera_only

\* The media scanner is told; then a released handler, or one whose activity is
\* gone by now, goes on releasing.
handle_update_media ==
    /\ handle("MEDIA_UPDATE")
    /\ parentGone' \in {parentGone, parentGone \/ ~mReleased}
    /\ IF mReleased \/ parentGone'
       THEN handleClose("release")
       ELSE UNCHANGED <<movie, mMuxer, mUVCCamera, camera, stale>>
    /\ camera_only

\* Faulty variant: the camera is destroyed without stopping its preview.
destroy_camera_Previewing ==
    /\ camPc = "destroy"
    /\ camPc' = after
    /\ UNCHANGED <<messages, flags, outside, after, clients, history>>

destroy_camera ==
    /\ camPc = "destroy"
    /\ preview' = FALSE
    /\ camPc' = after
    /\ UNCHANGED <<messages, flags, movie, held, setting, after, clients, history>>

\* UVCCamera.open throws when the connection fails.
open_camera ==
    /\ camPc = "open"
    /\ mUVCCamera' \in BOOLEAN
    /\ camPc' = "idle"
    /\ UNCHANGED <<messages, mIsPreviewing, mIsRecording, mMuxer, outside,
                   after, clients, history>>

handle_start_preview ==
    /\ handle("PREVIEW_START")
    /\ camPc' = IF mUVCCamera /\ ~mIsPreviewing THEN "start" ELSE "idle"
    /\ UNCHANGED <<mReleased, flags, outside, after, clients, history>>

\* setPreviewSize refuses both modes, or the native preview takes the surface.
start_preview ==
    /\ camPc = "start"
    /\ \/ ~mUVCCamera /\ camPc' = "no_camera" /\ UNCHANGED preview
       \/ mUVCCamera /\ camPc' = "idle" /\ UNCHANGED preview
       \/ mUVCCamera /\ camPc' = "started" /\ preview' = TRUE
    /\ UNCHANGED <<messages, flags, movie, held, setting, after, clients, history>>

\* updateCameraParams, which needs the camera, and then the flag.
preview_started ==
    /\ camPc = "started"
    /\ \/ mIsPreviewing' = TRUE /\ stale' = (stale \/ ~mUVCCamera) /\ camPc' = "idle"
       \/ ~mUVCCamera /\ camPc' = "no_camera" /\ UNCHANGED <<mIsPreviewing, stale>>
    /\ UNCHANGED <<messages, mUVCCamera, mIsRecording, mMuxer, outside, after,
                   clients, overlap>>

handle_stop_preview ==
    /\ handle("PREVIEW_STOP")
    /\ IF mIsPreviewing
       THEN camPc' = "stopped" /\ preview' = (preview /\ ~mUVCCamera)
       ELSE UNCHANGED <<camPc, preview>>
    /\ UNCHANGED <<mReleased, flags, movie, held, setting, after, clients, history>>

\* Faulty variant: nobody is notified.
preview_stopped_Silent ==
    /\ camPc = "stopped"
    /\ mIsPreviewing' = FALSE /\ stale' = FALSE
    /\ camPc' = "idle"
    /\ UNCHANGED <<messages, mUVCCamera, mIsRecording, mMuxer, outside, after,
                   clients, overlap>>

preview_stopped ==
    /\ camPc = "stopped"
    /\ mIsPreviewing' = FALSE /\ stale' = FALSE
    /\ notifyAll
    /\ camPc' = "idle"
    /\ UNCHANGED <<messages, mUVCCamera, mIsRecording, mMuxer, outside, after,
                   call, calls, overlap>>

\* A picture that was saved is announced to the media scanner like a movie.
handle_capture_still ==
    /\ camPc = "idle" /\ queue # <<>> /\ Head(queue) = "CAPTURE_STILL"
    /\ \/ queue' = Tail(queue)
       \/ queue' = send(Tail(queue), "MEDIA_UPDATE")
    /\ UNCHANGED <<mReleased, flags, outside, camera, clients, history>>

handle_start_recording ==
    /\ handle("CAPTURE_START")
    /\ camPc' = IF mUVCCamera /\ mMuxer = 0 THEN "record" ELSE "idle"
    /\ UNCHANGED <<mReleased, flags, outside, after, clients, history>>

\* The muxer or the video encoder cannot be made, or the audio encoder cannot be
\* prepared (the video encoder has set mIsRecording): handled for an IOException,
\* for any other the process ends.  The frame callback of a recording with the
\* buffer encoder needs the camera.
start_fails ==
    /\ camPc = "record"
    /\ camPc' \in {"idle", "crashed"}
    /\ mIsRecording' \in {mIsRecording, TRUE}
    /\ UNCHANGED <<messages, mUVCCamera, mIsPreviewing, mMuxer, outside, after,
                   clients, history>>

start_recording(m) ==
    /\ camPc = "record" /\ movie[m] = "none"
    /\ \A n \in MOVIE : n < m => movie[n] # "none"
    /\ mIsRecording' = TRUE
    /\ mMuxer' = m
    /\ movie' = [movie EXCEPT ![m] = "active"]
    /\ camPc' = IF mEncoderType = 2 /\ ~mUVCCamera THEN "no_camera" ELSE "idle"
    /\ overlap' = (overlap \/ \E n \in MOVIE : movie[n] = "draining")
    /\ UNCHANGED <<messages, mUVCCamera, mIsPreviewing, preview, held, setting,
                   after, clients, stale>>

handle_stop_recording ==
    /\ handle("CAPTURE_STOP")
    /\ takeMuxer
    /\ IF mMuxer # 0 THEN camPc' = "callback" /\ after' = "stop"
                     ELSE UNCHANGED camera
    /\ UNCHANGED <<mReleased, mUVCCamera, mIsPreviewing, mIsRecording, preview,
                   held, setting, clients, history>>

\* Faulty variant: the looper quits whatever goes on.
release_thread_Quits ==
    /\ camPc = "release"
    /\ camPc' = "quit" /\ mReleased' = TRUE
    /\ UNCHANGED <<queue, flags, outside, after, clients, history>>

\* The end of handleRelease: the looper quits unless a recording goes on.
release_thread ==
    /\ camPc = "release"
    /\ camPc' = IF mIsRecording THEN "idle" ELSE "quit"
    /\ mReleased' = (mReleased \/ ~mIsRecording)
    /\ UNCHANGED <<queue, flags, outside, after, clients, history>>

\* Looper.loop returns, what is queued is lost, run notifies for the last time.
run_ends ==
    /\ camPc = "quit"
    /\ camPc' = "dead" /\ queue' = <<>>
    /\ notifyAll
    /\ UNCHANGED <<mReleased, flags, outside, after, call, calls, history>>

-----------------------------------------------------------------------------
(* The encoder threads.                                                    *)

becomes(m, what) == movie' = [movie EXCEPT ![m] = what]

\* The listener's onStopped does not know the class of the buffer encoder.
onStopped_ignored(m) ==
    /\ movie[m] = "draining" /\ mEncoderType = 2
    /\ becomes(m, "over")
    /\ UNCHANGED <<messages, flags, preview, held, setting, camera, clients, history>>

\* Otherwise the movie is announced later.  Without a path, which the muxer kept
\* if it was not collected, a handler that was released, or whose activity is gone
\* by now, is released here, on the encoder thread; an exception on the way to
\* either is only logged.
onStopped(m) ==
    /\ movie[m] = "draining" /\ mEncoderType # 2
    /\ mIsRecording' = FALSE
    /\ \/ becomes(m, "stopped") /\ UNCHANGED parentGone
       \/ becomes(m, IF mReleased THEN "lost" ELSE "over") /\ UNCHANGED parentGone
       \/ becomes(m, "release") /\ parentGone' = (parentGone \/ ~mReleased)
    /\ UNCHANGED <<messages, mUVCCamera, mIsPreviewing, mMuxer, preview, held,
                   mEncoderType, camera, clients, history>>

\* handleRelease on the encoder thread stops the recording there is ...
release_stops(m) ==
    /\ movie[m] = "release"
    /\ mMuxer' = 0
    /\ movie' = [n \in MOVIE |->
                    IF n = m THEN IF mMuxer # 0 THEN "callback" ELSE "take"
                    ELSE IF n = mMuxer THEN "draining" ELSE movie[n]]
    /\ UNCHANGED <<messages, mUVCCamera, mIsPreviewing, mIsRecording, preview, held,
                   setting, camera, clients, history>>

\* ... removes its callback from the camera, if there still is one ...
release_callback(m) ==
    /\ movie[m] = "callback"
    /\ becomes(m, IF mUVCCamera THEN "take" ELSE "failed")
    /\ UNCHANGED <<messages, flags, preview, held, setting, camera, clients, history>>

\* ... takes the camera away from the camera thread ...
release_takes(m) ==
    /\ movie[m] = "take"
    /\ becomes(m, IF mUVCCamera THEN "destroy" ELSE "quit")
    /\ mUVCCamera' = FALSE
    /\ preview' = (preview /\ ~mUVCCamera)
    /\ held' = IF mUVCCamera /\ preview THEN held \cup {m} ELSE held
    /\ stale' = (stale \/ (mUVCCamera /\ mIsPreviewing))
    /\ UNCHANGED <<messages, mIsPreviewing, mIsRecording, mMuxer, setting, camera,
                   clients, overlap>>

release_destroys(m) ==
    /\ movie[m] = "destroy"
    /\ becomes(m, "quit")
    /\ held' = held \ {m}
    /\ UNCHANGED <<messages, flags, preview, setting, camera, clients, history>>

\* ... and fails to quit: the encoder thread has no looper.
release_quits(m) ==
    /\ movie[m] = "quit"
    /\ mReleased' = (mReleased \/ ~mIsRecording)
    /\ becomes(m, IF mIsRecording THEN "refused" ELSE "failed")
    /\ UNCHANGED <<queue, flags, preview, held, setting, camera, clients, history>>

\* The delayed MEDIA_UPDATE of onStopped becomes due.
update_due(m) ==
    /\ movie[m] = "stopped"
    /\ becomes(m, "over")
    /\ queue' = send(queue, "MEDIA_UPDATE")
    /\ UNCHANGED <<mReleased, flags, preview, held, setting, camera, clients, history>>

-----------------------------------------------------------------------------
Request == {"OPEN", "PREVIEW_START", "CAPTURE_START", "CAPTURE_STILL"}

Posts == \E c \in OPENER : \/ post(c) \/ stopRecording_alone(c)
                           \/ \E what \in Request : checkReleased(c, what)
Calls == \E c \in CLOSER : \E op \in {"stop", "close", "release"} :
            stop_close_release(c, op)
Client(c) == \/ isOpened(c) \/ stopPreview(c) \/ stopRecording(c)
             \/ isPreviewing(c) \/ send_stop_and_wait(c) \/ woken(c) \/ stopPreview_returns(c)
             \/ send_close(c) \/ send_release(c)
Camera == \/ handle_open \/ handle_close \/ handle_release \/ handle_update_media
          \/ remove_callback \/ take_camera \/ destroy_camera \/ open_camera
          \/ handle_start_preview \/ start_preview \/ preview_started
          \/ handle_stop_preview \/ preview_stopped
          \/ handle_capture_still
          \/ handle_start_recording \/ start_fails \/ \E m \in MOVIE : start_recording(m)
          \/ handle_stop_recording
          \/ release_thread \/ run_ends
Encoder(m) == \/ onStopped_ignored(m) \/ onStopped(m) \/ update_due(m)
              \/ release_stops(m) \/ release_callback(m) \/ release_takes(m)
              \/ release_destroys(m) \/ release_quits(m)

Next == /\ running
        /\ \/ Posts \/ Calls \/ Camera
           \/ \E c \in CLOSER : Client(c)
           \/ \E m \in MOVIE : Encoder(m)

Spec == Init /\ [][Next]_vars
FairSpec == /\ Spec /\ WF_vars(running /\ Camera)
            /\ \A c \in OPENER : WF_vars(running /\ post(c))
            /\ \A c \in CLOSER : WF_vars(running /\ Client(c))
            /\ \A m \in MOVIE : WF_vars(running /\ Encoder(m))

-----------------------------------------------------------------------------
\* Where an encoder thread is in handleRelease.
Releasing == {"release", "callback", "take", "destroy", "quit"}

TypeOK ==
    /\ queue \in Seq(Message)
    /\ {mReleased, mUVCCamera, mIsPreviewing, mIsRecording, preview, parentGone,
        stale, overlap} \subseteq BOOLEAN
    /\ mEncoderType \in ENCODER_TYPES
    /\ mMuxer \in 0 .. MAX_MOVIES
    /\ movie \in [MOVIE -> {"none", "active", "draining", "stopped", "over", "lost"}
                              \cup Releasing \cup {"refused", "failed"}]
    /\ held \subseteq MOVIE
    /\ camPc \in {"idle", "callback", "take", "destroy", "open", "start", "started",
                  "stopped", "record", "release", "quit", "dead", "crashed",
                  "no_camera"}
    /\ after \in {"idle", "stop", "open", "release"}
    /\ pc \in [CLIENT -> {"idle", "post", "close", "stop_preview", "stop_recording",
                          "is_previewing", "stop_and_wait", "waiting", "woken",
                          "stop_returns", "send_close", "send_release", "released"}]
    /\ call \in [CLIENT -> {"none", "stop", "close", "release"} \cup Request]
    /\ calls \in [CLIENT -> Nat]
    /\ \A c \in OPENER : calls[c] <= MAX_POSTS
    /\ \A c \in CLOSER : calls[c] <= MAX_STOPS

\* mIsPreviewing says whether the native preview uses the surface, except while
\* the camera thread is between the two, and except when a close overtook the
\* message that stops the preview: then a later start is ignored.
PreviewFlag ==
    /\ preview => /\ mUVCCamera \/ camPc = "destroy"
                  /\ mIsPreviewing \/ camPc = "started"
    /\ mUVCCamera /\ mIsPreviewing /\ ~preview => stale \/ camPc = "stopped"

\* An encoder thread has taken the camera away from the camera thread.
Intruded ==
    \E m \in MOVIE : movie[m] \in {"destroy", "quit", "refused", "failed"}

\* A recording has a camera, since handleStopRecording removes the frame callback
\* of mUVCCamera without a test, and the encoder of mMuxer is the one running: the
\* camera thread does not end on a camera that is gone, unless a handleRelease of
\* an encoder thread took it.
RecordingHasCamera ==
    /\ mMuxer # 0 => movie[mMuxer] = "active" /\ (mUVCCamera \/ Intruded)
    /\ \A m \in MOVIE : movie[m] = "active" => mMuxer = m
    /\ camPc = "no_camera" => Intruded

\* The camera thread stays for the encoders that report to it; only a second
\* recording started while the first still drained makes it leave too early.
StaysForEncoder ==
    camPc \in {"quit", "dead"} =>
        \A m \in MOVIE : movie[m] \in {"active", "draining"} => overlap

\* stopPreview "wait[s] for actually preview stopped to avoid releasing Surface/
\* SurfaceTexture while preview is still running" (AbstractUVCCameraHandler:182):
\* when it returns no native preview uses the surface.
StoppedOnReturn ==
    \A c \in CLOSER : pc[c] = "stop_returns" => ~preview /\ held = {}

\* With one thread that stops, a stopPreview that waits is woken again, although
\* handleStopPreview notifies only when it finds mIsPreviewing set.  The one
\* exception: an update handled after release has set mReleased ends the camera
\* thread before release comes to wait for it.
StopReturns ==
    \A c \in CLOSER : pc[c] = "waiting" ~> pc[c] # "waiting" \/ ~alive

\* The one that waits is not forgotten: as long as the camera thread lives, its
\* message is in the queue or being handled, and will not be passed over, since
\* mIsPreviewing has been set since before it was sent.
StopAnswered ==
    (\A c, d \in CLOSER : c = d) =>
        \A c \in CLOSER : pc[c] = "waiting" /\ alive =>
            /\ mIsPreviewing
            /\ camPc = "stopped" \/ \E i \in DOMAIN queue : queue[i] = "PREVIEW_STOP"

\* mIsRecording is set and no encoder will clear it any more: a recording failed
\* to start, or, with the buffer encoder, one has begun, since the listener does
\* not look for that class when an encoder has stopped.
Stuck == mIsRecording /\ \A m \in MOVIE : movie[m] \notin {"active", "draining"}

\* A recording that the camera thread had stayed for ended without a report: an
\* exception in onStopped, or handleRelease on a thread that has no looper.
ReportLost == \E m \in MOVIE : movie[m] \in {"lost", "failed"}

\* A released handler is not left behind: unless a recording still goes on, or its
\* report was lost, what makes the camera thread quit is being done, queued, or
\* due from an encoder, also when messages checked before the release were posted
\* after it.
ReleaseArrives ==
    (\E c \in CLOSER : pc[c] = "released") /\ ~mIsRecording =>
        \/ ~alive \/ camPc \in {"release", "quit"}
        \/ camPc \in {"callback", "take", "destroy"} /\ after = "release"
        \/ \E i \in DOMAIN queue : queue[i] \in {"RELEASE", "MEDIA_UPDATE"}
        \/ \E m \in MOVIE : movie[m] \in Releasing \cup {"stopped"}
        \/ ReportLost

\* After release the camera thread ends, also when a recording had to be finished
\* first, unless mIsRecording stays set for ever or the report was lost.
ThreadEnds ==
    (\E c \in CLOSER : pc[c] = "released") ~> ~alive \/ Stuck \/ ReportLost
=============================================================================

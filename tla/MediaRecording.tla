--------------------------- MODULE MediaRecording ---------------------------
(***************************************************************************)
(* One recording: MediaEncoder, MediaAudioEncoder and                      *)
(* MediaVideoBufferEncoder with their drain threads, the MediaMuxerWrapper  *)
(* they share, and the parts of AbstractUVCCameraHandler that start and    *)
(* stop them (encoder type 2, the one the application chooses).            *)
(*                                                                         *)
(* Every recording has a muxer, encoders and threads of its own, so a      *)
(* behaviour is one recording.  Threads: the camera thread (handler), a    *)
(* drain thread for each encoder, the AudioThread, and the thread that     *)
(* calls onFrame; the last two feed the codecs.  The garbage collector     *)
(* is an actor as well: the encoders only have a weak reference to the     *)
(* muxer.                                                                  *)
(*                                                                         *)
(* MediaCodec and MediaMuxer (Android) are modelled by how they are used:  *)
(* a codec takes buffers while it has room, announces its format before    *)
(* its first output, and returns an output for each input; a MediaMuxer    *)
(* throws when it is called in the wrong state.                            *)
(***************************************************************************)
EXTENDS Integers

CONSTANTS
    MAX_INPUT,      \* buffers a codec holds
    MAX_REQUEST,    \* bound of mRequestDrain
    TRIES           \* silent buffers of an AudioThread that recorded nothing

ASSUME InputAssumption == MAX_INPUT \in Nat \ {0}
ASSUME RequestAssumption == MAX_REQUEST \in Nat \ {0}
ASSUME TriesAssumption == TRIES \in Nat

\* The two slots of the muxer, mVideoEncoder and mAudioEncoder.
ENCODER == {"video", "audio"}

VARIABLES
    camera,         \* what the camera thread does next ...
    turn,           \* ... and with which encoder
    mVideoEncoder,  \* does the handler give frames to the video encoder?
    mEncoderCount, mStatredCount, mIsStarted,   \* MediaMuxerWrapper
    mediaMuxer,     \* state of Android's MediaMuxer
    muxerAlive,     \* does mWeakMuxer still lead to the muxer?
    mIsCapturing, mRequestStop, mRequestDrain,  \* MediaEncoder, under mSync
    mIsEOS, mMuxerStarted,                      \* MediaEncoder, drain thread
    mMediaCodec,    \* has the encoder a codec?
    input,          \* buffers in the codec that were not returned yet
    format,         \* has the codec announced its format?
    drainPc,        \* where the drain thread is ...
    pass,           \* ... and which drain() of run() it is in
    feederPc,       \* where the thread that feeds the encoder is
    fed,            \* AudioThread: cnt > 0
    spare,          \* AudioThread: silent buffers sent, 0 in the normal loop
    died            \* did an uncaught exception end the process?

cameraVars == <<camera, turn, mVideoEncoder>>
muxerVars == <<mEncoderCount, mStatredCount, mIsStarted, mediaMuxer, muxerAlive>>
requestVars == <<mIsCapturing, mRequestStop, mRequestDrain>>
codecVars == <<mIsEOS, mMediaCodec, input, format>>
drainVars == <<mMuxerStarted, drainPc, pass>>
feederVars == <<feederPc, fed, spare>>
vars == <<cameraVars, muxerVars, requestVars, codecVars, drainVars, feederVars, died>>

Draining == {"dequeue", "start", "muxerWait", "write"}
DrainPc == {"none", "begin", "read", "wait", "waiting", "enter", "signal",
            "release", "stopMuxer", "exit", "done"} \cup Draining
FeederPc == {"none", "idle", "check", "open", "loop", "encode", "queue", "avail",
             "last", "fallback", "end"}
Camera == {"new", "begin", "prepare", "start", "publish", "recording", "stop",
           "stopped", "failed"}

TypeOK ==
    /\ camera \in Camera
    /\ turn \in ENCODER
    /\ mVideoEncoder \in BOOLEAN
    /\ mEncoderCount \in 0..2
    /\ mStatredCount \in 0..2
    /\ mIsStarted \in BOOLEAN
    /\ mediaMuxer \in {"initialized", "started", "stopped", "released"}
    /\ muxerAlive \in BOOLEAN
    /\ mIsCapturing \in [ENCODER -> BOOLEAN]
    /\ mRequestStop \in [ENCODER -> BOOLEAN]
    /\ mRequestDrain \in [ENCODER -> 0..MAX_REQUEST]
    /\ mIsEOS \in [ENCODER -> BOOLEAN]
    /\ mMediaCodec \in [ENCODER -> BOOLEAN]
    /\ input \in [ENCODER -> 0..MAX_INPUT]
    /\ format \in [ENCODER -> BOOLEAN]
    /\ mMuxerStarted \in [ENCODER -> BOOLEAN]
    /\ drainPc \in [ENCODER -> DrainPc]
    /\ pass \in [ENCODER -> {"loop", "flush", "last"}]
    /\ feederPc \in [ENCODER -> FeederPc]
    /\ fed \in BOOLEAN
    /\ spare \in 0..TRIES
    /\ died \in BOOLEAN

\* handleStartRecording has made the MediaMuxerWrapper; the video encoder is
\* constructed first.  onFrame is called whether or not there is a recording.
Init ==
    /\ camera = "new"
    /\ turn = "video"
    /\ mVideoEncoder = FALSE
    /\ mEncoderCount = 0
    /\ mStatredCount = 0
    /\ mIsStarted = FALSE
    /\ mediaMuxer = "initialized"
    /\ muxerAlive = TRUE
    /\ mIsCapturing = [e \in ENCODER |-> FALSE]
    /\ mRequestStop = [e \in ENCODER |-> FALSE]
    /\ mRequestDrain = [e \in ENCODER |-> 0]
    /\ mIsEOS = [e \in ENCODER |-> FALSE]
    /\ mMediaCodec = [e \in ENCODER |-> FALSE]
    /\ input = [e \in ENCODER |-> 0]
    /\ format = [e \in ENCODER |-> FALSE]
    /\ mMuxerStarted = [e \in ENCODER |-> FALSE]
    /\ drainPc = [e \in ENCODER |-> "none"]
    /\ pass = [e \in ENCODER |-> "loop"]
    /\ feederPc = [e \in ENCODER |-> IF e = "video" THEN "idle" ELSE "none"]
    /\ fed = FALSE
    /\ spare = 0
    /\ died = FALSE

-----------------------------------------------------------------------------
(* Helpers *)

\* mSync.notifyAll(): the drain thread goes on if it is in mSync.wait().
Notified(e) ==
    [drainPc EXCEPT ![e] = IF @ = "waiting" THEN "read" ELSE @]

\* The camera thread deals with the video encoder, then with the audio encoder.
NextEncoder(done) ==
    IF turn = "video"
    THEN camera' = camera /\ turn' = "audio"
    ELSE camera' = done /\ turn' = "video"

\* Where a drain thread goes on when drain() returns.
AfterDrain(e) ==
    CASE pass[e] = "loop" -> "read"
      [] pass[e] = "flush" -> "signal"
      [] pass[e] = "last" -> "release"

\* Where the feeder goes on when encode() has returned or thrown: onFrame is
\* done in either case; AudioThread catches, ends its loop and tries silence if
\* it has recorded nothing.
AfterEncode(e) == IF e = "video" THEN "idle" ELSE "avail"
AfterThrow(e) ==
    IF e = "video" THEN "idle"
    ELSE IF fed \/ spare > 0 THEN "end" ELSE "fallback"

-----------------------------------------------------------------------------
(* The camera thread: handleStartRecording and handleStopRecording *)

\* MediaEncoder(): addEncoder, then the drain thread is started.
construct ==
    /\ camera = "new"
    /\ mEncoderCount' = mEncoderCount + 1
    /\ drainPc' = [drainPc EXCEPT ![turn] = "begin"]
    /\ camera' = "begin"
    /\ UNCHANGED <<turn, mVideoEncoder, mStatredCount, mIsStarted, mediaMuxer,
                   muxerAlive, mMuxerStarted, pass>>
    /\ UNCHANGED <<requestVars, codecVars, feederVars, died>>

\* The constructor waits until the drain thread runs.
constructed ==
    /\ camera = "begin"
    /\ drainPc[turn] # "begin"
    /\ \/ turn = "video" /\ camera' = "new" /\ turn' = "audio"
       \/ turn = "audio" /\ camera' = "prepare" /\ turn' = "video"
    /\ UNCHANGED <<mVideoEncoder, muxerVars, requestVars, codecVars, drainVars,
                   feederVars, died>>

\* prepare() finds no codec and returns, or starts the codec.
prepare ==
    /\ camera = "prepare"
    /\ mMuxerStarted' = [mMuxerStarted EXCEPT ![turn] = FALSE]
    /\ mIsEOS' = [mIsEOS EXCEPT ![turn] = FALSE]
    /\ \E found \in BOOLEAN : mMediaCodec' = [mMediaCodec EXCEPT ![turn] = found]
    /\ NextEncoder("start")
    /\ UNCHANGED <<mVideoEncoder, input, format, drainPc, pass>>
    /\ UNCHANGED <<muxerVars, requestVars, feederVars, died>>

\* prepare() throws: handleStartRecording gives up, and nothing but the drain
\* threads remembers the muxer and the encoders.
prepareThrows ==
    /\ camera = "prepare"
    /\ mMuxerStarted' = [mMuxerStarted EXCEPT ![turn] = FALSE]
    /\ mIsEOS' = [mIsEOS EXCEPT ![turn] = FALSE]
    /\ camera' = "failed"
    /\ UNCHANGED <<turn, mVideoEncoder, mMediaCodec, input, format, drainPc, pass>>
    /\ UNCHANGED <<muxerVars, requestVars, feederVars, died>>

\* startRecording(); the audio encoder also starts its AudioThread.
startRecording ==
    /\ camera = "start"
    /\ mIsCapturing' = [mIsCapturing EXCEPT ![turn] = TRUE]
    /\ mRequestStop' = [mRequestStop EXCEPT ![turn] = FALSE]
    /\ drainPc' = Notified(turn)
    /\ feederPc' = [feederPc EXCEPT ![turn] = IF turn = "audio" THEN "open" ELSE @]
    /\ NextEncoder("publish")
    /\ UNCHANGED <<mVideoEncoder, mRequestDrain, mMuxerStarted, pass, fed, spare>>
    /\ UNCHANGED <<muxerVars, codecVars, died>>

\* setFrameCallback, then mMuxer and mVideoEncoder are set.
publish ==
    /\ camera = "publish"
    /\ mVideoEncoder' = TRUE
    /\ camera' = "recording"
    /\ UNCHANGED <<turn, muxerVars, requestVars, codecVars, drainVars, feederVars, died>>

\* handleStopRecording up to stopRecording() of the muxer.
handleStopRecording ==
    /\ camera = "recording"
    /\ mVideoEncoder' = FALSE
    /\ camera' = "stop"
    /\ UNCHANGED <<turn, muxerVars, requestVars, codecVars, drainVars, feederVars, died>>

stopRecording ==
    /\ camera = "stop"
    /\ IF mIsCapturing[turn] /\ ~mRequestStop[turn]
       THEN /\ mRequestStop' = [mRequestStop EXCEPT ![turn] = TRUE]
            /\ drainPc' = Notified(turn)
       ELSE UNCHANGED <<mRequestStop, drainPc>>
    /\ NextEncoder("stopped")
    /\ UNCHANGED <<mVideoEncoder, mIsCapturing, mRequestDrain, mMuxerStarted, pass>>
    /\ UNCHANGED <<muxerVars, codecVars, feederVars, died>>

\* The muxer is only weakly reachable once the camera thread has dropped it and
\* no drain thread has it in a local variable; its finalizer releases MediaMuxer.
collect ==
    /\ muxerAlive
    /\ camera \in {"stopped", "failed"}
    /\ \A e \in ENCODER : drainPc[e] \notin Draining
    /\ muxerAlive' = FALSE
    /\ mediaMuxer' = "released"
    /\ UNCHANGED <<mEncoderCount, mStatredCount, mIsStarted>>
    /\ UNCHANGED <<cameraVars, requestVars, codecVars, drainVars, feederVars, died>>

-----------------------------------------------------------------------------
(* The drain thread of encoder e: run() *)

beginDrain(e) ==
    /\ drainPc[e] = "begin"
    /\ mRequestStop' = [mRequestStop EXCEPT ![e] = FALSE]
    /\ mRequestDrain' = [mRequestDrain EXCEPT ![e] = 0]
    /\ drainPc' = [drainPc EXCEPT ![e] = "read"]
    /\ UNCHANGED <<mIsCapturing, mMuxerStarted, pass>>
    /\ UNCHANGED <<cameraVars, muxerVars, codecVars, feederVars, died>>

\* Faulty variant: a request is taken off although there is none.
readRequests_Always(e) ==
    /\ drainPc[e] = "read"
    /\ mRequestDrain' = [mRequestDrain EXCEPT ![e] = @ - 1]
    /\ drainPc' = [drainPc EXCEPT ![e] = "enter"]
    /\ pass' = [pass EXCEPT ![e] = IF mRequestStop[e] THEN "flush" ELSE "loop"]
    /\ UNCHANGED <<mIsCapturing, mRequestStop, mMuxerStarted>>
    /\ UNCHANGED <<cameraVars, muxerVars, codecVars, feederVars, died>>

\* Both requests are read, and one drain request is taken, under mSync.
readRequests(e) ==
    /\ drainPc[e] = "read"
    /\ mRequestDrain' = [mRequestDrain EXCEPT ![e] = IF @ > 0 THEN @ - 1 ELSE 0]
    /\ \/ /\ mRequestStop[e]
          /\ drainPc' = [drainPc EXCEPT ![e] = "enter"]
          /\ pass' = [pass EXCEPT ![e] = "flush"]
       \/ /\ ~mRequestStop[e]
          /\ mRequestDrain[e] > 0
          /\ drainPc' = [drainPc EXCEPT ![e] = "enter"]
          /\ pass' = [pass EXCEPT ![e] = "loop"]
       \/ /\ ~mRequestStop[e]
          /\ mRequestDrain[e] = 0
          /\ drainPc' = [drainPc EXCEPT ![e] = "wait"]
          /\ UNCHANGED pass
    /\ UNCHANGED <<mIsCapturing, mRequestStop, mMuxerStarted>>
    /\ UNCHANGED <<cameraVars, muxerVars, codecVars, feederVars, died>>

\* The requests are not read again before mSync.wait().
waitRequest(e) ==
    /\ drainPc[e] = "wait"
    /\ drainPc' = [drainPc EXCEPT ![e] = "waiting"]
    /\ UNCHANGED <<mMuxerStarted, pass>>
    /\ UNCHANGED <<cameraVars, muxerVars, requestVars, codecVars, feederVars, died>>

\* drain() returns at once without a codec or when the muxer is gone; else it
\* keeps the muxer in a local variable.
enterDrain(e) ==
    /\ drainPc[e] = "enter"
    /\ drainPc' = [drainPc EXCEPT ![e] =
                      IF mMediaCodec[e] /\ muxerAlive THEN "dequeue" ELSE AfterDrain(e)]
    /\ UNCHANGED <<mMuxerStarted, pass>>
    /\ UNCHANGED <<cameraVars, muxerVars, requestVars, codecVars, feederVars, died>>

\* The codec had no output for too long (or the encoder does not capture).
tryAgainLater(e) ==
    /\ drainPc[e] = "dequeue"
    /\ drainPc' = [drainPc EXCEPT ![e] = AfterDrain(e)]
    /\ UNCHANGED <<mMuxerStarted, pass>>
    /\ UNCHANGED <<cameraVars, muxerVars, requestVars, codecVars, feederVars, died>>

\* INFO_OUTPUT_FORMAT_CHANGED: addTrack, which throws once the muxer is started.
formatChanged(e) ==
    /\ drainPc[e] = "dequeue"
    /\ mIsCapturing[e]
    /\ ~format[e]
    /\ input[e] > 0
    /\ format' = [format EXCEPT ![e] = TRUE]
    /\ died' = (mMuxerStarted[e] \/ mIsStarted \/ mediaMuxer # "initialized")
    /\ mMuxerStarted' = [mMuxerStarted EXCEPT ![e] = TRUE]
    /\ drainPc' = [drainPc EXCEPT ![e] = "start"]
    /\ UNCHANGED <<mIsEOS, mMediaCodec, input, pass>>
    /\ UNCHANGED <<cameraVars, muxerVars, requestVars, feederVars>>

\* Faulty variant: the first encoder to come starts the MediaMuxer.
startMuxer_First(e) ==
    /\ drainPc[e] = "start"
    /\ mStatredCount' = mStatredCount + 1
    /\ died' = (mediaMuxer # "initialized")
    /\ mediaMuxer' = "started"
    /\ mIsStarted' = TRUE
    /\ drainPc' = [drainPc EXCEPT ![e] = "dequeue"]
    /\ UNCHANGED <<mEncoderCount, muxerAlive, mMuxerStarted, pass>>
    /\ UNCHANGED <<cameraVars, requestVars, codecVars, feederVars>>

\* Faulty variant: the count is compared before this encoder is counted.
startMuxer_CountedLate(e) ==
    /\ drainPc[e] = "start"
    /\ mStatredCount' = mStatredCount + 1
    /\ IF mEncoderCount > 0 /\ mStatredCount = mEncoderCount
       THEN /\ died' = (mediaMuxer # "initialized")
            /\ mediaMuxer' = "started"
            /\ mIsStarted' = TRUE
       ELSE UNCHANGED <<died, mediaMuxer, mIsStarted>>
    /\ drainPc' = [drainPc EXCEPT ![e] = IF mIsStarted' THEN "dequeue" ELSE "muxerWait"]
    /\ UNCHANGED <<mEncoderCount, muxerAlive, mMuxerStarted, pass>>
    /\ UNCHANGED <<cameraVars, requestVars, codecVars, feederVars>>

\* MediaMuxerWrapper.start(): the last encoder to come starts the MediaMuxer.
startMuxer(e) ==
    /\ drainPc[e] = "start"
    /\ mStatredCount' = mStatredCount + 1
    /\ IF mEncoderCount > 0 /\ mStatredCount' = mEncoderCount
       THEN /\ died' = (mediaMuxer # "initialized")
            /\ mediaMuxer' = "started"
            /\ mIsStarted' = TRUE
       ELSE UNCHANGED <<died, mediaMuxer, mIsStarted>>
    /\ drainPc' = [drainPc EXCEPT ![e] = IF mIsStarted' THEN "dequeue" ELSE "muxerWait"]
    /\ UNCHANGED <<mEncoderCount, muxerAlive, mMuxerStarted, pass>>
    /\ UNCHANGED <<cameraVars, requestVars, codecVars, feederVars>>

\* Faulty variant: the wait is not repeated, its timeout ends it.
muxerReady_TimedOut(e) ==
    /\ drainPc[e] = "muxerWait"
    /\ drainPc' = [drainPc EXCEPT ![e] = "dequeue"]
    /\ UNCHANGED <<mMuxerStarted, pass>>
    /\ UNCHANGED <<cameraVars, muxerVars, requestVars, codecVars, feederVars, died>>

\* The loop around muxer.wait(100) ends when the muxer is started; it looks at
\* no request.
muxerReady(e) ==
    /\ drainPc[e] = "muxerWait"
    /\ mIsStarted
    /\ drainPc' = [drainPc EXCEPT ![e] = "dequeue"]
    /\ UNCHANGED <<mMuxerStarted, pass>>
    /\ UNCHANGED <<cameraVars, muxerVars, requestVars, codecVars, feederVars, died>>

\* An output buffer; without a track the code throws.
outputAvailable(e) ==
    /\ drainPc[e] = "dequeue"
    /\ mIsCapturing[e]
    /\ format[e]
    /\ input[e] > 0
    /\ input' = [input EXCEPT ![e] = @ - 1]
    /\ died' = ~mMuxerStarted[e]
    /\ drainPc' = [drainPc EXCEPT ![e] = "write"]
    /\ UNCHANGED <<mIsEOS, mMediaCodec, format, mMuxerStarted, pass>>
    /\ UNCHANGED <<cameraVars, muxerVars, requestVars, feederVars>>

\* writeSampleData: MediaMuxer throws unless it is started.
writeSampleData(e) ==
    /\ drainPc[e] = "write"
    /\ died' = (mStatredCount > 0 /\ mediaMuxer # "started")
    /\ drainPc' = [drainPc EXCEPT ![e] = "dequeue"]
    /\ UNCHANGED <<mMuxerStarted, pass>>
    /\ UNCHANGED <<cameraVars, muxerVars, requestVars, codecVars, feederVars>>

\* What the loop of encode() puts into the codec: nothing when length is 0,
\* because its condition is tested first, though its body would send EOS.
encodeLoop(e, length) ==
    IF 0 < length
    THEN /\ input' = [input EXCEPT ![e] = @ + 1]
         /\ mIsEOS' = [mIsEOS EXCEPT ![e] = @ \/ length <= 0]
    ELSE UNCHANGED <<input, mIsEOS>>

\* encode(null, 0) uses the codec if the encoder captures; without one the
\* exception is not caught.
signalEndOfInputStream(e) ==
    /\ drainPc[e] = "signal"
    /\ died' = (mIsCapturing[e] /\ ~mMediaCodec[e])
    /\ encodeLoop(e, 0)
    /\ pass' = IF died' THEN pass ELSE [pass EXCEPT ![e] = "last"]
    /\ drainPc' = IF died' THEN drainPc ELSE [drainPc EXCEPT ![e] = "enter"]
    /\ UNCHANGED <<mMediaCodec, format, mMuxerStarted>>
    /\ UNCHANGED <<cameraVars, muxerVars, requestVars, feederVars>>

\* Faulty variant: the muxer is stopped whether or not it was started.
release_AlwaysStops(e) ==
    /\ drainPc[e] = "release"
    /\ mIsCapturing' = [mIsCapturing EXCEPT ![e] = FALSE]
    /\ mMediaCodec' = [mMediaCodec EXCEPT ![e] = FALSE]
    /\ drainPc' = [drainPc EXCEPT ![e] = "stopMuxer"]
    /\ UNCHANGED <<mRequestStop, mRequestDrain, mIsEOS, input, format, mMuxerStarted, pass>>
    /\ UNCHANGED <<cameraVars, muxerVars, feederVars, died>>

\* release() up to the muxer.
release(e) ==
    /\ drainPc[e] = "release"
    /\ mIsCapturing' = [mIsCapturing EXCEPT ![e] = FALSE]
    /\ mMediaCodec' = [mMediaCodec EXCEPT ![e] = FALSE]
    /\ drainPc' = [drainPc EXCEPT ![e] = IF mMuxerStarted[e] THEN "stopMuxer" ELSE "exit"]
    /\ UNCHANGED <<mRequestStop, mRequestDrain, mIsEOS, input, format, mMuxerStarted, pass>>
    /\ UNCHANGED <<cameraVars, muxerVars, feederVars, died>>

\* Faulty variant: one encoder too few is enough to keep the MediaMuxer going.
stopMuxer_OffByOne(e) ==
    /\ drainPc[e] = "stopMuxer"
    /\ IF muxerAlive
       THEN /\ mStatredCount' = mStatredCount - 1
            /\ IF mEncoderCount > 0 /\ mStatredCount' < 0
               THEN mediaMuxer' = "stopped" /\ mIsStarted' = FALSE
               ELSE UNCHANGED <<mediaMuxer, mIsStarted>>
       ELSE UNCHANGED <<mStatredCount, mediaMuxer, mIsStarted>>
    /\ drainPc' = [drainPc EXCEPT ![e] = "exit"]
    /\ UNCHANGED <<mEncoderCount, muxerAlive, mMuxerStarted, pass>>
    /\ UNCHANGED <<cameraVars, requestVars, codecVars, feederVars, died>>

\* MediaMuxerWrapper.stop(), if the muxer is not gone: the last encoder to
\* leave stops the MediaMuxer (an exception is caught there).
stopMuxer(e) ==
    /\ drainPc[e] = "stopMuxer"
    /\ IF muxerAlive
       THEN /\ mStatredCount' = mStatredCount - 1
            /\ IF mEncoderCount > 0 /\ mStatredCount' <= 0
               THEN /\ mediaMuxer' = IF mediaMuxer = "started" THEN "stopped" ELSE mediaMuxer
                    /\ mIsStarted' = FALSE
               ELSE UNCHANGED <<mediaMuxer, mIsStarted>>
       ELSE UNCHANGED <<mStatredCount, mediaMuxer, mIsStarted>>
    /\ drainPc' = [drainPc EXCEPT ![e] = "exit"]
    /\ UNCHANGED <<mEncoderCount, muxerAlive, mMuxerStarted, pass>>
    /\ UNCHANGED <<cameraVars, requestVars, codecVars, feederVars, died>>

\* The end of run().
exitDrain(e) ==
    /\ drainPc[e] = "exit"
    /\ mRequestStop' = [mRequestStop EXCEPT ![e] = TRUE]
    /\ mIsCapturing' = [mIsCapturing EXCEPT ![e] = FALSE]
    /\ drainPc' = [drainPc EXCEPT ![e] = "done"]
    /\ UNCHANGED <<mRequestDrain, mMuxerStarted, pass>>
    /\ UNCHANGED <<cameraVars, muxerVars, codecVars, feederVars, died>>

-----------------------------------------------------------------------------
(* Feeding: frameAvailableSoon, encode, onFrame and AudioThread *)

\* Under mSync: refused after a stop request.
frameAvailableSoon(e) ==
    IF mIsCapturing[e] /\ ~mRequestStop[e]
    THEN /\ mRequestDrain[e] < MAX_REQUEST
         /\ mRequestDrain' = [mRequestDrain EXCEPT ![e] = @ + 1]
         /\ drainPc' = Notified(e)
    ELSE UNCHANGED <<mRequestDrain, drainPc>>

\* onFrame: the encoder is read under the handler's mSync and used after it.
onFrame ==
    /\ feederPc["video"] = "idle"
    /\ mVideoEncoder
    /\ feederPc' = [feederPc EXCEPT !["video"] = "avail"]
    /\ UNCHANGED <<fed, spare>>
    /\ UNCHANGED <<cameraVars, muxerVars, requestVars, codecVars, drainVars, died>>

\* The notification precedes the frame for video and follows it for audio.
feederAvailable(e) ==
    /\ feederPc[e] = "avail"
    /\ frameAvailableSoon(e)
    /\ feederPc' = [feederPc EXCEPT ![e] =
                       IF e = "video" THEN "check" ELSE IF spare > 0 THEN "fallback" ELSE "loop"]
    /\ fed' = (fed \/ (e = "audio" /\ spare = 0))
    /\ UNCHANGED <<mIsCapturing, mRequestStop, mMuxerStarted, pass, spare>>
    /\ UNCHANGED <<cameraVars, muxerVars, codecVars, died>>

\* MediaVideoBufferEncoder.encode looks at the requests first.
checkFrame ==
    /\ feederPc["video"] = "check"
    /\ feederPc' = [feederPc EXCEPT !["video"] =
                       IF mIsCapturing["video"] /\ ~mRequestStop["video"] THEN "encode" ELSE "idle"]
    /\ UNCHANGED <<fed, spare>>
    /\ UNCHANGED <<cameraVars, muxerVars, requestVars, codecVars, drainVars, died>>

\* encode() looks at mIsCapturing, then takes the input buffers of the codec.
enterEncode(e) ==
    /\ feederPc[e] = "encode"
    /\ feederPc' = [feederPc EXCEPT ![e] =
                       IF ~mIsCapturing[e] THEN AfterEncode(e)
                       ELSE IF mMediaCodec[e] THEN "queue" ELSE AfterThrow(e)]
    /\ UNCHANGED <<fed, spare>>
    /\ UNCHANGED <<cameraVars, muxerVars, requestVars, codecVars, drainVars, died>>

\* One buffer is queued when the codec has room.
queueInput(e) ==
    /\ feederPc[e] = "queue"
    /\ mIsCapturing[e]
    /\ mMediaCodec[e]
    /\ input[e] < MAX_INPUT
    /\ encodeLoop(e, 1)
    /\ feederPc' = [feederPc EXCEPT ![e] = AfterEncode(e)]
    /\ UNCHANGED <<mMediaCodec, format, fed, spare>>
    /\ UNCHANGED <<cameraVars, muxerVars, requestVars, drainVars, died>>

\* The encoder was released meanwhile: the loop ends, or its last call throws.
queueTooLate(e) ==
    /\ feederPc[e] = "queue"
    /\ \/ /\ ~mIsCapturing[e]
          /\ feederPc' = [feederPc EXCEPT ![e] = AfterEncode(e)]
       \/ /\ ~mMediaCodec[e]
          /\ feederPc' = [feederPc EXCEPT ![e] = AfterThrow(e)]
    /\ UNCHANGED <<fed, spare>>
    /\ UNCHANGED <<cameraVars, muxerVars, requestVars, codecVars, drainVars, died>>

\* A step of AudioThread that only moves it on.
audioGoes(from, to) ==
    /\ feederPc["audio"] = from
    /\ feederPc' = [feederPc EXCEPT !["audio"] = to]
    /\ UNCHANGED <<cameraVars, muxerVars, requestVars, codecVars, drainVars, fed, died>>

\* Faulty variant: AudioThread goes on until the end of the stream.
Recording_UntilEos == ~mIsEOS["audio"]

Recording == mIsCapturing["audio"] /\ ~mRequestStop["audio"] /\ ~mIsEOS["audio"]

\* AudioThread.run: the microphone may not open, and reading it may fail.
audioOpens == mIsCapturing["audio"] /\ audioGoes("open", "loop") /\ UNCHANGED spare
audioSilent == audioGoes("open", "fallback") /\ UNCHANGED spare
audioReads == Recording /\ audioGoes("loop", "encode") /\ UNCHANGED spare
audioEnds == audioGoes("loop", IF fed THEN "last" ELSE "fallback") /\ UNCHANGED spare

\* frameAvailableSoon after the loop.
audioLast ==
    /\ feederPc["audio"] = "last"
    /\ frameAvailableSoon("audio")
    /\ feederPc' = [feederPc EXCEPT !["audio"] = "end"]
    /\ UNCHANGED <<mIsCapturing, mRequestStop, mMuxerStarted, pass, fed, spare>>
    /\ UNCHANGED <<cameraVars, muxerVars, codecVars, died>>

\* Nothing was recorded: a few silent buffers, whatever mRequestStop says.
Silence == mIsCapturing["audio"] /\ spare < TRIES
audioSilence == Silence /\ audioGoes("fallback", "encode") /\ spare' = spare + 1
audioGivesUp == ~Silence /\ audioGoes("fallback", "end") /\ UNCHANGED spare

-----------------------------------------------------------------------------
(* Specification *)

CameraStep ==
    \/ construct \/ constructed \/ prepare \/ prepareThrows \/ startRecording
    \/ publish \/ stopRecording

DrainStep(e) ==
    \/ beginDrain(e) \/ readRequests(e) \/ waitRequest(e) \/ enterDrain(e)
    \/ tryAgainLater(e) \/ formatChanged(e) \/ startMuxer(e) \/ muxerReady(e)
    \/ outputAvailable(e) \/ writeSampleData(e) \/ signalEndOfInputStream(e) \/ release(e)
    \/ stopMuxer(e) \/ exitDrain(e)

FeederStep(e) ==
    \/ feederAvailable(e) \/ enterEncode(e) \/ queueInput(e) \/ queueTooLate(e)

VideoStep == onFrame \/ checkFrame \/ FeederStep("video")

AudioStep ==
    \/ audioOpens \/ audioSilent \/ audioReads \/ audioEnds \/ audioLast
    \/ audioSilence \/ audioGivesUp \/ FeederStep("audio")

Next ==
    /\ ~died
    /\ \/ CameraStep
       \/ handleStopRecording
       \/ collect
       \/ \E e \in ENCODER : DrainStep(e)
       \/ VideoStep
       \/ AudioStep

Spec == Init /\ [][Next]_vars

\* The operating system schedules the camera thread, the drain threads and
\* AudioThread.  Nothing is assumed about when the user stops the recording,
\* whether frames arrive, what the codecs deliver, or the garbage collector.
Fairness ==
    /\ WF_vars(~died /\ CameraStep)
    /\ \A e \in ENCODER : WF_vars(~died /\ DrainStep(e))
    /\ WF_vars(~died /\ AudioStep)

LiveSpec == Spec /\ Fairness

-----------------------------------------------------------------------------
(* Safety *)

\* Encoders that MediaMuxerWrapper.start() has counted and stop() has not.
Joined ==
    {e \in ENCODER : mMuxerStarted[e] /\ drainPc[e] \notin {"start", "exit", "done"}}

\* No call of drain() or of the muxer throws, whatever the order in which the
\* encoders announce formats, write and leave (addTrack after the start,
\* a second start, a sample outside start and stop, a sample without a track);
\* the only uncaught exception is that of a drain thread that has no codec.
OnlyMissingCodecThrows ==
    died => \E e \in ENCODER : drainPc[e] = "signal" /\ ~mMediaCodec[e]

\* mStatredCount counts the encoders that take part, and mIsStarted says
\* whether the MediaMuxer accepts samples: the two numbers and the flag that
\* start, stop and writeSampleData go by agree with where the drain threads are.
CountExact ==
    muxerAlive =>
        /\ mStatredCount = (IF "video" \in Joined THEN 1 ELSE 0)
                           + (IF "audio" \in Joined THEN 1 ELSE 0)
        /\ mIsStarted = (mediaMuxer = "started")

\* When every drain thread has ended, the file is not left open: the encoder
\* that leaves last has stopped the MediaMuxer, or it was finalized.
FileClosed ==
    (\A e \in ENCODER : drainPc[e] = "done") => mediaMuxer # "started"

\* The loop around muxer.wait(100) tests only isStarted(): it does not see a stop
\* request, or that the partner has gone.  An encoder in it always has a partner
\* that has no track yet or is about to call start(); the encoders never wait
\* for each other, for one that has joined and left, or for a muxer that was
\* started, stopped or finalized before they looked.
WaitsForPartner ==
    \A e \in ENCODER :
        drainPc[e] = "muxerWait" /\ ~mIsStarted =>
            \E p \in ENCODER \ {e} : ~mMuxerStarted[p] \/ drainPc[p] = "start"

\* A muxer wrapper keeps the promise of MuxerRendezvous: nobody writes before
\* all encoders have started or after the file was closed, it is closed by the
\* last encoder to leave and not earlier, and opened and closed once, although
\* writeSampleData goes by mStatredCount, start by a sum, and the garbage
\* collector takes the muxer at a moment of its own.
Muxer == INSTANCE MuxerRendezvous WITH
    phase <- CASE mediaMuxer = "initialized" -> "open"
               [] mediaMuxer = "started" -> "writing"
               [] mediaMuxer = "stopped" -> "closed"
               [] mediaMuxer = "released" -> "dropped",
    members <- IF muxerAlive THEN Joined ELSE {},
    writers <- {e \in ENCODER : drainPc[e] = "write"}
Rendezvous == Muxer!Spec

-----------------------------------------------------------------------------
(* Liveness *)

\* stopRecording's notification fell between the drain thread's look at the
\* requests and its wait: nobody notifies it again.
LostStop(e) == mRequestStop[e] /\ drainPc[e] = "waiting"

\* The encoder waits for a muxer that another encoder will never join.
Forsaken(e) ==
    /\ drainPc[e] = "muxerWait"
    /\ \E p \in ENCODER \ {e} :
          ~mMuxerStarted[p] /\ (drainPc[p] \in {"exit", "done"} \/ LostStop(p))

\* Once both encoders were asked to stop, each drain thread writes out and ends,
\* unless it missed the request or its partner never came (run() and drain() wait
\* without looking at mRequestStop); and AudioThread lets go of the microphone,
\* even when it is in encode() and the codec has no room, because the drain
\* thread's release ends that loop.
Ended(e) == drainPc[e] = "done" \/ LostStop(e) \/ Forsaken(e)
RecordingEnds ==
    (\A e \in ENCODER : mRequestStop[e])
        ~> \/ died
           \/ /\ \A e \in ENCODER : Ended(e)
              /\ drainPc["audio"] = "done" => feederPc["audio"] = "end"

-----------------------------------------------------------------------------
(* What comments say and the code does not do *)

\* MediaEncoder.java says of encode() that a length of zero means EOS, and run()
\* drains once more "for EOS signale" after it: by then EOS was sent.
ZeroMeansEos ==
    \A e \in ENCODER :
        (drainPc[e] = "enter" /\ pass[e] = "last" /\ mIsCapturing[e]) => mIsEOS[e]
=============================================================================

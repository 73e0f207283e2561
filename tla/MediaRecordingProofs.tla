------------------------ MODULE MediaRecordingProofs ------------------------
(* Theorems about MediaRecording for every size of the codecs and counters. *)
EXTENDS MediaRecording, TLAPS

\* Before startRecording nothing was requested, encoded or drained.
Unstarted == {"new", "begin", "prepare", "failed"}

Setup ==
    /\ mEncoderCount = (IF camera = "new" THEN (IF turn = "video" THEN 0 ELSE 1)
                        ELSE IF camera = "begin" /\ turn = "video" THEN 1 ELSE 2)
    /\ camera \in Unstarted =>
          /\ ~mVideoEncoder
          /\ \A e \in ENCODER :
                /\ ~mRequestStop[e] /\ mRequestDrain[e] = 0 /\ ~mMuxerStarted[e]
                /\ drainPc[e] \in {"none", "begin", "read", "wait", "waiting"}
                /\ feederPc[e] \in {"none", "idle"}

\* A drain thread in drain() has the muxer in a local variable.
Held ==
    /\ muxerAlive = (mediaMuxer # "released")
    /\ muxerAlive \/ camera \in {"stopped", "failed"}
    /\ \A e \in ENCODER : drainPc[e] \in Draining => muxerAlive

\* The track of an encoder.
Tracks ==
    \A e \in ENCODER :
        /\ format[e] = mMuxerStarted[e]
        /\ drainPc[e] \in {"start", "muxerWait", "write", "stopMuxer"} => mMuxerStarted[e]

\* Where the drain threads are while the MediaMuxer is in each of its states.
Together ==
    /\ mediaMuxer = "initialized" =>
          /\ \A e \in ENCODER : mMuxerStarted[e] => drainPc[e] \in {"start", "muxerWait"}
          /\ \E e \in ENCODER : e \notin Joined
    /\ mediaMuxer = "started" =>
          /\ \A e \in ENCODER : mMuxerStarted[e] /\ drainPc[e] # "start"
          /\ \E e \in ENCODER : e \in Joined
    /\ mediaMuxer = "stopped" =>
          \A e \in ENCODER : mMuxerStarted[e] /\ drainPc[e] \in {"exit", "done"}

Safe == OnlyMissingCodecThrows /\ CountExact
IInv == TypeOK /\ Setup /\ Held /\ Tracks /\ Together /\ Safe

(* The encoder that is about to call start() is not counted yet, the one that
   is about to call stop() still is. *)
LEMMA Counting ==
    ASSUME IInv, NEW e \in ENCODER, muxerAlive
    PROVE  /\ drainPc[e] = "start" => mStatredCount \in 0..1
           /\ drainPc[e] = "stopMuxer" => mStatredCount \in 1..2
<1> USE DEF IInv, Safe, CountExact
<1>1. CASE drainPc[e] = "start"
  <2>1. e \notin Joined
    BY <1>1 DEF Joined
  <2> QED BY <1>1, <2>1 DEF ENCODER
<1>2. CASE drainPc[e] = "stopMuxer"
  <2>1. e \in Joined
    BY <1>2 DEF Joined, Tracks
  <2> QED BY <1>2, <2>1 DEF ENCODER
<1> QED BY <1>1, <1>2

(* Joining and leaving change Joined by the encoder that calls. *)
LEMMA Joining ==
    ASSUME IInv, NEW e \in ENCODER, startMuxer(e)
    PROVE  e \notin Joined /\ Joined' = Joined \cup {e}
  BY DEF IInv, TypeOK, Tracks, Joined, startMuxer, muxerVars

LEMMA Leaving ==
    ASSUME IInv, NEW e \in ENCODER, stopMuxer(e)
    PROVE  e \in Joined /\ Joined' = Joined \ {e}
  BY DEF IInv, TypeOK, Tracks, Joined, stopMuxer, muxerVars

(* Types: the start count is within bounds because it is exact (Counting). *)
LEMMA TypeStep ==
    ASSUME IInv, Next
    PROVE  TypeOK'
<1> USE DEF IInv, cameraVars, muxerVars, requestVars, codecVars, drainVars, feederVars
<1>1. ASSUME construct, ~died PROVE TypeOK'
  BY <1>1, InputAssumption, RequestAssumption, TriesAssumption DEF TypeOK, DrainPc, FeederPc, Camera, Draining, ENCODER, construct, Setup
<1>2. ASSUME constructed, ~died PROVE TypeOK'
  BY <1>2, InputAssumption, RequestAssumption, TriesAssumption DEF TypeOK, Camera, ENCODER, constructed
<1>3. ASSUME prepare, ~died PROVE TypeOK'
  BY <1>3, InputAssumption, RequestAssumption, TriesAssumption DEF TypeOK, Camera, ENCODER, prepare, NextEncoder
<1>4. ASSUME prepareThrows, ~died PROVE TypeOK'
  BY <1>4, InputAssumption, RequestAssumption, TriesAssumption DEF TypeOK, Camera, prepareThrows
<1>5. ASSUME startRecording, ~died PROVE TypeOK'
  BY <1>5, InputAssumption, RequestAssumption, TriesAssumption DEF TypeOK, DrainPc, FeederPc, Camera, Draining, ENCODER, startRecording, Notified, NextEncoder
<1>6. ASSUME publish, ~died PROVE TypeOK'
  BY <1>6, InputAssumption, RequestAssumption, TriesAssumption DEF TypeOK, Camera, publish
<1>7. ASSUME stopRecording, ~died PROVE TypeOK'
  <2> USE <1>7 DEF TypeOK, stopRecording
  <2>1. mRequestStop' \in [ENCODER -> BOOLEAN]
    OBVIOUS
  <2>2. drainPc' \in [ENCODER -> DrainPc]
    BY DEF Notified, DrainPc
  <2>3. camera' \in Camera /\ turn' \in ENCODER
    BY DEF NextEncoder, Camera, ENCODER
  <2> QED BY <2>1, <2>2, <2>3
<1>8. ASSUME handleStopRecording, ~died PROVE TypeOK'
  BY <1>8, InputAssumption, RequestAssumption, TriesAssumption DEF TypeOK, Camera, handleStopRecording
<1>9. ASSUME collect, ~died PROVE TypeOK'
  BY <1>9, InputAssumption, RequestAssumption, TriesAssumption DEF TypeOK, collect
<1>10. ASSUME NEW e \in ENCODER, beginDrain(e), ~died PROVE TypeOK'
  BY <1>10, InputAssumption, RequestAssumption, TriesAssumption DEF TypeOK, ENCODER, DrainPc, beginDrain
<1>11. ASSUME NEW e \in ENCODER, readRequests(e), ~died PROVE TypeOK'
  BY <1>11, InputAssumption, RequestAssumption, TriesAssumption DEF TypeOK, ENCODER, DrainPc, readRequests
<1>12. ASSUME NEW e \in ENCODER, waitRequest(e), ~died PROVE TypeOK'
  BY <1>12, InputAssumption, RequestAssumption, TriesAssumption DEF TypeOK, ENCODER, DrainPc, waitRequest
<1>13. ASSUME NEW e \in ENCODER, enterDrain(e), ~died PROVE TypeOK'
  BY <1>13, InputAssumption, RequestAssumption, TriesAssumption DEF TypeOK, ENCODER, DrainPc, Draining, enterDrain, AfterDrain
<1>14. ASSUME NEW e \in ENCODER, tryAgainLater(e), ~died PROVE TypeOK'
  BY <1>14, InputAssumption, RequestAssumption, TriesAssumption DEF TypeOK, ENCODER, DrainPc, tryAgainLater, AfterDrain
<1>15. ASSUME NEW e \in ENCODER, formatChanged(e), ~died PROVE TypeOK'
  BY <1>15, InputAssumption, RequestAssumption, TriesAssumption DEF TypeOK, ENCODER, DrainPc, Draining, formatChanged
<1>16. ASSUME NEW e \in ENCODER, startMuxer(e), ~died PROVE TypeOK'
  <2>1. muxerAlive
    BY <1>16 DEF startMuxer, Held, Draining
  <2>2. mStatredCount' \in 0..2
    BY <1>16, <2>1, Counting DEF startMuxer
  <2>3. drainPc' \in [ENCODER -> DrainPc]
    BY <1>16 DEF TypeOK, startMuxer, DrainPc, Draining
  <2>4. mediaMuxer' \in {"initialized", "started", "stopped", "released"}
        /\ mIsStarted' \in BOOLEAN /\ died' \in BOOLEAN
    BY <1>16 DEF TypeOK, startMuxer
  <2> QED BY <1>16, <2>2, <2>3, <2>4 DEF TypeOK, startMuxer
<1>17. ASSUME NEW e \in ENCODER, muxerReady(e), ~died PROVE TypeOK'
  BY <1>17, InputAssumption, RequestAssumption, TriesAssumption DEF TypeOK, ENCODER, DrainPc, Draining, muxerReady
<1>18. ASSUME NEW e \in ENCODER, outputAvailable(e), ~died PROVE TypeOK'
  BY <1>18, InputAssumption, RequestAssumption, TriesAssumption DEF TypeOK, ENCODER, DrainPc, Draining, outputAvailable
<1>19. ASSUME NEW e \in ENCODER, writeSampleData(e), ~died PROVE TypeOK'
  BY <1>19, InputAssumption, RequestAssumption, TriesAssumption DEF TypeOK, ENCODER, DrainPc, Draining, writeSampleData
<1>20. ASSUME NEW e \in ENCODER, signalEndOfInputStream(e), ~died PROVE TypeOK'
  BY <1>20, InputAssumption, RequestAssumption, TriesAssumption DEF TypeOK, ENCODER, DrainPc, signalEndOfInputStream, encodeLoop
<1>21. ASSUME NEW e \in ENCODER, release(e), ~died PROVE TypeOK'
  BY <1>21, InputAssumption, RequestAssumption, TriesAssumption DEF TypeOK, ENCODER, DrainPc, release
<1>22. ASSUME NEW e \in ENCODER, stopMuxer(e), ~died PROVE TypeOK'
  <2>1. mStatredCount' \in 0..2
    BY <1>22, Counting DEF stopMuxer, TypeOK
  <2>2. drainPc' \in [ENCODER -> DrainPc]
    BY <1>22 DEF TypeOK, stopMuxer, DrainPc
  <2>3. mediaMuxer' \in {"initialized", "started", "stopped", "released"}
        /\ mIsStarted' \in BOOLEAN
    BY <1>22 DEF TypeOK, stopMuxer
  <2> QED BY <1>22, <2>1, <2>2, <2>3 DEF TypeOK, stopMuxer
<1>23. ASSUME NEW e \in ENCODER, exitDrain(e), ~died PROVE TypeOK'
  BY <1>23, InputAssumption, RequestAssumption, TriesAssumption DEF TypeOK, ENCODER, DrainPc, exitDrain
<1>24. ASSUME NEW e \in ENCODER, feederAvailable(e), ~died PROVE TypeOK'
  BY <1>24, InputAssumption, RequestAssumption, TriesAssumption DEF TypeOK, DrainPc, FeederPc, Camera, Draining, ENCODER, feederAvailable, frameAvailableSoon, Notified
<1>25. ASSUME NEW e \in ENCODER, enterEncode(e), ~died PROVE TypeOK'
  BY <1>25, InputAssumption, RequestAssumption, TriesAssumption DEF TypeOK, ENCODER, FeederPc, enterEncode, AfterEncode, AfterThrow
<1>26. ASSUME NEW e \in ENCODER, queueInput(e), ~died PROVE TypeOK'
  BY <1>26, InputAssumption, RequestAssumption, TriesAssumption DEF TypeOK, ENCODER, FeederPc, queueInput, encodeLoop, AfterEncode
<1>27. ASSUME NEW e \in ENCODER, queueTooLate(e), ~died PROVE TypeOK'
  BY <1>27, InputAssumption, RequestAssumption, TriesAssumption DEF TypeOK, ENCODER, FeederPc, queueTooLate, AfterEncode, AfterThrow
<1>28. ASSUME onFrame, ~died PROVE TypeOK'
  BY <1>28, InputAssumption, RequestAssumption, TriesAssumption DEF TypeOK, ENCODER, FeederPc, onFrame
<1>29. ASSUME checkFrame, ~died PROVE TypeOK'
  BY <1>29, InputAssumption, RequestAssumption, TriesAssumption DEF TypeOK, ENCODER, FeederPc, checkFrame
<1>30. ASSUME audioOpens, ~died PROVE TypeOK'
  BY <1>30, InputAssumption, RequestAssumption, TriesAssumption DEF TypeOK, ENCODER, FeederPc, audioOpens, audioGoes
<1>31. ASSUME audioSilent, ~died PROVE TypeOK'
  BY <1>31, InputAssumption, RequestAssumption, TriesAssumption DEF TypeOK, ENCODER, FeederPc, audioSilent, audioGoes
<1>32. ASSUME audioReads, ~died PROVE TypeOK'
  BY <1>32, InputAssumption, RequestAssumption, TriesAssumption DEF TypeOK, ENCODER, FeederPc, audioReads, audioGoes
<1>33. ASSUME audioEnds, ~died PROVE TypeOK'
  BY <1>33, InputAssumption, RequestAssumption, TriesAssumption DEF TypeOK, ENCODER, FeederPc, audioEnds, audioGoes
<1>34. ASSUME audioLast, ~died PROVE TypeOK'
  BY <1>34, InputAssumption, RequestAssumption, TriesAssumption DEF TypeOK, DrainPc, FeederPc, Camera, Draining, ENCODER, audioLast, frameAvailableSoon, Notified
<1>35. ASSUME audioSilence, ~died PROVE TypeOK'
  BY <1>35, InputAssumption, RequestAssumption, TriesAssumption DEF TypeOK, ENCODER, FeederPc, audioSilence, Silence, audioGoes
<1>36. ASSUME audioGivesUp, ~died PROVE TypeOK'
  BY <1>36, InputAssumption, RequestAssumption, TriesAssumption DEF TypeOK, ENCODER, FeederPc, audioGivesUp, Silence, audioGoes
<1> QED
  BY <1>1, <1>2, <1>3, <1>4, <1>5, <1>6, <1>7, <1>8, <1>9, <1>10, <1>11, <1>12, <1>13, <1>14, <1>15, <1>16, <1>17, <1>18, <1>19, <1>20, <1>21, <1>22, <1>23, <1>24, <1>25, <1>26, <1>27, <1>28, <1>29, <1>30, <1>31, <1>32, <1>33, <1>34, <1>35, <1>36 DEF Next, CameraStep, DrainStep, VideoStep, AudioStep, FeederStep, ENCODER

(* Nothing is requested or drained before startRecording. *)
LEMMA SetupStep ==
    ASSUME IInv, Next
    PROVE  Setup'
<1> USE DEF IInv, cameraVars, muxerVars, requestVars, codecVars, drainVars, feederVars
<1>1. ASSUME construct, ~died PROVE Setup'
  BY <1>1 DEF Setup, Unstarted, construct
<1>2. ASSUME constructed, ~died PROVE Setup'
  BY <1>2 DEF Setup, Unstarted, constructed
<1>3. ASSUME prepare, ~died PROVE Setup'
  BY <1>3 DEF Setup, Unstarted, prepare, NextEncoder
<1>4. ASSUME prepareThrows, ~died PROVE Setup'
  BY <1>4 DEF Setup, Unstarted, prepareThrows
<1>5. ASSUME startRecording, ~died PROVE Setup'
  BY <1>5 DEF Setup, Unstarted, startRecording, Notified, NextEncoder
<1>6. ASSUME publish, ~died PROVE Setup'
  BY <1>6 DEF Setup, Unstarted, publish
<1>7. ASSUME stopRecording, ~died PROVE Setup'
  BY <1>7 DEF Setup, Unstarted, stopRecording, Notified, NextEncoder
<1>8. ASSUME handleStopRecording, ~died PROVE Setup'
  BY <1>8 DEF Setup, Unstarted, handleStopRecording
<1>9. ASSUME collect, ~died PROVE Setup'
  BY <1>9 DEF Setup, collect
<1>10. ASSUME NEW e \in ENCODER, beginDrain(e), ~died PROVE Setup'
  BY <1>10 DEF Setup, beginDrain
<1>11. ASSUME NEW e \in ENCODER, readRequests(e), ~died PROVE Setup'
  BY <1>11 DEF TypeOK, Setup, readRequests
<1>12. ASSUME NEW e \in ENCODER, waitRequest(e), ~died PROVE Setup'
  BY <1>12 DEF Setup, waitRequest
<1>13. ASSUME NEW e \in ENCODER, enterDrain(e), ~died PROVE Setup'
  BY <1>13 DEF Setup, enterDrain, AfterDrain
<1>14. ASSUME NEW e \in ENCODER, tryAgainLater(e), ~died PROVE Setup'
  BY <1>14 DEF Setup, tryAgainLater, AfterDrain
<1>15. ASSUME NEW e \in ENCODER, formatChanged(e), ~died PROVE Setup'
  BY <1>15 DEF Setup, formatChanged
<1>16. ASSUME NEW e \in ENCODER, startMuxer(e), ~died PROVE Setup'
  BY <1>16 DEF Setup, startMuxer
<1>17. ASSUME NEW e \in ENCODER, muxerReady(e), ~died PROVE Setup'
  BY <1>17 DEF Setup, muxerReady
<1>18. ASSUME NEW e \in ENCODER, outputAvailable(e), ~died PROVE Setup'
  BY <1>18 DEF Setup, outputAvailable
<1>19. ASSUME NEW e \in ENCODER, writeSampleData(e), ~died PROVE Setup'
  BY <1>19 DEF Setup, writeSampleData
<1>20. ASSUME NEW e \in ENCODER, signalEndOfInputStream(e), ~died PROVE Setup'
  BY <1>20 DEF Setup, signalEndOfInputStream, encodeLoop
<1>21. ASSUME NEW e \in ENCODER, release(e), ~died PROVE Setup'
  BY <1>21 DEF Setup, release
<1>22. ASSUME NEW e \in ENCODER, stopMuxer(e), ~died PROVE Setup'
  BY <1>22 DEF Setup, stopMuxer
<1>23. ASSUME NEW e \in ENCODER, exitDrain(e), ~died PROVE Setup'
  BY <1>23 DEF Setup, exitDrain
<1>24. ASSUME NEW e \in ENCODER, feederAvailable(e), ~died PROVE Setup'
  BY <1>24 DEF Setup, feederAvailable, frameAvailableSoon, Notified
<1>25. ASSUME NEW e \in ENCODER, enterEncode(e), ~died PROVE Setup'
  BY <1>25 DEF Setup, enterEncode, AfterEncode, AfterThrow
<1>26. ASSUME NEW e \in ENCODER, queueInput(e), ~died PROVE Setup'
  BY <1>26 DEF Setup, queueInput, encodeLoop, AfterEncode
<1>27. ASSUME NEW e \in ENCODER, queueTooLate(e), ~died PROVE Setup'
  BY <1>27 DEF Setup, queueTooLate, AfterEncode, AfterThrow
<1>28. ASSUME onFrame, ~died PROVE Setup'
  BY <1>28 DEF Setup, onFrame
<1>29. ASSUME checkFrame, ~died PROVE Setup'
  BY <1>29 DEF Setup, checkFrame
<1>30. ASSUME audioOpens, ~died PROVE Setup'
  BY <1>30 DEF Setup, audioOpens, audioGoes
<1>31. ASSUME audioSilent, ~died PROVE Setup'
  BY <1>31 DEF Setup, audioSilent, audioGoes
<1>32. ASSUME audioReads, ~died PROVE Setup'
  BY <1>32 DEF Setup, audioReads, audioGoes
<1>33. ASSUME audioEnds, ~died PROVE Setup'
  BY <1>33 DEF Setup, audioEnds, audioGoes
<1>34. ASSUME audioLast, ~died PROVE Setup'
  BY <1>34 DEF TypeOK, Setup, audioLast, frameAvailableSoon, Notified
<1>35. ASSUME audioSilence, ~died PROVE Setup'
  BY <1>35 DEF Setup, audioSilence, Silence, audioGoes
<1>36. ASSUME audioGivesUp, ~died PROVE Setup'
  BY <1>36 DEF Setup, audioGivesUp, Silence, audioGoes
<1> QED
  BY <1>1, <1>2, <1>3, <1>4, <1>5, <1>6, <1>7, <1>8, <1>9, <1>10, <1>11, <1>12, <1>13, <1>14, <1>15, <1>16, <1>17, <1>18, <1>19, <1>20, <1>21, <1>22, <1>23, <1>24, <1>25, <1>26, <1>27, <1>28, <1>29, <1>30, <1>31, <1>32, <1>33, <1>34, <1>35, <1>36 DEF Next, CameraStep, DrainStep, VideoStep, AudioStep, FeederStep, ENCODER

(* The collector waits for the drain threads that are in drain(). *)
LEMMA HeldStep ==
    ASSUME IInv, Next
    PROVE  Held'
<1> USE DEF IInv, cameraVars, muxerVars, requestVars, codecVars, drainVars, feederVars
<1>1. ASSUME construct, ~died PROVE Held'
  BY <1>1 DEF Held, construct
<1>2. ASSUME constructed, ~died PROVE Held'
  BY <1>2 DEF Held, constructed
<1>3. ASSUME prepare, ~died PROVE Held'
  BY <1>3 DEF Held, prepare, NextEncoder
<1>4. ASSUME prepareThrows, ~died PROVE Held'
  BY <1>4 DEF Held, prepareThrows
<1>5. ASSUME startRecording, ~died PROVE Held'
  BY <1>5 DEF Held, startRecording, Notified, NextEncoder
<1>6. ASSUME publish, ~died PROVE Held'
  BY <1>6 DEF Held, publish
<1>7. ASSUME stopRecording, ~died PROVE Held'
  BY <1>7 DEF Held, stopRecording, Notified, NextEncoder
<1>8. ASSUME handleStopRecording, ~died PROVE Held'
  BY <1>8 DEF Held, handleStopRecording
<1>9. ASSUME collect, ~died PROVE Held'
  BY <1>9 DEF Held, collect
<1>10. ASSUME NEW e \in ENCODER, beginDrain(e), ~died PROVE Held'
  BY <1>10 DEF Held, Draining, beginDrain
<1>11. ASSUME NEW e \in ENCODER, readRequests(e), ~died PROVE Held'
  BY <1>11 DEF TypeOK, Held, Draining, readRequests
<1>12. ASSUME NEW e \in ENCODER, waitRequest(e), ~died PROVE Held'
  BY <1>12 DEF Held, Draining, waitRequest
<1>13. ASSUME NEW e \in ENCODER, enterDrain(e), ~died PROVE Held'
  BY <1>13 DEF TypeOK, Held, Draining, enterDrain, AfterDrain
<1>14. ASSUME NEW e \in ENCODER, tryAgainLater(e), ~died PROVE Held'
  BY <1>14 DEF Held, Draining, tryAgainLater, AfterDrain
<1>15. ASSUME NEW e \in ENCODER, formatChanged(e), ~died PROVE Held'
  BY <1>15 DEF Held, Draining, formatChanged
<1>16. ASSUME NEW e \in ENCODER, startMuxer(e), ~died PROVE Held'
  BY <1>16 DEF Held, Draining, startMuxer
<1>17. ASSUME NEW e \in ENCODER, muxerReady(e), ~died PROVE Held'
  BY <1>17 DEF Held, Draining, muxerReady
<1>18. ASSUME NEW e \in ENCODER, outputAvailable(e), ~died PROVE Held'
  BY <1>18 DEF Held, Draining, outputAvailable
<1>19. ASSUME NEW e \in ENCODER, writeSampleData(e), ~died PROVE Held'
  BY <1>19 DEF Held, Draining, writeSampleData
<1>20. ASSUME NEW e \in ENCODER, signalEndOfInputStream(e), ~died PROVE Held'
  BY <1>20 DEF Held, Draining, signalEndOfInputStream, encodeLoop
<1>21. ASSUME NEW e \in ENCODER, release(e), ~died PROVE Held'
  BY <1>21 DEF Held, Draining, release
<1>22. ASSUME NEW e \in ENCODER, stopMuxer(e), ~died PROVE Held'
  BY <1>22 DEF Held, Draining, stopMuxer
<1>23. ASSUME NEW e \in ENCODER, exitDrain(e), ~died PROVE Held'
  BY <1>23 DEF Held, Draining, exitDrain
<1>24. ASSUME NEW e \in ENCODER, feederAvailable(e), ~died PROVE Held'
  BY <1>24 DEF TypeOK, Held, Draining, feederAvailable, frameAvailableSoon, Notified
<1>25. ASSUME NEW e \in ENCODER, enterEncode(e), ~died PROVE Held'
  BY <1>25 DEF Held, enterEncode, AfterEncode, AfterThrow
<1>26. ASSUME NEW e \in ENCODER, queueInput(e), ~died PROVE Held'
  BY <1>26 DEF Held, queueInput, encodeLoop, AfterEncode
<1>27. ASSUME NEW e \in ENCODER, queueTooLate(e), ~died PROVE Held'
  BY <1>27 DEF Held, queueTooLate, AfterEncode, AfterThrow
<1>28. ASSUME onFrame, ~died PROVE Held'
  BY <1>28 DEF Held, onFrame
<1>29. ASSUME checkFrame, ~died PROVE Held'
  BY <1>29 DEF Held, checkFrame
<1>30. ASSUME audioOpens, ~died PROVE Held'
  BY <1>30 DEF Held, audioOpens, audioGoes
<1>31. ASSUME audioSilent, ~died PROVE Held'
  BY <1>31 DEF Held, audioSilent, audioGoes
<1>32. ASSUME audioReads, ~died PROVE Held'
  BY <1>32 DEF Held, audioReads, audioGoes
<1>33. ASSUME audioEnds, ~died PROVE Held'
  BY <1>33 DEF Held, audioEnds, audioGoes
<1>34. ASSUME audioLast, ~died PROVE Held'
  BY <1>34 DEF TypeOK, Held, Draining, audioLast, frameAvailableSoon, Notified
<1>35. ASSUME audioSilence, ~died PROVE Held'
  BY <1>35 DEF Held, audioSilence, Silence, audioGoes
<1>36. ASSUME audioGivesUp, ~died PROVE Held'
  BY <1>36 DEF Held, audioGivesUp, Silence, audioGoes
<1> QED
  BY <1>1, <1>2, <1>3, <1>4, <1>5, <1>6, <1>7, <1>8, <1>9, <1>10, <1>11, <1>12, <1>13, <1>14, <1>15, <1>16, <1>17, <1>18, <1>19, <1>20, <1>21, <1>22, <1>23, <1>24, <1>25, <1>26, <1>27, <1>28, <1>29, <1>30, <1>31, <1>32, <1>33, <1>34, <1>35, <1>36 DEF Next, CameraStep, DrainStep, VideoStep, AudioStep, FeederStep, ENCODER

(* An encoder that waits, writes or stops the muxer has a track. *)
LEMMA TracksStep ==
    ASSUME IInv, Next
    PROVE  Tracks'
<1> USE DEF IInv, cameraVars, muxerVars, requestVars, codecVars, drainVars, feederVars
<1>1. ASSUME construct, ~died PROVE Tracks'
  BY <1>1 DEF Tracks, construct
<1>2. ASSUME constructed, ~died PROVE Tracks'
  BY <1>2 DEF Tracks, constructed
<1>3. ASSUME prepare, ~died PROVE Tracks'
  BY <1>3 DEF TypeOK, Setup, Unstarted, Tracks, prepare, NextEncoder
<1>4. ASSUME prepareThrows, ~died PROVE Tracks'
  BY <1>4 DEF TypeOK, Setup, Unstarted, Tracks, prepareThrows
<1>5. ASSUME startRecording, ~died PROVE Tracks'
  BY <1>5 DEF Tracks, startRecording, Notified, NextEncoder
<1>6. ASSUME publish, ~died PROVE Tracks'
  BY <1>6 DEF Tracks, publish
<1>7. ASSUME stopRecording, ~died PROVE Tracks'
  BY <1>7 DEF TypeOK, Tracks, stopRecording, Notified, NextEncoder
<1>8. ASSUME handleStopRecording, ~died PROVE Tracks'
  BY <1>8 DEF Tracks, handleStopRecording
<1>9. ASSUME collect, ~died PROVE Tracks'
  BY <1>9 DEF Tracks, collect
<1>10. ASSUME NEW e \in ENCODER, beginDrain(e), ~died PROVE Tracks'
  BY <1>10 DEF Tracks, beginDrain
<1>11. ASSUME NEW e \in ENCODER, readRequests(e), ~died PROVE Tracks'
  BY <1>11 DEF TypeOK, Tracks, readRequests
<1>12. ASSUME NEW e \in ENCODER, waitRequest(e), ~died PROVE Tracks'
  BY <1>12 DEF Tracks, waitRequest
<1>13. ASSUME NEW e \in ENCODER, enterDrain(e), ~died PROVE Tracks'
  BY <1>13 DEF TypeOK, Tracks, enterDrain, AfterDrain
<1>14. ASSUME NEW e \in ENCODER, tryAgainLater(e), ~died PROVE Tracks'
  BY <1>14 DEF TypeOK, Tracks, tryAgainLater, AfterDrain
<1>15. ASSUME NEW e \in ENCODER, formatChanged(e), ~died PROVE Tracks'
  BY <1>15 DEF TypeOK, Tracks, formatChanged
<1>16. ASSUME NEW e \in ENCODER, startMuxer(e), ~died PROVE Tracks'
  BY <1>16 DEF Tracks, startMuxer
<1>17. ASSUME NEW e \in ENCODER, muxerReady(e), ~died PROVE Tracks'
  BY <1>17 DEF Tracks, muxerReady
<1>18. ASSUME NEW e \in ENCODER, outputAvailable(e), ~died PROVE Tracks'
  BY <1>18 DEF Tracks, outputAvailable
<1>19. ASSUME NEW e \in ENCODER, writeSampleData(e), ~died PROVE Tracks'
  BY <1>19 DEF Tracks, writeSampleData
<1>20. ASSUME NEW e \in ENCODER, signalEndOfInputStream(e), ~died PROVE Tracks'
  BY <1>20 DEF Tracks, signalEndOfInputStream, encodeLoop
<1>21. ASSUME NEW e \in ENCODER, release(e), ~died PROVE Tracks'
  BY <1>21 DEF Tracks, release
<1>22. ASSUME NEW e \in ENCODER, stopMuxer(e), ~died PROVE Tracks'
  BY <1>22 DEF Tracks, stopMuxer
<1>23. ASSUME NEW e \in ENCODER, exitDrain(e), ~died PROVE Tracks'
  BY <1>23 DEF Tracks, exitDrain
<1>24. ASSUME NEW e \in ENCODER, feederAvailable(e), ~died PROVE Tracks'
  BY <1>24 DEF TypeOK, Tracks, feederAvailable, frameAvailableSoon, Notified
<1>25. ASSUME NEW e \in ENCODER, enterEncode(e), ~died PROVE Tracks'
  BY <1>25 DEF Tracks, enterEncode, AfterEncode, AfterThrow
<1>26. ASSUME NEW e \in ENCODER, queueInput(e), ~died PROVE Tracks'
  BY <1>26 DEF Tracks, queueInput, encodeLoop, AfterEncode
<1>27. ASSUME NEW e \in ENCODER, queueTooLate(e), ~died PROVE Tracks'
  BY <1>27 DEF Tracks, queueTooLate, AfterEncode, AfterThrow
<1>28. ASSUME onFrame, ~died PROVE Tracks'
  BY <1>28 DEF Tracks, onFrame
<1>29. ASSUME checkFrame, ~died PROVE Tracks'
  BY <1>29 DEF Tracks, checkFrame
<1>30. ASSUME audioOpens, ~died PROVE Tracks'
  BY <1>30 DEF Tracks, audioOpens, audioGoes
<1>31. ASSUME audioSilent, ~died PROVE Tracks'
  BY <1>31 DEF Tracks, audioSilent, audioGoes
<1>32. ASSUME audioReads, ~died PROVE Tracks'
  BY <1>32 DEF Tracks, audioReads, audioGoes
<1>33. ASSUME audioEnds, ~died PROVE Tracks'
  BY <1>33 DEF Tracks, audioEnds, audioGoes
<1>34. ASSUME audioLast, ~died PROVE Tracks'
  BY <1>34 DEF TypeOK, Tracks, audioLast, frameAvailableSoon, Notified
<1>35. ASSUME audioSilence, ~died PROVE Tracks'
  BY <1>35 DEF Tracks, audioSilence, Silence, audioGoes
<1>36. ASSUME audioGivesUp, ~died PROVE Tracks'
  BY <1>36 DEF Tracks, audioGivesUp, Silence, audioGoes
<1> QED
  BY <1>1, <1>2, <1>3, <1>4, <1>5, <1>6, <1>7, <1>8, <1>9, <1>10, <1>11, <1>12, <1>13, <1>14, <1>15, <1>16, <1>17, <1>18, <1>19, <1>20, <1>21, <1>22, <1>23, <1>24, <1>25, <1>26, <1>27, <1>28, <1>29, <1>30, <1>31, <1>32, <1>33, <1>34, <1>35, <1>36 DEF Next, CameraStep, DrainStep, VideoStep, AudioStep, FeederStep, ENCODER

(* The encoders and the MediaMuxer go through their states together. *)
LEMMA TogetherStep ==
    ASSUME IInv, Next
    PROVE  Together'
<1> USE DEF IInv, cameraVars, muxerVars, requestVars, codecVars, drainVars, feederVars
<1>1. ASSUME construct, ~died PROVE Together'
  BY <1>1 DEF TypeOK, Setup, Unstarted, Together, Joined, construct
<1>2. ASSUME constructed, ~died PROVE Together'
  BY <1>2 DEF Together, Joined, constructed
<1>3. ASSUME prepare, ~died PROVE Together'
  BY <1>3 DEF TypeOK, Setup, Unstarted, Together, Joined, prepare, NextEncoder
<1>4. ASSUME prepareThrows, ~died PROVE Together'
  BY <1>4 DEF TypeOK, Setup, Unstarted, Together, Joined, prepareThrows
<1>5. ASSUME startRecording, ~died PROVE Together'
  BY <1>5 DEF Together, Joined, startRecording, Notified, NextEncoder
<1>6. ASSUME publish, ~died PROVE Together'
  BY <1>6 DEF Together, Joined, publish
<1>7. ASSUME stopRecording, ~died PROVE Together'
  BY <1>7 DEF TypeOK, Together, Joined, stopRecording, Notified, NextEncoder
<1>8. ASSUME handleStopRecording, ~died PROVE Together'
  BY <1>8 DEF Together, Joined, handleStopRecording
<1>9. ASSUME collect, ~died PROVE Together'
  BY <1>9 DEF Together, Joined, collect
<1>10. ASSUME NEW e \in ENCODER, beginDrain(e), ~died PROVE Together'
  BY <1>10 DEF Together, Joined, beginDrain
<1>11. ASSUME NEW e \in ENCODER, readRequests(e), ~died PROVE Together'
  BY <1>11 DEF TypeOK, Together, Joined, readRequests
<1>12. ASSUME NEW e \in ENCODER, waitRequest(e), ~died PROVE Together'
  BY <1>12 DEF Together, Joined, waitRequest
<1>13. ASSUME NEW e \in ENCODER, enterDrain(e), ~died PROVE Together'
  BY <1>13 DEF TypeOK, Together, Joined, enterDrain, AfterDrain
<1>14. ASSUME NEW e \in ENCODER, tryAgainLater(e), ~died PROVE Together'
  BY <1>14 DEF TypeOK, Together, Joined, tryAgainLater, AfterDrain
<1>15. ASSUME NEW e \in ENCODER, formatChanged(e), ~died PROVE Together'
  BY <1>15 DEF TypeOK, Together, Joined, Tracks, formatChanged
<1>16. ASSUME NEW e \in ENCODER, startMuxer(e), ~died PROVE Together'
  BY <1>16 DEF TypeOK, Setup, Unstarted, Held, Tracks, Together, Joined, Safe, CountExact, Draining, ENCODER, DrainPc, startMuxer
<1>17. ASSUME NEW e \in ENCODER, muxerReady(e), ~died PROVE Together'
  BY <1>17 DEF TypeOK, Setup, Unstarted, Held, Tracks, Together, Joined, Safe, CountExact, Draining, ENCODER, DrainPc, muxerReady
<1>18. ASSUME NEW e \in ENCODER, outputAvailable(e), ~died PROVE Together'
  BY <1>18 DEF Together, Joined, outputAvailable
<1>19. ASSUME NEW e \in ENCODER, writeSampleData(e), ~died PROVE Together'
  BY <1>19 DEF Together, Joined, writeSampleData
<1>20. ASSUME NEW e \in ENCODER, signalEndOfInputStream(e), ~died PROVE Together'
  BY <1>20 DEF Together, Joined, signalEndOfInputStream, encodeLoop
<1>21. ASSUME NEW e \in ENCODER, release(e), ~died PROVE Together'
  BY <1>21 DEF Together, Joined, release
<1>22. ASSUME NEW e \in ENCODER, stopMuxer(e), ~died PROVE Together'
  BY <1>22 DEF TypeOK, Setup, Unstarted, Held, Tracks, Together, Joined, Safe, CountExact, Draining, ENCODER, DrainPc, stopMuxer
<1>23. ASSUME NEW e \in ENCODER, exitDrain(e), ~died PROVE Together'
  BY <1>23 DEF Together, Joined, exitDrain
<1>24. ASSUME NEW e \in ENCODER, feederAvailable(e), ~died PROVE Together'
  BY <1>24 DEF TypeOK, Together, Joined, feederAvailable, frameAvailableSoon, Notified
<1>25. ASSUME NEW e \in ENCODER, enterEncode(e), ~died PROVE Together'
  BY <1>25 DEF Together, Joined, enterEncode, AfterEncode, AfterThrow
<1>26. ASSUME NEW e \in ENCODER, queueInput(e), ~died PROVE Together'
  BY <1>26 DEF Together, Joined, queueInput, encodeLoop, AfterEncode
<1>27. ASSUME NEW e \in ENCODER, queueTooLate(e), ~died PROVE Together'
  BY <1>27 DEF Together, Joined, queueTooLate, AfterEncode, AfterThrow
<1>28. ASSUME onFrame, ~died PROVE Together'
  BY <1>28 DEF Together, Joined, onFrame
<1>29. ASSUME checkFrame, ~died PROVE Together'
  BY <1>29 DEF Together, Joined, checkFrame
<1>30. ASSUME audioOpens, ~died PROVE Together'
  BY <1>30 DEF Together, Joined, audioOpens, audioGoes
<1>31. ASSUME audioSilent, ~died PROVE Together'
  BY <1>31 DEF Together, Joined, audioSilent, audioGoes
<1>32. ASSUME audioReads, ~died PROVE Together'
  BY <1>32 DEF Together, Joined, audioReads, audioGoes
<1>33. ASSUME audioEnds, ~died PROVE Together'
  BY <1>33 DEF Together, Joined, audioEnds, audioGoes
<1>34. ASSUME audioLast, ~died PROVE Together'
  BY <1>34 DEF TypeOK, Together, Joined, audioLast, frameAvailableSoon, Notified
<1>35. ASSUME audioSilence, ~died PROVE Together'
  BY <1>35 DEF Together, Joined, audioSilence, Silence, audioGoes
<1>36. ASSUME audioGivesUp, ~died PROVE Together'
  BY <1>36 DEF Together, Joined, audioGivesUp, Silence, audioGoes
<1> QED
  BY <1>1, <1>2, <1>3, <1>4, <1>5, <1>6, <1>7, <1>8, <1>9, <1>10, <1>11, <1>12, <1>13, <1>14, <1>15, <1>16, <1>17, <1>18, <1>19, <1>20, <1>21, <1>22, <1>23, <1>24, <1>25, <1>26, <1>27, <1>28, <1>29, <1>30, <1>31, <1>32, <1>33, <1>34, <1>35, <1>36 DEF Next, CameraStep, DrainStep, VideoStep, AudioStep, FeederStep, ENCODER

(* No call throws, and the count stays exact. *)
LEMMA SafeStep ==
    ASSUME IInv, Next
    PROVE  Safe'
<1> USE DEF IInv, cameraVars, muxerVars, requestVars, codecVars, drainVars, feederVars
<1>1. ASSUME construct, ~died PROVE Safe'
  BY <1>1 DEF TypeOK, Safe, CountExact, OnlyMissingCodecThrows, Joined, Setup, Unstarted, construct
<1>2. ASSUME constructed, ~died PROVE Safe'
  BY <1>2 DEF Safe, CountExact, OnlyMissingCodecThrows, Joined, constructed
<1>3. ASSUME prepare, ~died PROVE Safe'
  BY <1>3 DEF TypeOK, Safe, CountExact, OnlyMissingCodecThrows, Joined, Setup, Unstarted, prepare, NextEncoder
<1>4. ASSUME prepareThrows, ~died PROVE Safe'
  BY <1>4 DEF TypeOK, Safe, CountExact, OnlyMissingCodecThrows, Joined, Setup, Unstarted, prepareThrows
<1>5. ASSUME startRecording, ~died PROVE Safe'
  BY <1>5 DEF Safe, CountExact, OnlyMissingCodecThrows, Joined, startRecording, Notified, NextEncoder
<1>6. ASSUME publish, ~died PROVE Safe'
  BY <1>6 DEF Safe, CountExact, OnlyMissingCodecThrows, Joined, publish
<1>7. ASSUME stopRecording, ~died PROVE Safe'
  BY <1>7 DEF TypeOK, Safe, CountExact, OnlyMissingCodecThrows, Joined, stopRecording, Notified, NextEncoder
<1>8. ASSUME handleStopRecording, ~died PROVE Safe'
  BY <1>8 DEF Safe, CountExact, OnlyMissingCodecThrows, Joined, handleStopRecording
<1>9. ASSUME collect, ~died PROVE Safe'
  BY <1>9 DEF Safe, CountExact, OnlyMissingCodecThrows, Joined, collect
<1>10. ASSUME NEW e \in ENCODER, beginDrain(e), ~died PROVE Safe'
  BY <1>10 DEF Safe, CountExact, OnlyMissingCodecThrows, Joined, beginDrain
<1>11. ASSUME NEW e \in ENCODER, readRequests(e), ~died PROVE Safe'
  BY <1>11 DEF TypeOK, Safe, CountExact, OnlyMissingCodecThrows, Joined, readRequests
<1>12. ASSUME NEW e \in ENCODER, waitRequest(e), ~died PROVE Safe'
  BY <1>12 DEF Safe, CountExact, OnlyMissingCodecThrows, Joined, waitRequest
<1>13. ASSUME NEW e \in ENCODER, enterDrain(e), ~died PROVE Safe'
  BY <1>13 DEF TypeOK, Safe, CountExact, OnlyMissingCodecThrows, Joined, enterDrain, AfterDrain
<1>14. ASSUME NEW e \in ENCODER, tryAgainLater(e), ~died PROVE Safe'
  BY <1>14 DEF TypeOK, Safe, CountExact, OnlyMissingCodecThrows, Joined, tryAgainLater, AfterDrain
<1>15. ASSUME NEW e \in ENCODER, formatChanged(e), ~died PROVE Safe'
  BY <1>15 DEF TypeOK, Safe, CountExact, OnlyMissingCodecThrows, Joined, Held, Tracks, Together, Draining, formatChanged
<1>16. ASSUME NEW e \in ENCODER, startMuxer(e), ~died PROVE Safe'
  <2>1. muxerAlive /\ mediaMuxer = "initialized" /\ mEncoderCount = 2
    BY <1>16 DEF startMuxer, TypeOK, Setup, Unstarted, Held, Together, Draining, ENCODER
  <2>2. ~died'
    BY <1>16, <2>1 DEF startMuxer
  <2>3. e \notin Joined /\ Joined' = Joined \cup {e}
    BY <1>16, Joining
  <2>4. mStatredCount' = (IF "video" \in Joined' THEN 1 ELSE 0)
                         + (IF "audio" \in Joined' THEN 1 ELSE 0)
    BY <1>16, <2>1, <2>3 DEF startMuxer, Safe, CountExact, ENCODER
  <2>5. mIsStarted' = (mediaMuxer' = "started")
    BY <1>16, <2>1 DEF startMuxer, Safe, CountExact
  <2> QED BY <2>2, <2>4, <2>5 DEF Safe, CountExact, OnlyMissingCodecThrows
<1>17. ASSUME NEW e \in ENCODER, muxerReady(e), ~died PROVE Safe'
  BY <1>17 DEF TypeOK, Safe, CountExact, OnlyMissingCodecThrows, Joined, muxerReady
<1>18. ASSUME NEW e \in ENCODER, outputAvailable(e), ~died PROVE Safe'
  BY <1>18 DEF TypeOK, Safe, CountExact, OnlyMissingCodecThrows, Joined, Tracks, Together, outputAvailable
<1>19. ASSUME NEW e \in ENCODER, writeSampleData(e), ~died PROVE Safe'
  BY <1>19 DEF TypeOK, Safe, CountExact, OnlyMissingCodecThrows, Joined, Held, Tracks, Together, Draining, writeSampleData
<1>20. ASSUME NEW e \in ENCODER, signalEndOfInputStream(e), ~died PROVE Safe'
  BY <1>20 DEF TypeOK, Safe, CountExact, OnlyMissingCodecThrows, Joined, signalEndOfInputStream, encodeLoop
<1>21. ASSUME NEW e \in ENCODER, release(e), ~died PROVE Safe'
  BY <1>21 DEF Safe, CountExact, OnlyMissingCodecThrows, Joined, release
<1>22. ASSUME NEW e \in ENCODER, stopMuxer(e), ~died PROVE Safe'
  <2>1. ~died'
    BY <1>22 DEF stopMuxer
  <2>2. CASE ~muxerAlive
    BY <1>22, <2>1, <2>2 DEF stopMuxer, Safe, CountExact, OnlyMissingCodecThrows
  <2>3. CASE muxerAlive
    <3>1. mediaMuxer = "started" /\ mIsStarted /\ mEncoderCount = 2
      BY <1>22, <2>3 DEF stopMuxer, TypeOK, Setup, Unstarted, Held, Tracks, Together,
                        Safe, CountExact, ENCODER
    <3>2. e \in Joined /\ Joined' = Joined \ {e}
      BY <1>22, Leaving
    <3>3. mStatredCount' = (IF "video" \in Joined' THEN 1 ELSE 0)
                           + (IF "audio" \in Joined' THEN 1 ELSE 0)
      BY <1>22, <2>3, <3>2 DEF stopMuxer, Safe, CountExact, ENCODER
    <3>4. mIsStarted' = (mediaMuxer' = "started")
      BY <1>22, <2>3, <3>1 DEF stopMuxer
    <3> QED BY <2>1, <3>3, <3>4 DEF Safe, CountExact, OnlyMissingCodecThrows
  <2> QED BY <2>2, <2>3
<1>23. ASSUME NEW e \in ENCODER, exitDrain(e), ~died PROVE Safe'
  BY <1>23 DEF Safe, CountExact, OnlyMissingCodecThrows, Joined, exitDrain
<1>24. ASSUME NEW e \in ENCODER, feederAvailable(e), ~died PROVE Safe'
  BY <1>24 DEF TypeOK, Safe, CountExact, OnlyMissingCodecThrows, Joined, feederAvailable, frameAvailableSoon, Notified
<1>25. ASSUME NEW e \in ENCODER, enterEncode(e), ~died PROVE Safe'
  BY <1>25 DEF Safe, CountExact, OnlyMissingCodecThrows, Joined, enterEncode, AfterEncode, AfterThrow
<1>26. ASSUME NEW e \in ENCODER, queueInput(e), ~died PROVE Safe'
  BY <1>26 DEF Safe, CountExact, OnlyMissingCodecThrows, Joined, queueInput, encodeLoop, AfterEncode
<1>27. ASSUME NEW e \in ENCODER, queueTooLate(e), ~died PROVE Safe'
  BY <1>27 DEF Safe, CountExact, OnlyMissingCodecThrows, Joined, queueTooLate, AfterEncode, AfterThrow
<1>28. ASSUME onFrame, ~died PROVE Safe'
  BY <1>28 DEF Safe, CountExact, OnlyMissingCodecThrows, Joined, onFrame
<1>29. ASSUME checkFrame, ~died PROVE Safe'
  BY <1>29 DEF Safe, CountExact, OnlyMissingCodecThrows, Joined, checkFrame
<1>30. ASSUME audioOpens, ~died PROVE Safe'
  BY <1>30 DEF Safe, CountExact, OnlyMissingCodecThrows, Joined, audioOpens, audioGoes
<1>31. ASSUME audioSilent, ~died PROVE Safe'
  BY <1>31 DEF Safe, CountExact, OnlyMissingCodecThrows, Joined, audioSilent, audioGoes
<1>32. ASSUME audioReads, ~died PROVE Safe'
  BY <1>32 DEF Safe, CountExact, OnlyMissingCodecThrows, Joined, audioReads, audioGoes
<1>33. ASSUME audioEnds, ~died PROVE Safe'
  BY <1>33 DEF Safe, CountExact, OnlyMissingCodecThrows, Joined, audioEnds, audioGoes
<1>34. ASSUME audioLast, ~died PROVE Safe'
  BY <1>34 DEF TypeOK, Safe, CountExact, OnlyMissingCodecThrows, Joined, audioLast, frameAvailableSoon, Notified
<1>35. ASSUME audioSilence, ~died PROVE Safe'
  BY <1>35 DEF Safe, CountExact, OnlyMissingCodecThrows, Joined, audioSilence, Silence, audioGoes
<1>36. ASSUME audioGivesUp, ~died PROVE Safe'
  BY <1>36 DEF Safe, CountExact, OnlyMissingCodecThrows, Joined, audioGivesUp, Silence, audioGoes
<1> QED
  BY <1>1, <1>2, <1>3, <1>4, <1>5, <1>6, <1>7, <1>8, <1>9, <1>10, <1>11, <1>12, <1>13, <1>14, <1>15, <1>16, <1>17, <1>18, <1>19, <1>20, <1>21, <1>22, <1>23, <1>24, <1>25, <1>26, <1>27, <1>28, <1>29, <1>30, <1>31, <1>32, <1>33, <1>34, <1>35, <1>36 DEF Next, CameraStep, DrainStep, VideoStep, AudioStep, FeederStep, ENCODER

LEMMA InitInv == Init => IInv
<1> SUFFICES ASSUME Init PROVE IInv
  OBVIOUS
<1> USE DEF Init, ENCODER
<1>1. TypeOK
  <2>1. 0 \in 0..MAX_INPUT /\ 0 \in 0..MAX_REQUEST /\ 0 \in 0..TRIES /\ 0 \in 0..2
    BY InputAssumption, RequestAssumption, TriesAssumption
  <2>2. feederPc \in [ENCODER -> FeederPc]
    BY DEF FeederPc
  <2> QED BY <2>1, <2>2 DEF TypeOK, Camera, DrainPc
<1>2. Setup
  BY DEF Setup
<1>3. Joined = {}
  BY DEF Joined
<1>4. Held /\ Tracks /\ Together
  BY <1>3 DEF Held, Tracks, Together, Draining
<1>5. Safe
  <2>1. "video" \notin Joined /\ "audio" \notin Joined
    BY <1>3
  <2>2. CountExact
    <3>1. mStatredCount = (IF "video" \in Joined THEN 1 ELSE 0)
                          + (IF "audio" \in Joined THEN 1 ELSE 0)
      <4> HIDE DEF ENCODER
      <4> QED BY <2>1
    <3>2. mIsStarted = (mediaMuxer = "started")
      OBVIOUS
    <3> QED BY <3>1, <3>2 DEF CountExact
  <2> QED BY <2>2 DEF Safe, OnlyMissingCodecThrows
<1> QED BY <1>1, <1>2, <1>4, <1>5 DEF IInv

LEMMA Unchanging == IInv /\ UNCHANGED vars => IInv'
  BY DEF IInv, TypeOK, Setup, Held, Tracks, Together, Safe, OnlyMissingCodecThrows,
         CountExact, Joined, vars, cameraVars, muxerVars, requestVars, codecVars,
         drainVars, feederVars

LEMMA InvStep == IInv /\ [Next]_vars => IInv'
<1>1. ASSUME IInv, Next PROVE IInv'
  BY <1>1, TypeStep, SetupStep, HeldStep, TracksStep, TogetherStep, SafeStep DEF IInv
<1> QED BY <1>1, Unchanging

(* The inductive invariant: what was set up before the start, that drain()     *)
(* keeps the muxer alive, that an encoder with a track is either about to join, *)
(* taking part or gone in step with the MediaMuxer, and that the count is exact. *)
THEOREM Invariance == Spec => []IInv
  BY InitInv, InvStep, PTL DEF Spec

(* Types of every variable of a recording; in particular the start count stays *)
(* within the number of encoders (MediaMuxerWrapper.start and stop).           *)
THEOREM RecordingTypes == Spec => []TypeOK
<1>1. IInv => TypeOK
  BY DEF IInv
<1> QED BY <1>1, Invariance, PTL

(* No encoder calls the MediaMuxer in a state in which it throws.              *)
THEOREM NoCallThrows == Spec => []OnlyMissingCodecThrows
<1>1. IInv => OnlyMissingCodecThrows
  BY DEF IInv, Safe
<1> QED BY <1>1, Invariance, PTL

(* mStatredCount and mIsStarted agree with the drain threads.                  *)
THEOREM CountCorrect == Spec => []CountExact
<1>1. IInv => CountExact
  BY DEF IInv, Safe
<1> QED BY <1>1, Invariance, PTL

(* The drain threads do not all end and leave the MediaMuxer started.          *)
THEOREM LastCloses == Spec => []FileClosed
<1>1. IInv => FileClosed
  BY DEF IInv, Together, Joined, FileClosed
<1> QED BY <1>1, Invariance, PTL

(* An encoder that waits for the muxer to start has a partner still to come:   *)
(* drain() holds the muxer, so it was not finalized; a started muxer has set    *)
(* mIsStarted; and it is not stopped before every encoder has left.            *)
THEOREM PartnerToCome == Spec => []WaitsForPartner
<1>1. IInv => WaitsForPartner
  <2> SUFFICES ASSUME IInv, NEW e \in ENCODER, drainPc[e] = "muxerWait", ~mIsStarted
               PROVE  \E p \in ENCODER \ {e} : ~mMuxerStarted[p] \/ drainPc[p] = "start"
    BY DEF WaitsForPartner
  <2> USE DEF IInv
  <2>1. muxerAlive /\ mediaMuxer \in {"initialized", "started", "stopped"}
    BY DEF Held, Draining, TypeOK
  <2>2. mediaMuxer = "initialized"
    BY <2>1 DEF Safe, CountExact, Together
  <2>3. PICK p \in ENCODER : p \notin Joined
    BY <2>2 DEF Together
  <2>4. p # e
    BY <2>3 DEF Joined, Tracks
  <2>5. ~mMuxerStarted[p] \/ drainPc[p] = "start"
    BY <2>2, <2>3 DEF Joined, Together
  <2> QED BY <2>4, <2>5
<1> QED BY <1>1, Invariance, PTL

-----------------------------------------------------------------------------
(* MediaMuxerWrapper implements MuxerRendezvous *)

Phase == CASE mediaMuxer = "initialized" -> "open"
           [] mediaMuxer = "started" -> "writing"
           [] mediaMuxer = "stopped" -> "closed"
           [] mediaMuxer = "released" -> "dropped"
Members == IF muxerAlive THEN Joined ELSE {}
Writers == {e \in ENCODER : drainPc[e] = "write"}

(* A step that leaves the muxer, who has joined and who writes alone stutters. *)
LEMMA Stutter ==
    ASSUME mediaMuxer' = mediaMuxer, muxerAlive' = muxerAlive,
           Joined' = Joined, Writers' = Writers
    PROVE  UNCHANGED Muxer!vars
  BY DEF Muxer!vars, Writers

(* Every step of a recording is a step of the rendezvous or leaves it alone.    *)
LEMMA RendezvousStep ==
    ASSUME IInv, Next
    PROVE  [Muxer!Next]_(Muxer!vars)
<1> USE DEF cameraVars, muxerVars, requestVars, codecVars, drainVars, feederVars, Writers
<1>1. ASSUME construct, ~died PROVE [Muxer!Next]_(Muxer!vars)
  BY <1>1, Stutter DEF IInv, Joined, construct, TypeOK, Setup, Unstarted
<1>2. ASSUME constructed, ~died PROVE [Muxer!Next]_(Muxer!vars)
  BY <1>2, Stutter DEF IInv, Joined, constructed
<1>3. ASSUME prepare, ~died PROVE [Muxer!Next]_(Muxer!vars)
  BY <1>3, Stutter DEF IInv, Joined, prepare, NextEncoder, TypeOK, Setup, Unstarted
<1>4. ASSUME prepareThrows, ~died PROVE [Muxer!Next]_(Muxer!vars)
  BY <1>4, Stutter DEF IInv, Joined, prepareThrows, TypeOK, Setup, Unstarted
<1>5. ASSUME startRecording, ~died PROVE [Muxer!Next]_(Muxer!vars)
  BY <1>5, Stutter DEF IInv, Joined, startRecording, Notified, NextEncoder, TypeOK, Setup, Unstarted
<1>6. ASSUME publish, ~died PROVE [Muxer!Next]_(Muxer!vars)
  BY <1>6, Stutter DEF IInv, Joined, publish
<1>7. ASSUME stopRecording, ~died PROVE [Muxer!Next]_(Muxer!vars)
  BY <1>7, Stutter DEF IInv, Joined, stopRecording, Notified, NextEncoder, TypeOK
<1>8. ASSUME handleStopRecording, ~died PROVE [Muxer!Next]_(Muxer!vars)
  BY <1>8, Stutter DEF IInv, Joined, handleStopRecording
<1>9. ASSUME collect, ~died PROVE [Muxer!Next]_(Muxer!vars)
  <2>1. Writers = {} /\ Writers' = {}
    BY <1>9 DEF collect, Draining
  <2>2. Muxer!Drop
    BY <1>9, <2>1 DEF Muxer!Drop, collect, IInv, Held, TypeOK
  <2> QED BY <2>2 DEF Muxer!Next
<1>10. ASSUME NEW e \in ENCODER, beginDrain(e), ~died PROVE [Muxer!Next]_(Muxer!vars)
  BY <1>10, Stutter DEF IInv, Joined, beginDrain, TypeOK
<1>11. ASSUME NEW e \in ENCODER, readRequests(e), ~died PROVE [Muxer!Next]_(Muxer!vars)
  BY <1>11, Stutter DEF IInv, Joined, readRequests, TypeOK
<1>12. ASSUME NEW e \in ENCODER, waitRequest(e), ~died PROVE [Muxer!Next]_(Muxer!vars)
  BY <1>12, Stutter DEF IInv, Joined, waitRequest, TypeOK
<1>13. ASSUME NEW e \in ENCODER, enterDrain(e), ~died PROVE [Muxer!Next]_(Muxer!vars)
  BY <1>13, Stutter DEF IInv, Joined, enterDrain, AfterDrain, TypeOK
<1>14. ASSUME NEW e \in ENCODER, tryAgainLater(e), ~died PROVE [Muxer!Next]_(Muxer!vars)
  BY <1>14, Stutter DEF IInv, Joined, tryAgainLater, AfterDrain, TypeOK
<1>15. ASSUME NEW e \in ENCODER, formatChanged(e), ~died PROVE [Muxer!Next]_(Muxer!vars)
  BY <1>15, Stutter DEF IInv, Joined, formatChanged, TypeOK, Tracks
<1>16. ASSUME NEW e \in ENCODER, startMuxer(e), ~died PROVE [Muxer!Next]_(Muxer!vars)
  <2>1. muxerAlive /\ mediaMuxer = "initialized" /\ mEncoderCount = 2
    BY <1>16 DEF IInv, startMuxer, TypeOK, Setup, Unstarted, Held, Tracks, Together, Draining
  <2>2. e \notin Joined /\ Joined' = Joined \cup {e}
    BY <1>16, Joining
  <2>3. Writers' = Writers
    BY <1>16 DEF startMuxer, IInv, TypeOK
  <2>4. mediaMuxer' = IF Joined' = ENCODER THEN "started" ELSE "initialized"
    BY <1>16, <2>1, <2>2 DEF startMuxer, IInv, Safe, CountExact, ENCODER, Joined
  <2>5. Muxer!Join(e)
    BY <1>16, <2>1, <2>2, <2>3, <2>4 DEF Muxer!Join, startMuxer
  <2> QED BY <2>5 DEF Muxer!Next
<1>17. ASSUME NEW e \in ENCODER, muxerReady(e), ~died PROVE [Muxer!Next]_(Muxer!vars)
  BY <1>17, Stutter DEF IInv, Joined, muxerReady, TypeOK, Tracks
<1>18. ASSUME NEW e \in ENCODER, outputAvailable(e), ~died PROVE [Muxer!Next]_(Muxer!vars)
  <2>1. muxerAlive /\ mediaMuxer = "started" /\ e \in Joined
    BY <1>18 DEF outputAvailable, IInv, TypeOK, Held, Tracks, Together, Joined, Draining
  <2>2. Joined' = Joined
    BY <1>18 DEF outputAvailable, IInv, TypeOK, Joined
  <2>3. e \notin Writers /\ Writers' = Writers \cup {e}
    BY <1>18 DEF outputAvailable, IInv, TypeOK
  <2>4. Muxer!BeginWrite(e)
    BY <1>18, <2>1, <2>2, <2>3 DEF Muxer!BeginWrite, outputAvailable
  <2> QED BY <2>4 DEF Muxer!Next
<1>19. ASSUME NEW e \in ENCODER, writeSampleData(e), ~died PROVE [Muxer!Next]_(Muxer!vars)
  <2>1. muxerAlive /\ mediaMuxer = "started" /\ e \in Writers
    BY <1>19 DEF writeSampleData, IInv, TypeOK, Held, Tracks, Together, Draining
  <2>2. Joined' = Joined
    BY <1>19 DEF writeSampleData, IInv, TypeOK, Joined
  <2>3. Writers' = Writers \ {e}
    BY <1>19 DEF writeSampleData, IInv, TypeOK
  <2>4. Muxer!EndWrite(e)
    BY <1>19, <2>1, <2>2, <2>3 DEF Muxer!EndWrite, writeSampleData
  <2> QED BY <2>4 DEF Muxer!Next
<1>20. ASSUME NEW e \in ENCODER, signalEndOfInputStream(e), ~died PROVE [Muxer!Next]_(Muxer!vars)
  BY <1>20, Stutter DEF IInv, Joined, signalEndOfInputStream, encodeLoop, TypeOK
<1>21. ASSUME NEW e \in ENCODER, release(e), ~died PROVE [Muxer!Next]_(Muxer!vars)
  BY <1>21, Stutter DEF IInv, Joined, release, TypeOK, Tracks
<1>22. ASSUME NEW e \in ENCODER, stopMuxer(e), ~died PROVE [Muxer!Next]_(Muxer!vars)
  <2>1. e \in Joined /\ Joined' = Joined \ {e}
    BY <1>22, Leaving
  <2>2. e \notin Writers /\ Writers' = Writers
    BY <1>22 DEF stopMuxer, IInv, TypeOK
  <2>3. CASE muxerAlive
    <3>1. mediaMuxer = "started" /\ mEncoderCount = 2
      BY <1>22, <2>3 DEF stopMuxer, IInv, TypeOK, Setup, Unstarted, Held, Tracks, Together
    <3>2. mediaMuxer' = IF Joined' = {} THEN "stopped" ELSE "started"
      BY <1>22, <2>1, <2>3, <3>1 DEF stopMuxer, IInv, Safe, CountExact, ENCODER, Joined
    <3>3. Muxer!Leave(e)
      BY <1>22, <2>1, <2>2, <2>3, <3>1, <3>2 DEF Muxer!Leave, stopMuxer
    <3> QED BY <3>3 DEF Muxer!Next
  <2>4. CASE ~muxerAlive
    BY <1>22, <2>2, <2>4 DEF stopMuxer, Muxer!vars
  <2> QED BY <2>3, <2>4
<1>23. ASSUME NEW e \in ENCODER, exitDrain(e), ~died PROVE [Muxer!Next]_(Muxer!vars)
  BY <1>23, Stutter DEF IInv, Joined, exitDrain, TypeOK
<1>24. ASSUME NEW e \in ENCODER, feederAvailable(e), ~died PROVE [Muxer!Next]_(Muxer!vars)
  BY <1>24, Stutter DEF IInv, Joined, feederAvailable, frameAvailableSoon, Notified, TypeOK
<1>25. ASSUME NEW e \in ENCODER, enterEncode(e), ~died PROVE [Muxer!Next]_(Muxer!vars)
  BY <1>25, Stutter DEF IInv, Joined, enterEncode, AfterEncode, AfterThrow
<1>26. ASSUME NEW e \in ENCODER, queueInput(e), ~died PROVE [Muxer!Next]_(Muxer!vars)
  BY <1>26, Stutter DEF IInv, Joined, queueInput, encodeLoop, AfterEncode
<1>27. ASSUME NEW e \in ENCODER, queueTooLate(e), ~died PROVE [Muxer!Next]_(Muxer!vars)
  BY <1>27, Stutter DEF IInv, Joined, queueTooLate, AfterEncode, AfterThrow
<1>28. ASSUME onFrame, ~died PROVE [Muxer!Next]_(Muxer!vars)
  BY <1>28, Stutter DEF IInv, Joined, onFrame
<1>29. ASSUME checkFrame, ~died PROVE [Muxer!Next]_(Muxer!vars)
  BY <1>29, Stutter DEF IInv, Joined, checkFrame
<1>30. ASSUME audioOpens, ~died PROVE [Muxer!Next]_(Muxer!vars)
  BY <1>30, Stutter DEF IInv, Joined, audioOpens, audioGoes
<1>31. ASSUME audioSilent, ~died PROVE [Muxer!Next]_(Muxer!vars)
  BY <1>31, Stutter DEF IInv, Joined, audioSilent, audioGoes
<1>32. ASSUME audioReads, ~died PROVE [Muxer!Next]_(Muxer!vars)
  BY <1>32, Stutter DEF IInv, Joined, audioReads, audioGoes
<1>33. ASSUME audioEnds, ~died PROVE [Muxer!Next]_(Muxer!vars)
  BY <1>33, Stutter DEF IInv, Joined, audioEnds, audioGoes
<1>34. ASSUME audioLast, ~died PROVE [Muxer!Next]_(Muxer!vars)
  BY <1>34, Stutter DEF IInv, Joined, audioLast, frameAvailableSoon, Notified, TypeOK
<1>35. ASSUME audioSilence, ~died PROVE [Muxer!Next]_(Muxer!vars)
  BY <1>35, Stutter DEF IInv, Joined, audioSilence, Silence, audioGoes
<1>36. ASSUME audioGivesUp, ~died PROVE [Muxer!Next]_(Muxer!vars)
  BY <1>36, Stutter DEF IInv, Joined, audioGivesUp, Silence, audioGoes
<1> QED
  BY <1>1, <1>2, <1>3, <1>4, <1>5, <1>6, <1>7, <1>8, <1>9, <1>10, <1>11, <1>12, <1>13, <1>14, <1>15, <1>16, <1>17, <1>18, <1>19, <1>20, <1>21, <1>22, <1>23, <1>24, <1>25, <1>26, <1>27, <1>28, <1>29, <1>30, <1>31, <1>32, <1>33, <1>34, <1>35, <1>36
  DEF Next, CameraStep, DrainStep, VideoStep, AudioStep, FeederStep, ENCODER

(* For all recordings: nobody writes before all encoders have started or after  *)
(* the file was closed, and the last encoder to leave closes it.               *)
THEOREM RendezvousKept == Spec => Rendezvous
<1>1. Init => Muxer!Init
  BY DEF Init, Muxer!Init, Joined, ENCODER
<1>2. IInv /\ [Next]_vars => [Muxer!Next]_(Muxer!vars)
  <2>1. ASSUME IInv, UNCHANGED vars PROVE UNCHANGED Muxer!vars
    BY <2>1 DEF vars, muxerVars, drainVars, Muxer!vars, Joined
  <2> QED BY <2>1, RendezvousStep
<1> QED BY <1>1, <1>2, Invariance, PTL DEF Spec, Rendezvous, Muxer!Spec

=============================================================================

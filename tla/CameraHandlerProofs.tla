------------------------ MODULE CameraHandlerProofs ------------------------
(* Theorems about CameraHandler for any threads, calls and recordings.      *)
EXTENDS CameraHandler, TLAPS

Flags == {mReleased, mUVCCamera, mIsPreviewing, mIsRecording, preview, parentGone,
          stale, overlap} \subseteq BOOLEAN

Kinds ==
    /\ mMuxer \in 0 .. MAX_MOVIES
    /\ movie \in [MOVIE -> {"none", "active", "draining", "stopped", "over", "lost"}
                              \cup Releasing \cup {"refused", "failed"}]
    /\ held \subseteq MOVIE
    /\ mEncoderType \in ENCODER_TYPES
    /\ camPc \in {"idle", "callback", "take", "destroy", "open", "start", "started",
                  "stopped", "record", "release", "quit", "dead", "crashed",
                  "no_camera"}
    /\ after \in {"idle", "stop", "open", "release"}

\* What the camera thread knows between two steps of a handler, as far as no
\* encoder thread takes its camera.
Between ==
    /\ camPc \in {"start", "record", "callback"} => mUVCCamera \/ Intruded
    /\ camPc = "start" => ~mIsPreviewing
    /\ camPc = "started" => IF mUVCCamera THEN preview ELSE Intruded
    /\ camPc = "stopped" => mIsPreviewing /\ ~preview
    /\ camPc \in {"destroy", "open", "release", "quit", "dead"} => ~mUVCCamera
    /\ camPc \in {"record", "callback", "take", "destroy", "open", "release", "quit",
                  "dead"} => mMuxer = 0
    /\ after = "stop" => camPc \in {"callback", "no_camera"}

\* PreviewFlag with the destroyed camera included.
Previews ==
    /\ preview => mUVCCamera \/ camPc = "destroy"
    /\ preview => mIsPreviewing \/ camPc = "started"
    /\ mIsPreviewing /\ (~preview \/ ~mUVCCamera) => stale \/ camPc = "stopped"

\* Recordings that still have an encoder thread that has not reported.
Live == {m \in MOVIE : movie[m] \in {"active", "draining"}}

\* Two of them at a time overlap, and mIsRecording covers a single one.
Drains ==
    /\ \A m \in Live : mIsRecording \/ overlap
    /\ \A m, n \in Live : m # n => overlap

IInv == /\ Flags /\ Kinds /\ Between /\ Previews /\ RecordingHasCamera /\ Drains
        /\ StaysForEncoder

(* The handlers that begin with handleClose.                                *)
LEMMA Closing ==
    ASSUME Kinds, RecordingHasCamera,
           handle_open \/ handle_close \/ handle_release \/ handle_update_media
    PROVE  /\ camPc = "idle"
           /\ UNCHANGED <<mReleased, mIsPreviewing, mIsRecording, preview, held,
                          mEncoderType, overlap, pc, call, calls>>
           /\ parentGone' \in {parentGone, parentGone \/ ~mReleased}
           /\ \/ UNCHANGED <<movie, mMuxer, mUVCCamera, camPc, after, stale>>
              \/ /\ mMuxer \in MOVIE /\ movie[mMuxer] = "active" /\ mMuxer' = 0
                 /\ movie' = [movie EXCEPT ![mMuxer] = "draining"]
                 /\ camPc' = "callback" /\ after' \in {"idle", "open", "release"}
                 /\ UNCHANGED <<mUVCCamera, stale>>
              \/ /\ mMuxer = 0 /\ mMuxer' = 0 /\ movie' = movie
                 /\ after' \in {"idle", "open", "release"}
                 /\ mUVCCamera' = FALSE
                 /\ camPc' = IF mUVCCamera THEN "destroy" ELSE after'
                 /\ stale' = (stale \/ (mUVCCamera /\ mIsPreviewing))
<1>1. mMuxer # 0 => mMuxer \in MOVIE /\ movie[mMuxer] = "active"
  BY DEF Kinds, MOVIE, RecordingHasCamera
<1>2. /\ camPc = "idle"
      /\ UNCHANGED <<mReleased, mIsPreviewing, mIsRecording, preview, held,
                     mEncoderType, overlap, pc, call, calls>>
      /\ parentGone' \in {parentGone, parentGone \/ ~mReleased}
      /\ \/ \E label \in {"idle", "open", "release"} : handleClose(label)
         \/ UNCHANGED <<movie, mMuxer, mUVCCamera, camPc, after, stale>>
  BY DEF handle_open, handle_close, handle_release, handle_update_media, handle,
     camera_only, clients, camera
<1>3. ASSUME NEW label \in {"idle", "open", "release"}, handleClose(label), mMuxer # 0
      PROVE  /\ movie' = [movie EXCEPT ![mMuxer] = "draining"]
             /\ mMuxer' = 0 /\ camPc' = "callback" /\ after' = label
             /\ UNCHANGED <<mUVCCamera, stale>>
  BY <1>1, <1>3 DEF handleClose, takeMuxer, Kinds
<1>4. ASSUME NEW label \in {"idle", "open", "release"}, handleClose(label), mMuxer = 0
      PROVE  /\ mMuxer' = 0 /\ movie' = movie /\ after' = label /\ mUVCCamera' = FALSE
             /\ camPc' = IF mUVCCamera THEN "destroy" ELSE after'
             /\ stale' = (stale \/ (mUVCCamera /\ mIsPreviewing))
  BY <1>4 DEF handleClose, takeCamera
<1> QED BY <1>1, <1>2, <1>3, <1>4

(* How handleRelease on an encoder thread stops a recording.                *)
LEMMA Stopping ==
    ASSUME Kinds, RecordingHasCamera, NEW m \in MOVIE, release_stops(m)
    PROVE  /\ mMuxer' = 0
           /\ \/ /\ mMuxer = 0 /\ movie' = [movie EXCEPT ![m] = "take"]
              \/ /\ mMuxer \in MOVIE /\ mMuxer # m /\ movie[mMuxer] = "active"
                 /\ movie' = [movie EXCEPT ![m] = "callback", ![mMuxer] = "draining"]
<1>1. m # 0
  BY HandlerAssumption DEF MOVIE
<1>2. mMuxer # 0 => mMuxer \in MOVIE /\ movie[mMuxer] = "active"
  BY DEF Kinds, MOVIE, RecordingHasCamera
<1>3. movie[m] = "release" /\ \A n \in MOVIE : n # 0
  BY HandlerAssumption DEF release_stops, MOVIE
<1>4. CASE mMuxer = 0
  BY <1>3, <1>4 DEF release_stops, Kinds
<1>5. CASE mMuxer # 0
  BY <1>1, <1>2, <1>3, <1>5 DEF release_stops, Kinds
<1> QED BY <1>4, <1>5

(* Nobody gives a camera back: an intrusion is remembered.                  *)
LEMMA IntrudedStays ==
    ASSUME Kinds, RecordingHasCamera, Intruded, Next
    PROVE  Intruded'
<1>1. ASSUME handle_open \/ handle_close \/ handle_release \/ handle_update_media
      PROVE  Intruded'
  BY <1>1, Closing DEF Intruded, Kinds, Releasing
<1>2. ASSUME NEW m \in MOVIE, start_recording(m) PROVE Intruded'
  BY <1>2 DEF Intruded, Kinds, Releasing, start_recording, clients, setting,
     messages
<1>3. ASSUME handle_stop_recording PROVE Intruded'
  BY <1>3 DEF Intruded, Kinds, Releasing, RecordingHasCamera,
     handle_stop_recording, takeMuxer, MOVIE
<1>4. ASSUME NEW m \in MOVIE, onStopped_ignored(m) PROVE Intruded'
  BY <1>4 DEF Intruded, Kinds, Releasing, onStopped_ignored, history, clients,
     camera, setting, flags, messages, becomes
<1>5. ASSUME NEW m \in MOVIE, onStopped(m) PROVE Intruded'
  BY <1>5 DEF Intruded, Kinds, Releasing, onStopped, history, clients, camera,
     messages, becomes
<1>6. ASSUME NEW m \in MOVIE, update_due(m) PROVE Intruded'
  BY <1>6 DEF Intruded, Kinds, Releasing, update_due, history, clients,
     camera, setting, flags, becomes
<1>7. ASSUME NEW m \in MOVIE, release_stops(m) PROVE Intruded'
  <2>1. PICK n \in MOVIE : movie[n] \in {"destroy", "quit", "refused", "failed"}
    BY DEF Intruded
  <2>2. movie'[n] = movie[n]
    BY <1>7, <2>1, Stopping DEF Kinds, release_stops
  <2> QED BY <2>1, <2>2 DEF Intruded
<1>8. ASSUME NEW m \in MOVIE, release_callback(m) PROVE Intruded'
  BY <1>8 DEF Intruded, Kinds, Releasing, release_callback, history, clients,
     camera, setting, flags, messages, becomes
<1>9. ASSUME NEW m \in MOVIE, release_takes(m) PROVE Intruded'
  BY <1>9 DEF Intruded, Kinds, Releasing, release_takes, clients, camera,
     setting, messages, becomes
<1>10. ASSUME NEW m \in MOVIE, release_destroys(m) PROVE Intruded'
  BY <1>10 DEF Intruded, Kinds, Releasing, release_destroys, history, clients,
     camera, setting, flags, messages, becomes
<1>11. ASSUME NEW m \in MOVIE, release_quits(m) PROVE Intruded'
  BY <1>11 DEF Intruded, Kinds, Releasing, release_quits, history, clients,
     camera, setting, flags, becomes
<1>12. ASSUME (\E d \in OPENER : post(d)) \/ (\E d \in OPENER :
            stopRecording_alone(d)) \/ (\E d \in OPENER : \E what \in Request
            : checkReleased(d, what)) \/ (\E d \in CLOSER : \E op \in {"stop",
            "close", "release"} : stop_close_release(d, op)) \/ (\E d \in
            CLOSER : isOpened(d)) \/ (\E d \in CLOSER : stopPreview(d)) \/ (\E
            d \in CLOSER : stopRecording(d)) \/ (\E d \in CLOSER :
            isPreviewing(d)) \/ (\E d \in CLOSER : send_stop_and_wait(d)) \/
            (\E d \in CLOSER : woken(d)) \/ (\E d \in CLOSER :
            stopPreview_returns(d)) \/ (\E d \in CLOSER : send_close(d)) \/
            (\E d \in CLOSER : send_release(d)) \/ remove_callback \/
            take_camera \/ destroy_camera \/ open_camera \/
            handle_start_preview \/ start_preview \/ preview_started \/
            handle_stop_preview \/ preview_stopped \/ handle_capture_still \/
            handle_start_recording \/ start_fails \/ release_thread \/
            run_ends
      PROVE  Intruded'
  <2>1. UNCHANGED <<movie>>
    BY <1>12 DEF post, stopRecording_alone, checkReleased, stop_close_release,
         isOpened, stopPreview, stopRecording, isPreviewing,
         send_stop_and_wait, woken, stopPreview_returns, send_close,
         send_release, remove_callback, take_camera, destroy_camera,
         open_camera, handle_start_preview, start_preview, preview_started,
         handle_stop_preview, preview_stopped, handle_capture_still,
         handle_start_recording, start_fails, release_thread, run_ends,
         camera, clients, flags, handle, history, messages, outside, setting
  <2> QED BY <2>1 DEF Intruded
<1> QED BY <1>1, <1>2, <1>3, <1>4, <1>5, <1>6, <1>7, <1>8, <1>9, <1>10, <1>11,
       <1>12 DEF Next, Posts, Calls, Camera, Client, Encoder

(* The flags are Boolean. *)
LEMMA FlagsStep ==
    ASSUME IInv, Next
    PROVE  Flags'
<1> USE DEF IInv
<1>1. ASSUME handle_open \/ handle_close \/ handle_release \/ handle_update_media
      PROVE  Flags'
  BY <1>1, Closing DEF Flags
<1>2. ASSUME NEW d \in CLOSER, NEW op \in {"stop", "close", "release"},
       stop_close_release(d, op) PROVE Flags'
  BY <1>2 DEF Flags, stop_close_release, history, camera, outside, setting,
     flags
<1>3. ASSUME take_camera PROVE Flags'
  BY <1>3 DEF Flags, take_camera, clients, outside, setting, messages,
     takeCamera
<1>4. ASSUME destroy_camera PROVE Flags'
  BY <1>4 DEF Flags, destroy_camera, history, clients, setting, flags,
     messages
<1>5. ASSUME open_camera PROVE Flags'
  BY <1>5 DEF Flags, open_camera, history, clients, outside, setting, messages
<1>6. ASSUME start_preview PROVE Flags'
  BY <1>6 DEF Flags, start_preview, history, clients, setting, flags, messages
<1>7. ASSUME preview_started PROVE Flags'
  BY <1>7 DEF Flags, preview_started, clients, outside, setting, messages
<1>8. ASSUME handle_stop_preview PROVE Flags'
  BY <1>8 DEF Flags, handle_stop_preview, history, clients, setting, flags,
     handle
<1>9. ASSUME preview_stopped PROVE Flags'
  BY <1>9 DEF Flags, preview_stopped, outside, setting, messages
<1>10. ASSUME start_fails PROVE Flags'
  BY <1>10 DEF Flags, start_fails, history, clients, outside, setting,
     messages
<1>11. ASSUME NEW m \in MOVIE, start_recording(m) PROVE Flags'
  BY <1>11 DEF Flags, start_recording, clients, setting, messages
<1>12. ASSUME release_thread PROVE Flags'
  BY <1>12 DEF Flags, release_thread, history, clients, outside, setting,
     flags
<1>13. ASSUME NEW m \in MOVIE, onStopped(m) PROVE Flags'
  BY <1>13 DEF Flags, onStopped, history, clients, camera, messages, becomes
<1>14. ASSUME NEW m \in MOVIE, release_takes(m) PROVE Flags'
  BY <1>14 DEF Flags, release_takes, clients, camera, setting, messages,
     becomes
<1>15. ASSUME NEW m \in MOVIE, release_quits(m) PROVE Flags'
  BY <1>15 DEF Flags, release_quits, history, clients, camera, setting, flags,
     becomes
<1>16. ASSUME (\E d \in OPENER : post(d)) \/ (\E d \in OPENER :
            stopRecording_alone(d)) \/ (\E d \in OPENER : \E what \in Request
            : checkReleased(d, what)) \/ (\E d \in CLOSER : isOpened(d)) \/
            (\E d \in CLOSER : stopPreview(d)) \/ (\E d \in CLOSER :
            stopRecording(d)) \/ (\E d \in CLOSER : isPreviewing(d)) \/ (\E d
            \in CLOSER : send_stop_and_wait(d)) \/ (\E d \in CLOSER :
            woken(d)) \/ (\E d \in CLOSER : stopPreview_returns(d)) \/ (\E d
            \in CLOSER : send_close(d)) \/ (\E d \in CLOSER : send_release(d))
            \/ remove_callback \/ handle_start_preview \/ handle_capture_still
            \/ handle_start_recording \/ handle_stop_recording \/ run_ends \/
            (\E m \in MOVIE : onStopped_ignored(m)) \/ (\E m \in MOVIE :
            update_due(m)) \/ (\E m \in MOVIE : release_stops(m)) \/ (\E m \in
            MOVIE : release_callback(m)) \/ (\E m \in MOVIE :
            release_destroys(m))
      PROVE  Flags'
  <2>1. UNCHANGED <<mReleased, mUVCCamera, mIsPreviewing, mIsRecording, preview, parentGone, stale, overlap>>
    BY <1>16 DEF post, stopRecording_alone, checkReleased, isOpened,
         stopPreview, stopRecording, isPreviewing, send_stop_and_wait, woken,
         stopPreview_returns, send_close, send_release, remove_callback,
         handle_start_preview, handle_capture_still, handle_start_recording,
         handle_stop_recording, run_ends, onStopped_ignored, update_due,
         release_stops, release_callback, release_destroys, becomes, camera,
         clients, flags, handle, history, messages, outside, setting
  <2> QED BY <2>1 DEF Flags
<1> QED BY <1>1, <1>2, <1>3, <1>4, <1>5, <1>6, <1>7, <1>8, <1>9, <1>10, <1>11,
       <1>12, <1>13, <1>14, <1>15, <1>16 DEF Next, Posts, Calls, Camera,
       Client, Encoder

(* Types of what the camera and encoder threads write. *)
LEMMA KindsStep ==
    ASSUME IInv, Next
    PROVE  Kinds'
<1> USE DEF IInv
<1>1. ASSUME handle_open \/ handle_close \/ handle_release \/ handle_update_media
      PROVE  Kinds'
  <2>1. mMuxer' \in 0 .. MAX_MOVIES
    <3>1. 0 \in 0 .. MAX_MOVIES
      BY HandlerAssumption
    <3>2. mMuxer' \in {mMuxer, 0}
      BY <1>1, Closing
    <3> QED BY <3>1, <3>2 DEF Kinds
  <2>2. movie' \in [MOVIE -> {"none", "active", "draining", "stopped", "over", "lost"}
                                \cup Releasing \cup {"refused", "failed"}]
    BY <1>1, Closing DEF Kinds
  <2>3. UNCHANGED <<held, mEncoderType>>
    BY <1>1, Closing
  <2>4. after' \in {"idle", "stop", "open", "release"}
    BY <1>1, Closing DEF Kinds
  <2>5. camPc' \in {camPc, "callback", "destroy", "idle", "open", "release"}
    BY <1>1, Closing
  <2> QED BY <2>1, <2>2, <2>3, <2>4, <2>5 DEF Kinds, MOVIE
<1>2. ASSUME remove_callback PROVE Kinds'
  BY <1>2, HandlerAssumption DEF Kinds, Releasing, MOVIE, Between,
     remove_callback, history, clients, outside, setting, flags, messages
<1>3. ASSUME take_camera PROVE Kinds'
  BY <1>3, HandlerAssumption DEF Kinds, Releasing, MOVIE, Between,
     take_camera, clients, outside, setting, messages, takeCamera
<1>4. ASSUME destroy_camera PROVE Kinds'
  BY <1>4, HandlerAssumption DEF Kinds, Releasing, MOVIE, Between,
     destroy_camera, history, clients, setting, flags, messages
<1>5. ASSUME open_camera PROVE Kinds'
  BY <1>5, HandlerAssumption DEF Kinds, Releasing, MOVIE, Between,
     open_camera, history, clients, outside, setting, messages
<1>6. ASSUME handle_start_preview PROVE Kinds'
  BY <1>6, HandlerAssumption DEF Kinds, Releasing, MOVIE, Between,
     handle_start_preview, history, clients, outside, setting, flags, handle
<1>7. ASSUME start_preview PROVE Kinds'
  BY <1>7, HandlerAssumption DEF Kinds, Releasing, MOVIE, Between,
     start_preview, history, clients, setting, flags, messages
<1>8. ASSUME preview_started PROVE Kinds'
  BY <1>8, HandlerAssumption DEF Kinds, Releasing, MOVIE, Between,
     preview_started, clients, outside, setting, messages
<1>9. ASSUME handle_stop_preview PROVE Kinds'
  BY <1>9, HandlerAssumption DEF Kinds, Releasing, MOVIE, Between,
     handle_stop_preview, history, clients, setting, flags, handle
<1>10. ASSUME preview_stopped PROVE Kinds'
  BY <1>10, HandlerAssumption DEF Kinds, Releasing, MOVIE, Between,
     preview_stopped, outside, setting, messages
<1>11. ASSUME handle_start_recording PROVE Kinds'
  BY <1>11, HandlerAssumption DEF Kinds, Releasing, MOVIE, Between,
     handle_start_recording, history, clients, outside, setting, flags, handle
<1>12. ASSUME start_fails PROVE Kinds'
  BY <1>12, HandlerAssumption DEF Kinds, Releasing, MOVIE, Between,
     start_fails, history, clients, outside, setting, messages
<1>13. ASSUME NEW m \in MOVIE, start_recording(m) PROVE Kinds'
  BY <1>13, HandlerAssumption DEF Kinds, Releasing, MOVIE, Between,
     start_recording, clients, setting, messages
<1>14. ASSUME handle_stop_recording PROVE Kinds'
  BY <1>14, HandlerAssumption DEF Kinds, Releasing, MOVIE, Between,
     handle_stop_recording, history, clients, setting, camera, takeMuxer,
     handle
<1>15. ASSUME release_thread PROVE Kinds'
  BY <1>15, HandlerAssumption DEF Kinds, Releasing, MOVIE, Between,
     release_thread, history, clients, outside, setting, flags
<1>16. ASSUME run_ends PROVE Kinds'
  BY <1>16, HandlerAssumption DEF Kinds, Releasing, MOVIE, Between, run_ends,
     history, outside, setting, flags
<1>17. ASSUME NEW m \in MOVIE, onStopped_ignored(m) PROVE Kinds'
  BY <1>17, HandlerAssumption DEF Kinds, Releasing, MOVIE, Between,
     onStopped_ignored, history, clients, camera, setting, flags, messages,
     becomes
<1>18. ASSUME NEW m \in MOVIE, onStopped(m) PROVE Kinds'
  BY <1>18, HandlerAssumption DEF Kinds, Releasing, MOVIE, Between, onStopped,
     history, clients, camera, messages, becomes
<1>19. ASSUME NEW m \in MOVIE, update_due(m) PROVE Kinds'
  BY <1>19, HandlerAssumption DEF Kinds, Releasing, MOVIE, Between,
     update_due, history, clients, camera, setting, flags, becomes
<1>20. ASSUME NEW m \in MOVIE, release_stops(m) PROVE Kinds'
  BY <1>20, HandlerAssumption DEF Kinds, Releasing, MOVIE, Between,
     release_stops, history, clients, camera, setting, messages
<1>21. ASSUME NEW m \in MOVIE, release_callback(m) PROVE Kinds'
  BY <1>21, HandlerAssumption DEF Kinds, Releasing, MOVIE, Between,
     release_callback, history, clients, camera, setting, flags, messages,
     becomes
<1>22. ASSUME NEW m \in MOVIE, release_takes(m) PROVE Kinds'
  BY <1>22, HandlerAssumption DEF Kinds, Releasing, MOVIE, Between,
     release_takes, clients, camera, setting, messages, becomes
<1>23. ASSUME NEW m \in MOVIE, release_destroys(m) PROVE Kinds'
  BY <1>23, HandlerAssumption DEF Kinds, Releasing, MOVIE, Between,
     release_destroys, history, clients, camera, setting, flags, messages,
     becomes
<1>24. ASSUME NEW m \in MOVIE, release_quits(m) PROVE Kinds'
  BY <1>24, HandlerAssumption DEF Kinds, Releasing, MOVIE, Between,
     release_quits, history, clients, camera, setting, flags, becomes
<1>25. ASSUME (\E d \in OPENER : post(d)) \/ (\E d \in OPENER :
            stopRecording_alone(d)) \/ (\E d \in OPENER : \E what \in Request
            : checkReleased(d, what)) \/ (\E d \in CLOSER : \E op \in {"stop",
            "close", "release"} : stop_close_release(d, op)) \/ (\E d \in
            CLOSER : isOpened(d)) \/ (\E d \in CLOSER : stopPreview(d)) \/ (\E
            d \in CLOSER : stopRecording(d)) \/ (\E d \in CLOSER :
            isPreviewing(d)) \/ (\E d \in CLOSER : send_stop_and_wait(d)) \/
            (\E d \in CLOSER : woken(d)) \/ (\E d \in CLOSER :
            stopPreview_returns(d)) \/ (\E d \in CLOSER : send_close(d)) \/
            (\E d \in CLOSER : send_release(d)) \/ handle_capture_still
      PROVE  Kinds'
  <2>1. UNCHANGED <<mMuxer, movie, held, mEncoderType, camPc, after>>
    BY <1>25 DEF post, stopRecording_alone, checkReleased, stop_close_release,
         isOpened, stopPreview, stopRecording, isPreviewing,
         send_stop_and_wait, woken, stopPreview_returns, send_close,
         send_release, handle_capture_still, camera, clients, flags, history,
         messages, outside, setting
  <2> QED BY <2>1 DEF Kinds, MOVIE
<1> QED BY <1>1, <1>2, <1>3, <1>4, <1>5, <1>6, <1>7, <1>8, <1>9, <1>10, <1>11,
       <1>12, <1>13, <1>14, <1>15, <1>16, <1>17, <1>18, <1>19, <1>20, <1>21,
       <1>22, <1>23, <1>24, <1>25 DEF Next, Posts, Calls, Camera, Client,
       Encoder

(* Only an encoder thread in handleRelease takes away what a handler of the camera
   thread relies on. *)
LEMMA BetweenStep ==
    ASSUME IInv, Next
    PROVE  Between'
<1> USE DEF IInv
<1>1. ASSUME handle_open \/ handle_close \/ handle_release \/ handle_update_media
      PROVE  Between'
  <2>1. mMuxer # 0 => mUVCCamera \/ Intruded
    BY DEF RecordingHasCamera
  <2>2. Intruded => Intruded'
    BY IntrudedStays
  <2>3. mMuxer \in MOVIE => mMuxer # 0
    BY HandlerAssumption DEF MOVIE
  <2> QED BY <1>1, <2>1, <2>2, <2>3, Closing DEF Between
<1>2. ASSUME remove_callback PROVE Between'
  BY <1>2, IntrudedStays DEF Between, Kinds, Previews, remove_callback,
     history, clients, outside, setting, flags, messages
<1>3. ASSUME take_camera PROVE Between'
  BY <1>3, IntrudedStays DEF Between, Kinds, Previews, take_camera, clients,
     outside, setting, messages, takeCamera
<1>4. ASSUME destroy_camera PROVE Between'
  BY <1>4, IntrudedStays DEF Between, Kinds, Previews, destroy_camera,
     history, clients, setting, flags, messages
<1>5. ASSUME open_camera PROVE Between'
  BY <1>5, IntrudedStays DEF Between, Kinds, Previews, open_camera, history,
     clients, outside, setting, messages
<1>6. ASSUME handle_start_preview PROVE Between'
  BY <1>6, IntrudedStays DEF Between, Kinds, Previews, handle_start_preview,
     history, clients, outside, setting, flags, handle
<1>7. ASSUME start_preview PROVE Between'
  BY <1>7, IntrudedStays DEF Between, Kinds, Previews, start_preview, history,
     clients, setting, flags, messages
<1>8. ASSUME preview_started PROVE Between'
  BY <1>8, IntrudedStays DEF Between, Kinds, Previews, preview_started,
     clients, outside, setting, messages
<1>9. ASSUME handle_stop_preview PROVE Between'
  BY <1>9, IntrudedStays DEF Between, Kinds, Previews, handle_stop_preview,
     history, clients, setting, flags, handle
<1>10. ASSUME preview_stopped PROVE Between'
  BY <1>10, IntrudedStays DEF Between, Kinds, Previews, preview_stopped,
     outside, setting, messages
<1>11. ASSUME handle_start_recording PROVE Between'
  BY <1>11, IntrudedStays DEF Between, Kinds, Previews,
     handle_start_recording, history, clients, outside, setting, flags, handle
<1>12. ASSUME start_fails PROVE Between'
  BY <1>12, IntrudedStays DEF Between, Kinds, Previews, start_fails, history,
     clients, outside, setting, messages
<1>13. ASSUME NEW m \in MOVIE, start_recording(m) PROVE Between'
  BY <1>13, IntrudedStays DEF Between, Kinds, Previews, start_recording,
     clients, setting, messages
<1>14. ASSUME handle_stop_recording PROVE Between'
  <2>1. mMuxer # 0 => mUVCCamera \/ Intruded
    BY DEF RecordingHasCamera
  <2>2. Intruded => Intruded'
    BY IntrudedStays
  <2> QED BY <1>14, <2>1, <2>2 DEF Between, handle_stop_recording, handle, takeMuxer,
          camera
<1>15. ASSUME release_thread PROVE Between'
  BY <1>15, IntrudedStays DEF Between, Kinds, Previews, release_thread,
     history, clients, outside, setting, flags
<1>16. ASSUME run_ends PROVE Between'
  BY <1>16, IntrudedStays DEF Between, Kinds, Previews, run_ends, history,
     outside, setting, flags
<1>17. ASSUME NEW m \in MOVIE, onStopped_ignored(m) PROVE Between'
  BY <1>17, IntrudedStays DEF Between, Kinds, Previews, onStopped_ignored,
     history, clients, camera, setting, flags, messages, becomes
<1>18. ASSUME NEW m \in MOVIE, onStopped(m) PROVE Between'
  BY <1>18, IntrudedStays DEF Between, Kinds, Previews, onStopped, history,
     clients, camera, messages, becomes
<1>19. ASSUME NEW m \in MOVIE, update_due(m) PROVE Between'
  BY <1>19, IntrudedStays DEF Between, Kinds, Previews, update_due, history,
     clients, camera, setting, flags, becomes
<1>20. ASSUME NEW m \in MOVIE, release_stops(m) PROVE Between'
  BY <1>20, IntrudedStays DEF Between, Kinds, Previews, release_stops,
     history, clients, camera, setting, messages
<1>21. ASSUME NEW m \in MOVIE, release_callback(m) PROVE Between'
  BY <1>21, IntrudedStays DEF Between, Kinds, Previews, release_callback,
     history, clients, camera, setting, flags, messages, becomes
<1>22. ASSUME NEW m \in MOVIE, release_takes(m) PROVE Between'
  <2>1. mUVCCamera => Intruded'
    BY <1>22 DEF release_takes, becomes, Intruded, Kinds
  <2>2. Intruded => Intruded'
    BY IntrudedStays
  <2> QED BY <1>22, <2>1, <2>2 DEF Between, Previews, release_takes, becomes, Kinds, messages, camera
<1>23. ASSUME NEW m \in MOVIE, release_destroys(m) PROVE Between'
  BY <1>23, IntrudedStays DEF Between, Kinds, Previews, release_destroys,
     history, clients, camera, setting, flags, messages, becomes
<1>24. ASSUME NEW m \in MOVIE, release_quits(m) PROVE Between'
  BY <1>24, IntrudedStays DEF Between, Kinds, Previews, release_quits,
     history, clients, camera, setting, flags, becomes
<1>25. ASSUME (\E d \in OPENER : post(d)) \/ (\E d \in OPENER :
            stopRecording_alone(d)) \/ (\E d \in OPENER : \E what \in Request
            : checkReleased(d, what)) \/ (\E d \in CLOSER : \E op \in {"stop",
            "close", "release"} : stop_close_release(d, op)) \/ (\E d \in
            CLOSER : isOpened(d)) \/ (\E d \in CLOSER : stopPreview(d)) \/ (\E
            d \in CLOSER : stopRecording(d)) \/ (\E d \in CLOSER :
            isPreviewing(d)) \/ (\E d \in CLOSER : send_stop_and_wait(d)) \/
            (\E d \in CLOSER : woken(d)) \/ (\E d \in CLOSER :
            stopPreview_returns(d)) \/ (\E d \in CLOSER : send_close(d)) \/
            (\E d \in CLOSER : send_release(d)) \/ handle_capture_still
      PROVE  Between'
  <2>1. UNCHANGED <<mUVCCamera, mIsPreviewing, mMuxer, preview, movie, camPc, after>>
    BY <1>25 DEF post, stopRecording_alone, checkReleased, stop_close_release,
         isOpened, stopPreview, stopRecording, isPreviewing,
         send_stop_and_wait, woken, stopPreview_returns, send_close,
         send_release, handle_capture_still, camera, clients, flags, history,
         messages, outside, setting
  <2> QED BY <2>1 DEF Between, Intruded
<1> QED BY <1>1, <1>2, <1>3, <1>4, <1>5, <1>6, <1>7, <1>8, <1>9, <1>10, <1>11,
       <1>12, <1>13, <1>14, <1>15, <1>16, <1>17, <1>18, <1>19, <1>20, <1>21,
       <1>22, <1>23, <1>24, <1>25 DEF Next, Posts, Calls, Camera, Client,
       Encoder

(* A close leaves mIsPreviewing set, which stale remembers. *)
LEMMA PreviewsStep ==
    ASSUME IInv, Next
    PROVE  Previews'
<1> USE DEF IInv
<1>1. ASSUME handle_open \/ handle_close \/ handle_release \/ handle_update_media
      PROVE  Previews'
  <2>1. camPc = "idle" /\ UNCHANGED <<preview, mIsPreviewing>>
    BY <1>1, Closing
  <2>2. CASE UNCHANGED <<mUVCCamera, stale>>
    BY <2>1, <2>2 DEF Previews
  <2>3. CASE /\ mUVCCamera' = FALSE
             /\ camPc' = IF mUVCCamera THEN "destroy" ELSE after'
             /\ stale' = (stale \/ (mUVCCamera /\ mIsPreviewing))
    <3>1. mUVCCamera => camPc' = "destroy"
      BY <2>3
    <3>2. stale' <=> stale \/ (mUVCCamera /\ mIsPreviewing)
      BY <2>3
    <3>3. ~mUVCCamera'
      BY <2>3
    <3>4. (preview' <=> preview) /\ (mIsPreviewing' <=> mIsPreviewing)
      BY <2>1
    <3> QED BY <2>1, <3>1, <3>2, <3>3, <3>4 DEF Previews
  <2> QED BY <1>1, <2>2, <2>3, Closing
<1>2. ASSUME remove_callback PROVE Previews'
  BY <1>2 DEF Previews, Between, remove_callback, history, clients, outside,
     setting, flags, messages
<1>3. ASSUME take_camera PROVE Previews'
  BY <1>3 DEF Previews, Between, take_camera, clients, outside, setting,
     messages, takeCamera
<1>4. ASSUME destroy_camera PROVE Previews'
  BY <1>4 DEF Previews, Between, destroy_camera, history, clients, setting,
     flags, messages
<1>5. ASSUME open_camera PROVE Previews'
  BY <1>5 DEF Previews, Between, open_camera, history, clients, outside,
     setting, messages
<1>6. ASSUME handle_start_preview PROVE Previews'
  BY <1>6 DEF Previews, Between, handle_start_preview, history, clients,
     outside, setting, flags, handle
<1>7. ASSUME start_preview PROVE Previews'
  BY <1>7 DEF Previews, Between, start_preview, history, clients, setting,
     flags, messages
<1>8. ASSUME preview_started PROVE Previews'
  <2>1. \/ mIsPreviewing' = TRUE /\ stale' = (stale \/ ~mUVCCamera) /\ camPc' = "idle"
        \/ ~mUVCCamera /\ camPc' = "no_camera" /\ UNCHANGED <<mIsPreviewing, stale>>
    BY <1>8 DEF preview_started
  <2>2. camPc = "started" /\ UNCHANGED <<preview, mUVCCamera>>
    BY <1>8 DEF preview_started, outside
  <2>3. mUVCCamera => preview
    BY <2>2 DEF Between
  <2>4. (preview' <=> preview) /\ (mUVCCamera' <=> mUVCCamera)
    BY <2>2
  <2>5. preview => mUVCCamera
    BY <2>2 DEF Previews
  <2>6. CASE mIsPreviewing' = TRUE /\ stale' = (stale \/ ~mUVCCamera)
    <3>1. mIsPreviewing' /\ (~mUVCCamera => stale')
      BY <2>6
    <3> QED BY <2>3, <2>4, <2>5, <3>1 DEF Previews
  <2>7. CASE ~mUVCCamera /\ UNCHANGED <<mIsPreviewing, stale>>
    <3>1. (mIsPreviewing' <=> mIsPreviewing) /\ (stale' <=> stale)
      BY <2>7
    <3> QED BY <2>2, <2>4, <2>5, <2>7, <3>1 DEF Previews
  <2> QED BY <2>1, <2>6, <2>7
<1>9. ASSUME handle_stop_preview PROVE Previews'
  BY <1>9 DEF Previews, Between, handle_stop_preview, history, clients,
     setting, flags, handle
<1>10. ASSUME preview_stopped PROVE Previews'
  BY <1>10 DEF Previews, Between, preview_stopped, outside, setting, messages
<1>11. ASSUME handle_start_recording PROVE Previews'
  BY <1>11 DEF Previews, Between, handle_start_recording, history, clients,
     outside, setting, flags, handle
<1>12. ASSUME start_fails PROVE Previews'
  BY <1>12 DEF Previews, Between, start_fails, history, clients, outside,
     setting, messages
<1>13. ASSUME NEW m \in MOVIE, start_recording(m) PROVE Previews'
  BY <1>13 DEF Previews, Between, start_recording, clients, setting, messages
<1>14. ASSUME handle_stop_recording PROVE Previews'
  BY <1>14 DEF Previews, Between, handle_stop_recording, history, clients,
     setting, camera, takeMuxer, handle
<1>15. ASSUME release_thread PROVE Previews'
  BY <1>15 DEF Previews, Between, release_thread, history, clients, outside,
     setting, flags
<1>16. ASSUME run_ends PROVE Previews'
  BY <1>16 DEF Previews, Between, run_ends, history, outside, setting, flags
<1>17. ASSUME NEW m \in MOVIE, release_takes(m) PROVE Previews'
  BY <1>17 DEF Previews, Between, release_takes, clients, camera, setting,
     messages, becomes
<1>18. ASSUME (\E d \in OPENER : post(d)) \/ (\E d \in OPENER :
            stopRecording_alone(d)) \/ (\E d \in OPENER : \E what \in Request
            : checkReleased(d, what)) \/ (\E d \in CLOSER : \E op \in {"stop",
            "close", "release"} : stop_close_release(d, op)) \/ (\E d \in
            CLOSER : isOpened(d)) \/ (\E d \in CLOSER : stopPreview(d)) \/ (\E
            d \in CLOSER : stopRecording(d)) \/ (\E d \in CLOSER :
            isPreviewing(d)) \/ (\E d \in CLOSER : send_stop_and_wait(d)) \/
            (\E d \in CLOSER : woken(d)) \/ (\E d \in CLOSER :
            stopPreview_returns(d)) \/ (\E d \in CLOSER : send_close(d)) \/
            (\E d \in CLOSER : send_release(d)) \/ handle_capture_still \/ (\E
            m \in MOVIE : onStopped_ignored(m)) \/ (\E m \in MOVIE :
            onStopped(m)) \/ (\E m \in MOVIE : update_due(m)) \/ (\E m \in
            MOVIE : release_stops(m)) \/ (\E m \in MOVIE :
            release_callback(m)) \/ (\E m \in MOVIE : release_destroys(m)) \/
            (\E m \in MOVIE : release_quits(m))
      PROVE  Previews'
  <2>1. UNCHANGED <<mUVCCamera, mIsPreviewing, preview, camPc, stale>>
    BY <1>18 DEF post, stopRecording_alone, checkReleased, stop_close_release,
         isOpened, stopPreview, stopRecording, isPreviewing,
         send_stop_and_wait, woken, stopPreview_returns, send_close,
         send_release, handle_capture_still, onStopped_ignored, onStopped,
         update_due, release_stops, release_callback, release_destroys,
         release_quits, becomes, camera, clients, flags, history, messages,
         outside, setting
  <2> QED BY <2>1 DEF Previews
<1> QED BY <1>1, <1>2, <1>3, <1>4, <1>5, <1>6, <1>7, <1>8, <1>9, <1>10, <1>11,
       <1>12, <1>13, <1>14, <1>15, <1>16, <1>17, <1>18 DEF Next, Posts, Calls,
       Camera, Client, Encoder

(* handleClose stops the recording before the camera goes. *)
LEMMA RecordingStep ==
    ASSUME IInv, Next
    PROVE  RecordingHasCamera'
<1> USE DEF IInv
<1>1. ASSUME handle_open \/ handle_close \/ handle_release \/ handle_update_media
      PROVE  RecordingHasCamera'
  BY <1>1, Closing, IntrudedStays, HandlerAssumption DEF RecordingHasCamera,
     Between, Kinds, MOVIE
<1>2. ASSUME remove_callback PROVE RecordingHasCamera'
  BY <1>2, IntrudedStays, HandlerAssumption DEF RecordingHasCamera, Between,
     Kinds, MOVIE, remove_callback, history, clients, outside, setting, flags,
     messages
<1>3. ASSUME take_camera PROVE RecordingHasCamera'
  BY <1>3, IntrudedStays, HandlerAssumption DEF RecordingHasCamera, Between,
     Kinds, MOVIE, take_camera, clients, outside, setting, messages,
     takeCamera
<1>4. ASSUME destroy_camera PROVE RecordingHasCamera'
  BY <1>4, IntrudedStays, HandlerAssumption DEF RecordingHasCamera, Between,
     Kinds, MOVIE, destroy_camera, history, clients, setting, flags, messages
<1>5. ASSUME open_camera PROVE RecordingHasCamera'
  BY <1>5, IntrudedStays, HandlerAssumption DEF RecordingHasCamera, Between,
     Kinds, MOVIE, open_camera, history, clients, outside, setting, messages
<1>6. ASSUME handle_start_preview PROVE RecordingHasCamera'
  BY <1>6, IntrudedStays, HandlerAssumption DEF RecordingHasCamera, Between,
     Kinds, MOVIE, handle_start_preview, history, clients, outside, setting,
     flags, handle
<1>7. ASSUME start_preview PROVE RecordingHasCamera'
  BY <1>7, IntrudedStays, HandlerAssumption DEF RecordingHasCamera, Between,
     Kinds, MOVIE, start_preview, history, clients, setting, flags, messages
<1>8. ASSUME preview_started PROVE RecordingHasCamera'
  BY <1>8, IntrudedStays, HandlerAssumption DEF RecordingHasCamera, Between,
     Kinds, MOVIE, preview_started, clients, outside, setting, messages
<1>9. ASSUME handle_stop_preview PROVE RecordingHasCamera'
  BY <1>9, IntrudedStays, HandlerAssumption DEF RecordingHasCamera, Between,
     Kinds, MOVIE, handle_stop_preview, history, clients, setting, flags,
     handle
<1>10. ASSUME preview_stopped PROVE RecordingHasCamera'
  BY <1>10, IntrudedStays, HandlerAssumption DEF RecordingHasCamera, Between,
     Kinds, MOVIE, preview_stopped, outside, setting, messages
<1>11. ASSUME handle_start_recording PROVE RecordingHasCamera'
  BY <1>11, IntrudedStays, HandlerAssumption DEF RecordingHasCamera, Between,
     Kinds, MOVIE, handle_start_recording, history, clients, outside, setting,
     flags, handle
<1>12. ASSUME start_fails PROVE RecordingHasCamera'
  BY <1>12, IntrudedStays, HandlerAssumption DEF RecordingHasCamera, Between,
     Kinds, MOVIE, start_fails, history, clients, outside, setting, messages
<1>13. ASSUME NEW m \in MOVIE, start_recording(m) PROVE RecordingHasCamera'
  BY <1>13, IntrudedStays, HandlerAssumption DEF RecordingHasCamera, Between,
     Kinds, MOVIE, start_recording, clients, setting, messages
<1>14. ASSUME handle_stop_recording PROVE RecordingHasCamera'
  BY <1>14, IntrudedStays, HandlerAssumption DEF RecordingHasCamera, Between,
     Kinds, MOVIE, handle_stop_recording, history, clients, setting, camera,
     takeMuxer, handle
<1>15. ASSUME release_thread PROVE RecordingHasCamera'
  BY <1>15, IntrudedStays, HandlerAssumption DEF RecordingHasCamera, Between,
     Kinds, MOVIE, release_thread, history, clients, outside, setting, flags
<1>16. ASSUME run_ends PROVE RecordingHasCamera'
  BY <1>16, IntrudedStays, HandlerAssumption DEF RecordingHasCamera, Between,
     Kinds, MOVIE, run_ends, history, outside, setting, flags
<1>17. ASSUME NEW m \in MOVIE, onStopped_ignored(m) PROVE RecordingHasCamera'
  BY <1>17, IntrudedStays, HandlerAssumption DEF RecordingHasCamera, Between,
     Kinds, MOVIE, onStopped_ignored, history, clients, camera, setting,
     flags, messages, becomes
<1>18. ASSUME NEW m \in MOVIE, onStopped(m) PROVE RecordingHasCamera'
  BY <1>18, IntrudedStays, HandlerAssumption DEF RecordingHasCamera, Between,
     Kinds, MOVIE, onStopped, history, clients, camera, messages, becomes
<1>19. ASSUME NEW m \in MOVIE, update_due(m) PROVE RecordingHasCamera'
  BY <1>19, IntrudedStays, HandlerAssumption DEF RecordingHasCamera, Between,
     Kinds, MOVIE, update_due, history, clients, camera, setting, flags,
     becomes
<1>20. ASSUME NEW m \in MOVIE, release_stops(m) PROVE RecordingHasCamera'
  <2>1. Intruded => Intruded'
    BY IntrudedStays
  <2>2. mMuxer' = 0 /\ \A n \in MOVIE : movie'[n] # "active"
    BY <1>20, Stopping, HandlerAssumption DEF Kinds, RecordingHasCamera, MOVIE
  <2> QED BY <1>20, <2>1, <2>2 DEF RecordingHasCamera, release_stops, camera
<1>21. ASSUME NEW m \in MOVIE, release_callback(m) PROVE RecordingHasCamera'
  BY <1>21, IntrudedStays, HandlerAssumption DEF RecordingHasCamera, Between,
     Kinds, MOVIE, release_callback, history, clients, camera, setting, flags,
     messages, becomes
<1>22. ASSUME NEW m \in MOVIE, release_takes(m) PROVE RecordingHasCamera'
  <2>1. mUVCCamera => Intruded'
    BY <1>22 DEF release_takes, becomes, Intruded, Kinds
  <2>2. Intruded => Intruded'
    BY IntrudedStays
  <2> QED BY <1>22, <2>1, <2>2 DEF RecordingHasCamera, release_takes, becomes, Kinds, messages, camera
<1>23. ASSUME NEW m \in MOVIE, release_destroys(m) PROVE RecordingHasCamera'
  BY <1>23, IntrudedStays, HandlerAssumption DEF RecordingHasCamera, Between,
     Kinds, MOVIE, release_destroys, history, clients, camera, setting, flags,
     messages, becomes
<1>24. ASSUME NEW m \in MOVIE, release_quits(m) PROVE RecordingHasCamera'
  BY <1>24, IntrudedStays, HandlerAssumption DEF RecordingHasCamera, Between,
     Kinds, MOVIE, release_quits, history, clients, camera, setting, flags,
     becomes
<1>25. ASSUME (\E d \in OPENER : post(d)) \/ (\E d \in OPENER :
            stopRecording_alone(d)) \/ (\E d \in OPENER : \E what \in Request
            : checkReleased(d, what)) \/ (\E d \in CLOSER : \E op \in {"stop",
            "close", "release"} : stop_close_release(d, op)) \/ (\E d \in
            CLOSER : isOpened(d)) \/ (\E d \in CLOSER : stopPreview(d)) \/ (\E
            d \in CLOSER : stopRecording(d)) \/ (\E d \in CLOSER :
            isPreviewing(d)) \/ (\E d \in CLOSER : send_stop_and_wait(d)) \/
            (\E d \in CLOSER : woken(d)) \/ (\E d \in CLOSER :
            stopPreview_returns(d)) \/ (\E d \in CLOSER : send_close(d)) \/
            (\E d \in CLOSER : send_release(d)) \/ handle_capture_still
      PROVE  RecordingHasCamera'
  <2>1. UNCHANGED <<mUVCCamera, mMuxer, movie, camPc>>
    BY <1>25 DEF post, stopRecording_alone, checkReleased, stop_close_release,
         isOpened, stopPreview, stopRecording, isPreviewing,
         send_stop_and_wait, woken, stopPreview_returns, send_close,
         send_release, handle_capture_still, camera, clients, flags, history,
         messages, outside, setting
  <2> QED BY <2>1 DEF RecordingHasCamera, Intruded
<1> QED BY <1>1, <1>2, <1>3, <1>4, <1>5, <1>6, <1>7, <1>8, <1>9, <1>10, <1>11,
       <1>12, <1>13, <1>14, <1>15, <1>16, <1>17, <1>18, <1>19, <1>20, <1>21,
       <1>22, <1>23, <1>24, <1>25 DEF Next, Posts, Calls, Camera, Client,
       Encoder

(* Only a start while another recording drains makes two of them. *)
LEMMA DrainsStep ==
    ASSUME IInv, Next
    PROVE  Drains'
<1> USE DEF IInv
<1>1. ASSUME handle_open \/ handle_close \/ handle_release \/ handle_update_media
      PROVE  Drains'
  <2>1. Live' \subseteq Live
    BY <1>1, Closing DEF Live, Kinds
  <2>2. UNCHANGED overlap /\ (mIsRecording' = mIsRecording \/ mIsRecording' = TRUE)
    BY <1>1, Closing
  <2> QED BY <2>1, <2>2 DEF Drains
<1>2. ASSUME start_fails PROVE Drains'
  <2>1. Live' \subseteq Live
    BY <1>2 DEF Live, start_fails, outside
  <2>2. UNCHANGED overlap /\ (mIsRecording' = mIsRecording \/ mIsRecording' = TRUE)
    BY <1>2 DEF start_fails, history
  <2> QED BY <2>1, <2>2 DEF Drains
<1>3. ASSUME NEW m \in MOVIE, start_recording(m) PROVE Drains'
  <2>1. m # 0 /\ mMuxer = 0 /\ movie[m] = "none"
    BY <1>3, HandlerAssumption DEF start_recording, Between, MOVIE
  <2>2. \A n \in MOVIE : movie[n] # "active"
    BY <2>1, HandlerAssumption DEF RecordingHasCamera, MOVIE
  <2>3. Live' = Live \cup {m}
    BY <1>3 DEF start_recording, Live, Kinds
  <2>4. ASSUME NEW n \in Live PROVE overlap'
    BY <1>3, <2>2, <2>4 DEF start_recording, Live
  <2>5. mIsRecording' /\ (overlap => overlap')
    BY <1>3 DEF start_recording
  <2> QED BY <2>3, <2>4, <2>5 DEF Drains
<1>4. ASSUME handle_stop_recording PROVE Drains'
  BY <1>4 DEF Drains, Live, Kinds, RecordingHasCamera, handle_stop_recording,
     history, clients, setting, camera, takeMuxer, handle
<1>5. ASSUME NEW m \in MOVIE, onStopped_ignored(m) PROVE Drains'
  BY <1>5 DEF Drains, Live, Kinds, RecordingHasCamera, onStopped_ignored,
     history, clients, camera, setting, flags, messages, becomes
<1>6. ASSUME NEW m \in MOVIE, onStopped(m) PROVE Drains'
  BY <1>6 DEF Drains, Live, Kinds, RecordingHasCamera, onStopped, history,
     clients, camera, messages, becomes
<1>7. ASSUME NEW m \in MOVIE, update_due(m) PROVE Drains'
  BY <1>7 DEF Drains, Live, Kinds, RecordingHasCamera, update_due, history,
     clients, camera, setting, flags, becomes
<1>8. ASSUME NEW m \in MOVIE, release_stops(m) PROVE Drains'
  <2>1. Live' \subseteq Live
    BY <1>8, Stopping DEF Live, Kinds
  <2>2. UNCHANGED overlap /\ (mIsRecording' = mIsRecording \/ mIsRecording' = TRUE)
    BY <1>8 DEF release_stops, history
  <2> QED BY <2>1, <2>2 DEF Drains
<1>9. ASSUME NEW m \in MOVIE, release_callback(m) PROVE Drains'
  BY <1>9 DEF Drains, Live, Kinds, RecordingHasCamera, release_callback,
     history, clients, camera, setting, flags, messages, becomes
<1>10. ASSUME NEW m \in MOVIE, release_takes(m) PROVE Drains'
  BY <1>10 DEF Drains, Live, Kinds, RecordingHasCamera, release_takes,
     clients, camera, setting, messages, becomes
<1>11. ASSUME NEW m \in MOVIE, release_destroys(m) PROVE Drains'
  BY <1>11 DEF Drains, Live, Kinds, RecordingHasCamera, release_destroys,
     history, clients, camera, setting, flags, messages, becomes
<1>12. ASSUME NEW m \in MOVIE, release_quits(m) PROVE Drains'
  BY <1>12 DEF Drains, Live, Kinds, RecordingHasCamera, release_quits,
     history, clients, camera, setting, flags, becomes
<1>13. ASSUME (\E d \in OPENER : post(d)) \/ (\E d \in OPENER :
            stopRecording_alone(d)) \/ (\E d \in OPENER : \E what \in Request
            : checkReleased(d, what)) \/ (\E d \in CLOSER : \E op \in {"stop",
            "close", "release"} : stop_close_release(d, op)) \/ (\E d \in
            CLOSER : isOpened(d)) \/ (\E d \in CLOSER : stopPreview(d)) \/ (\E
            d \in CLOSER : stopRecording(d)) \/ (\E d \in CLOSER :
            isPreviewing(d)) \/ (\E d \in CLOSER : send_stop_and_wait(d)) \/
            (\E d \in CLOSER : woken(d)) \/ (\E d \in CLOSER :
            stopPreview_returns(d)) \/ (\E d \in CLOSER : send_close(d)) \/
            (\E d \in CLOSER : send_release(d)) \/ remove_callback \/
            take_camera \/ destroy_camera \/ open_camera \/
            handle_start_preview \/ start_preview \/ preview_started \/
            handle_stop_preview \/ preview_stopped \/ handle_capture_still \/
            handle_start_recording \/ release_thread \/ run_ends
      PROVE  Drains'
  <2>1. UNCHANGED <<mIsRecording, movie, overlap>>
    BY <1>13 DEF post, stopRecording_alone, checkReleased, stop_close_release,
         isOpened, stopPreview, stopRecording, isPreviewing,
         send_stop_and_wait, woken, stopPreview_returns, send_close,
         send_release, remove_callback, take_camera, destroy_camera,
         open_camera, handle_start_preview, start_preview, preview_started,
         handle_stop_preview, preview_stopped, handle_capture_still,
         handle_start_recording, release_thread, run_ends, camera, clients,
         flags, handle, history, messages, outside, setting
  <2> QED BY <2>1 DEF Drains, Live
<1> QED BY <1>1, <1>2, <1>3, <1>4, <1>5, <1>6, <1>7, <1>8, <1>9, <1>10, <1>11,
       <1>12, <1>13 DEF Next, Posts, Calls, Camera, Client, Encoder

(* The looper quits only without mIsRecording. *)
LEMMA StaysStep ==
    ASSUME IInv, Next
    PROVE  StaysForEncoder'
<1> USE DEF IInv
<1>1. ASSUME handle_open \/ handle_close \/ handle_release \/ handle_update_media
      PROVE  StaysForEncoder'
  BY <1>1, Closing DEF StaysForEncoder, Between, Kinds, RecordingHasCamera
<1>2. ASSUME remove_callback PROVE StaysForEncoder'
  BY <1>2 DEF StaysForEncoder, Between, Kinds, RecordingHasCamera,
     remove_callback, history, clients, outside, setting, flags, messages
<1>3. ASSUME take_camera PROVE StaysForEncoder'
  BY <1>3 DEF StaysForEncoder, Between, Kinds, RecordingHasCamera,
     take_camera, clients, outside, setting, messages, takeCamera
<1>4. ASSUME destroy_camera PROVE StaysForEncoder'
  BY <1>4 DEF StaysForEncoder, Between, Kinds, RecordingHasCamera,
     destroy_camera, history, clients, setting, flags, messages
<1>5. ASSUME open_camera PROVE StaysForEncoder'
  BY <1>5 DEF StaysForEncoder, Between, Kinds, RecordingHasCamera,
     open_camera, history, clients, outside, setting, messages
<1>6. ASSUME handle_start_preview PROVE StaysForEncoder'
  BY <1>6 DEF StaysForEncoder, Between, Kinds, RecordingHasCamera,
     handle_start_preview, history, clients, outside, setting, flags, handle
<1>7. ASSUME start_preview PROVE StaysForEncoder'
  BY <1>7 DEF StaysForEncoder, Between, Kinds, RecordingHasCamera,
     start_preview, history, clients, setting, flags, messages
<1>8. ASSUME preview_started PROVE StaysForEncoder'
  BY <1>8 DEF StaysForEncoder, Between, Kinds, RecordingHasCamera,
     preview_started, clients, outside, setting, messages
<1>9. ASSUME handle_stop_preview PROVE StaysForEncoder'
  BY <1>9 DEF StaysForEncoder, Between, Kinds, RecordingHasCamera,
     handle_stop_preview, history, clients, setting, flags, handle
<1>10. ASSUME preview_stopped PROVE StaysForEncoder'
  BY <1>10 DEF StaysForEncoder, Between, Kinds, RecordingHasCamera,
     preview_stopped, outside, setting, messages
<1>11. ASSUME handle_start_recording PROVE StaysForEncoder'
  BY <1>11 DEF StaysForEncoder, Between, Kinds, RecordingHasCamera,
     handle_start_recording, history, clients, outside, setting, flags, handle
<1>12. ASSUME start_fails PROVE StaysForEncoder'
  BY <1>12 DEF StaysForEncoder, Between, Kinds, RecordingHasCamera,
     start_fails, history, clients, outside, setting, messages
<1>13. ASSUME NEW m \in MOVIE, start_recording(m) PROVE StaysForEncoder'
  BY <1>13 DEF StaysForEncoder, Between, Kinds, RecordingHasCamera,
     start_recording, clients, setting, messages
<1>14. ASSUME handle_stop_recording PROVE StaysForEncoder'
  BY <1>14 DEF StaysForEncoder, Between, Kinds, RecordingHasCamera,
     handle_stop_recording, history, clients, setting, camera, takeMuxer,
     handle
<1>15. ASSUME release_thread PROVE StaysForEncoder'
  BY <1>15 DEF StaysForEncoder, Drains, Live, release_thread, outside, setting, history
<1>16. ASSUME run_ends PROVE StaysForEncoder'
  BY <1>16 DEF StaysForEncoder, Between, Kinds, RecordingHasCamera, run_ends,
     history, outside, setting, flags
<1>17. ASSUME NEW m \in MOVIE, onStopped_ignored(m) PROVE StaysForEncoder'
  BY <1>17 DEF StaysForEncoder, Between, Kinds, RecordingHasCamera,
     onStopped_ignored, history, clients, camera, setting, flags, messages,
     becomes
<1>18. ASSUME NEW m \in MOVIE, onStopped(m) PROVE StaysForEncoder'
  BY <1>18 DEF StaysForEncoder, Between, Kinds, RecordingHasCamera, onStopped,
     history, clients, camera, messages, becomes
<1>19. ASSUME NEW m \in MOVIE, update_due(m) PROVE StaysForEncoder'
  BY <1>19 DEF StaysForEncoder, Between, Kinds, RecordingHasCamera,
     update_due, history, clients, camera, setting, flags, becomes
<1>20. ASSUME NEW m \in MOVIE, release_stops(m) PROVE StaysForEncoder'
  BY <1>20, Stopping DEF StaysForEncoder, Kinds, release_stops, camera, history
<1>21. ASSUME NEW m \in MOVIE, release_callback(m) PROVE StaysForEncoder'
  BY <1>21 DEF StaysForEncoder, Between, Kinds, RecordingHasCamera,
     release_callback, history, clients, camera, setting, flags, messages,
     becomes
<1>22. ASSUME NEW m \in MOVIE, release_takes(m) PROVE StaysForEncoder'
  BY <1>22 DEF StaysForEncoder, Between, Kinds, RecordingHasCamera,
     release_takes, clients, camera, setting, messages, becomes
<1>23. ASSUME NEW m \in MOVIE, release_destroys(m) PROVE StaysForEncoder'
  BY <1>23 DEF StaysForEncoder, Between, Kinds, RecordingHasCamera,
     release_destroys, history, clients, camera, setting, flags, messages,
     becomes
<1>24. ASSUME NEW m \in MOVIE, release_quits(m) PROVE StaysForEncoder'
  BY <1>24 DEF StaysForEncoder, Between, Kinds, RecordingHasCamera,
     release_quits, history, clients, camera, setting, flags, becomes
<1>25. ASSUME (\E d \in OPENER : post(d)) \/ (\E d \in OPENER :
            stopRecording_alone(d)) \/ (\E d \in OPENER : \E what \in Request
            : checkReleased(d, what)) \/ (\E d \in CLOSER : \E op \in {"stop",
            "close", "release"} : stop_close_release(d, op)) \/ (\E d \in
            CLOSER : isOpened(d)) \/ (\E d \in CLOSER : stopPreview(d)) \/ (\E
            d \in CLOSER : stopRecording(d)) \/ (\E d \in CLOSER :
            isPreviewing(d)) \/ (\E d \in CLOSER : send_stop_and_wait(d)) \/
            (\E d \in CLOSER : woken(d)) \/ (\E d \in CLOSER :
            stopPreview_returns(d)) \/ (\E d \in CLOSER : send_close(d)) \/
            (\E d \in CLOSER : send_release(d)) \/ handle_capture_still
      PROVE  StaysForEncoder'
  <2>1. UNCHANGED <<movie, camPc, overlap>>
    BY <1>25 DEF post, stopRecording_alone, checkReleased, stop_close_release,
         isOpened, stopPreview, stopRecording, isPreviewing,
         send_stop_and_wait, woken, stopPreview_returns, send_close,
         send_release, handle_capture_still, camera, clients, flags, history,
         messages, outside, setting
  <2> QED BY <2>1 DEF StaysForEncoder
<1> QED BY <1>1, <1>2, <1>3, <1>4, <1>5, <1>6, <1>7, <1>8, <1>9, <1>10, <1>11,
       <1>12, <1>13, <1>14, <1>15, <1>16, <1>17, <1>18, <1>19, <1>20, <1>21,
       <1>22, <1>23, <1>24, <1>25 DEF Next, Posts, Calls, Camera, Client,
       Encoder

\* The strengthened invariant holds in every reachable state.
THEOREM Invariance == Spec => []IInv
<1>1. ASSUME Init PROVE IInv
  <2> USE DEF Init
  <2>1. Flags
    BY <1>1 DEF Flags
  <2>2. Kinds
    BY <1>1, HandlerAssumption DEF Kinds, MOVIE
  <2>3. Between /\ Previews /\ StaysForEncoder
    BY <1>1 DEF Between, Previews, StaysForEncoder
  <2>4. RecordingHasCamera /\ Drains
    BY <1>1 DEF RecordingHasCamera, Drains, Live
  <2> QED BY <2>1, <2>2, <2>3, <2>4 DEF IInv
<1>2. IInv /\ [Next]_vars => IInv'
  <2>1. ASSUME IInv, Next PROVE IInv'
    BY <2>1, FlagsStep, KindsStep, BetweenStep, PreviewsStep, RecordingStep,
       DrainsStep, StaysStep DEF IInv
  <2>2. ASSUME IInv, UNCHANGED vars PROVE IInv'
    BY <2>2 DEF IInv, vars, messages, flags, outside, setting, camera, clients,
       history, Intruded, Flags, Kinds, Between, Previews, RecordingHasCamera, Drains, Live,
       StaysForEncoder
  <2> QED BY <2>1, <2>2
<1> QED BY <1>1, <1>2, PTL DEF Spec

\* mIsPreviewing tells whether the surface is in use, but for a close that
\* overtook the stop.
THEOREM FlagTellsPreview == Spec => []PreviewFlag
<1>1. IInv => PreviewFlag
  BY DEF IInv, Previews, PreviewFlag
<1> QED BY Invariance, <1>1, PTL

\* There is no recording without a camera.
THEOREM RecordingIsSafe == Spec => []RecordingHasCamera
<1>1. IInv => RecordingHasCamera
  BY DEF IInv
<1> QED BY Invariance, <1>1, PTL

\* The camera thread does not leave an encoder behind.
THEOREM ThreadStays == Spec => []StaysForEncoder
<1>1. IInv => StaysForEncoder
  BY DEF IInv
<1> QED BY Invariance, <1>1, PTL

\* A camera thread that ends leaves nothing in use of its own: the camera is closed, its
\* preview off the surface, no recording still fed.
THEOREM EndsClosed ==
    Spec => [](camPc \in {"quit", "dead"} =>
                  ~mUVCCamera /\ ~preview /\ \A m \in MOVIE : movie[m] # "active")
<1>1. IInv => (camPc \in {"quit", "dead"} =>
                  ~mUVCCamera /\ ~preview /\ \A m \in MOVIE : movie[m] # "active")
  <2>1. \A m \in MOVIE : m # 0
    BY HandlerAssumption DEF MOVIE
  <2> QED BY <2>1 DEF IInv, Between, Previews, RecordingHasCamera
<1> QED BY Invariance, <1>1, PTL
=============================================================================

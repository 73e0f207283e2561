------------------------- MODULE UVCPreviewProofs -------------------------
(* Theorems about UVCPreview for every number of frames, threads, callers  *)
(* and sessions.                                                           *)
EXTENDS UVCPreview, SequenceTheorems, TLAPS

LEMMA FrontOfSeq ==
    ASSUME NEW S, NEW s \in Seq(S), s # <<>>
    PROVE  Front(s) \in Seq(S) /\ Len(Front(s)) = Len(s) - 1
<1> DEFINE n == Len(s) - 1
<1>1. n \in Nat
  OBVIOUS
<1>2. \A i \in 1 .. n : s[i] \in S
  OBVIOUS
<1> HIDE DEF n
<1>3. SubSeq(s, 1, n) \in Seq(S) /\ Len(SubSeq(s, 1, n)) = n
  BY <1>1, <1>2
<1>4. Front(s) = SubSeq(s, 1, n)
  BY DEF Front, n
<1> QED BY <1>3, <1>4 DEF n

(* get_frame and recycle_frame keep the pool within its size and made of   *)
(* frames; get_frame returns a frame or NULL.                              *)
LEMMA GetFrame ==
    ASSUME PoolOK, NEW f \in FrameOrNull, get_frame(f)
    PROVE  PoolOK'
<1> USE DEF PoolOK, get_frame, memory
<1>1. CASE mFramePool # <<>> /\ f = Last(mFramePool) /\ mFramePool' = Front(mFramePool)
           /\ UNCHANGED heap
  <2>1. Front(mFramePool) \in Seq(FRAME) /\ Len(Front(mFramePool)) = Len(mFramePool) - 1
    BY <1>1, FrontOfSeq
  <2> QED BY <1>1, <2>1, BoundsAssumption DEF FRAME_POOL_SZ
<1>2. CASE mFramePool = <<>> /\ UNCHANGED mFramePool /\ heap' \subseteq FRAME
  BY <1>2
<1> QED BY <1>1, <1>2

(* What a step leaves alone keeps its type.                                *)
LEMMA Untouched ==
    /\ FlagsOK /\ UNCHANGED flags => FlagsOK'
    /\ PoolOK /\ UNCHANGED memory => PoolOK'
    /\ QueuesOK /\ UNCHANGED queues => QueuesOK'
    /\ WindowOK /\ UNCHANGED window => WindowOK'
    /\ CallbackOK /\ UNCHANGED callback => CallbackOK'
    /\ AppOK /\ UNCHANGED appVars => AppOK'
    /\ SettersOK /\ UNCHANGED setVars => SettersOK'
    /\ StreamOK /\ UNCHANGED strVars => StreamOK'
    /\ PreviewOK /\ UNCHANGED pvVars => PreviewOK'
    /\ CaptureOK /\ UNCHANGED capVars => CaptureOK'
<1>1. FlagsOK /\ UNCHANGED flags => FlagsOK'
  BY DEF FlagsOK, flags
<1>2. PoolOK /\ UNCHANGED memory => PoolOK'
  BY DEF PoolOK, memory
<1>3. QueuesOK /\ UNCHANGED queues => QueuesOK'
  BY DEF QueuesOK, queues
<1>4. WindowOK /\ UNCHANGED window => WindowOK'
  BY DEF WindowOK, window
<1>5. CallbackOK /\ UNCHANGED callback => CallbackOK'
  BY DEF CallbackOK, callback, format
<1>6. AppOK /\ UNCHANGED appVars => AppOK'
  BY DEF AppOK, appVars
<1>7. SettersOK /\ UNCHANGED setVars => SettersOK'
  BY DEF SettersOK, setVars
<1>8. StreamOK /\ UNCHANGED strVars => StreamOK'
  BY DEF StreamOK, strVars
<1>9. PreviewOK /\ UNCHANGED pvVars => PreviewOK'
  BY DEF PreviewOK, pvVars
<1>10. CaptureOK /\ UNCHANGED capVars => CaptureOK'
  BY DEF CaptureOK, capVars
<1> QED BY <1>1, <1>2, <1>3, <1>4, <1>5, <1>6, <1>7, <1>8, <1>9, <1>10

LEMMA RecycleFrames ==
    ASSUME PoolOK, NEW q \in Seq(FRAME), recycle_frames(q)
    PROVE  PoolOK'
<1> DEFINE room == FRAME_POOL_SZ - Len(mFramePool)
           kept == IF Len(q) < room THEN Len(q) ELSE room
<1>1. room \in Nat /\ kept \in Nat /\ kept <= Len(q) /\ kept <= room
  BY BoundsAssumption DEF PoolOK, FRAME_POOL_SZ
<1>2. SubSeq(q, 1, kept) \in Seq(FRAME) /\ Len(SubSeq(q, 1, kept)) = kept
  BY <1>1
<1>3. /\ mFramePool \o SubSeq(q, 1, kept) \in Seq(FRAME)
      /\ Len(mFramePool \o SubSeq(q, 1, kept)) = Len(mFramePool) + kept
  BY <1>2 DEF PoolOK
<1>4. mFramePool' \in Seq(FRAME) /\ Len(mFramePool') <= FRAME_POOL_SZ
  BY <1>1, <1>3, BoundsAssumption DEF recycle_frames, PoolOK, FRAME_POOL_SZ
<1>5. heap' \subseteq FRAME
  BY <1>1 DEF recycle_frames, PoolOK
<1> QED BY <1>4, <1>5 DEF PoolOK

LEMMA RecycleFrame ==
    ASSUME PoolOK, NEW f \in FRAME, recycle_frame(f)
    PROVE  PoolOK'
<1>1. <<f>> \in Seq(FRAME)
  OBVIOUS
<1>2. recycle_frames(<<f>>)
  BY DEF recycle_frame
<1> QED BY <1>1, <1>2, RecycleFrames


-----------------------------------------------------------------------------
(* Each step keeps the types, given that whoever gives a frame back holds  *)
(* one: a step per action, and under it a step per group of variables the  *)
(* action changes.                                                         *)
LEMMA TypeStep ==
    ASSUME TypeOK, Holding, Next
    PROVE  TypeOK'
<1>0. ~aborted
  BY DEF Next
<1>1. CASE setPreviewDisplay
  <2>1. AppOK'
    BY <1>1, BoundsAssumption DEF setPreviewDisplay, TypeOK, AppOK, AppPc
  <2> QED BY <1>1, <2>1, Untouched DEF setPreviewDisplay, TypeOK
<1>2. CASE startPreview
  <2>1. FlagsOK'
    BY <1>2 DEF startPreview, TypeOK, FlagsOK
  <2>2. AppOK'
    BY <1>2, BoundsAssumption DEF startPreview, TypeOK, AppOK, AppPc
  <2> QED BY <1>2, <2>1, <2>2, Untouched DEF startPreview, TypeOK
<1>3. CASE stopPreview
  <2>1. AppOK'
    BY <1>3, BoundsAssumption DEF stopPreview, TypeOK, AppOK, AppPc
  <2>2. SettersOK'
    BY <1>3 DEF stopPreview, TypeOK, SettersOK, SetPc
  <2> QED BY <1>3, <2>1, <2>2, Untouched DEF stopPreview, TypeOK
<1>4. ASSUME NEW t \in CALLER, NEW kind \in {"callback", "display"},
             NEW arg \in CALLBACK \cup WINDOW \cup {NULL}, callSetter(t, kind, arg)
      PROVE  TypeOK'
  <2>1. WindowOK'
    BY <1>4 DEF callSetter, TypeOK, WindowOK, window
  <2>2. CallbackOK'
    BY <1>4, FormatsAssumption DEF callSetter, TypeOK, CallbackOK, callback,
       format
  <2>3. AppOK'
    BY <1>4, BoundsAssumption DEF callSetter, TypeOK, AppOK, AppPc
  <2>4. SettersOK'
    BY <1>4 DEF callSetter, SetterGoes, TypeOK, SettersOK, SetPc
  <2> QED BY <1>4, <2>1, <2>2, <2>3, <2>4, Untouched DEF callSetter, TypeOK
<1>5. CASE createPreviewThread
  <2>1. FlagsOK'
    BY <1>5 DEF createPreviewThread, TypeOK, FlagsOK
  <2>2. AppOK'
    BY <1>5, BoundsAssumption DEF createPreviewThread, TypeOK, AppOK, AppPc
  <2>3. PreviewOK'
    BY <1>5 DEF createPreviewThread, signal_preview_sync, pvData, TypeOK,
       PreviewOK, PreviewPc, FrameOrNull
  <2> QED BY <1>5, <2>1, <2>2, <2>3, Untouched DEF createPreviewThread, TypeOK
<1>6. CASE stopRunning
  <2>1. FlagsOK'
    BY <1>6 DEF stopRunning, TypeOK, FlagsOK
  <2>2. AppOK'
    BY <1>6, BoundsAssumption DEF stopRunning, TypeOK, AppOK, AppPc
  <2> QED BY <1>6, <2>1, <2>2, Untouched DEF stopRunning, TypeOK
<1>7. CASE signalPreview
  <2>1. AppOK'
    BY <1>7, BoundsAssumption DEF signalPreview, TypeOK, AppOK, AppPc
  <2>2. PreviewOK'
    BY <1>7 DEF signalPreview, signal_preview_sync, pvData, TypeOK, PreviewOK,
       PreviewPc, FrameOrNull
  <2> QED BY <1>7, <2>1, <2>2, Untouched DEF signalPreview, TypeOK
<1>8. CASE signalCapture
  <2>1. AppOK'
    BY <1>8, BoundsAssumption DEF signalCapture, TypeOK, AppOK, AppPc
  <2>2. SettersOK'
    BY <1>8 DEF signalCapture, signal_capture_sync, setData, TypeOK,
       SettersOK, SetPc
  <2>3. CaptureOK'
    BY <1>8 DEF signalCapture, signal_capture_sync, capData, TypeOK,
       CaptureOK, CapPc, FrameOrNull
  <2> QED BY <1>8, <2>1, <2>2, <2>3, Untouched DEF signalCapture, TypeOK
<1>9. CASE joinCapture
  <2>1. AppOK'
    BY <1>9, BoundsAssumption DEF joinCapture, TypeOK, AppOK, AppPc
  <2>2. CaptureOK'
    BY <1>9 DEF joinCapture, capData, TypeOK, CaptureOK, CapPc, FrameOrNull
  <2> QED BY <1>9, <2>1, <2>2, Untouched DEF joinCapture, TypeOK
<1>10. CASE joinNoCapture
  <2>1. AppOK'
    BY <1>10, BoundsAssumption DEF joinNoCapture, TypeOK, AppOK, AppPc
  <2> QED BY <1>10, <2>1, Untouched DEF joinNoCapture, TypeOK
<1>11. CASE joinPreview
  <2>1. AppOK'
    BY <1>11, BoundsAssumption DEF joinPreview, TypeOK, AppOK, AppPc
  <2>2. PreviewOK'
    BY <1>11 DEF joinPreview, pvData, TypeOK, PreviewOK, PreviewPc,
       FrameOrNull
  <2> QED BY <1>11, <2>1, <2>2, Untouched DEF joinPreview, TypeOK
<1>12. CASE stopClearPreview
  <2>1. PoolOK'
    BY <1>12, Untouched, RecycleFrame, RecycleFrames DEF stopClearPreview,
       TypeOK, Holding, FrameOrNull, QueuesOK
  <2>2. QueuesOK'
    BY <1>12, BoundsAssumption DEF stopClearPreview, TypeOK, QueuesOK,
       FrameOrNull
  <2>3. AppOK'
    BY <1>12, BoundsAssumption DEF stopClearPreview, TypeOK, AppOK, AppPc
  <2> QED BY <1>12, <2>1, <2>2, <2>3, Untouched DEF stopClearPreview, TypeOK
<1>13. CASE stopClearCapture
  <2>1. PoolOK'
    BY <1>13, Untouched, RecycleFrame, RecycleFrames DEF stopClearCapture,
       ClearCaptureQueue, TypeOK, Holding, FrameOrNull, QueuesOK
  <2>2. QueuesOK'
    BY <1>13, BoundsAssumption DEF stopClearCapture, ClearCaptureQueue,
       TypeOK, QueuesOK, FrameOrNull
  <2>3. AppOK'
    BY <1>13, BoundsAssumption DEF stopClearCapture, TypeOK, AppOK, AppPc
  <2> QED BY <1>13, <2>1, <2>2, <2>3, Untouched DEF stopClearCapture, TypeOK
<1>14. CASE stopReleaseWindows
  <2>1. WindowOK'
    BY <1>14 DEF stopReleaseWindows, ReleaseCaptureWindow, TypeOK, WindowOK,
       window
  <2>2. AppOK'
    BY <1>14, BoundsAssumption DEF stopReleaseWindows, TypeOK, AppOK, AppPc
  <2> QED BY <1>14, <2>1, <2>2, Untouched DEF stopReleaseWindows, TypeOK
<1>15. CASE uvc_preview_frame_callback
  <2>1. PoolOK'
    BY <1>15, Untouched, GetFrame DEF uvc_preview_frame_callback, TypeOK,
       FrameOrNull
  <2>2. StreamOK'
    BY <1>15 DEF uvc_preview_frame_callback, TypeOK, StreamOK, FrameOrNull
  <2> QED BY <1>15, <2>1, <2>2, Untouched DEF uvc_preview_frame_callback,
     TypeOK
<1>16. CASE addPreviewFrame
  <2>1. PoolOK'
    BY <1>16, Untouched, RecycleFrame, RecycleFrames DEF addPreviewFrame,
       queuePreviewFrame, dropFrame, TypeOK, Holding, StreamOK, StreamHolds,
       FrameOrNull, QueuesOK
  <2>2. QueuesOK'
    BY <1>16, BoundsAssumption DEF addPreviewFrame, queuePreviewFrame,
       dropFrame, TypeOK, QueuesOK, FrameOrNull, StreamOK, Holding,
       StreamHolds
  <2>3. StreamOK'
    BY <1>16 DEF addPreviewFrame, TypeOK, StreamOK, FrameOrNull
  <2>4. PreviewOK'
    BY <1>16 DEF addPreviewFrame, signal_preview_sync, queuePreviewFrame,
       dropFrame, pvData, TypeOK, PreviewOK, PreviewPc, FrameOrNull
  <2> QED BY <1>16, <2>1, <2>2, <2>3, <2>4, Untouched DEF addPreviewFrame,
     TypeOK
<1>17. CASE prepare_preview
  <2>1. PreviewOK'
    BY <1>17 DEF prepare_preview, PreviewGoes, TypeOK, PreviewOK, PreviewPc,
       FrameOrNull
  <2> QED BY <1>17, <2>1, Untouched DEF prepare_preview, TypeOK
<1>18. CASE startStreaming
  <2>1. StreamOK'
    BY <1>18 DEF startStreaming, TypeOK, StreamOK, FrameOrNull
  <2>2. PreviewOK'
    BY <1>18 DEF startStreaming, PreviewGoes, pvData, TypeOK, PreviewOK,
       PreviewPc, FrameOrNull
  <2> QED BY <1>18, <2>1, <2>2, Untouched DEF startStreaming, TypeOK
<1>19. CASE clearPreviewFrame
  <2>1. PoolOK'
    BY <1>19, Untouched, RecycleFrame, RecycleFrames DEF clearPreviewFrame,
       TypeOK, Holding, FrameOrNull, QueuesOK
  <2>2. QueuesOK'
    BY <1>19, BoundsAssumption DEF clearPreviewFrame, TypeOK, QueuesOK,
       FrameOrNull
  <2>3. PreviewOK'
    BY <1>19 DEF clearPreviewFrame, PreviewGoes, pvData, TypeOK, PreviewOK,
       PreviewPc, FrameOrNull
  <2> QED BY <1>19, <2>1, <2>2, <2>3, Untouched DEF clearPreviewFrame, TypeOK
<1>20. CASE createCaptureThread
  <2>1. AppOK'
    BY <1>20, BoundsAssumption DEF createCaptureThread, TypeOK, AppOK, AppPc
  <2>2. PreviewOK'
    BY <1>20 DEF createCaptureThread, PreviewGoes, pvData, TypeOK, PreviewOK,
       PreviewPc, FrameOrNull
  <2>3. CaptureOK'
    BY <1>20 DEF createCaptureThread, capData, TypeOK, CaptureOK, CapPc,
       FrameOrNull
  <2> QED BY <1>20, <2>1, <2>2, <2>3, Untouched DEF createCaptureThread,
     TypeOK
<1>21. CASE previewLoop
  <2>1. PreviewOK'
    BY <1>21 DEF previewLoop, PreviewGoes, pvData, TypeOK, PreviewOK,
       PreviewPc, FrameOrNull
  <2> QED BY <1>21, <2>1, Untouched DEF previewLoop, TypeOK
<1>22. CASE waitPreviewFrame
  <2>1. QueuesOK'
    BY <1>22, BoundsAssumption DEF waitPreviewFrame, TypeOK, QueuesOK,
       FrameOrNull, PreviewOK
  <2>2. PreviewOK'
    BY <1>22 DEF waitPreviewFrame, PreviewGoes, TypeOK, PreviewOK, PreviewPc,
       FrameOrNull, QueuesOK
  <2> QED BY <1>22, <2>1, <2>2, Untouched DEF waitPreviewFrame, TypeOK
<1>23. CASE decodeFrame
  <2>1. PoolOK'
    BY <1>23, Untouched, GetFrame DEF decodeFrame, TypeOK, FrameOrNull
  <2>2. PreviewOK'
    BY <1>23 DEF decodeFrame, PreviewGoes, TypeOK, PreviewOK, PreviewPc,
       FrameOrNull
  <2> QED BY <1>23, <2>1, <2>2, Untouched DEF decodeFrame, TypeOK
<1>24. CASE decodedFrame
  <2>1. PoolOK'
    <3>1. pvFrame \in FRAME /\ pvConv \in FRAME
      BY <1>0, <1>24 DEF decodedFrame, TypeOK, Holding, FrameHolds, ConvHolds, PreviewOK,
         FrameOrNull
    <3>2. <<pvFrame, pvConv>> \in Seq(FRAME)
      BY <3>1
    <3> QED BY <1>24, <3>1, <3>2, RecycleFrame, RecycleFrames DEF decodedFrame, TypeOK
  <2>2. PreviewOK'
    BY <1>24 DEF decodedFrame, PreviewGoes, TypeOK, PreviewOK, PreviewPc,
       FrameOrNull
  <2> QED BY <1>24, <2>1, <2>2, Untouched DEF decodedFrame, TypeOK
<1>25. CASE draw_preview_one
  <2>1. PoolOK'
    BY <1>25, Untouched, GetFrame DEF draw_preview_one, TypeOK, FrameOrNull
  <2>2. PreviewOK'
    BY <1>25 DEF draw_preview_one, PreviewGoes, TypeOK, PreviewOK, PreviewPc,
       FrameOrNull
  <2> QED BY <1>25, <2>1, <2>2, Untouched DEF draw_preview_one, TypeOK
<1>26. CASE recycleDrawn
  <2>1. PoolOK'
    BY <1>26, Untouched, RecycleFrame, RecycleFrames, <1>0 DEF recycleDrawn,
       TypeOK, Holding, PreviewOK, ConvHolds, FrameOrNull, QueuesOK
  <2>2. PreviewOK'
    BY <1>26 DEF recycleDrawn, PreviewGoes, TypeOK, PreviewOK, PreviewPc,
       FrameOrNull
  <2> QED BY <1>26, <2>1, <2>2, Untouched DEF recycleDrawn, TypeOK
<1>27. CASE addCaptureFrame
  <2>1. PoolOK'
    BY <1>27, Untouched, RecycleFrame, RecycleFrames DEF addCaptureFrame,
       TypeOK, Holding, PreviewOK, FrameHolds, FrameOrNull, QueuesOK
  <2>2. QueuesOK'
    BY <1>27, BoundsAssumption DEF addCaptureFrame, TypeOK, QueuesOK,
       FrameOrNull, PreviewOK
  <2>3. SettersOK'
    BY <1>27 DEF addCaptureFrame, AllWoken, setData, TypeOK, SettersOK, SetPc,
       QueuesOK, PreviewOK
  <2>4. PreviewOK'
    BY <1>27 DEF addCaptureFrame, PreviewGoes, TypeOK, PreviewOK, PreviewPc,
       FrameOrNull, QueuesOK
  <2>5. CaptureOK'
    BY <1>27 DEF addCaptureFrame, AllWoken, capData, TypeOK, CaptureOK, CapPc,
       FrameOrNull, QueuesOK, PreviewOK
  <2> QED BY <1>27, <2>1, <2>2, <2>3, <2>4, <2>5, Untouched DEF
     addCaptureFrame, TypeOK
<1>28. CASE previewSignalCapture
  <2>1. SettersOK'
    BY <1>28 DEF previewSignalCapture, signal_capture_sync, setData, TypeOK,
       SettersOK, SetPc
  <2>2. PreviewOK'
    BY <1>28 DEF previewSignalCapture, PreviewGoes, pvData, TypeOK, PreviewOK,
       PreviewPc, FrameOrNull
  <2>3. CaptureOK'
    BY <1>28 DEF previewSignalCapture, signal_capture_sync, capData, TypeOK,
       CaptureOK, CapPc, FrameOrNull
  <2> QED BY <1>28, <2>1, <2>2, <2>3, Untouched DEF previewSignalCapture,
     TypeOK
<1>29. CASE stopStreaming
  <2>1. StreamOK'
    BY <1>29 DEF stopStreaming, TypeOK, StreamOK, FrameOrNull
  <2>2. PreviewOK'
    BY <1>29 DEF stopStreaming, PreviewGoes, pvData, TypeOK, PreviewOK,
       PreviewPc, FrameOrNull
  <2> QED BY <1>29, <2>1, <2>2, Untouched DEF stopStreaming, TypeOK
<1>30. CASE spuriousWakeup
  <2>1. SettersOK'
    BY <1>30 DEF spuriousWakeup, SetterGoes, setData, TypeOK, SettersOK, SetPc
  <2>2. PreviewOK'
    BY <1>30 DEF spuriousWakeup, PreviewGoes, pvData, TypeOK, PreviewOK,
       PreviewPc, FrameOrNull
  <2>3. CaptureOK'
    BY <1>30 DEF spuriousWakeup, CaptureGoes, capData, TypeOK, CaptureOK,
       CapPc, FrameOrNull
  <2> QED BY <1>30, <2>1, <2>2, <2>3, Untouched DEF spuriousWakeup, TypeOK
<1>31. ASSUME NEW t \in CALLER, setterEnter(t)
      PROVE  TypeOK'
  <2>1. FlagsOK'
    BY <1>31 DEF setterEnter, TypeOK, FlagsOK
  <2>2. SettersOK'
    BY <1>31 DEF setterEnter, SetterGoes, setData, TypeOK, SettersOK, SetPc
  <2> QED BY <1>31, <2>1, <2>2, Untouched DEF setterEnter, TypeOK
<1>32. ASSUME NEW t \in CALLER, setterWait(t)
      PROVE  TypeOK'
  <2>1. SettersOK'
    BY <1>32 DEF setterWait, signal_capture_sync, setData, TypeOK, SettersOK,
       SetPc
  <2>2. CaptureOK'
    BY <1>32 DEF setterWait, signal_capture_sync, capData, TypeOK, CaptureOK,
       CapPc, FrameOrNull
  <2> QED BY <1>32, <2>1, <2>2, Untouched DEF setterWait, TypeOK
<1>33. ASSUME NEW t \in CALLER, setterWoken(t)
      PROVE  TypeOK'
  <2>1. SettersOK'
    BY <1>33 DEF setterWoken, SetterGoes, setData, TypeOK, SettersOK, SetPc
  <2> QED BY <1>33, <2>1, Untouched DEF setterWoken, TypeOK
<1>34. ASSUME NEW t \in CALLER, setterDrop(t)
      PROVE  TypeOK'
  <2>1. WindowOK'
    BY <1>34, NullAssumption DEF setterDrop, TypeOK, WindowOK, SettersOK,
       window
  <2>2. CallbackOK'
    BY <1>34, NullAssumption, FormatsAssumption DEF setterDrop, Current,
       TypeOK, CallbackOK, SettersOK, callback, format
  <2>3. SettersOK'
    BY <1>34, NullAssumption DEF setterDrop, SetterGoes, setData, TypeOK,
       SettersOK, SetPc
  <2> QED BY <1>34, <2>1, <2>2, <2>3, Untouched DEF setterDrop, TypeOK
<1>35. ASSUME NEW t \in CALLER, setterAssign(t)
      PROVE  TypeOK'
  <2>1. WindowOK'
    BY <1>35, NullAssumption DEF setterAssign, TypeOK, WindowOK, SettersOK,
       window
  <2>2. CallbackOK'
    BY <1>35, NullAssumption, FormatsAssumption DEF setterAssign, TypeOK,
       CallbackOK, SettersOK, callback, format
  <2>3. SettersOK'
    BY <1>35, NullAssumption DEF setterAssign, SetterGoes, setData, TypeOK,
       SettersOK, SetPc
  <2> QED BY <1>35, <2>1, <2>2, <2>3, Untouched DEF setterAssign, TypeOK
<1>36. ASSUME NEW t \in CALLER, setterMethod(t)
      PROVE  TypeOK'
  <2>1. CallbackOK'
    BY <1>36, NullAssumption, FormatsAssumption DEF setterMethod, TypeOK,
       CallbackOK, SettersOK, callback, format
  <2>2. SettersOK'
    BY <1>36, NullAssumption DEF setterMethod, SetterGoes, setData, TypeOK,
       SettersOK, SetPc
  <2> QED BY <1>36, <2>1, <2>2, Untouched DEF setterMethod, TypeOK
<1>37. ASSUME NEW t \in CALLER, setterReset(t)
      PROVE  TypeOK'
  <2>1. CallbackOK'
    BY <1>37, NullAssumption, FormatsAssumption DEF setterReset, TypeOK,
       CallbackOK, SettersOK, callback, format
  <2>2. SettersOK'
    BY <1>37, NullAssumption DEF setterReset, SetterGoes, setData, TypeOK,
       SettersOK, SetPc
  <2> QED BY <1>37, <2>1, <2>2, Untouched DEF setterReset, TypeOK
<1>38. ASSUME NEW t \in CALLER, setterFormat(t)
      PROVE  TypeOK'
  <2>1. CallbackOK'
    BY <1>38, NullAssumption, FormatsAssumption DEF setterFormat, TypeOK,
       CallbackOK, SettersOK, callback, format
  <2>2. SettersOK'
    BY <1>38, NullAssumption DEF setterFormat, SetterGoes, setData, TypeOK,
       SettersOK, SetPc
  <2> QED BY <1>38, <2>1, <2>2, Untouched DEF setterFormat, TypeOK
<1>39. ASSUME NEW c \in CAPTURE, captureClear(c)
      PROVE  TypeOK'
  <2>1. PoolOK'
    BY <1>39, Untouched, RecycleFrame, RecycleFrames DEF captureClear,
       ClearCaptureQueue, TypeOK, Holding, FrameOrNull, QueuesOK
  <2>2. QueuesOK'
    BY <1>39, BoundsAssumption DEF captureClear, ClearCaptureQueue, TypeOK,
       QueuesOK, FrameOrNull
  <2>3. CaptureOK'
    BY <1>39 DEF captureClear, CaptureGoes, capData, TypeOK, CaptureOK, CapPc,
       FrameOrNull
  <2> QED BY <1>39, <2>1, <2>2, <2>3, Untouched DEF captureClear, TypeOK
<1>40. ASSUME NEW c \in CAPTURE, captureReset(c)
      PROVE  TypeOK'
  <2>1. CallbackOK'
    BY <1>40, FormatsAssumption DEF captureReset, TypeOK, CallbackOK,
       callback, format
  <2>2. CaptureOK'
    BY <1>40 DEF captureReset, CaptureGoes, capData, TypeOK, CaptureOK, CapPc,
       FrameOrNull
  <2> QED BY <1>40, <2>1, <2>2, Untouched DEF captureReset, TypeOK
<1>41. ASSUME NEW c \in CAPTURE, captureFormat(c)
      PROVE  TypeOK'
  <2>1. CallbackOK'
    BY <1>41, FormatsAssumption DEF captureFormat, TypeOK, CallbackOK,
       callback, format
  <2>2. CaptureOK'
    BY <1>41 DEF captureFormat, CaptureGoes, capData, TypeOK, CaptureOK,
       CapPc, FrameOrNull
  <2> QED BY <1>41, <2>1, <2>2, Untouched DEF captureFormat, TypeOK
<1>42. ASSUME NEW c \in CAPTURE, captureTop(c)
      PROVE  TypeOK'
  <2>1. CaptureOK'
    BY <1>42 DEF captureTop, CaptureGoes, capData, TypeOK, CaptureOK, CapPc,
       FrameOrNull
  <2> QED BY <1>42, <2>1, Untouched DEF captureTop, TypeOK
<1>43. ASSUME NEW c \in CAPTURE, captureBegin(c)
      PROVE  TypeOK'
  <2>1. FlagsOK'
    BY <1>43 DEF captureBegin, TypeOK, FlagsOK
  <2>2. CaptureOK'
    BY <1>43 DEF captureBegin, CaptureGoes, capData, TypeOK, CaptureOK, CapPc,
       FrameOrNull
  <2> QED BY <1>43, <2>1, <2>2, Untouched DEF captureBegin, TypeOK
<1>44. ASSUME NEW c \in CAPTURE, captureMode(c)
      PROVE  TypeOK'
  <2>1. CaptureOK'
    BY <1>44 DEF captureMode, CaptureGoes, TypeOK, CaptureOK, CapPc,
       FrameOrNull
  <2> QED BY <1>44, <2>1, Untouched DEF captureMode, TypeOK
<1>45. ASSUME NEW c \in CAPTURE, captureLoop(c)
      PROVE  TypeOK'
  <2>1. CaptureOK'
    BY <1>45 DEF captureLoop, CaptureGoes, capData, TypeOK, CaptureOK, CapPc,
       FrameOrNull
  <2> QED BY <1>45, <2>1, Untouched DEF captureLoop, TypeOK
<1>46. ASSUME NEW c \in CAPTURE, waitCaptureFrame(c)
      PROVE  TypeOK'
  <2>1. QueuesOK'
    BY <1>46, BoundsAssumption DEF waitCaptureFrame, TypeOK, QueuesOK,
       FrameOrNull, PreviewOK
  <2>2. CaptureOK'
    BY <1>46 DEF waitCaptureFrame, CaptureGoes, TypeOK, CaptureOK, CapPc,
       FrameOrNull, QueuesOK, PreviewOK
  <2> QED BY <1>46, <2>1, <2>2, Untouched DEF waitCaptureFrame, TypeOK
<1>47. ASSUME NEW c \in CAPTURE, surfaceConvert(c)
      PROVE  TypeOK'
  <2>1. PoolOK'
    BY <1>47, Untouched, GetFrame DEF surfaceConvert, TypeOK, FrameOrNull
  <2>2. CaptureOK'
    BY <1>47 DEF surfaceConvert, CaptureGoes, TypeOK, CaptureOK, CapPc,
       FrameOrNull
  <2> QED BY <1>47, <2>1, <2>2, Untouched DEF surfaceConvert, TypeOK
<1>48. ASSUME NEW c \in CAPTURE, callbackCheck(c)
      PROVE  TypeOK'
  <2>1. PoolOK'
    BY <1>48, Untouched, GetFrame DEF callbackCheck, TypeOK, FrameOrNull
  <2>2. CaptureOK'
    BY <1>48 DEF callbackCheck, CaptureGoes, TypeOK, CaptureOK, CapPc,
       FrameOrNull
  <2> QED BY <1>48, <2>1, <2>2, Untouched DEF callbackCheck, TypeOK
<1>49. ASSUME NEW c \in CAPTURE, callbackConvert(c)
      PROVE  TypeOK'
  <2>1. PoolOK'
    BY <1>49, Untouched, RecycleFrame, RecycleFrames DEF callbackConvert,
       TypeOK, Holding, CaptureOK, CaptureHolds, FrameOrNull, QueuesOK
  <2>2. CaptureOK'
    BY <1>49 DEF callbackConvert, CaptureGoes, TypeOK, CaptureOK, CapPc,
       FrameOrNull
  <2> QED BY <1>49, <2>1, <2>2, Untouched DEF callbackConvert, TypeOK
<1>50. ASSUME NEW c \in CAPTURE, callOnFrame(c)
      PROVE  TypeOK'
  <2>1. CaptureOK'
    BY <1>50 DEF callOnFrame, CaptureGoes, capData, TypeOK, CaptureOK, CapPc,
       FrameOrNull
  <2> QED BY <1>50, <2>1, Untouched DEF callOnFrame, TypeOK
<1>51. ASSUME NEW c \in CAPTURE, callbackRecycle(c)
      PROVE  TypeOK'
  <2>1. PoolOK'
    BY <1>51, Untouched, RecycleFrame, RecycleFrames DEF callbackRecycle,
       TypeOK, Holding, CaptureOK, CaptureHolds, FrameOrNull, QueuesOK
  <2>2. CaptureOK'
    BY <1>51 DEF callbackRecycle, CaptureGoes, TypeOK, CaptureOK, CapPc,
       FrameOrNull
  <2> QED BY <1>51, <2>1, <2>2, Untouched DEF callbackRecycle, TypeOK
<1>52. ASSUME NEW c \in CAPTURE, leaveSurface(c)
      PROVE  TypeOK'
  <2>1. PoolOK'
    BY <1>52, Untouched, RecycleFrame, RecycleFrames DEF leaveSurface, TypeOK,
       Holding, CaptureOK, FrameOrNull, QueuesOK
  <2>2. WindowOK'
    BY <1>52 DEF leaveSurface, ReleaseCaptureWindow, TypeOK, WindowOK, window
  <2>3. CaptureOK'
    BY <1>52 DEF leaveSurface, CaptureGoes, TypeOK, CaptureOK, CapPc,
       FrameOrNull
  <2> QED BY <1>52, <2>1, <2>2, <2>3, Untouched DEF leaveSurface, TypeOK
<1>53. ASSUME NEW c \in CAPTURE, captureSync(c)
      PROVE  TypeOK'
  <2>1. SettersOK'
    BY <1>53 DEF captureSync, AllWoken, setData, TypeOK, SettersOK, SetPc
  <2>2. CaptureOK'
    BY <1>53 DEF captureSync, AllWoken, capData, TypeOK, CaptureOK, CapPc,
       FrameOrNull
  <2> QED BY <1>53, <2>1, <2>2, Untouched DEF captureSync, TypeOK
<1> QED
  BY <1>1, <1>2, <1>3, <1>4, <1>5, <1>6, <1>7, <1>8, <1>9, <1>10, <1>11,
     <1>12, <1>13, <1>14, <1>15, <1>16, <1>17, <1>18, <1>19, <1>20, <1>21,
     <1>22, <1>23, <1>24, <1>25, <1>26, <1>27, <1>28, <1>29, <1>30, <1>31,
     <1>32, <1>33, <1>34, <1>35, <1>36, <1>37, <1>38, <1>39, <1>40, <1>41,
     <1>42, <1>43, <1>44, <1>45, <1>46, <1>47, <1>48, <1>49, <1>50, <1>51,
     <1>52, <1>53 DEF Next, UserStep, AppStep, StreamStep, PreviewStep,
     SetterStep, CaptureStep

-----------------------------------------------------------------------------
(* What a step leaves alone keeps its part of Holding.                     *)
LEMMA HoldingUntouched ==
    /\ StreamHolds /\ UNCHANGED <<streamFrame, streamPc>> => StreamHolds'
    /\ FrameHolds /\ UNCHANGED <<pvFrame, previewPc>> => FrameHolds'
    /\ ConvHolds /\ UNCHANGED <<pvConv, previewPc, aborted>> => ConvHolds'
    /\ CaptureHolds /\ UNCHANGED <<capFrame, capCb, capPc>> => CaptureHolds'
<1>1. StreamHolds /\ UNCHANGED <<streamFrame, streamPc>> => StreamHolds'
  BY DEF StreamHolds
<1>2. FrameHolds /\ UNCHANGED <<pvFrame, previewPc>> => FrameHolds'
  BY DEF FrameHolds
<1>3. ConvHolds /\ UNCHANGED <<pvConv, previewPc, aborted>> => ConvHolds'
  BY DEF ConvHolds
<1>4. CaptureHolds /\ UNCHANGED <<capFrame, capCb, capPc>> => CaptureHolds'
  BY DEF CaptureHolds
<1> QED BY <1>1, <1>2, <1>3, <1>4

(* Each step keeps Holding.  Lifecycle is needed where a thread starts: a  *)
(* new preview thread holds nothing because there was none before.         *)
LEMMA HoldingStep ==
    ASSUME TypeOK, Holding, Lifecycle, Next
    PROVE  Holding'
<1>0. ~aborted
  BY DEF Next
<1>1. CASE setPreviewDisplay
  BY <1>1, HoldingUntouched DEF setPreviewDisplay, strVars, pvVars, capVars,
     Holding
<1>2. CASE startPreview
  BY <1>2, HoldingUntouched DEF startPreview, strVars, pvVars, capVars,
     Holding
<1>3. CASE stopPreview
  BY <1>3, HoldingUntouched DEF stopPreview, strVars, pvVars, capVars, Holding
<1>4. ASSUME NEW t \in CALLER, NEW kind \in {"callback", "display"},
             NEW arg \in CALLBACK \cup WINDOW \cup {NULL}, callSetter(t, kind, arg)
      PROVE  Holding'
  BY <1>4, HoldingUntouched DEF callSetter, strVars, pvVars, capVars, Holding
<1>5. CASE createPreviewThread
  <2>1. FrameHolds'
    BY <1>5 DEF createPreviewThread, signal_preview_sync, pvData,
       FrameHolds, Holding, Lifecycle, PreviewExists, PreviewAlive
  <2>2. ConvHolds'
    BY <1>5 DEF createPreviewThread, signal_preview_sync, pvData,
       ConvHolds, Holding, Lifecycle, PreviewExists, PreviewAlive
  <2> QED BY <1>5, <2>1, <2>2, HoldingUntouched DEF createPreviewThread,
     strVars, capVars, Holding
<1>6. CASE stopRunning
  BY <1>6, HoldingUntouched DEF stopRunning, strVars, pvVars, capVars, Holding
<1>7. CASE signalPreview
  <2>1. FrameHolds'
    BY <1>7 DEF signalPreview, signal_preview_sync, pvData, FrameHolds,
       Holding
  <2>2. ConvHolds'
    BY <1>7 DEF signalPreview, signal_preview_sync, pvData, ConvHolds,
       Holding
  <2> QED BY <1>7, <2>1, <2>2, HoldingUntouched DEF signalPreview, strVars,
     capVars, Holding
<1>8. CASE signalCapture
  <2>1. CaptureHolds'
    BY <1>8 DEF signalCapture, signal_capture_sync, capData, CaptureHolds,
       Holding, TypeOK, CaptureOK
  <2> QED BY <1>8, <2>1, HoldingUntouched DEF signalCapture, strVars, pvVars,
     Holding
<1>9. CASE joinCapture
  <2>1. CaptureHolds'
    BY <1>9 DEF joinCapture, capData, CaptureHolds, Holding, TypeOK,
       CaptureOK
  <2> QED BY <1>9, <2>1, HoldingUntouched DEF joinCapture, strVars, pvVars,
     Holding
<1>10. CASE joinNoCapture
  <2>1. ConvHolds'
    BY <1>10 DEF joinNoCapture, pvVars, ConvHolds, Holding
  <2> QED BY <1>10, <2>1, HoldingUntouched DEF joinNoCapture, strVars, pvVars,
     capVars, Holding
<1>11. CASE joinPreview
  <2>1. FrameHolds'
    BY <1>11 DEF joinPreview, pvData, FrameHolds, Holding
  <2>2. ConvHolds'
    BY <1>11 DEF joinPreview, pvData, ConvHolds, Holding
  <2> QED BY <1>11, <2>1, <2>2, HoldingUntouched DEF joinPreview, strVars,
     capVars, Holding
<1>12. CASE stopClearPreview
  BY <1>12, HoldingUntouched DEF stopClearPreview, strVars, pvVars, capVars,
     Holding
<1>13. CASE stopClearCapture
  BY <1>13, HoldingUntouched DEF stopClearCapture, strVars, pvVars, capVars,
     Holding
<1>14. CASE stopReleaseWindows
  BY <1>14, HoldingUntouched DEF stopReleaseWindows, strVars, pvVars, capVars,
     Holding
<1>15. CASE uvc_preview_frame_callback
  <2>1. StreamHolds'
    BY <1>15 DEF uvc_preview_frame_callback, StreamHolds, Holding
  <2> QED BY <1>15, <2>1, HoldingUntouched DEF uvc_preview_frame_callback,
     pvVars, capVars, Holding
<1>16. CASE addPreviewFrame
  <2>1. StreamHolds'
    BY <1>16 DEF addPreviewFrame, StreamHolds, Holding
  <2>2. FrameHolds'
    BY <1>16 DEF addPreviewFrame, signal_preview_sync, queuePreviewFrame,
       dropFrame, pvData, FrameHolds, Holding
  <2>3. ConvHolds'
    BY <1>16 DEF addPreviewFrame, signal_preview_sync, queuePreviewFrame,
       dropFrame, pvData, ConvHolds, Holding
  <2> QED BY <1>16, <2>1, <2>2, <2>3, HoldingUntouched DEF addPreviewFrame,
     capVars, Holding
<1>17. CASE prepare_preview
  <2>1. FrameHolds'
    BY <1>17 DEF prepare_preview, PreviewGoes, FrameHolds, Holding
  <2>2. ConvHolds'
    BY <1>17 DEF prepare_preview, PreviewGoes, ConvHolds, Holding
  <2> QED BY <1>17, <2>1, <2>2, HoldingUntouched DEF prepare_preview, strVars,
     capVars, Holding
<1>18. CASE startStreaming
  <2>1. StreamHolds'
    BY <1>18 DEF startStreaming, StreamHolds, Holding, Lifecycle, Inside,
       Streaming
  <2>2. FrameHolds'
    BY <1>18 DEF startStreaming, PreviewGoes, pvData, FrameHolds, Holding
  <2>3. ConvHolds'
    BY <1>18 DEF startStreaming, PreviewGoes, pvData, ConvHolds, Holding
  <2> QED BY <1>18, <2>1, <2>2, <2>3, HoldingUntouched DEF startStreaming,
     capVars, Holding
<1>19. CASE clearPreviewFrame
  <2>1. FrameHolds'
    BY <1>19 DEF clearPreviewFrame, PreviewGoes, pvData, FrameHolds,
       Holding
  <2>2. ConvHolds'
    BY <1>19 DEF clearPreviewFrame, PreviewGoes, pvData, ConvHolds,
       Holding
  <2> QED BY <1>19, <2>1, <2>2, HoldingUntouched DEF clearPreviewFrame,
     strVars, capVars, Holding
<1>20. CASE createCaptureThread
  <2>1. FrameHolds'
    BY <1>20 DEF createCaptureThread, PreviewGoes, pvData, FrameHolds,
       Holding
  <2>2. ConvHolds'
    BY <1>20 DEF createCaptureThread, PreviewGoes, pvData, ConvHolds,
       Holding
  <2>3. CaptureHolds'
    BY <1>20 DEF createCaptureThread, capData, CaptureHolds, Holding,
       TypeOK, CaptureOK
  <2> QED BY <1>20, <2>1, <2>2, <2>3, HoldingUntouched DEF
     createCaptureThread, strVars, Holding
<1>21. CASE previewLoop
  <2>1. FrameHolds'
    BY <1>21 DEF previewLoop, PreviewGoes, pvData, FrameHolds, Holding
  <2>2. ConvHolds'
    BY <1>21 DEF previewLoop, PreviewGoes, pvData, ConvHolds, Holding
  <2> QED BY <1>21, <2>1, <2>2, HoldingUntouched DEF previewLoop, strVars,
     capVars, Holding
<1>22. CASE waitPreviewFrame
  <2>1. FrameHolds'
    BY <1>22, NullAssumption DEF waitPreviewFrame, PreviewGoes,
       FrameHolds, Holding, TypeOK, QueuesOK
  <2>2. ConvHolds'
    BY <1>22 DEF waitPreviewFrame, PreviewGoes, ConvHolds, Holding
  <2> QED BY <1>22, <2>1, <2>2, HoldingUntouched DEF waitPreviewFrame,
     strVars, capVars, Holding
<1>23. CASE decodeFrame
  <2>1. FrameHolds'
    BY <1>23 DEF decodeFrame, PreviewGoes, FrameHolds, Holding
  <2>2. ConvHolds'
    BY <1>23 DEF decodeFrame, PreviewGoes, ConvHolds, Holding
  <2> QED BY <1>23, <2>1, <2>2, HoldingUntouched DEF decodeFrame, strVars,
     capVars, Holding
<1>24. CASE decodedFrame
  <2>1. FrameHolds'
    BY <1>24, <1>0 DEF decodedFrame, PreviewGoes, FrameHolds, Holding,
       ConvHolds
  <2>2. ConvHolds'
    BY <1>24 DEF decodedFrame, PreviewGoes, ConvHolds, Holding
  <2> QED BY <1>24, <2>1, <2>2, HoldingUntouched DEF decodedFrame, strVars,
     capVars, Holding
<1>25. CASE draw_preview_one
  <2>1. FrameHolds'
    BY <1>25 DEF draw_preview_one, PreviewGoes, FrameHolds, Holding
  <2>2. ConvHolds'
    BY <1>25 DEF draw_preview_one, PreviewGoes, ConvHolds, Holding
  <2> QED BY <1>25, <2>1, <2>2, HoldingUntouched DEF draw_preview_one,
     strVars, capVars, Holding
<1>26. CASE recycleDrawn
  <2>1. FrameHolds'
    BY <1>26 DEF recycleDrawn, PreviewGoes, FrameHolds, Holding
  <2>2. ConvHolds'
    BY <1>26 DEF recycleDrawn, PreviewGoes, ConvHolds, Holding
  <2> QED BY <1>26, <2>1, <2>2, HoldingUntouched DEF recycleDrawn, strVars,
     capVars, Holding
<1>27. CASE addCaptureFrame
  <2>1. FrameHolds'
    BY <1>27 DEF addCaptureFrame, PreviewGoes, FrameHolds, Holding
  <2>2. ConvHolds'
    BY <1>27 DEF addCaptureFrame, PreviewGoes, ConvHolds, Holding
  <2>3. CaptureHolds'
    BY <1>27 DEF addCaptureFrame, AllWoken, capData, CaptureHolds,
       Holding, TypeOK, CaptureOK
  <2> QED BY <1>27, <2>1, <2>2, <2>3, HoldingUntouched DEF addCaptureFrame,
     strVars, Holding
<1>28. CASE previewSignalCapture
  <2>1. FrameHolds'
    BY <1>28 DEF previewSignalCapture, PreviewGoes, pvData, FrameHolds,
       Holding
  <2>2. ConvHolds'
    BY <1>28 DEF previewSignalCapture, PreviewGoes, pvData, ConvHolds,
       Holding
  <2>3. CaptureHolds'
    BY <1>28 DEF previewSignalCapture, signal_capture_sync, capData,
       CaptureHolds, Holding, TypeOK, CaptureOK
  <2> QED BY <1>28, <2>1, <2>2, <2>3, HoldingUntouched DEF
     previewSignalCapture, strVars, Holding
<1>29. CASE stopStreaming
  <2>1. StreamHolds'
    BY <1>29 DEF stopStreaming, StreamHolds, Holding
  <2>2. FrameHolds'
    BY <1>29 DEF stopStreaming, PreviewGoes, pvData, FrameHolds, Holding
  <2>3. ConvHolds'
    BY <1>29 DEF stopStreaming, PreviewGoes, pvData, ConvHolds, Holding
  <2> QED BY <1>29, <2>1, <2>2, <2>3, HoldingUntouched DEF stopStreaming,
     capVars, Holding
<1>30. CASE spuriousWakeup
  <2>1. FrameHolds'
    BY <1>30 DEF spuriousWakeup, PreviewGoes, pvData, FrameHolds, Holding
  <2>2. ConvHolds'
    BY <1>30 DEF spuriousWakeup, PreviewGoes, pvData, ConvHolds, Holding
  <2>3. CaptureHolds'
    BY <1>30 DEF spuriousWakeup, CaptureGoes, capData, CaptureHolds,
       Holding, TypeOK, CaptureOK
  <2> QED BY <1>30, <2>1, <2>2, <2>3, HoldingUntouched DEF spuriousWakeup,
     strVars, Holding
<1>31. ASSUME NEW t \in CALLER, setterEnter(t)
      PROVE  Holding'
  BY <1>31, HoldingUntouched DEF setterEnter, strVars, pvVars, capVars,
     Holding
<1>32. ASSUME NEW t \in CALLER, setterWait(t)
      PROVE  Holding'
  <2>1. CaptureHolds'
    BY <1>32 DEF setterWait, signal_capture_sync, capData, CaptureHolds,
       Holding, TypeOK, CaptureOK
  <2> QED BY <1>32, <2>1, HoldingUntouched DEF setterWait, strVars, pvVars,
     Holding
<1>33. ASSUME NEW t \in CALLER, setterWoken(t)
      PROVE  Holding'
  BY <1>33, HoldingUntouched DEF setterWoken, strVars, pvVars, capVars,
     Holding
<1>34. ASSUME NEW t \in CALLER, setterDrop(t)
      PROVE  Holding'
  BY <1>34, HoldingUntouched DEF setterDrop, strVars, pvVars, capVars, Holding
<1>35. ASSUME NEW t \in CALLER, setterAssign(t)
      PROVE  Holding'
  BY <1>35, HoldingUntouched DEF setterAssign, strVars, pvVars, capVars,
     Holding
<1>36. ASSUME NEW t \in CALLER, setterMethod(t)
      PROVE  Holding'
  BY <1>36, HoldingUntouched DEF setterMethod, strVars, pvVars, capVars,
     Holding
<1>37. ASSUME NEW t \in CALLER, setterReset(t)
      PROVE  Holding'
  BY <1>37, HoldingUntouched DEF setterReset, strVars, pvVars, capVars,
     Holding
<1>38. ASSUME NEW t \in CALLER, setterFormat(t)
      PROVE  Holding'
  BY <1>38, HoldingUntouched DEF setterFormat, strVars, pvVars, capVars,
     Holding
<1>39. ASSUME NEW c \in CAPTURE, captureClear(c)
      PROVE  Holding'
  <2>1. CaptureHolds'
    BY <1>39 DEF captureClear, CaptureGoes, capData, CaptureHolds,
       Holding, TypeOK, CaptureOK
  <2> QED BY <1>39, <2>1, HoldingUntouched DEF captureClear, strVars, pvVars,
     Holding
<1>40. ASSUME NEW c \in CAPTURE, captureReset(c)
      PROVE  Holding'
  <2>1. CaptureHolds'
    BY <1>40 DEF captureReset, CaptureGoes, capData, CaptureHolds,
       Holding, TypeOK, CaptureOK
  <2> QED BY <1>40, <2>1, HoldingUntouched DEF captureReset, strVars, pvVars,
     Holding
<1>41. ASSUME NEW c \in CAPTURE, captureFormat(c)
      PROVE  Holding'
  <2>1. CaptureHolds'
    BY <1>41 DEF captureFormat, CaptureGoes, capData, CaptureHolds,
       Holding, TypeOK, CaptureOK
  <2> QED BY <1>41, <2>1, HoldingUntouched DEF captureFormat, strVars, pvVars,
     Holding
<1>42. ASSUME NEW c \in CAPTURE, captureTop(c)
      PROVE  Holding'
  <2>1. CaptureHolds'
    BY <1>42 DEF captureTop, CaptureGoes, capData, CaptureHolds, Holding,
       TypeOK, CaptureOK
  <2> QED BY <1>42, <2>1, HoldingUntouched DEF captureTop, strVars, pvVars,
     Holding
<1>43. ASSUME NEW c \in CAPTURE, captureBegin(c)
      PROVE  Holding'
  <2>1. CaptureHolds'
    BY <1>43 DEF captureBegin, CaptureGoes, capData, CaptureHolds,
       Holding, TypeOK, CaptureOK
  <2> QED BY <1>43, <2>1, HoldingUntouched DEF captureBegin, strVars, pvVars,
     Holding
<1>44. ASSUME NEW c \in CAPTURE, captureMode(c)
      PROVE  Holding'
  <2>1. CaptureHolds'
    BY <1>44 DEF captureMode, CaptureGoes, CaptureHolds, Holding, TypeOK,
       CaptureOK
  <2> QED BY <1>44, <2>1, HoldingUntouched DEF captureMode, strVars, pvVars,
     Holding
<1>45. ASSUME NEW c \in CAPTURE, captureLoop(c)
      PROVE  Holding'
  <2>1. CaptureHolds'
    BY <1>45 DEF captureLoop, CaptureGoes, capData, CaptureHolds, Holding,
       TypeOK, CaptureOK
  <2> QED BY <1>45, <2>1, HoldingUntouched DEF captureLoop, strVars, pvVars,
     Holding
<1>46. ASSUME NEW c \in CAPTURE, waitCaptureFrame(c)
      PROVE  Holding'
  <2>1. CaptureHolds'
    BY <1>46 DEF waitCaptureFrame, CaptureGoes, CaptureHolds, Holding,
       TypeOK, CaptureOK
  <2> QED BY <1>46, <2>1, HoldingUntouched DEF waitCaptureFrame, strVars,
     pvVars, Holding
<1>47. ASSUME NEW c \in CAPTURE, surfaceConvert(c)
      PROVE  Holding'
  <2>1. CaptureHolds'
    BY <1>47 DEF surfaceConvert, CaptureGoes, CaptureHolds, Holding,
       TypeOK, CaptureOK
  <2> QED BY <1>47, <2>1, HoldingUntouched DEF surfaceConvert, strVars,
     pvVars, Holding
<1>48. ASSUME NEW c \in CAPTURE, callbackCheck(c)
      PROVE  Holding'
  <2>1. CaptureHolds'
    BY <1>48 DEF callbackCheck, CaptureGoes, CaptureHolds, Holding,
       TypeOK, CaptureOK
  <2> QED BY <1>48, <2>1, HoldingUntouched DEF callbackCheck, strVars, pvVars,
     Holding
<1>49. ASSUME NEW c \in CAPTURE, callbackConvert(c)
      PROVE  Holding'
  <2>1. ConvHolds'
    BY <1>49, <1>0 DEF callbackConvert, pvVars, ConvHolds, Holding
  <2>2. CaptureHolds'
    BY <1>49 DEF callbackConvert, CaptureGoes, CaptureHolds, Holding,
       TypeOK, CaptureOK
  <2> QED BY <1>49, <2>1, <2>2, HoldingUntouched DEF callbackConvert, strVars,
     pvVars, Holding
<1>50. ASSUME NEW c \in CAPTURE, callOnFrame(c)
      PROVE  Holding'
  <2>1. ConvHolds'
    BY <1>50, <1>0 DEF callOnFrame, pvVars, ConvHolds, Holding
  <2>2. CaptureHolds'
    BY <1>50 DEF callOnFrame, CaptureGoes, capData, CaptureHolds, Holding,
       TypeOK, CaptureOK
  <2> QED BY <1>50, <2>1, <2>2, HoldingUntouched DEF callOnFrame, strVars,
     pvVars, Holding
<1>51. ASSUME NEW c \in CAPTURE, callbackRecycle(c)
      PROVE  Holding'
  <2>1. CaptureHolds'
    BY <1>51 DEF callbackRecycle, CaptureGoes, CaptureHolds, Holding,
       TypeOK, CaptureOK
  <2> QED BY <1>51, <2>1, HoldingUntouched DEF callbackRecycle, strVars,
     pvVars, Holding
<1>52. ASSUME NEW c \in CAPTURE, leaveSurface(c)
      PROVE  Holding'
  <2>1. CaptureHolds'
    BY <1>52 DEF leaveSurface, CaptureGoes, CaptureHolds, Holding, TypeOK,
       CaptureOK
  <2> QED BY <1>52, <2>1, HoldingUntouched DEF leaveSurface, strVars, pvVars,
     Holding
<1>53. ASSUME NEW c \in CAPTURE, captureSync(c)
      PROVE  Holding'
  <2>1. CaptureHolds'
    BY <1>53 DEF captureSync, AllWoken, capData, CaptureHolds, Holding,
       TypeOK, CaptureOK
  <2> QED BY <1>53, <2>1, HoldingUntouched DEF captureSync, strVars, pvVars,
     Holding
<1> QED
  BY <1>1, <1>2, <1>3, <1>4, <1>5, <1>6, <1>7, <1>8, <1>9, <1>10, <1>11,
     <1>12, <1>13, <1>14, <1>15, <1>16, <1>17, <1>18, <1>19, <1>20, <1>21,
     <1>22, <1>23, <1>24, <1>25, <1>26, <1>27, <1>28, <1>29, <1>30, <1>31,
     <1>32, <1>33, <1>34, <1>35, <1>36, <1>37, <1>38, <1>39, <1>40, <1>41,
     <1>42, <1>43, <1>44, <1>45, <1>46, <1>47, <1>48, <1>49, <1>50, <1>51,
     <1>52, <1>53 DEF Next, UserStep, AppStep, StreamStep, PreviewStep,
     SetterStep, CaptureStep

-----------------------------------------------------------------------------
(* What a step leaves alone keeps its part of Lifecycle.                   *)
LEMMA LifecycleUntouched ==
    /\ PreviewExists /\ UNCHANGED <<previewPc, mIsRunning, appPc>> => PreviewExists'
    /\ Inside /\ UNCHANGED <<streamPc, previewPc, previewFrames, captureQueu, appPc>> => Inside'
    /\ OneCapture /\ UNCHANGED <<overtaken, capPc, capture_thread, previewPc, appPc>> => OneCapture'
<1>1. PreviewExists /\ UNCHANGED <<previewPc, mIsRunning, appPc>> => PreviewExists'
  BY DEF PreviewExists, PreviewAlive
<1>2. Inside /\ UNCHANGED <<streamPc, previewPc, previewFrames, captureQueu, appPc>> => Inside'
  BY DEF Inside, Streaming
<1>3. OneCapture /\ UNCHANGED <<overtaken, capPc, capture_thread, previewPc, appPc>> => OneCapture'
  BY DEF OneCapture, NoCaptureYet
<1> QED BY <1>1, <1>2, <1>3

(* Where the preview thread is in its loop, where it creates nothing.      *)
Moving == Streaming \ NoCaptureYet

(* Most steps only move a thread on, take frames from the queues, or fill  *)
(* them while the camera streams: that keeps Lifecycle.                    *)
LEMMA LifecycleMove ==
    ASSUME Lifecycle, UNCHANGED <<mIsRunning, appPc, capture_thread, overtaken>>,
           UNCHANGED previewPc \/ (previewPc \in Moving /\ previewPc' \in Moving),
           streamPc' # "off" => streamPc # "off",
           UNCHANGED previewFrames \/ previewPc \in Moving \/ streamPc # "off",
           captureQueu' # NULL => captureQueu # NULL \/ previewPc \in Moving,
           \A c \in CAPTURE : capPc'[c] # "none" <=> capPc[c] # "none"
    PROVE  Lifecycle'
<1>1. PreviewExists'
  BY DEF Lifecycle, PreviewExists, PreviewAlive, Moving, Streaming
<1>2. Inside'
  BY DEF Lifecycle, Inside, Moving, Streaming, NoCaptureYet
<1>3. OneCapture'
  BY DEF Lifecycle, OneCapture, Moving, NoCaptureYet
<1> QED BY <1>1, <1>2, <1>3 DEF Lifecycle

(* Each step keeps Lifecycle.                                              *)
LEMMA LifecycleStep ==
    ASSUME TypeOK, Lifecycle, Next
    PROVE  Lifecycle'
<1>1. CASE setPreviewDisplay
  BY <1>1, LifecycleUntouched DEF setPreviewDisplay, flags, queues, strVars,
     pvVars, capVars, Lifecycle
<1>2. CASE startPreview
  <2>1. PreviewExists'
    BY <1>2 DEF startPreview, pvVars, PreviewExists, PreviewAlive,
       Lifecycle
  <2>2. Inside'
    BY <1>2 DEF startPreview, queues, strVars, pvVars, Inside, Streaming,
       Lifecycle
  <2>3. OneCapture'
    BY <1>2 DEF startPreview, pvVars, capVars, OneCapture, NoCaptureYet,
       Lifecycle
  <2> QED BY <1>2, <2>1, <2>2, <2>3, LifecycleUntouched DEF startPreview,
     Lifecycle
<1>3. CASE stopPreview
  <2>1. PreviewExists'
    BY <1>3 DEF stopPreview, flags, pvVars, PreviewExists, PreviewAlive,
       Lifecycle
  <2>2. Inside'
    BY <1>3 DEF stopPreview, queues, strVars, pvVars, Inside, Streaming,
       Lifecycle
  <2>3. OneCapture'
    BY <1>3 DEF stopPreview, pvVars, capVars, OneCapture, NoCaptureYet,
       Lifecycle
  <2> QED BY <1>3, <2>1, <2>2, <2>3, LifecycleUntouched DEF stopPreview,
     Lifecycle
<1>4. ASSUME NEW t \in CALLER, NEW kind \in {"callback", "display"},
             NEW arg \in CALLBACK \cup WINDOW \cup {NULL}, callSetter(t, kind, arg)
      PROVE  Lifecycle'
  BY <1>4, LifecycleUntouched DEF callSetter, flags, queues, strVars, pvVars,
     capVars, Lifecycle
<1>5. CASE createPreviewThread
  <2>1. PreviewExists'
    BY <1>5 DEF createPreviewThread, signal_preview_sync, PreviewExists,
       PreviewAlive, Lifecycle
  <2>2. Inside'
    BY <1>5 DEF createPreviewThread, signal_preview_sync, queues, strVars,
       Inside, Streaming, Lifecycle, PreviewExists, PreviewAlive
  <2>3. OneCapture'
    BY <1>5 DEF createPreviewThread, signal_preview_sync, capVars,
       OneCapture, NoCaptureYet, Lifecycle, PreviewExists, PreviewAlive
  <2> QED BY <1>5, <2>1, <2>2, <2>3, LifecycleUntouched DEF
     createPreviewThread, Lifecycle
<1>6. CASE stopRunning
  <2>1. PreviewExists'
    BY <1>6 DEF stopRunning, pvVars, PreviewExists, PreviewAlive,
       Lifecycle
  <2>2. Inside'
    BY <1>6 DEF stopRunning, queues, strVars, pvVars, Inside, Streaming,
       Lifecycle
  <2>3. OneCapture'
    BY <1>6 DEF stopRunning, pvVars, capVars, OneCapture, NoCaptureYet,
       Lifecycle
  <2> QED BY <1>6, <2>1, <2>2, <2>3, LifecycleUntouched DEF stopRunning,
     Lifecycle
<1>7. CASE signalPreview
  <2>1. PreviewExists'
    BY <1>7 DEF signalPreview, signal_preview_sync, flags, PreviewExists,
       PreviewAlive, Lifecycle
  <2>2. Inside'
    BY <1>7 DEF signalPreview, signal_preview_sync, queues, strVars,
       Inside, Streaming, Lifecycle
  <2>3. OneCapture'
    BY <1>7 DEF signalPreview, signal_preview_sync, capVars, OneCapture,
       NoCaptureYet, Lifecycle
  <2> QED BY <1>7, <2>1, <2>2, <2>3, LifecycleUntouched DEF signalPreview,
     Lifecycle
<1>8. CASE signalCapture
  <2>1. PreviewExists'
    BY <1>8 DEF signalCapture, flags, pvVars, PreviewExists, PreviewAlive,
       Lifecycle
  <2>2. Inside'
    BY <1>8 DEF signalCapture, queues, strVars, pvVars, Inside, Streaming,
       Lifecycle
  <2>3. OneCapture'
    BY <1>8 DEF signalCapture, signal_capture_sync, pvVars, OneCapture,
       NoCaptureYet, Lifecycle, TypeOK, CaptureOK
  <2> QED BY <1>8, <2>1, <2>2, <2>3, LifecycleUntouched DEF signalCapture,
     Lifecycle
<1>9. CASE joinCapture
  <2>1. PreviewExists'
    BY <1>9 DEF joinCapture, flags, pvVars, PreviewExists, PreviewAlive,
       Lifecycle
  <2>2. Inside'
    BY <1>9 DEF joinCapture, queues, strVars, pvVars, Inside, Streaming,
       Lifecycle
  <2>3. OneCapture'
    <3>1. SUFFICES ASSUME ~overtaken
                   PROVE  /\ \A c \in CAPTURE : capPc'[c] = "none"
                          /\ previewPc \notin NoCaptureYet
      BY <1>9, <3>1 DEF joinCapture, OneCapture, pvVars
    <3>2. /\ capture_thread \in CAPTURE /\ capPc[capture_thread] = "exited"
          /\ capPc' = [capPc EXCEPT ![capture_thread] = "none"]
      BY <1>9 DEF joinCapture, TypeOK, AppOK
    <3>3. \A c \in CAPTURE : capPc[c] # "none" => c = capture_thread
      BY <3>1 DEF Lifecycle, OneCapture
    <3>4. \A c \in CAPTURE : capPc'[c] = "none"
      BY <3>2, <3>3 DEF TypeOK, CaptureOK
    <3>5. previewPc \notin NoCaptureYet
      BY <3>1, <3>2 DEF Lifecycle, OneCapture
    <3> QED BY <3>4, <3>5
  <2> QED BY <1>9, <2>1, <2>2, <2>3, LifecycleUntouched DEF joinCapture,
     Lifecycle
<1>10. CASE joinNoCapture
  <2>1. PreviewExists'
    BY <1>10 DEF joinNoCapture, flags, pvVars, PreviewExists,
       PreviewAlive, Lifecycle
  <2>2. Inside'
    BY <1>10 DEF joinNoCapture, queues, strVars, pvVars, Inside,
       Streaming, Lifecycle
  <2>3. OneCapture'
    BY <1>10 DEF joinNoCapture, pvVars, capVars, OneCapture, NoCaptureYet,
       Lifecycle
  <2> QED BY <1>10, <2>1, <2>2, <2>3, LifecycleUntouched DEF joinNoCapture,
     Lifecycle
<1>11. CASE joinPreview
  <2>1. PreviewExists'
    BY <1>11 DEF joinPreview, flags, PreviewExists, PreviewAlive,
       Lifecycle
  <2>2. Inside'
    BY <1>11 DEF joinPreview, queues, strVars, Inside, Streaming,
       Lifecycle, PreviewExists, PreviewAlive
  <2>3. OneCapture'
    BY <1>11 DEF joinPreview, capVars, OneCapture, NoCaptureYet, Lifecycle
  <2> QED BY <1>11, <2>1, <2>2, <2>3, LifecycleUntouched DEF joinPreview,
     Lifecycle
<1>12. CASE stopClearPreview
  <2>1. PreviewExists'
    BY <1>12 DEF stopClearPreview, flags, pvVars, PreviewExists,
       PreviewAlive, Lifecycle
  <2>2. Inside'
    BY <1>12 DEF stopClearPreview, strVars, pvVars, Inside, Streaming,
       Lifecycle
  <2>3. OneCapture'
    BY <1>12 DEF stopClearPreview, pvVars, capVars, OneCapture,
       NoCaptureYet, Lifecycle
  <2> QED BY <1>12, <2>1, <2>2, <2>3, LifecycleUntouched DEF stopClearPreview,
     Lifecycle
<1>13. CASE stopClearCapture
  <2>1. PreviewExists'
    BY <1>13 DEF stopClearCapture, flags, pvVars, PreviewExists,
       PreviewAlive, Lifecycle
  <2>2. Inside'
    BY <1>13 DEF stopClearCapture, ClearCaptureQueue, strVars, pvVars,
       Inside, Streaming, Lifecycle
  <2>3. OneCapture'
    BY <1>13 DEF stopClearCapture, pvVars, capVars, OneCapture,
       NoCaptureYet, Lifecycle
  <2> QED BY <1>13, <2>1, <2>2, <2>3, LifecycleUntouched DEF stopClearCapture,
     Lifecycle
<1>14. CASE stopReleaseWindows
  <2>1. PreviewExists'
    BY <1>14 DEF stopReleaseWindows, flags, pvVars, PreviewExists,
       PreviewAlive, Lifecycle
  <2>2. Inside'
    BY <1>14 DEF stopReleaseWindows, queues, strVars, pvVars, Inside,
       Streaming, Lifecycle
  <2>3. OneCapture'
    BY <1>14 DEF stopReleaseWindows, pvVars, capVars, OneCapture,
       NoCaptureYet, Lifecycle
  <2> QED BY <1>14, <2>1, <2>2, <2>3, LifecycleUntouched DEF
     stopReleaseWindows, Lifecycle
<1>15. CASE uvc_preview_frame_callback
  BY <1>15, LifecycleMove DEF uvc_preview_frame_callback, flags, queues,
     appVars, pvVars, capVars
<1>16. CASE addPreviewFrame
  BY <1>16, LifecycleMove DEF addPreviewFrame, signal_preview_sync,
     queuePreviewFrame, dropFrame, flags, appVars, capVars, Moving, Streaming,
     NoCaptureYet, Lifecycle, Inside
<1>17. CASE prepare_preview
  <2>1. PreviewExists'
    BY <1>17 DEF prepare_preview, PreviewGoes, flags, appVars,
       PreviewExists, PreviewAlive, Lifecycle
  <2>2. Inside'
    BY <1>17 DEF prepare_preview, PreviewGoes, queues, appVars, strVars,
       Inside, Streaming, Lifecycle
  <2>3. OneCapture'
    BY <1>17 DEF prepare_preview, PreviewGoes, appVars, capVars,
       OneCapture, NoCaptureYet, Lifecycle
  <2> QED BY <1>17, <2>1, <2>2, <2>3, LifecycleUntouched DEF prepare_preview,
     Lifecycle
<1>18. CASE startStreaming
  <2>1. PreviewExists'
    BY <1>18 DEF startStreaming, PreviewGoes, flags, appVars,
       PreviewExists, PreviewAlive, Lifecycle
  <2>2. Inside'
    BY <1>18 DEF startStreaming, PreviewGoes, queues, appVars, Inside,
       Streaming, Lifecycle
  <2>3. OneCapture'
    BY <1>18 DEF startStreaming, PreviewGoes, appVars, capVars,
       OneCapture, NoCaptureYet, Lifecycle
  <2> QED BY <1>18, <2>1, <2>2, <2>3, LifecycleUntouched DEF startStreaming,
     Lifecycle
<1>19. CASE clearPreviewFrame
  <2>1. PreviewExists'
    BY <1>19 DEF clearPreviewFrame, PreviewGoes, flags, appVars,
       PreviewExists, PreviewAlive, Lifecycle
  <2>2. Inside'
    BY <1>19 DEF clearPreviewFrame, PreviewGoes, appVars, strVars, Inside,
       Streaming, Lifecycle
  <2>3. OneCapture'
    BY <1>19 DEF clearPreviewFrame, PreviewGoes, appVars, capVars,
       OneCapture, NoCaptureYet, Lifecycle
  <2> QED BY <1>19, <2>1, <2>2, <2>3, LifecycleUntouched DEF
     clearPreviewFrame, Lifecycle
<1>20. CASE createCaptureThread
  <2>1. PreviewExists'
    BY <1>20 DEF createCaptureThread, PreviewGoes, flags, PreviewExists,
       PreviewAlive, Lifecycle
  <2>2. Inside'
    BY <1>20 DEF createCaptureThread, PreviewGoes, queues, strVars,
       Inside, Streaming, Lifecycle
  <2>3. OneCapture'
    BY <1>20 DEF createCaptureThread, PreviewGoes, OneCapture,
       NoCaptureYet, Lifecycle, TypeOK, CaptureOK
  <2> QED BY <1>20, <2>1, <2>2, <2>3, LifecycleUntouched DEF
     createCaptureThread, Lifecycle
<1>21. CASE previewLoop
  BY <1>21, LifecycleMove DEF previewLoop, PreviewGoes, flags, queues,
     appVars, strVars, capVars, Moving, Streaming, NoCaptureYet
<1>22. CASE waitPreviewFrame
  BY <1>22, LifecycleMove DEF waitPreviewFrame, PreviewGoes, flags, appVars,
     strVars, capVars, Moving, Streaming, NoCaptureYet
<1>23. CASE decodeFrame
  BY <1>23, LifecycleMove DEF decodeFrame, PreviewGoes, flags, queues,
     appVars, strVars, capVars, Moving, Streaming, NoCaptureYet
<1>24. CASE decodedFrame
  BY <1>24, LifecycleMove DEF decodedFrame, PreviewGoes, flags, queues,
     appVars, strVars, capVars, Moving, Streaming, NoCaptureYet
<1>25. CASE draw_preview_one
  BY <1>25, LifecycleMove DEF draw_preview_one, PreviewGoes, flags, queues,
     appVars, strVars, capVars, Moving, Streaming, NoCaptureYet
<1>26. CASE recycleDrawn
  BY <1>26, LifecycleMove DEF recycleDrawn, PreviewGoes, flags, queues,
     appVars, strVars, capVars, Moving, Streaming, NoCaptureYet
<1>27. CASE addCaptureFrame
  BY <1>27, LifecycleMove DEF addCaptureFrame, AllWoken, PreviewGoes, flags,
     appVars, strVars, Moving, Streaming, NoCaptureYet, TypeOK, CaptureOK
<1>28. CASE previewSignalCapture
  BY <1>28, LifecycleMove DEF previewSignalCapture, signal_capture_sync,
     PreviewGoes, flags, queues, appVars, strVars, Moving, Streaming,
     NoCaptureYet, TypeOK, CaptureOK
<1>29. CASE stopStreaming
  <2>1. PreviewExists'
    BY <1>29 DEF stopStreaming, PreviewGoes, flags, appVars,
       PreviewExists, PreviewAlive, Lifecycle
  <2>2. Inside'
    BY <1>29 DEF stopStreaming, PreviewGoes, queues, appVars, Inside,
       Streaming, Lifecycle
  <2>3. OneCapture'
    BY <1>29 DEF stopStreaming, PreviewGoes, appVars, capVars, OneCapture,
       NoCaptureYet, Lifecycle
  <2> QED BY <1>29, <2>1, <2>2, <2>3, LifecycleUntouched DEF stopStreaming,
     Lifecycle
<1>30. CASE spuriousWakeup
  BY <1>30, LifecycleMove DEF spuriousWakeup, PreviewGoes, CaptureGoes, flags,
     queues, appVars, strVars, Moving, Streaming, NoCaptureYet, TypeOK,
     CaptureOK
<1>31. ASSUME NEW t \in CALLER, setterEnter(t)
      PROVE  Lifecycle'
  BY <1>31, LifecycleUntouched DEF setterEnter, queues, appVars, strVars,
     pvVars, capVars, Lifecycle
<1>32. ASSUME NEW t \in CALLER, setterWait(t)
      PROVE  Lifecycle'
  BY <1>32, LifecycleMove DEF setterWait, signal_capture_sync, flags, queues,
     appVars, strVars, pvVars, TypeOK, CaptureOK
<1>33. ASSUME NEW t \in CALLER, setterWoken(t)
      PROVE  Lifecycle'
  BY <1>33, LifecycleUntouched DEF setterWoken, flags, queues, appVars,
     strVars, pvVars, capVars, Lifecycle
<1>34. ASSUME NEW t \in CALLER, setterDrop(t)
      PROVE  Lifecycle'
  BY <1>34, LifecycleUntouched DEF setterDrop, flags, queues, appVars,
     strVars, pvVars, capVars, Lifecycle
<1>35. ASSUME NEW t \in CALLER, setterAssign(t)
      PROVE  Lifecycle'
  BY <1>35, LifecycleUntouched DEF setterAssign, flags, queues, appVars,
     strVars, pvVars, capVars, Lifecycle
<1>36. ASSUME NEW t \in CALLER, setterMethod(t)
      PROVE  Lifecycle'
  BY <1>36, LifecycleUntouched DEF setterMethod, flags, queues, appVars,
     strVars, pvVars, capVars, Lifecycle
<1>37. ASSUME NEW t \in CALLER, setterReset(t)
      PROVE  Lifecycle'
  BY <1>37, LifecycleUntouched DEF setterReset, flags, queues, appVars,
     strVars, pvVars, capVars, Lifecycle
<1>38. ASSUME NEW t \in CALLER, setterFormat(t)
      PROVE  Lifecycle'
  BY <1>38, LifecycleUntouched DEF setterFormat, flags, queues, appVars,
     strVars, pvVars, capVars, Lifecycle
<1>39. ASSUME NEW c \in CAPTURE, captureClear(c)
      PROVE  Lifecycle'
  BY <1>39, LifecycleMove DEF captureClear, CaptureGoes, ClearCaptureQueue,
     flags, appVars, strVars, pvVars, TypeOK, CaptureOK
<1>40. ASSUME NEW c \in CAPTURE, captureReset(c)
      PROVE  Lifecycle'
  BY <1>40, LifecycleMove DEF captureReset, CaptureGoes, flags, queues,
     appVars, strVars, pvVars, TypeOK, CaptureOK
<1>41. ASSUME NEW c \in CAPTURE, captureFormat(c)
      PROVE  Lifecycle'
  BY <1>41, LifecycleMove DEF captureFormat, CaptureGoes, flags, queues,
     appVars, strVars, pvVars, TypeOK, CaptureOK
<1>42. ASSUME NEW c \in CAPTURE, captureTop(c)
      PROVE  Lifecycle'
  BY <1>42, LifecycleMove DEF captureTop, CaptureGoes, flags, queues, appVars,
     strVars, pvVars, TypeOK, CaptureOK
<1>43. ASSUME NEW c \in CAPTURE, captureBegin(c)
      PROVE  Lifecycle'
  BY <1>43, LifecycleMove DEF captureBegin, CaptureGoes, queues, appVars,
     strVars, pvVars, TypeOK, CaptureOK
<1>44. ASSUME NEW c \in CAPTURE, captureMode(c)
      PROVE  Lifecycle'
  BY <1>44, LifecycleMove DEF captureMode, CaptureGoes, flags, queues,
     appVars, strVars, pvVars, TypeOK, CaptureOK
<1>45. ASSUME NEW c \in CAPTURE, captureLoop(c)
      PROVE  Lifecycle'
  BY <1>45, LifecycleMove DEF captureLoop, CaptureGoes, flags, queues,
     appVars, strVars, pvVars, TypeOK, CaptureOK
<1>46. ASSUME NEW c \in CAPTURE, waitCaptureFrame(c)
      PROVE  Lifecycle'
  BY <1>46, LifecycleMove DEF waitCaptureFrame, CaptureGoes, flags, appVars,
     strVars, pvVars, TypeOK, CaptureOK
<1>47. ASSUME NEW c \in CAPTURE, surfaceConvert(c)
      PROVE  Lifecycle'
  BY <1>47, LifecycleMove DEF surfaceConvert, CaptureGoes, flags, queues,
     appVars, strVars, pvVars, TypeOK, CaptureOK
<1>48. ASSUME NEW c \in CAPTURE, callbackCheck(c)
      PROVE  Lifecycle'
  BY <1>48, LifecycleMove DEF callbackCheck, CaptureGoes, flags, queues,
     appVars, strVars, pvVars, TypeOK, CaptureOK
<1>49. ASSUME NEW c \in CAPTURE, callbackConvert(c)
      PROVE  Lifecycle'
  BY <1>49, LifecycleMove DEF callbackConvert, CaptureGoes, flags, queues,
     appVars, strVars, pvVars, TypeOK, CaptureOK
<1>50. ASSUME NEW c \in CAPTURE, callOnFrame(c)
      PROVE  Lifecycle'
  BY <1>50, LifecycleMove DEF callOnFrame, CaptureGoes, flags, queues,
     appVars, strVars, pvVars, TypeOK, CaptureOK
<1>51. ASSUME NEW c \in CAPTURE, callbackRecycle(c)
      PROVE  Lifecycle'
  BY <1>51, LifecycleMove DEF callbackRecycle, CaptureGoes, flags, queues,
     appVars, strVars, pvVars, TypeOK, CaptureOK
<1>52. ASSUME NEW c \in CAPTURE, leaveSurface(c)
      PROVE  Lifecycle'
  BY <1>52, LifecycleMove DEF leaveSurface, CaptureGoes, flags, queues,
     appVars, strVars, pvVars, TypeOK, CaptureOK
<1>53. ASSUME NEW c \in CAPTURE, captureSync(c)
      PROVE  Lifecycle'
  BY <1>53, LifecycleMove DEF captureSync, AllWoken, flags, queues, appVars,
     strVars, pvVars, TypeOK, CaptureOK
<1> QED
  BY <1>1, <1>2, <1>3, <1>4, <1>5, <1>6, <1>7, <1>8, <1>9, <1>10, <1>11,
     <1>12, <1>13, <1>14, <1>15, <1>16, <1>17, <1>18, <1>19, <1>20, <1>21,
     <1>22, <1>23, <1>24, <1>25, <1>26, <1>27, <1>28, <1>29, <1>30, <1>31,
     <1>32, <1>33, <1>34, <1>35, <1>36, <1>37, <1>38, <1>39, <1>40, <1>41,
     <1>42, <1>43, <1>44, <1>45, <1>46, <1>47, <1>48, <1>49, <1>50, <1>51,
     <1>52, <1>53 DEF Next, UserStep, AppStep, StreamStep, PreviewStep,
     SetterStep, CaptureStep

-----------------------------------------------------------------------------
(* The inductive invariant and what follows from it.                       *)
IInv == TypeOK /\ Holding /\ Lifecycle

(* It holds before the preview is used at all.                             *)
LEMMA InitIInv == Init => IInv
<1> SUFFICES ASSUME Init PROVE IInv
  OBVIOUS
<1>1. FlagsOK /\ PoolOK /\ QueuesOK /\ WindowOK /\ CallbackOK
  <2>1. FlagsOK /\ CallbackOK
    BY FormatsAssumption DEF Init, FlagsOK, CallbackOK
  <2>2. <<>> \in Seq(FRAME) /\ Len(<<>>) = 0
    OBVIOUS
  <2>3. PoolOK
    BY <2>2, BoundsAssumption DEF Init, PoolOK, FRAME_POOL_SZ
  <2>4. QueuesOK
    BY <2>2, BoundsAssumption DEF Init, QueuesOK, FrameOrNull
  <2>5. WindowOK
    BY DEF Init, WindowOK
  <2> QED BY <2>1, <2>3, <2>4, <2>5
<1>2. AppOK
  <2>1. sessions \in 0 .. MaxSessions /\ sets \in 0 .. MaxSets
    BY BoundsAssumption DEF Init
  <2>2. mPreviewWindow \in BOOLEAN /\ overtaken \in BOOLEAN
    BY DEF Init
  <2>3. appPc \in AppPc /\ capture_thread \in CAPTURE \cup {NULL}
    BY DEF Init, AppPc
  <2> QED BY <2>1, <2>2, <2>3 DEF AppOK
<1>3. SettersOK
  <2>1. setPc \in [CALLER -> SetPc]
    BY DEF Init, SetPc
  <2>2. setKind \in [CALLER -> {"callback", "display"}]
    BY DEF Init
  <2>3. setArg \in [CALLER -> CALLBACK \cup WINDOW \cup {NULL}]
    BY DEF Init
  <2>4. \A t \in CALLER : setArg[t] = NULL /\ setPc[t] # "method"
    BY DEF Init
  <2> QED BY <2>1, <2>2, <2>3, <2>4 DEF SettersOK
<1>4. StreamOK /\ PreviewOK /\ CaptureOK
  BY DEF Init, StreamOK, PreviewOK, PreviewPc, CaptureOK, CapPc, FrameOrNull
<1>5. TypeOK
  BY <1>1, <1>2, <1>4, <1>3 DEF Init, TypeOK
<1>6. Holding
  BY DEF Init, Holding, StreamHolds, FrameHolds, ConvHolds, CaptureHolds
<1>7. Lifecycle
  BY DEF Init, Lifecycle, PreviewExists, PreviewAlive, Inside, OneCapture
<1> QED BY <1>5, <1>6, <1>7 DEF IInv

(* No step breaks it.                                                      *)
LEMMA NextIInv == IInv /\ [Next]_vars => IInv'
<1> SUFFICES ASSUME IInv, [Next]_vars PROVE IInv'
  OBVIOUS
<1>1. CASE Next
  BY <1>1, TypeStep, HoldingStep, LifecycleStep DEF IInv
<1>2. CASE UNCHANGED vars
  <2>1. /\ UNCHANGED <<flags, memory, queues, window, callback, capture_mutex>>
        /\ UNCHANGED <<appVars, setVars, strVars, pvVars, capVars, aborted>>
    BY <1>2 DEF vars
  <2>2. TypeOK'
    BY <2>1, Untouched DEF IInv, TypeOK
  <2>3. Holding'
    BY <2>1, HoldingUntouched DEF IInv, Holding, strVars, pvVars, capVars
  <2>4. Lifecycle'
    BY <2>1, LifecycleUntouched DEF IInv, Lifecycle, flags, queues, appVars,
       strVars, pvVars, capVars
  <2> QED BY <2>2, <2>3, <2>4 DEF IInv
<1> QED BY <1>1, <1>2

THEOREM Invariance == Spec => []IInv
BY InitIInv, NextIInv, PTL DEF Spec

(* Every variable of the preview engine keeps its type; the pool and the   *)
(* frame queue never outgrow their limits.                                 *)
THEOREM TypeCorrect == Spec => []TypeOK
<1>1. IInv => TypeOK
  BY DEF IInv
<1> QED BY <1>1, Invariance, PTL

(* Threads exist when and only when start, stop and the stream say so.     *)
THEOREM LifecycleHolds == Spec => []Lifecycle
<1>1. IInv => Lifecycle
  BY DEF IInv
<1> QED BY <1>1, Invariance, PTL

(* A thread holds a frame exactly between taking it and passing it on.     *)
THEOREM FramesInHand == Spec => []Holding
<1>1. IInv => Holding
  BY DEF IInv
<1> QED BY <1>1, Invariance, PTL

(* Once stopPreview has returned nothing of the preview runs any more and  *)
(* no frame is queued or in use.                                           *)
THEOREM StopIsQuiet == Spec => []StoppedQuiet
<1>1. IInv => StoppedQuiet
  <2> SUFFICES ASSUME IInv, appPc = "idle", ~mIsRunning
               PROVE  /\ previewPc = "none" /\ streamPc = "off"
                      /\ previewFrames = <<>> /\ captureQueu = NULL
                      /\ pvFrame = NULL /\ pvConv = NULL /\ streamFrame = NULL
    BY DEF StoppedQuiet
  <2>1. previewPc = "none"
    BY DEF IInv, Lifecycle, PreviewExists, PreviewAlive
  <2>2. streamPc = "off"
    BY <2>1 DEF IInv, Lifecycle, Inside, Streaming
  <2>3. previewFrames = <<>> /\ captureQueu = NULL
    BY <2>1 DEF IInv, Lifecycle, Inside
  <2>4. pvFrame = NULL /\ pvConv = NULL /\ streamFrame = NULL
    BY <2>1, <2>2 DEF IInv, Holding, StreamHolds, FrameHolds, ConvHolds
  <2> QED BY <2>1, <2>2, <2>3, <2>4
<1> QED BY <1>1, Invariance, PTL

(* As long as no stop came before its capture thread existed, the only     *)
(* capture thread is the one of the handle, and stopPreview ends it.       *)
THEOREM CaptureThreadJoined == Spec => []NoStrayCapture
<1>1. IInv => NoStrayCapture
  <2> SUFFICES ASSUME IInv, ~overtaken
               PROVE  /\ \A c \in CAPTURE : capPc[c] # "none" => c = capture_thread
                      /\ appPc = "idle" /\ ~mIsRunning =>
                             \A c \in CAPTURE : capPc[c] = "none"
    BY DEF NoStrayCapture
  <2>1. \A c \in CAPTURE : capPc[c] # "none" => c = capture_thread
    BY DEF IInv, Lifecycle, OneCapture
  <2>2. ASSUME appPc = "idle", ~mIsRunning
        PROVE  \A c \in CAPTURE : capPc[c] = "none"
    <3>1. previewPc \in NoCaptureYet
      BY <2>2 DEF IInv, Lifecycle, PreviewExists, PreviewAlive, NoCaptureYet
    <3> QED BY <3>1 DEF IInv, Lifecycle, OneCapture
  <2> QED BY <2>1, <2>2
<1> QED BY <1>1, Invariance, PTL
-----------------------------------------------------------------------------
(* Nobody sleeps on a frame. *)

\* What waitPreviewFrame and waitCaptureFrame wait for is not there while they do.
Attentive ==
    /\ previewPc = "blocked" => previewFrames = <<>>
    /\ \A c \in CAPTURE : capPc[c] = "blocked" => captureQueu = NULL

(* A thread begins to wait only when it finds nothing, under the mutex of the  *)
(* queue, and whoever puts a frame there wakes it under the same mutex.        *)
LEMMA AttentiveStep ==
    ASSUME TypeOK, Attentive, Next
    PROVE  Attentive'
<1> USE DEF Attentive, TypeOK, CaptureOK
<1>1. CASE setPreviewDisplay
  BY <1>1 DEF setPreviewDisplay, queues, pvVars, capVars
<1>2. CASE startPreview
  BY <1>2 DEF startPreview, queues, pvVars, capVars
<1>3. CASE stopPreview
  BY <1>3 DEF stopPreview, queues, pvVars, capVars
<1>4. CASE stopRunning
  BY <1>4 DEF stopRunning, queues, pvVars, capVars
<1>5. CASE joinNoCapture
  BY <1>5 DEF joinNoCapture, queues, pvVars, capVars
<1>6. CASE stopReleaseWindows
  BY <1>6 DEF stopReleaseWindows, queues, pvVars, capVars
<1>7. CASE uvc_preview_frame_callback
  BY <1>7 DEF uvc_preview_frame_callback, queues, pvVars, capVars
<1>8. ASSUME NEW t \in CALLER, NEW kind \in {"callback", "display"},
             NEW arg \in CALLBACK \cup WINDOW \cup {NULL}, callSetter(t, kind, arg)
      PROVE  Attentive'
  BY <1>8 DEF callSetter, queues, pvVars, capVars
<1>9. CASE createPreviewThread
  BY <1>9 DEF createPreviewThread, queues, capVars, signal_preview_sync
<1>10. CASE signalPreview
  BY <1>10 DEF signalPreview, queues, capVars, signal_preview_sync
<1>11. CASE signalCapture
  BY <1>11 DEF signalCapture, queues, pvVars, signal_capture_sync
<1>12. CASE joinCapture
  BY <1>12 DEF joinCapture, queues, pvVars
<1>13. CASE joinPreview
  BY <1>13 DEF joinPreview, queues, capVars
<1>14. CASE stopClearPreview
  BY <1>14 DEF stopClearPreview, pvVars, capVars
<1>15. CASE stopClearCapture
  BY <1>15 DEF stopClearCapture, pvVars, capVars, ClearCaptureQueue
<1>16. CASE addPreviewFrame
  BY <1>16 DEF addPreviewFrame, capVars, queuePreviewFrame, dropFrame,
     signal_preview_sync
<1>17. CASE prepare_preview
  BY <1>17 DEF prepare_preview, queues, capVars, PreviewGoes
<1>18. CASE startStreaming
  BY <1>18 DEF startStreaming, queues, capVars, PreviewGoes
<1>19. CASE clearPreviewFrame
  BY <1>19 DEF clearPreviewFrame, capVars, PreviewGoes
<1>20. CASE createCaptureThread
  BY <1>20 DEF createCaptureThread, queues, PreviewGoes
<1>21. CASE previewLoop
  BY <1>21 DEF previewLoop, queues, capVars, PreviewGoes
<1>22. CASE waitPreviewFrame
  BY <1>22 DEF waitPreviewFrame, capVars, PreviewGoes
<1>23. CASE decodeFrame
  BY <1>23 DEF decodeFrame, queues, capVars, PreviewGoes
<1>24. CASE decodedFrame
  BY <1>24 DEF decodedFrame, queues, capVars, PreviewGoes
<1>25. CASE draw_preview_one
  BY <1>25 DEF draw_preview_one, queues, capVars, PreviewGoes
<1>26. CASE recycleDrawn
  BY <1>26 DEF recycleDrawn, queues, capVars, PreviewGoes
<1>27. CASE stopStreaming
  BY <1>27 DEF stopStreaming, queues, capVars, PreviewGoes
<1>28. CASE addCaptureFrame
  BY <1>28 DEF addCaptureFrame, PreviewGoes, AllWoken
<1>29. CASE previewSignalCapture
  BY <1>29 DEF previewSignalCapture, queues, PreviewGoes, signal_capture_sync
<1>30. CASE spuriousWakeup
  BY <1>30 DEF spuriousWakeup, queues, PreviewGoes, CaptureGoes
<1>31. ASSUME NEW t \in CALLER, setterEnter(t) PROVE Attentive'
  BY <1>31 DEF setterEnter, queues, pvVars, capVars
<1>32. ASSUME NEW t \in CALLER, setterWoken(t) PROVE Attentive'
  BY <1>32 DEF setterWoken, queues, pvVars, capVars
<1>33. ASSUME NEW t \in CALLER, setterDrop(t) PROVE Attentive'
  BY <1>33 DEF setterDrop, queues, pvVars, capVars
<1>34. ASSUME NEW t \in CALLER, setterAssign(t) PROVE Attentive'
  BY <1>34 DEF setterAssign, queues, pvVars, capVars
<1>35. ASSUME NEW t \in CALLER, setterMethod(t) PROVE Attentive'
  BY <1>35 DEF setterMethod, queues, pvVars, capVars
<1>36. ASSUME NEW t \in CALLER, setterReset(t) PROVE Attentive'
  BY <1>36 DEF setterReset, queues, pvVars, capVars
<1>37. ASSUME NEW t \in CALLER, setterFormat(t) PROVE Attentive'
  BY <1>37 DEF setterFormat, queues, pvVars, capVars
<1>38. ASSUME NEW t \in CALLER, setterWait(t) PROVE Attentive'
  BY <1>38 DEF setterWait, queues, pvVars, signal_capture_sync
<1>39. ASSUME NEW c \in CAPTURE, captureClear(c) PROVE Attentive'
  BY <1>39 DEF captureClear, pvVars, CaptureGoes, ClearCaptureQueue
<1>40. ASSUME NEW c \in CAPTURE, captureReset(c) PROVE Attentive'
  BY <1>40 DEF captureReset, queues, pvVars, CaptureGoes
<1>41. ASSUME NEW c \in CAPTURE, captureFormat(c) PROVE Attentive'
  BY <1>41 DEF captureFormat, queues, pvVars, CaptureGoes
<1>42. ASSUME NEW c \in CAPTURE, captureTop(c) PROVE Attentive'
  BY <1>42 DEF captureTop, queues, pvVars, CaptureGoes
<1>43. ASSUME NEW c \in CAPTURE, captureBegin(c) PROVE Attentive'
  BY <1>43 DEF captureBegin, queues, pvVars, CaptureGoes
<1>44. ASSUME NEW c \in CAPTURE, captureMode(c) PROVE Attentive'
  BY <1>44 DEF captureMode, queues, pvVars, CaptureGoes
<1>45. ASSUME NEW c \in CAPTURE, captureLoop(c) PROVE Attentive'
  BY <1>45 DEF captureLoop, queues, pvVars, CaptureGoes
<1>46. ASSUME NEW c \in CAPTURE, surfaceConvert(c) PROVE Attentive'
  BY <1>46 DEF surfaceConvert, queues, pvVars, CaptureGoes
<1>47. ASSUME NEW c \in CAPTURE, callbackCheck(c) PROVE Attentive'
  BY <1>47 DEF callbackCheck, queues, pvVars, CaptureGoes
<1>48. ASSUME NEW c \in CAPTURE, callbackConvert(c) PROVE Attentive'
  BY <1>48 DEF callbackConvert, queues, pvVars, CaptureGoes
<1>49. ASSUME NEW c \in CAPTURE, callOnFrame(c) PROVE Attentive'
  BY <1>49 DEF callOnFrame, queues, pvVars, CaptureGoes
<1>50. ASSUME NEW c \in CAPTURE, callbackRecycle(c) PROVE Attentive'
  BY <1>50 DEF callbackRecycle, queues, pvVars, CaptureGoes
<1>51. ASSUME NEW c \in CAPTURE, leaveSurface(c) PROVE Attentive'
  BY <1>51 DEF leaveSurface, queues, pvVars, CaptureGoes
<1>52. ASSUME NEW c \in CAPTURE, waitCaptureFrame(c) PROVE Attentive'
  BY <1>52 DEF waitCaptureFrame, pvVars, CaptureGoes
<1>53. ASSUME NEW c \in CAPTURE, captureSync(c) PROVE Attentive'
  BY <1>53 DEF captureSync, queues, pvVars, AllWoken
<1> QED BY <1>1, <1>2, <1>3, <1>4, <1>5, <1>6, <1>7, <1>8, <1>9, <1>10, <1>11,
     <1>12, <1>13, <1>14, <1>15, <1>16, <1>17, <1>18, <1>19, <1>20, <1>21,
     <1>22, <1>23, <1>24, <1>25, <1>26, <1>27, <1>28, <1>29, <1>30, <1>31,
     <1>32, <1>33, <1>34, <1>35, <1>36, <1>37, <1>38, <1>39, <1>40, <1>41,
     <1>42, <1>43, <1>44, <1>45, <1>46, <1>47, <1>48, <1>49, <1>50, <1>51,
     <1>52, <1>53 DEF Next, UserStep, AppStep, StreamStep, PreviewStep,
     SetterStep, CaptureStep

\* No preview or capture thread waits while there is a frame for it, whatever
\* stops, setters and other capture threads do: of the wake-ups that can be missed
\* none is that of a frame.
THEOREM NobodySleepsOnFrame == Spec => []Attentive
<1>1. Init => Attentive
  BY DEF Init, Attentive
<1>2. IInv /\ Attentive /\ [Next]_vars => Attentive'
  <2>1. ASSUME Attentive, UNCHANGED vars PROVE Attentive'
    BY <2>1 DEF Attentive, vars, queues, pvVars, capVars
  <2> QED BY <2>1, AttentiveStep DEF IInv
<1> QED BY <1>1, <1>2, Invariance, PTL DEF Spec
=============================================================================

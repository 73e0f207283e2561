------------------------ MODULE UVCPreviewCallback ------------------------
(***************************************************************************)
(* The frame callback of UVCPreview, for every number of threads that set  *)
(* it: object, method and references belong together (CallbackIsWhole).    *)
(***************************************************************************)
EXTENDS UVCPreviewProofs

(* Where a setter holds the mutex.                                         *)
Locked == {"wait", "swap", "assign", "method", "reset", "format"}

(* A callback on its way that is not installed yet.                        *)
Pending(t) ==
    /\ setKind[t] = "callback" /\ setArg[t] # NULL
    /\ setPc[t] \in {"enter", "wait", "blocked", "woken", "swap", "assign"}

(* The setter between dropping the old object and looking up the method.   *)
Replacing(t) == setKind[t] = "callback" /\ setPc[t] = "assign"
LookingUp(t) == setKind[t] = "callback" /\ setPc[t] = "method"

(* The mutex has an owner exactly while a setter is inside.                *)
Mutex == \A t \in CALLER : setPc[t] \in Locked <=> capture_mutex = t

(* The references on their way are alive and each is for one setter.       *)
Arguments ==
    \A t \in CALLER : Pending(t) =>
        /\ setArg[t] \in globalRefs
        /\ setArg[t] = mFrameCallbackObj => \E u \in CALLER : Replacing(u)
        /\ \A u \in CALLER : Pending(u) /\ setArg[u] = setArg[t] => u = t

(* The method belongs to the object, except inside the setter that changes *)
(* both; the object is dead only until that setter assigns the new one.    *)
Installed ==
    /\ (\E t \in CALLER : Replacing(t) \/ LookingUp(t)) =>  onFrame = NULL
    /\ (\A t \in CALLER : ~Replacing(t) /\ ~LookingUp(t)) => onFrame = mFrameCallbackObj
    /\ (\A t \in CALLER : ~Replacing(t)) /\ mFrameCallbackObj # NULL =>
          mFrameCallbackObj \in globalRefs
    /\ \A t \in CALLER : LookingUp(t) => setArg[t] = mFrameCallbackObj

(* The inductive form of CallbackWhole.                                    *)
Whole == Mutex /\ Arguments /\ Installed

(* A setter that waits may be woken; no other setter moves.                *)
Woken == \A t \in CALLER : \/ setPc'[t] = setPc[t]
                           \/ setPc[t] = "blocked" /\ setPc'[t] = "woken"

Aside ==
    /\ Woken
    /\ UNCHANGED <<setKind, setArg, mFrameCallbackObj, onFrame, globalRefs, capture_mutex>>

(* What one signal does to the setters.                                    *)
LEMMA Signalled ==
    ASSUME setPc \in [CALLER -> SetPc], signal_capture_sync(setPc)
    PROVE  Woken
BY DEF signal_capture_sync, Woken

(* It does not disturb what is installed or on its way.                    *)
LEMMA AsideWhole ==
    ASSUME Whole, Aside
    PROVE  Whole'
<1>1. \A t \in CALLER : /\ Pending(t)' <=> Pending(t)
                        /\ Replacing(t)' <=> Replacing(t)
                        /\ LookingUp(t)' <=> LookingUp(t)
                        /\ setPc'[t] \in Locked <=> setPc[t] \in Locked
  BY DEF Aside, Woken, Pending, Replacing, LookingUp, Locked
<1>2. Mutex'
  BY <1>1 DEF Whole, Mutex, Aside
<1>3. Arguments'
  BY <1>1 DEF Whole, Arguments, Aside
<1>4. Installed'
  BY <1>1 DEF Whole, Installed, Aside
<1> QED BY <1>2, <1>3, <1>4 DEF Whole

(* Everything that is not a setter call or a step of one.                  *)
LEMMA AsideStep ==
    ASSUME TypeOK, Next,
           ~stopPreview, \A t \in CALLER : ~SetterStep(t),
           \A t \in CALLER, kind \in {"callback", "display"},
              arg \in CALLBACK \cup WINDOW \cup {NULL} : ~callSetter(t, kind, arg)
    PROVE  Aside
<1>0. setPc \in [CALLER -> SetPc]
  BY DEF TypeOK, SettersOK
<1> USE <1>0
<1>1. CASE setPreviewDisplay
  BY <1>1 DEF setPreviewDisplay, callback, setVars, Aside, Woken
<1>2. CASE startPreview
  BY <1>2 DEF startPreview, callback, setVars, Aside, Woken
<1>3. CASE createPreviewThread
  BY <1>3 DEF createPreviewThread, callback, setVars, Aside, Woken
<1>4. CASE stopRunning
  BY <1>4 DEF stopRunning, callback, setVars, Aside, Woken
<1>5. CASE signalPreview
  BY <1>5 DEF signalPreview, callback, setVars, Aside, Woken
<1>6. CASE signalCapture
  BY <1>6, Signalled DEF signalCapture, callback, setData, Aside, Woken
<1>7. CASE joinCapture
  BY <1>7 DEF joinCapture, callback, setVars, Aside, Woken
<1>8. CASE joinNoCapture
  BY <1>8 DEF joinNoCapture, callback, setVars, Aside, Woken
<1>9. CASE joinPreview
  BY <1>9 DEF joinPreview, callback, setVars, Aside, Woken
<1>10. CASE stopClearPreview
  BY <1>10 DEF stopClearPreview, callback, setVars, Aside, Woken
<1>11. CASE stopClearCapture
  BY <1>11 DEF stopClearCapture, callback, setVars, Aside, Woken
<1>12. CASE stopReleaseWindows
  BY <1>12 DEF stopReleaseWindows, callback, setVars, Aside, Woken
<1>13. CASE uvc_preview_frame_callback
  BY <1>13 DEF uvc_preview_frame_callback, callback, setVars, Aside, Woken
<1>14. CASE addPreviewFrame
  BY <1>14 DEF addPreviewFrame, queuePreviewFrame, dropFrame, callback,
     setVars, Aside, Woken
<1>15. CASE prepare_preview
  BY <1>15 DEF prepare_preview, callback, setVars, Aside, Woken
<1>16. CASE startStreaming
  BY <1>16 DEF startStreaming, callback, setVars, Aside, Woken
<1>17. CASE clearPreviewFrame
  BY <1>17 DEF clearPreviewFrame, callback, setVars, Aside, Woken
<1>18. CASE createCaptureThread
  BY <1>18 DEF createCaptureThread, callback, setVars, Aside, Woken
<1>19. CASE previewLoop
  BY <1>19 DEF previewLoop, callback, setVars, Aside, Woken
<1>20. CASE waitPreviewFrame
  BY <1>20 DEF waitPreviewFrame, callback, setVars, Aside, Woken
<1>21. CASE decodeFrame
  BY <1>21 DEF decodeFrame, callback, setVars, Aside, Woken
<1>22. CASE decodedFrame
  BY <1>22 DEF decodedFrame, callback, setVars, Aside, Woken
<1>23. CASE draw_preview_one
  BY <1>23 DEF draw_preview_one, callback, setVars, Aside, Woken
<1>24. CASE recycleDrawn
  BY <1>24 DEF recycleDrawn, callback, setVars, Aside, Woken
<1>25. CASE addCaptureFrame
  BY <1>25 DEF addCaptureFrame, AllWoken, callback, setData, Aside, Woken
<1>26. CASE previewSignalCapture
  BY <1>26, Signalled DEF previewSignalCapture, callback, setData, Aside,
     Woken
<1>27. CASE stopStreaming
  BY <1>27 DEF stopStreaming, callback, setVars, Aside, Woken
<1>28. CASE spuriousWakeup
  BY <1>28 DEF spuriousWakeup, SetterGoes, callback, setData, Aside, Woken
<1>29. ASSUME NEW c \in CAPTURE, captureClear(c) PROVE Aside
  BY <1>29 DEF captureClear, callback, setVars, Aside, Woken
<1>30. ASSUME NEW c \in CAPTURE, captureReset(c) PROVE Aside
  BY <1>30 DEF captureReset, setVars, Aside, Woken
<1>31. ASSUME NEW c \in CAPTURE, captureFormat(c) PROVE Aside
  BY <1>31 DEF captureFormat, setVars, Aside, Woken
<1>32. ASSUME NEW c \in CAPTURE, captureTop(c) PROVE Aside
  BY <1>32 DEF captureTop, callback, setVars, Aside, Woken
<1>33. ASSUME NEW c \in CAPTURE, captureBegin(c) PROVE Aside
  BY <1>33 DEF captureBegin, callback, setVars, Aside, Woken
<1>34. ASSUME NEW c \in CAPTURE, captureMode(c) PROVE Aside
  BY <1>34 DEF captureMode, callback, setVars, Aside, Woken
<1>35. ASSUME NEW c \in CAPTURE, captureLoop(c) PROVE Aside
  BY <1>35 DEF captureLoop, callback, setVars, Aside, Woken
<1>36. ASSUME NEW c \in CAPTURE, waitCaptureFrame(c) PROVE Aside
  BY <1>36 DEF waitCaptureFrame, callback, setVars, Aside, Woken
<1>37. ASSUME NEW c \in CAPTURE, surfaceConvert(c) PROVE Aside
  BY <1>37 DEF surfaceConvert, callback, setVars, Aside, Woken
<1>38. ASSUME NEW c \in CAPTURE, callbackCheck(c) PROVE Aside
  BY <1>38 DEF callbackCheck, callback, setVars, Aside, Woken
<1>39. ASSUME NEW c \in CAPTURE, callbackConvert(c) PROVE Aside
  BY <1>39 DEF callbackConvert, callback, setVars, Aside, Woken
<1>40. ASSUME NEW c \in CAPTURE, callOnFrame(c) PROVE Aside
  BY <1>40 DEF callOnFrame, callback, setVars, Aside, Woken
<1>41. ASSUME NEW c \in CAPTURE, callbackRecycle(c) PROVE Aside
  BY <1>41 DEF callbackRecycle, callback, setVars, Aside, Woken
<1>42. ASSUME NEW c \in CAPTURE, leaveSurface(c) PROVE Aside
  BY <1>42 DEF leaveSurface, callback, setVars, Aside, Woken
<1>43. ASSUME NEW c \in CAPTURE, captureSync(c) PROVE Aside
  BY <1>43 DEF captureSync, AllWoken, callback, setData, Aside, Woken
<1> QED
  BY <1>1, <1>2, <1>3, <1>4, <1>5, <1>6, <1>7, <1>8, <1>9, <1>10, <1>11,
     <1>12, <1>13, <1>14, <1>15, <1>16, <1>17, <1>18, <1>19, <1>20, <1>21,
     <1>22, <1>23, <1>24, <1>25, <1>26, <1>27, <1>28, <1>29, <1>30, <1>31,
     <1>32, <1>33, <1>34, <1>35, <1>36, <1>37, <1>38, <1>39, <1>40, <1>41,
     <1>42, <1>43 DEF Next, UserStep, AppStep, StreamStep, PreviewStep,
     CaptureStep

(* What a step of setter t alone leaves as it was.                         *)
Others(t) == \A u \in CALLER \ {t} : /\ setKind'[u] = setKind[u] /\ setArg'[u] = setArg[u]
                                     /\ \/ setPc'[u] = setPc[u]
                                        \/ setPc[u] = "blocked" /\ setPc'[u] = "woken"

(* What it leaves, its roles included.                                     *)
LEMMA OthersSame ==
    ASSUME NEW t \in CALLER, Others(t), NEW u \in CALLER, u # t
    PROVE  /\ Pending(u)' <=> Pending(u)
           /\ Replacing(u)' <=> Replacing(u)
           /\ LookingUp(u)' <=> LookingUp(u)
           /\ setPc'[u] \in Locked <=> setPc[u] \in Locked
           /\ setArg'[u] = setArg[u]
BY DEF Others, Pending, Replacing, LookingUp, Locked

(* While t is inside, nobody else is.                                      *)
LEMMA Alone ==
    ASSUME Mutex, NEW t \in CALLER, setPc[t] \in Locked, NEW u \in CALLER, u # t
    PROVE  setPc[u] \notin Locked /\ ~Replacing(u) /\ ~LookingUp(u)
BY DEF Mutex, Replacing, LookingUp, Locked

(* With the mutex free nobody is inside.                                   *)
LEMMA Nobody ==
    ASSUME Mutex, MutexFree, NEW u \in CALLER
    PROVE  setPc[u] \notin Locked /\ ~Replacing(u) /\ ~LookingUp(u)
BY NullAssumption DEF Mutex, MutexFree, Replacing, LookingUp, Locked

(* The call of a setter: its argument is new.                              *)
LEMMA CallWhole ==
    ASSUME TypeOK, Whole, NEW t \in CALLER, setPc[t] = "idle",
           setPc' = [setPc EXCEPT ![t] = "enter"],
           NEW kind \in {"callback", "display"}, setKind' = [setKind EXCEPT ![t] = kind],
           NEW arg \in CALLBACK \cup WINDOW \cup {NULL},
           setArg' = [setArg EXCEPT ![t] = arg],
           UNCHANGED <<mFrameCallbackObj, onFrame, capture_mutex>>,
           IF kind = "callback"
           THEN /\ arg \in (CALLBACK \ globalRefs) \cup {NULL}
                /\ globalRefs' = globalRefs \cup ({arg} \ {NULL})
           ELSE UNCHANGED globalRefs
    PROVE  Whole'
<1> USE DEF Whole
<1>0. /\ setPc \in [CALLER -> SetPc] /\ setKind \in [CALLER -> {"callback", "display"}]
      /\ setArg \in [CALLER -> CALLBACK \cup WINDOW \cup {NULL}]
  BY DEF TypeOK, SettersOK
<1>1. /\ Others(t) /\ ~Pending(t) /\ ~Replacing(t) /\ ~LookingUp(t)
      /\ setPc[t] \notin Locked /\ setPc'[t] \notin Locked
      /\ ~Replacing(t)' /\ ~LookingUp(t)' /\ setArg'[t] = arg /\ setKind'[t] = kind
  BY <1>0 DEF Others, Pending, Replacing, LookingUp, Locked
<1>2. \A u \in CALLER \ {t} :
         /\ Pending(u)' <=> Pending(u)
         /\ Replacing(u)' <=> Replacing(u)
         /\ LookingUp(u)' <=> LookingUp(u)
         /\ setPc'[u] \in Locked <=> setPc[u] \in Locked
         /\ setArg'[u] = setArg[u]
  BY <1>1, OthersSame
<1>3. Mutex'
  BY <1>1, <1>2 DEF Mutex
<1>4. Arguments'
  <2> SUFFICES ASSUME NEW u \in CALLER, Pending(u)'
               PROVE  /\ setArg'[u] \in globalRefs'
                      /\ setArg'[u] = mFrameCallbackObj' =>
                            \E v \in CALLER : Replacing(v)'
                      /\ \A v \in CALLER : Pending(v)' /\ setArg'[v] = setArg'[u] => v = u
    BY DEF Arguments
  <2>1. CASE u = t
    <3>1. /\ arg \in CALLBACK \ globalRefs /\ arg # NULL
          /\ globalRefs' = globalRefs \cup {arg}
      BY <1>1, <2>1 DEF Pending
    <3>2. arg = mFrameCallbackObj => \E v \in CALLER : Replacing(v)
      BY <3>1 DEF Installed
    <3>3. arg = mFrameCallbackObj => \E v \in CALLER : Replacing(v)'
      BY <1>1, <1>2, <3>2
    <3>4. \A v \in CALLER \ {t} : Pending(v)' => setArg'[v] # arg
      BY <1>2, <3>1 DEF Arguments
    <3> QED BY <1>1, <2>1, <3>1, <3>3, <3>4
  <2>2. CASE u # t
    <3>1. /\ Pending(u) /\ setArg'[u] = setArg[u] /\ setArg[u] \in globalRefs
          /\ globalRefs \subseteq globalRefs'
      BY <1>2, <2>2 DEF Arguments
    <3>2. Pending(t)' => setArg'[t] # setArg[u]
      BY <1>1, <3>1 DEF Pending
    <3>3. setArg[u] = mFrameCallbackObj => \E v \in CALLER : Replacing(v)'
      BY <1>1, <1>2, <3>1 DEF Arguments
    <3>4. \A v \in CALLER \ {t} : Pending(v)' /\ setArg'[v] = setArg[u] => v = u
      BY <1>2, <3>1 DEF Arguments
    <3> QED BY <3>1, <3>2, <3>3, <3>4
  <2> QED BY <2>1, <2>2
<1>5. Installed'
  <2>1. \A u \in CALLER : /\ Replacing(u)' <=> Replacing(u)
                          /\ LookingUp(u)' <=> LookingUp(u)
    BY <1>1, <1>2
  <2>2. \A u \in CALLER : LookingUp(u) => setArg'[u] = setArg[u]
    BY <1>1, <1>2
  <2>3. globalRefs \subseteq globalRefs'
    OBVIOUS
  <2> QED BY <2>1, <2>2, <2>3 DEF Installed
<1> QED BY <1>3, <1>4, <1>5

(* The steps of a setter.                                                  *)
LEMMA SetterWhole ==
    ASSUME TypeOK, Whole, NEW t \in CALLER, SetterStep(t)
    PROVE  Whole'
<1> USE DEF Whole
<1>0. /\ setPc \in [CALLER -> SetPc] /\ setKind \in [CALLER -> {"callback", "display"}]
      /\ setArg \in [CALLER -> CALLBACK \cup WINDOW \cup {NULL}]
      /\ setPc[t] = "method" => setKind[t] = "callback" /\ setArg[t] # NULL
      /\ setKind[t] = "callback" /\ setArg[t] # NULL => setArg[t] \in CALLBACK
  BY DEF TypeOK, SettersOK
<1>1. UNCHANGED <<setKind, setArg>>
  BY DEF SetterStep, setterEnter, setterWait, setterWoken, setterDrop, setterAssign,
     setterMethod, setterReset, setterFormat, setData
<1>2. Others(t)
  <2>1. CASE setterWait(t)
    BY <1>0, <1>1, <2>1 DEF Others, setterWait, signal_capture_sync
  <2>2. CASE setterEnter(t)
    BY <1>0, <1>1, <2>2 DEF Others, setterEnter, SetterGoes
  <2>3. CASE setterWoken(t)
    BY <1>0, <1>1, <2>3 DEF Others, setterWoken, SetterGoes
  <2>4. CASE setterDrop(t)
    BY <1>0, <1>1, <2>4 DEF Others, setterDrop, SetterGoes
  <2>5. CASE setterAssign(t)
    BY <1>0, <1>1, <2>5 DEF Others, setterAssign, SetterGoes
  <2>6. CASE setterMethod(t)
    BY <1>0, <1>1, <2>6 DEF Others, setterMethod, SetterGoes
  <2>7. CASE setterReset(t)
    BY <1>0, <1>1, <2>7 DEF Others, setterReset, SetterGoes
  <2>8. CASE setterFormat(t)
    BY <1>0, <1>1, <2>8 DEF Others, setterFormat, SetterGoes
  <2> QED BY <2>1, <2>2, <2>3, <2>4, <2>5, <2>6, <2>7, <2>8 DEF SetterStep
<1>3. \A u \in CALLER \ {t} :
         /\ Pending(u)' <=> Pending(u)
         /\ Replacing(u)' <=> Replacing(u)
         /\ LookingUp(u)' <=> LookingUp(u)
         /\ setPc'[u] \in Locked <=> setPc[u] \in Locked
         /\ setArg'[u] = setArg[u]
  BY <1>2, OthersSame
<1>4. /\ setPc[t] \in Locked \/ MutexFree
      /\ IF setPc'[t] \in Locked THEN capture_mutex' = t ELSE capture_mutex' = NULL
  <2>1. CASE setterWait(t)
    BY <1>0, <2>1 DEF setterWait, signal_capture_sync, Locked
  <2>2. CASE setterEnter(t)
    BY <1>0, <2>2 DEF setterEnter, SetterGoes, Locked
  <2>3. CASE setterWoken(t)
    BY <1>0, <2>3 DEF setterWoken, SetterGoes, Locked
  <2>4. CASE setterDrop(t)
    BY <1>0, <2>4 DEF setterDrop, SetterGoes, Locked, Mutex
  <2>5. CASE setterAssign(t)
    BY <1>0, <2>5 DEF setterAssign, SetterGoes, Locked, Mutex
  <2>6. CASE setterMethod(t)
    BY <1>0, <2>6 DEF setterMethod, SetterGoes, Locked, Mutex
  <2>7. CASE setterReset(t)
    BY <1>0, <2>7 DEF setterReset, SetterGoes, Locked, Mutex
  <2>8. CASE setterFormat(t)
    BY <1>0, <2>8 DEF setterFormat, SetterGoes, Locked
  <2> QED BY <2>1, <2>2, <2>3, <2>4, <2>5, <2>6, <2>7, <2>8 DEF SetterStep
<1>5. \A u \in CALLER \ {t} :
         /\ setPc[u] \notin Locked /\ ~Replacing(u) /\ ~LookingUp(u)
         /\ setPc'[u] \notin Locked /\ ~Replacing(u)' /\ ~LookingUp(u)'
  BY <1>3, <1>4, Alone, Nobody
<1>6. Mutex'
  BY <1>4, <1>5, NullAssumption DEF Mutex
<1>7. Arguments' /\ Installed'
  <2>1. CASE setterWait(t) \/ setterEnter(t) \/ setterWoken(t)
    <3>1. UNCHANGED <<mFrameCallbackObj, onFrame, globalRefs>>
      BY <2>1 DEF setterWait, setterEnter, setterWoken, callback
    <3>2. /\ ~Replacing(t) /\ ~LookingUp(t) /\ ~Replacing(t)' /\ ~LookingUp(t)'
          /\ Pending(t)' <=> Pending(t)
      BY <1>0, <1>1, <2>1 DEF setterWait, setterEnter, setterWoken, SetterGoes,
         signal_capture_sync, Replacing, LookingUp, Pending
    <3>3. Arguments'
      BY <1>1, <1>3, <1>5, <3>1, <3>2 DEF Arguments
    <3>4. Installed'
      BY <1>1, <1>5, <3>1, <3>2 DEF Installed
    <3> QED BY <3>3, <3>4
  <2>2. CASE setterDrop(t)
    <3>1. setPc[t] = "swap" /\ ~Replacing(t) /\ ~LookingUp(t)
      BY <2>2 DEF setterDrop, Replacing, LookingUp
    <3>2. /\ onFrame = mFrameCallbackObj
          /\ mFrameCallbackObj # NULL => mFrameCallbackObj \in globalRefs
          /\ UNCHANGED mFrameCallbackObj
      BY <1>5, <2>2, <3>1 DEF Installed, setterDrop, callback
    <3>3. CASE setPc'[t] \in {"reset", "idle"} /\ UNCHANGED callback
      <4>1. ~Pending(t)' /\ ~Replacing(t)' /\ ~LookingUp(t)'
        BY <3>3 DEF Pending, Replacing, LookingUp
      <4>2. UNCHANGED <<mFrameCallbackObj, onFrame, globalRefs>>
        BY <3>3 DEF callback
      <4>3. \A u \in CALLER : Pending(u)' => Pending(u) /\ u # t
        BY <1>3, <4>1
      <4>4. Arguments'
        BY <1>1, <1>3, <1>5, <3>1, <4>1, <4>2, <4>3 DEF Arguments
      <4>5. Installed'
        BY <1>5, <3>2, <4>1, <4>2 DEF Installed
      <4> QED BY <4>4, <4>5
    <3>4. CASE /\ setPc'[t] = "assign" /\ setKind[t] = "callback" /\ onFrame' = NULL
               /\ globalRefs' = globalRefs \ {mFrameCallbackObj}
      <4>1. Replacing(t)' /\ ~LookingUp(t)' /\ (Pending(t)' <=> Pending(t))
        BY <1>1, <3>1, <3>4 DEF Pending, Replacing, LookingUp
      <4>2. \A u \in CALLER : Pending(u) => setArg[u] # mFrameCallbackObj
        BY <1>5, <3>1 DEF Arguments
      <4>3. Arguments'
        BY <1>1, <1>3, <3>2, <3>4, <4>1, <4>2 DEF Arguments
      <4>4. Installed'
        BY <1>5, <3>4, <4>1 DEF Installed
      <4> QED BY <4>3, <4>4
    <3>5. CASE setPc'[t] = "assign" /\ setKind[t] = "display" /\ UNCHANGED callback
      <4>1. ~Replacing(t)' /\ ~LookingUp(t)' /\ ~Pending(t)'
        BY <1>1, <3>5 DEF Pending, Replacing, LookingUp
      <4>2. UNCHANGED <<mFrameCallbackObj, onFrame, globalRefs>>
        BY <3>5 DEF callback
      <4>3. \A u \in CALLER : Pending(u)' => Pending(u) /\ u # t
        BY <1>3, <4>1
      <4>4. Arguments'
        BY <1>1, <1>3, <1>5, <3>1, <4>1, <4>2, <4>3 DEF Arguments
      <4>5. Installed'
        BY <1>5, <3>2, <4>1, <4>2 DEF Installed
      <4> QED BY <4>4, <4>5
    <3> QED BY <1>0, <2>2, <3>3, <3>4, <3>5 DEF setterDrop, SetterGoes
  <2>3. CASE setterAssign(t)
    <3>1. setPc[t] = "assign" /\ ~LookingUp(t)
      BY <2>3 DEF setterAssign, LookingUp
    <3>2. ~Pending(t)' /\ ~Replacing(t)' /\ UNCHANGED <<onFrame, globalRefs>>
      BY <1>0, <1>1, <2>3 DEF setterAssign, SetterGoes, Pending, Replacing, callback
    <3>3. \A u \in CALLER : Pending(u)' => Pending(u) /\ u # t
      BY <1>3, <3>2
    <3>4. CASE setKind[t] = "callback" /\ mFrameCallbackObj' = setArg[t]
      <4>1. Replacing(t) /\ onFrame = NULL
        BY <3>1, <3>4 DEF Replacing, Installed
      <4>2. CASE setArg[t] # NULL
        <5>1. Pending(t) /\ setPc'[t] = "method"
          BY <1>0, <2>3, <3>1, <3>4, <4>2 DEF setterAssign, SetterGoes, Pending
        <5>2. setArg[t] \in globalRefs
          BY <5>1 DEF Arguments
        <5>3. \A u \in CALLER : Pending(u)' => setArg[u] # setArg[t]
          BY <3>3, <5>1 DEF Arguments
        <5>4. Arguments'
          BY <1>1, <3>2, <3>3, <3>4, <5>3 DEF Arguments
        <5>5. LookingUp(t)'
          BY <1>1, <3>4, <5>1 DEF LookingUp
        <5>6. Installed'
          BY <1>1, <1>5, <3>2, <3>4, <4>1, <5>2, <5>5 DEF Installed
        <5> QED BY <5>4, <5>6
      <4>3. CASE setArg[t] = NULL
        <5>1. ~LookingUp(t)'
          BY <1>0, <2>3, <4>3 DEF setterAssign, SetterGoes, LookingUp
        <5>2. \A u \in CALLER : Pending(u) => setArg[u] # NULL
          BY DEF Pending
        <5>3. Arguments'
          BY <1>1, <3>2, <3>3, <3>4, <4>3, <5>2 DEF Arguments
        <5>4. Installed'
          BY <1>5, <3>2, <3>4, <4>1, <4>3, <5>1 DEF Installed
        <5> QED BY <5>3, <5>4
      <4> QED BY <4>2, <4>3
    <3>5. CASE setKind[t] = "display" /\ UNCHANGED mFrameCallbackObj
      <4>1. ~Replacing(t) /\ ~LookingUp(t)'
        BY <1>1, <3>5 DEF Replacing, LookingUp
      <4>2. Arguments'
        BY <1>1, <1>5, <3>2, <3>3, <3>5, <4>1 DEF Arguments
      <4>3. Installed'
        BY <1>5, <3>1, <3>2, <3>5, <4>1 DEF Installed
      <4> QED BY <4>2, <4>3
    <3> QED BY <2>3, <3>4, <3>5 DEF setterAssign, callback
  <2>4. CASE setterMethod(t)
    <3>1. LookingUp(t) /\ ~Replacing(t) /\ ~LookingUp(t)' /\ ~Replacing(t)' /\ ~Pending(t)'
      BY <1>0, <1>1, <2>4 DEF setterMethod, SetterGoes, Pending, Replacing, LookingUp
    <3>2. setArg[t] = mFrameCallbackObj /\ onFrame = NULL /\ setArg[t] # NULL
      BY <1>0, <3>1 DEF Installed, LookingUp
    <3>3. \A u \in CALLER : Pending(u)' => Pending(u)
      BY <1>3, <3>1
    <3>4. CASE onFrame' = setArg[t] /\ UNCHANGED <<mFrameCallbackObj, globalRefs>>
      <4>1. Arguments'
        BY <1>1, <1>5, <3>1, <3>3, <3>4 DEF Arguments
      <4>2. Installed'
        BY <1>5, <3>1, <3>2, <3>4 DEF Installed
      <4> QED BY <4>1, <4>2
    <3>5. CASE /\ globalRefs' = globalRefs \ {setArg[t]} /\ mFrameCallbackObj' = NULL
               /\ UNCHANGED onFrame
      <4>1. \A u \in CALLER : Pending(u) => setArg[u] # setArg[t] /\ setArg[u] # NULL
        BY <1>5, <3>1, <3>2 DEF Arguments, Pending
      <4>2. Arguments'
        BY <1>1, <3>3, <3>5, <4>1 DEF Arguments
      <4>3. Installed'
        BY <1>5, <3>1, <3>2, <3>5 DEF Installed
      <4> QED BY <4>2, <4>3
    <3> QED BY <2>4, <3>4, <3>5 DEF setterMethod
  <2>5. CASE setterReset(t) \/ setterFormat(t)
    <3>1. /\ ~LookingUp(t) /\ ~Replacing(t) /\ ~LookingUp(t)' /\ ~Replacing(t)'
          /\ ~Pending(t)' /\ UNCHANGED <<mFrameCallbackObj, onFrame, globalRefs>>
      BY <1>0, <1>1, <2>5 DEF setterReset, setterFormat, SetterGoes, Pending, Replacing,
         LookingUp
    <3>2. \A u \in CALLER : Pending(u)' => Pending(u)
      BY <1>3, <3>1
    <3>3. Arguments'
      BY <1>1, <1>5, <3>1, <3>2 DEF Arguments
    <3>4. Installed'
      BY <1>5, <3>1 DEF Installed
    <3> QED BY <3>3, <3>4
  <2> QED BY <2>1, <2>2, <2>3, <2>4, <2>5 DEF SetterStep
<1> QED BY <1>6, <1>7

(* Nothing is installed at first.                                          *)
LEMMA InitWhole == Init => Whole
<1> SUFFICES ASSUME Init PROVE Whole
  OBVIOUS
<1>1. \A t \in CALLER : setPc[t] = "idle" /\ setArg[t] = NULL
  BY DEF Init
<1>2. Mutex
  BY <1>1, NullAssumption DEF Init, Mutex, Locked
<1>3. Arguments /\ Installed
  BY <1>1 DEF Init, Arguments, Installed, Pending, Replacing, LookingUp
<1> QED BY <1>2, <1>3 DEF Whole

(* Every step keeps the callback whole.                                    *)
LEMMA NextWhole == TypeOK /\ Whole /\ [Next]_vars => Whole'
<1> SUFFICES ASSUME TypeOK, Whole, [Next]_vars PROVE Whole'
  OBVIOUS
<1>1. CASE UNCHANGED vars
  <2>1. Aside
    BY <1>1 DEF vars, setVars, callback, Aside, Woken
  <2> QED BY <2>1, AsideWhole
<1>2. CASE stopPreview
  <2>1. /\ Main \in CALLER /\ setPc[Main] = "idle"
        /\ setPc' = [setPc EXCEPT ![Main] = "enter"]
        /\ setKind' = [setKind EXCEPT ![Main] = "callback"]
        /\ setArg' = [setArg EXCEPT ![Main] = NULL]
        /\ UNCHANGED <<mFrameCallbackObj, onFrame, globalRefs, capture_mutex>>
    BY <1>2, MainAssumption DEF stopPreview, callback
  <2>2. globalRefs' = globalRefs \cup ({NULL} \ {NULL})
    BY <2>1
  <2> QED BY <2>1, <2>2, CallWhole
<1>3. ASSUME NEW t \in CALLER, NEW kind \in {"callback", "display"},
             NEW arg \in CALLBACK \cup WINDOW \cup {NULL}, callSetter(t, kind, arg)
      PROVE  Whole'
  <2>1. /\ setPc[t] = "idle" /\ setPc' = [setPc EXCEPT ![t] = "enter"]
        /\ setKind' = [setKind EXCEPT ![t] = kind]
        /\ setArg' = [setArg EXCEPT ![t] = arg]
        /\ UNCHANGED <<mFrameCallbackObj, onFrame, capture_mutex>>
        /\ IF kind = "callback"
           THEN /\ arg \in (CALLBACK \ globalRefs) \cup {NULL}
                /\ globalRefs' = globalRefs \cup ({arg} \ {NULL})
           ELSE UNCHANGED globalRefs
    BY <1>3 DEF callSetter, SetterGoes
  <2> QED BY <2>1, CallWhole
<1>4. ASSUME NEW t \in CALLER, SetterStep(t) PROVE Whole'
  BY <1>4, SetterWhole
<1>5. CASE /\ Next /\ ~stopPreview /\ \A t \in CALLER : ~SetterStep(t)
           /\ \A t \in CALLER, kind \in {"callback", "display"},
                 arg \in CALLBACK \cup WINDOW \cup {NULL} : ~callSetter(t, kind, arg)
  BY <1>5, AsideStep, AsideWhole
<1> QED BY <1>1, <1>2, <1>3, <1>4, <1>5

(* Whenever no setter is at work, the method belongs to the object, and    *)
(* the object and every reference on its way are alive, for any number of  *)
(* threads, callbacks, windows and calls.                                  *)
THEOREM CallbackIsWhole == Spec => []CallbackWhole
<1>1. TypeOK /\ Whole => CallbackWhole
  <2> SUFFICES ASSUME TypeOK, Whole, MutexFree
               PROVE  /\ onFrame = mFrameCallbackObj
                      /\ ({mFrameCallbackObj}
                            \cup {setArg[t] : t \in {u \in CALLER : setPc[u] # "idle"}})
                         \cap CALLBACK \subseteq globalRefs
    BY DEF CallbackWhole
  <2>1. \A t \in CALLER : setPc[t] \notin Locked /\ ~Replacing(t) /\ ~LookingUp(t)
    BY Nobody DEF Whole
  <2>2. /\ onFrame = mFrameCallbackObj
        /\ mFrameCallbackObj # NULL => mFrameCallbackObj \in globalRefs
    BY <2>1 DEF Whole, Installed
  <2>3. ASSUME NEW t \in CALLER, setPc[t] # "idle", setArg[t] \in CALLBACK
        PROVE  setArg[t] \in globalRefs
    <3>1. setPc[t] \in {"enter", "blocked", "woken"}
      BY <2>1, <2>3 DEF TypeOK, SettersOK, SetPc, Locked
    <3>2. setKind[t] = "callback" /\ setArg[t] # NULL
      BY <2>3, NullAssumption, RolesAssumption DEF TypeOK, SettersOK
    <3> QED BY <3>1, <3>2 DEF Whole, Arguments, Pending
  <2> QED BY <2>2, <2>3, NullAssumption
<1>2. Spec => []Whole
  BY InitWhole, NextWhole, TypeCorrect, PTL DEF Spec
<1> QED BY <1>1, <1>2, TypeCorrect, PTL
=========================================================================

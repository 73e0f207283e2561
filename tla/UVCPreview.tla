---------------------------- MODULE UVCPreview ----------------------------
(***************************************************************************)
(* The native preview engine, UVCPreview.cpp.  Four kinds of threads:      *)
(*   - callers: Java threads that change the frame callback or the capture *)
(*     surface; one of them, Main, also starts and stops the preview;      *)
(*   - the stream thread of libuvc, which runs the frame callback;         *)
(*   - the preview thread (draws) and the capture threads (call back).     *)
(* A step is what a thread does between two points where another thread    *)
(* can interfere: a critical section that does not wait is one step, an    *)
(* unlocked read or write of a shared flag is a step of its own.  Frames   *)
(* are identities without pixels; a finite FRAME plays the memory, so an   *)
(* empty heap is a failed allocation.  pthread_cond_wait is the pc         *)
(* "blocked", a wake-up moves the thread to "woken", where it waits for    *)
(* the mutex.                                                              *)
(***************************************************************************)
EXTENDS Naturals, Integers, FiniteSets, SequencesExt

CONSTANTS
    FRAME,          \* uvc_frame_t objects the process can allocate
    CAPTURE,        \* pthread identities a capture thread can get
    CALLER, Main,   \* Java threads calling the setters; Main starts and stops
    CALLBACK,       \* IFrameCallback global references
    WINDOW,         \* ANativeWindow objects given to setCaptureDisplay
    NULL,
    MODES,          \* frame modes the application requests
    FORMATS,        \* pixel formats, as whether the callback needs a conversion
    MAX_FRAME,      \* capacity of previewFrames
    MaxSessions,    \* bound: how often startPreview is called
    MaxSets,        \* bound: how often a setter is called (stop's call apart)
    Spurious        \* whether a condition wait may end without a signal

ASSUME MainAssumption == Main \in CALLER
ASSUME NullAssumption == NULL \notin FRAME \cup CAPTURE \cup CALLER \cup CALLBACK \cup WINDOW
ASSUME RolesAssumption == CALLBACK \cap WINDOW = {}
ASSUME ModesAssumption == MODES \subseteq {"yuyv", "mjpeg"} /\ MODES # {}
ASSUME FormatsAssumption == FORMATS \subseteq BOOLEAN /\ FORMATS # {}
ASSUME BoundsAssumption == /\ MAX_FRAME \in Nat \ {0}
                           /\ MaxSessions \in Nat
                           /\ MaxSets \in Nat
                           /\ Spurious \in BOOLEAN

FRAME_POOL_SZ == MAX_FRAME + 2

VARIABLES
    mIsRunning, mIsCapturing,         \* volatile flags, read without a lock
    mPreviewWindow,                   \* whether a preview window is set
    frameMode,
    mFramePool, heap,                 \* the pool; memory not allocated
    previewFrames, captureQueu,
    mCaptureWindow, windowRefs,       \* references this code holds per window
    mFrameCallbackObj, onFrame,
    mPixelFormat, mFrameCallbackFunc, \* whether they ask for a conversion
    globalRefs,                       \* callback references not yet deleted
    capture_mutex,                    \* the setter that holds it, or NULL
    capture_thread,                   \* the handle; NULL: never assigned
    appPc, sessions, sets,
    setPc, setKind, setArg,           \* setFrameCallback / setCaptureDisplay
    streamPc, streamFrame,
    previewPc, pvFrame, pvConv,
    capPc, capSurface, capFrame, capConv, capCb,
    overtaken,                        \* some stop joined no capture thread
    aborted                           \* the process has crashed

flags    == <<mIsRunning, mIsCapturing>>
memory   == <<mFramePool, heap>>
queues   == <<previewFrames, captureQueu>>
window   == <<mCaptureWindow, windowRefs>>
format   == <<mPixelFormat, mFrameCallbackFunc>>
callback == <<mFrameCallbackObj, onFrame, format, globalRefs>>
appVars  == <<appPc, sessions, sets, mPreviewWindow, capture_thread, overtaken>>
setVars  == <<setPc, setKind, setArg>>
setData  == <<setKind, setArg>>
strVars  == <<streamPc, streamFrame>>
pvData   == <<pvFrame, pvConv, frameMode>>
pvVars   == <<previewPc, pvFrame, pvConv, frameMode>>
capData  == <<capSurface, capFrame, capConv, capCb>>
capVars  == <<capPc, capSurface, capFrame, capConv, capCb>>
vars == <<flags, memory, queues, window, callback, capture_mutex, appVars,
          setVars, strVars, pvVars, capVars, aborted>>

Init ==
    /\ mIsRunning = FALSE /\ mIsCapturing = FALSE
    /\ mPreviewWindow = FALSE /\ frameMode \in MODES
    /\ mFramePool = <<>> /\ heap = FRAME
    /\ previewFrames = <<>> /\ captureQueu = NULL
    /\ mCaptureWindow = NULL /\ windowRefs = [w \in WINDOW |-> 0]
    /\ mFrameCallbackObj = NULL /\ onFrame = NULL /\ globalRefs = {}
    /\ mFrameCallbackFunc = FALSE
    /\ mPixelFormat \in FORMATS     \* never initialized: any value
    /\ capture_mutex = NULL /\ capture_thread = NULL
    /\ appPc = "idle" /\ sessions = 0 /\ sets = 0
    /\ setPc = [t \in CALLER |-> "idle"]
    /\ setKind = [t \in CALLER |-> "callback"]
    /\ setArg = [t \in CALLER |-> NULL]
    /\ streamPc = "off" /\ streamFrame = NULL
    /\ previewPc = "none" /\ pvFrame = NULL /\ pvConv = NULL
    /\ capPc = [c \in CAPTURE |-> "none"]
    /\ capSurface = [c \in CAPTURE |-> FALSE]
    /\ capFrame = [c \in CAPTURE |-> NULL]
    /\ capConv = [c \in CAPTURE |-> NULL]
    /\ capCb = [c \in CAPTURE |-> NULL]
    /\ overtaken = FALSE /\ aborted = FALSE

-----------------------------------------------------------------------------
(* The frame pool.                                                         *)

\* f is the frame get_frame returns: the pool's last one, a new one, or NULL.
get_frame(f) ==
    \/ /\ mFramePool # <<>>
       /\ f = Last(mFramePool)
       /\ mFramePool' = Front(mFramePool)
       /\ UNCHANGED heap
    \/ /\ mFramePool = <<>>
       /\ f \in heap
       /\ heap' = heap \ {f}
       /\ UNCHANGED mFramePool
    \/ /\ mFramePool = <<>>
       /\ heap = {}
       /\ f = NULL
       /\ UNCHANGED memory

\* Give back the frames of q in order: what does not fit the pool is freed.
recycle_frames(q) ==
    LET room == FRAME_POOL_SZ - Len(mFramePool)
        kept == IF Len(q) < room THEN Len(q) ELSE room
    IN  /\ mFramePool' = mFramePool \o SubSeq(q, 1, kept)
        /\ heap' = heap \cup {q[i] : i \in kept + 1 .. Len(q)}

recycle_frame(f) == recycle_frames(<<f>>)

-----------------------------------------------------------------------------
(* Condition variables.  preview_sync has one possible waiter, the preview *)
(* thread; capture threads and setters wait on capture_sync.               *)

signal_preview_sync ==
    previewPc' = IF previewPc = "blocked" THEN "woken" ELSE previewPc

\* pthread_cond_signal wakes one waiter, if there is one.  sp is setPc with
\* what the calling setter changes itself.
signal_capture_sync(sp) ==
    \/ \E c \in CAPTURE :
        /\ capPc[c] = "blocked"
        /\ capPc' = [capPc EXCEPT ![c] = "woken"]
        /\ setPc' = sp
    \/ \E t \in CALLER :
        /\ setPc[t] = "blocked"
        /\ setPc' = [sp EXCEPT ![t] = "woken"]
        /\ UNCHANGED capPc
    \/ /\ \A c \in CAPTURE : capPc[c] # "blocked"
       /\ \A t \in CALLER : setPc[t] # "blocked"
       /\ setPc' = sp
       /\ UNCHANGED capPc

AllWoken(pc) == [t \in DOMAIN pc |-> IF pc[t] = "blocked" THEN "woken" ELSE pc[t]]

MutexFree == capture_mutex = NULL

-----------------------------------------------------------------------------
(* Main: setPreviewDisplay, startPreview, stopPreview.  UVCCamera.java     *)
(* makes them synchronized, so they never overlap.                         *)

setPreviewDisplay ==
    /\ appPc = "idle" /\ setPc[Main] = "idle"
    /\ sets < MaxSets
    /\ sets' = sets + 1
    /\ mPreviewWindow' = ~mPreviewWindow
    /\ UNCHANGED <<flags, memory, queues, window, callback, capture_mutex, appPc,
                   sessions, capture_thread, overtaken, setVars, strVars,
                   pvVars, capVars, aborted>>

startPreview ==
    /\ appPc = "idle" /\ setPc[Main] = "idle"
    /\ ~mIsRunning
    /\ sessions < MaxSessions
    /\ sessions' = sessions + 1
    /\ mIsRunning' = TRUE
    /\ appPc' = "starting"
    /\ UNCHANGED <<mIsCapturing, memory, queues, window, callback, capture_mutex,
                   sets, mPreviewWindow, capture_thread, overtaken, setVars,
                   strVars, pvVars, capVars, aborted>>

\* pthread_create for the preview thread.  Without a window, or when the call
\* fails, the flag is taken back.
createPreviewThread ==
    /\ appPc = "starting"
    /\ appPc' = "idle"
    /\ \/ /\ mPreviewWindow
          /\ previewPc' = "prepare"
          /\ UNCHANGED mIsRunning
       \/ /\ mIsRunning' = FALSE
          /\ signal_preview_sync
    /\ UNCHANGED <<mIsCapturing, memory, queues, window, callback, capture_mutex,
                   sessions, sets, mPreviewWindow, capture_thread, overtaken,
                   setVars, strVars, pvData, capVars, aborted>>

\* UVCCamera.java's stopPreview first calls setFrameCallback(null, 0).
stopPreview ==
    /\ appPc = "idle" /\ setPc[Main] = "idle"
    /\ sessions > 0
    /\ appPc' = "unset"
    /\ setPc' = [setPc EXCEPT ![Main] = "enter"]
    /\ setKind' = [setKind EXCEPT ![Main] = "callback"]
    /\ setArg' = [setArg EXCEPT ![Main] = NULL]
    /\ UNCHANGED <<flags, memory, queues, window, callback, capture_mutex, sessions,
                   sets, mPreviewWindow, capture_thread, overtaken, strVars, pvVars,
                   capVars, aborted>>

stopRunning ==
    /\ appPc = "unset" /\ setPc[Main] = "idle"
    /\ mIsRunning' = FALSE
    /\ appPc' = IF mIsRunning THEN "signalPreview" ELSE "clear"
    /\ UNCHANGED <<mIsCapturing, memory, queues, window, callback, capture_mutex,
                   sessions, sets, mPreviewWindow, capture_thread, overtaken, setVars,
                   strVars, pvVars, capVars, aborted>>

\* Neither signal is sent with the mutex of its condition held.
signalPreview ==
    /\ appPc = "signalPreview"
    /\ appPc' = "signalCapture"
    /\ signal_preview_sync
    /\ UNCHANGED <<flags, memory, queues, window, callback, capture_mutex, sessions,
                   sets, mPreviewWindow, capture_thread, overtaken, setVars, strVars,
                   pvData, capVars, aborted>>

signalCapture ==
    /\ appPc = "signalCapture"
    /\ appPc' = "joinCapture"
    /\ signal_capture_sync(setPc)
    /\ UNCHANGED <<flags, memory, queues, window, callback, capture_mutex, sessions,
                   sets, mPreviewWindow, capture_thread, overtaken, setData, strVars,
                   pvVars, capData, aborted>>

\* Faulty variant: the capture thread is not waited for.
joinCapture_NoWait ==
    /\ appPc = "joinCapture"
    /\ capture_thread # NULL /\ capPc[capture_thread] # "none"
    /\ appPc' = "joinPreview"
    /\ UNCHANGED <<flags, memory, queues, window, callback, capture_mutex, sessions,
                   sets, mPreviewWindow, capture_thread, overtaken, setVars, strVars,
                   pvVars, capVars, aborted>>

joinCapture ==
    /\ appPc = "joinCapture"
    /\ capture_thread # NULL /\ capPc[capture_thread] = "exited"
    /\ capPc' = [capPc EXCEPT ![capture_thread] = "none"]
    /\ appPc' = "joinPreview"
    /\ UNCHANGED <<flags, memory, queues, window, callback, capture_mutex, sessions,
                   sets, mPreviewWindow, capture_thread, overtaken, setVars, strVars,
                   pvVars, capData, aborted>>

\* The handle names no thread that can be joined: it was never assigned or its
\* thread has been joined.  The C library reports an error or aborts.
joinNoCapture ==
    /\ appPc = "joinCapture"
    /\ \/ capture_thread = NULL
       \/ capture_thread # NULL /\ capPc[capture_thread] = "none"
    /\ \/ appPc' = "joinPreview" /\ UNCHANGED aborted
       \/ aborted' = TRUE /\ UNCHANGED appPc
    /\ overtaken' = TRUE
    /\ UNCHANGED <<flags, memory, queues, window, callback, capture_mutex, sessions,
                   sets, mPreviewWindow, capture_thread, setVars, strVars, pvVars,
                   capVars>>

\* Faulty variant: the preview thread is detached, not joined.
joinPreview_Detached ==
    /\ appPc = "joinPreview"
    /\ appPc' = "clear"
    /\ UNCHANGED <<flags, memory, queues, window, callback, capture_mutex, sessions,
                   sets, mPreviewWindow, capture_thread, overtaken, setVars, strVars,
                   pvVars, capVars, aborted>>

joinPreview ==
    /\ appPc = "joinPreview"
    /\ previewPc = "exited"
    /\ previewPc' = "none"
    /\ appPc' = "clear"
    /\ UNCHANGED <<flags, memory, queues, window, callback, capture_mutex, sessions,
                   sets, mPreviewWindow, capture_thread, overtaken, setVars, strVars,
                   pvData, capVars, aborted>>

\* clearPreviewFrame
stopClearPreview ==
    /\ appPc = "clear"
    /\ recycle_frames(previewFrames)
    /\ previewFrames' = <<>>
    /\ appPc' = "clearCapture"
    /\ UNCHANGED <<flags, captureQueu, window, callback, capture_mutex, sessions, sets,
                   mPreviewWindow, capture_thread, overtaken, setVars, strVars, pvVars,
                   capVars, aborted>>

ClearCaptureQueue ==
    /\ IF captureQueu = NULL THEN UNCHANGED memory ELSE recycle_frame(captureQueu)
    /\ captureQueu' = NULL

\* Drop the reference mCaptureWindow holds.
ReleaseCaptureWindow ==
    IF mCaptureWindow = NULL
    THEN UNCHANGED window
    ELSE /\ windowRefs' = [windowRefs EXCEPT ![mCaptureWindow] = @ - 1]
         /\ mCaptureWindow' = NULL

stopClearCapture ==
    /\ appPc = "clearCapture"
    /\ MutexFree
    /\ ClearCaptureQueue
    /\ appPc' = "release"
    /\ UNCHANGED <<flags, previewFrames, window, callback, capture_mutex, sessions,
                   sets, mPreviewWindow, capture_thread, overtaken, setVars, strVars,
                   pvVars, capVars, aborted>>

stopReleaseWindows ==
    /\ appPc = "release"
    /\ MutexFree
    /\ ReleaseCaptureWindow
    /\ mPreviewWindow' = FALSE
    /\ appPc' = "idle"
    /\ UNCHANGED <<flags, memory, queues, callback, capture_mutex, sessions, sets,
                   capture_thread, overtaken, setVars, strVars, pvVars, capVars, aborted>>

AppStep ==
    \/ createPreviewThread \/ stopRunning \/ signalPreview \/ signalCapture
    \/ joinCapture \/ joinNoCapture \/ joinPreview
    \/ stopClearPreview \/ stopClearCapture \/ stopReleaseWindows

-----------------------------------------------------------------------------
(* setFrameCallback and setCaptureDisplay.  The mutex is held from "enter" *)
(* to the end, except while the setter waits.                              *)

SetterGoes(t, pc) == setPc' = [setPc EXCEPT ![t] = pc]

\* A Java thread calls a setter: JNI makes a global reference, or acquires the
\* window, for the argument.
callSetter(t, kind, arg) ==
    /\ setPc[t] = "idle" /\ (t = Main => appPc = "idle")
    /\ sets < MaxSets
    /\ sets' = sets + 1
    /\ \/ /\ kind = "callback" /\ arg \in (CALLBACK \ globalRefs) \cup {NULL} /\ CALLBACK # {}
          /\ globalRefs' = globalRefs \cup ({arg} \ {NULL})
          /\ UNCHANGED windowRefs
       \/ /\ kind = "display" /\ arg \in WINDOW \cup {NULL} /\ WINDOW # {}
          /\ windowRefs' = [w \in WINDOW |-> windowRefs[w] + (IF w = arg THEN 1 ELSE 0)]
          /\ UNCHANGED globalRefs
    /\ SetterGoes(t, "enter")
    /\ setKind' = [setKind EXCEPT ![t] = kind]
    /\ setArg' = [setArg EXCEPT ![t] = arg]
    /\ UNCHANGED <<flags, memory, queues, mCaptureWindow, mFrameCallbackObj, onFrame,
                   format, capture_mutex, appPc, sessions, mPreviewWindow,
                   capture_thread, overtaken, strVars, pvVars, capVars, aborted>>

Current(kind) == IF kind = "callback" THEN mFrameCallbackObj ELSE mCaptureWindow

\* Stop a capture in progress and, if something is installed, wait for it.
setterEnter(t) ==
    /\ setPc[t] = "enter"
    /\ MutexFree
    /\ capture_mutex' = t
    /\ IF mIsRunning /\ mIsCapturing
       THEN /\ mIsCapturing' = FALSE
            /\ SetterGoes(t, IF Current(setKind[t]) # NULL THEN "wait" ELSE "swap")
       ELSE /\ UNCHANGED mIsCapturing
            /\ SetterGoes(t, "swap")
    /\ UNCHANGED <<mIsRunning, memory, queues, window, callback, appVars, setData,
                   strVars, pvVars, capVars, aborted>>

\* Faulty variant: the mutex stays locked during the wait.
setterWait_Locked(t) ==
    /\ setPc[t] = "wait"
    /\ UNCHANGED capture_mutex
    /\ signal_capture_sync([setPc EXCEPT ![t] = "blocked"])
    /\ UNCHANGED <<flags, memory, queues, window, callback, appVars, setData, strVars,
                   pvVars, capData, aborted>>

setterWait(t) ==
    /\ setPc[t] = "wait"
    /\ capture_mutex' = NULL
    /\ signal_capture_sync([setPc EXCEPT ![t] = "blocked"])
    /\ UNCHANGED <<flags, memory, queues, window, callback, appVars, setData, strVars,
                   pvVars, capData, aborted>>

setterWoken(t) ==
    /\ setPc[t] = "woken"
    /\ MutexFree
    /\ capture_mutex' = t
    /\ SetterGoes(t, "swap")
    /\ UNCHANGED <<flags, memory, queues, window, callback, appVars, setData, strVars,
                   pvVars, capVars, aborted>>

\* IsSameObject compares the Java objects: two references may be to the same one.
MayBeInstalled(t) ==
    \/ Current(setKind[t]) = setArg[t]
    \/ setKind[t] = "callback" /\ mFrameCallbackObj # NULL /\ setArg[t] # NULL

\* Drop what is installed, unless it is the argument: then only the pixel format
\* of a callback is new, and the reference made for the call stays for ever.
setterDrop(t) ==
    /\ setPc[t] = "swap"
    /\ \/ /\ MayBeInstalled(t)
          /\ IF setKind[t] = "callback" /\ setArg[t] # NULL
             THEN SetterGoes(t, "reset") /\ UNCHANGED capture_mutex
             ELSE SetterGoes(t, "idle") /\ capture_mutex' = NULL
          /\ UNCHANGED <<window, callback>>
       \/ /\ Current(setKind[t]) # setArg[t]
          /\ SetterGoes(t, "assign")
          /\ UNCHANGED capture_mutex
          /\ \/ /\ setKind[t] = "callback"
                /\ onFrame' = NULL
                /\ globalRefs' = globalRefs \ {mFrameCallbackObj}
                /\ UNCHANGED <<window, mFrameCallbackObj, format>>
             \/ /\ setKind[t] = "display"
                /\ windowRefs' = [w \in WINDOW |->
                      windowRefs[w] - (IF w = mCaptureWindow THEN 1 ELSE 0)]
                /\ UNCHANGED <<mCaptureWindow, callback>>
    /\ UNCHANGED <<flags, memory, queues, appVars, setData, strVars, pvVars, capVars,
                   aborted>>

\* Faulty variant: the method is looked up only when there was none before.
setterAssign_OldMethod(t) ==
    /\ setPc[t] = "assign"
    /\ \/ /\ setKind[t] = "callback"
          /\ mFrameCallbackObj' = setArg[t]
          /\ UNCHANGED <<window, onFrame, format, globalRefs>>
       \/ /\ setKind[t] = "display"
          /\ mCaptureWindow' = setArg[t]
          /\ UNCHANGED <<windowRefs, callback>>
    /\ IF setKind[t] = "callback" /\ setArg[t] # NULL /\ mFrameCallbackObj = NULL
       THEN SetterGoes(t, "method") /\ UNCHANGED capture_mutex
       ELSE SetterGoes(t, "idle") /\ capture_mutex' = NULL
    /\ UNCHANGED <<flags, memory, queues, appVars, setData, strVars, pvVars, capVars,
                   aborted>>

setterAssign(t) ==
    /\ setPc[t] = "assign"
    /\ \/ /\ setKind[t] = "callback"
          /\ mFrameCallbackObj' = setArg[t]
          /\ UNCHANGED <<window, onFrame, format, globalRefs>>
       \/ /\ setKind[t] = "display"
          /\ mCaptureWindow' = setArg[t]
          /\ UNCHANGED <<windowRefs, callback>>
    /\ IF setKind[t] = "callback" /\ setArg[t] # NULL
       THEN SetterGoes(t, "method") /\ UNCHANGED capture_mutex
       ELSE SetterGoes(t, "idle") /\ capture_mutex' = NULL
    /\ UNCHANGED <<flags, memory, queues, appVars, setData, strVars, pvVars, capVars,
                   aborted>>

\* Look up the method onFrame of the new callback.  When that fails nothing is
\* installed.
setterMethod(t) ==
    /\ setPc[t] = "method"
    /\ \/ /\ onFrame' = setArg[t]
          /\ SetterGoes(t, "reset")
          /\ UNCHANGED <<mFrameCallbackObj, globalRefs, capture_mutex>>
       \/ /\ globalRefs' = globalRefs \ {setArg[t]}
          /\ mFrameCallbackObj' = NULL
          /\ SetterGoes(t, "idle") /\ capture_mutex' = NULL
          /\ UNCHANGED onFrame
    /\ UNCHANGED <<flags, memory, queues, window, format, appVars, setData, strVars,
                   pvVars, capVars, aborted>>

\* callbackPixelFormatChanged first clears the conversion, then chooses it.
setterReset(t) ==
    /\ setPc[t] = "reset"
    /\ mPixelFormat' \in FORMATS
    /\ mFrameCallbackFunc' = FALSE
    /\ SetterGoes(t, "format")
    /\ UNCHANGED <<flags, memory, queues, window, mFrameCallbackObj, onFrame, globalRefs,
                   capture_mutex, appVars, setData, strVars, pvVars, capVars, aborted>>

setterFormat(t) ==
    /\ setPc[t] = "format"
    /\ mFrameCallbackFunc' = mPixelFormat
    /\ SetterGoes(t, "idle")
    /\ capture_mutex' = NULL
    /\ UNCHANGED <<flags, memory, queues, window, mFrameCallbackObj, onFrame,
                   mPixelFormat, globalRefs, appVars, setData, strVars, pvVars, capVars,
                   aborted>>

SetterStep(t) ==
    \/ setterEnter(t) \/ setterWait(t) \/ setterWoken(t)
    \/ setterDrop(t) \/ setterAssign(t) \/ setterMethod(t)
    \/ setterReset(t) \/ setterFormat(t)

-----------------------------------------------------------------------------
(* The stream thread: uvc_preview_frame_callback and addPreviewFrame.      *)

\* A complete frame arrived while running; the copy is taken from the pool.
uvc_preview_frame_callback ==
    /\ streamPc = "ready"
    /\ mIsRunning
    /\ \E f \in FRAME \cup {NULL} :
        /\ get_frame(f)
        /\ streamFrame' = f
        /\ streamPc' = IF f = NULL THEN "ready" ELSE "copied"
    /\ UNCHANGED <<flags, queues, window, callback, capture_mutex, appVars, setVars,
                   pvVars, capVars, aborted>>

\* Faulty variant: the frame queue has no limit.
queuePreviewFrame_NoLimit ==
    /\ mIsRunning
    /\ previewFrames' = Append(previewFrames, streamFrame)
    /\ signal_preview_sync
    /\ UNCHANGED memory

\* Faulty variant: the preview thread is not signalled.
queuePreviewFrame_NoSignal ==
    /\ mIsRunning /\ Len(previewFrames) < MAX_FRAME
    /\ previewFrames' = Append(previewFrames, streamFrame)
    /\ UNCHANGED <<memory, previewPc>>

queuePreviewFrame ==
    /\ mIsRunning /\ Len(previewFrames) < MAX_FRAME
    /\ previewFrames' = Append(previewFrames, streamFrame)
    /\ signal_preview_sync
    /\ UNCHANGED memory

\* Faulty variant: a frame that is not queued is not given back.
dropFrame_NoRecycle == UNCHANGED <<memory, previewFrames, previewPc>>

\* Faulty variant: the callback waits for room in the queue.
dropFrame_Wait == FALSE /\ UNCHANGED <<memory, previewFrames, previewPc>>

\* The copy goes back when uvc_duplicate_frame failed, the queue is full, or the
\* preview has been stopped meanwhile.
dropFrame ==
    /\ recycle_frame(streamFrame)
    /\ UNCHANGED <<previewFrames, previewPc>>

addPreviewFrame ==
    /\ streamPc = "copied"
    /\ queuePreviewFrame \/ dropFrame
    /\ streamPc' = "ready"
    /\ streamFrame' = NULL
    /\ UNCHANGED <<flags, captureQueu, window, callback, capture_mutex, appVars,
                   setVars, pvData, capVars, aborted>>

StreamStep == uvc_preview_frame_callback \/ addPreviewFrame

-----------------------------------------------------------------------------
(* The preview thread.                                                     *)

PreviewGoes(pc) == previewPc' = pc

\* Negotiate the format with the camera, which may fail.
prepare_preview ==
    /\ previewPc = "prepare"
    /\ \/ PreviewGoes("exited") /\ UNCHANGED frameMode
       \/ PreviewGoes("startStream") /\ frameMode' \in MODES
    /\ UNCHANGED <<flags, memory, queues, window, callback, capture_mutex, appVars,
                   setVars, strVars, pvFrame, pvConv, capVars, aborted>>

startStreaming ==
    /\ previewPc = "startStream"
    /\ \/ PreviewGoes("exited") /\ UNCHANGED streamPc
       \/ PreviewGoes("clear") /\ streamPc' = "ready"
    /\ UNCHANGED <<flags, memory, queues, window, callback, capture_mutex, appVars,
                   setVars, streamFrame, pvData, capVars, aborted>>

clearPreviewFrame ==
    /\ previewPc = "clear"
    /\ recycle_frames(previewFrames)
    /\ previewFrames' = <<>>
    /\ PreviewGoes("create")
    /\ UNCHANGED <<flags, captureQueu, window, callback, capture_mutex, appVars,
                   setVars, strVars, pvData, capVars, aborted>>

\* pthread_create for the capture thread; that it may fail is not looked at.
createCaptureThread ==
    /\ previewPc = "create"
    /\ PreviewGoes("loop")
    /\ \/ \E c \in CAPTURE :
            /\ capPc[c] = "none"
            /\ capPc' = [capPc EXCEPT ![c] = "clear"]
            /\ capture_thread' = c
       \/ UNCHANGED <<capPc, capture_thread>>
    /\ UNCHANGED <<flags, memory, queues, window, callback, capture_mutex, appPc,
                   sessions, sets, mPreviewWindow, overtaken, setVars, strVars,
                   pvData, capData, aborted>>

previewLoop ==
    /\ previewPc = "loop"
    /\ PreviewGoes(IF mIsRunning THEN "enter" ELSE "signal")
    /\ UNCHANGED <<flags, memory, queues, window, callback, capture_mutex, appVars,
                   setVars, strVars, pvData, capVars, aborted>>

\* waitPreviewFrame: wait once if the queue is empty, then take what there is.
waitPreviewFrame ==
    /\ previewPc \in {"enter", "woken"}
    /\ IF previewPc = "enter" /\ previewFrames = <<>>
       THEN PreviewGoes("blocked") /\ UNCHANGED <<previewFrames, pvFrame>>
       ELSE IF mIsRunning /\ previewFrames # <<>>
       THEN /\ pvFrame' = Head(previewFrames)
            /\ previewFrames' = Tail(previewFrames)
            /\ PreviewGoes(IF frameMode = "mjpeg" THEN "decode" ELSE "draw")
       ELSE PreviewGoes("loop") /\ UNCHANGED <<previewFrames, pvFrame>>
    /\ UNCHANGED <<flags, memory, captureQueu, window, callback, capture_mutex, appVars,
                   setVars, strVars, pvConv, frameMode, capVars, aborted>>

\* MJPEG: decode into another frame.  A failed allocation is not checked.
decodeFrame ==
    /\ previewPc = "decode"
    /\ \E f \in FRAME \cup {NULL} :
        /\ get_frame(f)
        /\ pvConv' = f
        /\ aborted' = (f = NULL)
    /\ PreviewGoes("decoded")
    /\ UNCHANGED <<flags, queues, window, callback, capture_mutex, appVars, setVars,
                   strVars, pvFrame, frameMode, capVars>>

\* Faulty variant: a frame that could not be decoded is drawn all the same.
decodedFrame_NoContinue ==
    /\ previewPc = "decoded"
    /\ \/ /\ recycle_frame(pvFrame)
          /\ pvFrame' = pvConv
       \/ /\ recycle_frames(<<pvFrame, pvConv>>)
          /\ pvFrame' = NULL
    /\ PreviewGoes("draw")
    /\ pvConv' = NULL
    /\ UNCHANGED <<flags, queues, window, callback, capture_mutex, appVars, setVars,
                   strVars, frameMode, capVars, aborted>>

\* The MJPEG frame is given back, and the decoded one too if decoding failed.
decodedFrame ==
    /\ previewPc = "decoded"
    /\ \/ /\ recycle_frame(pvFrame)
          /\ pvFrame' = pvConv
          /\ PreviewGoes("draw")
       \/ /\ recycle_frames(<<pvFrame, pvConv>>)
          /\ pvFrame' = NULL
          /\ PreviewGoes("loop")
    /\ pvConv' = NULL
    /\ UNCHANGED <<flags, queues, window, callback, capture_mutex, appVars, setVars,
                   strVars, frameMode, capVars, aborted>>

\* draw_preview_one: convert into a frame of the pool if there is a window.
draw_preview_one ==
    /\ previewPc = "draw"
    /\ IF mPreviewWindow
       THEN \E f \in FRAME \cup {NULL} :
              /\ get_frame(f)
              /\ pvConv' = f
              /\ PreviewGoes(IF f = NULL THEN "add" ELSE "drawn")
       ELSE PreviewGoes("add") /\ UNCHANGED <<memory, pvConv>>
    /\ UNCHANGED <<flags, queues, window, callback, capture_mutex, appVars, setVars,
                   strVars, pvFrame, frameMode, capVars, aborted>>

recycleDrawn ==
    /\ previewPc = "drawn"
    /\ recycle_frame(pvConv)
    /\ pvConv' = NULL
    /\ PreviewGoes("add")
    /\ UNCHANGED <<flags, queues, window, callback, capture_mutex, appVars, setVars,
                   strVars, pvFrame, frameMode, capVars, aborted>>

\* Faulty variant: the frame that the new one replaces is forgotten.
addCaptureFrame_Replaces ==
    /\ previewPc = "add"
    /\ MutexFree
    /\ IF mIsRunning
       THEN /\ captureQueu' = pvFrame
            /\ capPc' = AllWoken(capPc)
            /\ setPc' = AllWoken(setPc)
       ELSE UNCHANGED <<captureQueu, capPc, setPc>>
    /\ pvFrame' = NULL
    /\ PreviewGoes("loop")
    /\ UNCHANGED <<flags, memory, previewFrames, window, callback, capture_mutex,
                   appVars, setData, strVars, pvConv, frameMode, capData, aborted>>

\* Keep only the latest frame for capturing.  A frame that comes after the stop
\* is neither kept nor given back.
addCaptureFrame ==
    /\ previewPc = "add"
    /\ MutexFree
    /\ IF mIsRunning
       THEN /\ IF captureQueu = NULL THEN UNCHANGED memory ELSE recycle_frame(captureQueu)
            /\ captureQueu' = pvFrame
            /\ capPc' = AllWoken(capPc)
            /\ setPc' = AllWoken(setPc)
       ELSE UNCHANGED <<memory, captureQueu, capPc, setPc>>
    /\ pvFrame' = NULL
    /\ PreviewGoes("loop")
    /\ UNCHANGED <<flags, previewFrames, window, callback, capture_mutex, appVars,
                   setData, strVars, pvConv, frameMode, capData, aborted>>

previewSignalCapture ==
    /\ previewPc = "signal"
    /\ signal_capture_sync(setPc)
    /\ PreviewGoes("stopStream")
    /\ UNCHANGED <<flags, memory, queues, window, callback, capture_mutex, appVars,
                   setData, strVars, pvData, capData, aborted>>

\* Faulty variant: the preview thread ends without stopping the stream.
stopStreaming_Leaves ==
    /\ previewPc = "stopStream"
    /\ PreviewGoes("exited")
    /\ UNCHANGED <<flags, memory, queues, window, callback, capture_mutex, appVars,
                   setVars, strVars, pvData, capVars, aborted>>

\* uvc_stop_streaming returns when no frame callback is running.
stopStreaming ==
    /\ previewPc = "stopStream"
    /\ streamPc = "ready"
    /\ streamPc' = "off"
    /\ PreviewGoes("exited")
    /\ UNCHANGED <<flags, memory, queues, window, callback, capture_mutex, appVars,
                   setVars, streamFrame, pvData, capVars, aborted>>

PreviewStep ==
    \/ prepare_preview \/ startStreaming \/ clearPreviewFrame \/ createCaptureThread
    \/ previewLoop \/ waitPreviewFrame \/ decodeFrame \/ decodedFrame
    \/ draw_preview_one \/ recycleDrawn \/ addCaptureFrame
    \/ previewSignalCapture \/ stopStreaming

-----------------------------------------------------------------------------
(* A capture thread.                                                       *)

CaptureGoes(c, pc) == capPc' = [capPc EXCEPT ![c] = pc]

captureClear(c) ==
    /\ capPc[c] = "clear"
    /\ MutexFree
    /\ ClearCaptureQueue
    /\ CaptureGoes(c, "reset")
    /\ UNCHANGED <<flags, previewFrames, window, callback, capture_mutex, appVars,
                   setVars, strVars, pvVars, capData, aborted>>

\* callbackPixelFormatChanged again, without the mutex.
captureReset(c) ==
    /\ capPc[c] = "reset"
    /\ mFrameCallbackFunc' = FALSE
    /\ CaptureGoes(c, "format")
    /\ UNCHANGED <<flags, memory, queues, window, mFrameCallbackObj, onFrame,
                   mPixelFormat, globalRefs, capture_mutex, appVars, setVars, strVars,
                   pvVars, capData, aborted>>

captureFormat(c) ==
    /\ capPc[c] = "format"
    /\ mFrameCallbackFunc' = mPixelFormat
    /\ CaptureGoes(c, "top")
    /\ UNCHANGED <<flags, memory, queues, window, mFrameCallbackObj, onFrame,
                   mPixelFormat, globalRefs, capture_mutex, appVars, setVars, strVars,
                   pvVars, capData, aborted>>

\* do_capture: leave when stopped, else capture to the window or idle.
captureTop(c) ==
    /\ capPc[c] = "top"
    /\ CaptureGoes(c, IF mIsRunning THEN "begin" ELSE "exited")
    /\ UNCHANGED <<flags, memory, queues, window, callback, capture_mutex, appVars,
                   setVars, strVars, pvVars, capData, aborted>>

captureBegin(c) ==
    /\ capPc[c] = "begin"
    /\ mIsCapturing' = TRUE
    /\ CaptureGoes(c, "mode")
    /\ UNCHANGED <<mIsRunning, memory, queues, window, callback, capture_mutex,
                   appVars, setVars, strVars, pvVars, capData, aborted>>

captureMode(c) ==
    /\ capPc[c] = "mode"
    /\ capSurface' = [capSurface EXCEPT ![c] = mCaptureWindow # NULL]
    /\ CaptureGoes(c, "loop")
    /\ UNCHANGED <<flags, memory, queues, window, callback, capture_mutex, appVars,
                   setVars, strVars, pvVars, capFrame, capConv, capCb, aborted>>

\* do_capture_surface and do_capture_idle_loop have the same loop condition.
captureLoop(c) ==
    /\ capPc[c] = "loop"
    /\ CaptureGoes(c, IF mIsRunning /\ mIsCapturing THEN "enter"
                      ELSE IF capSurface[c] THEN "leaveSurface" ELSE "sync")
    /\ UNCHANGED <<flags, memory, queues, window, callback, capture_mutex, appVars,
                   setVars, strVars, pvVars, capData, aborted>>

\* Faulty variant: captureQueu keeps the frame that was taken.
waitCaptureFrame_Keeps(c) ==
    /\ capPc[c] \in {"enter", "woken"}
    /\ MutexFree
    /\ IF capPc[c] = "enter" /\ captureQueu = NULL
       THEN CaptureGoes(c, "blocked") /\ UNCHANGED capFrame
       ELSE IF mIsRunning /\ captureQueu # NULL
       THEN /\ capFrame' = [capFrame EXCEPT ![c] = captureQueu]
            /\ CaptureGoes(c, IF capSurface[c] THEN "surface" ELSE "callback")
       ELSE CaptureGoes(c, "loop") /\ UNCHANGED capFrame
    /\ UNCHANGED <<flags, memory, queues, window, callback, capture_mutex, appVars,
                   setVars, strVars, pvVars, capSurface, capConv, capCb, aborted>>

waitCaptureFrame(c) ==
    /\ capPc[c] \in {"enter", "woken"}
    /\ MutexFree
    /\ IF capPc[c] = "enter" /\ captureQueu = NULL
       THEN CaptureGoes(c, "blocked") /\ UNCHANGED <<captureQueu, capFrame>>
       ELSE IF mIsRunning /\ captureQueu # NULL
       THEN /\ capFrame' = [capFrame EXCEPT ![c] = captureQueu]
            /\ captureQueu' = NULL
            /\ CaptureGoes(c, IF capSurface[c] THEN "surface" ELSE "callback")
       ELSE CaptureGoes(c, "loop") /\ UNCHANGED <<captureQueu, capFrame>>
    /\ UNCHANGED <<flags, memory, previewFrames, window, callback, capture_mutex,
                   appVars, setVars, strVars, pvVars, capSurface, capConv, capCb,
                   aborted>>

\* Convert for the window; the converted frame is kept until the loop ends.
surfaceConvert(c) ==
    /\ capPc[c] = "surface"
    /\ IF mIsCapturing /\ capConv[c] = NULL
       THEN \E f \in FRAME \cup {NULL} :
              get_frame(f) /\ capConv' = [capConv EXCEPT ![c] = f]
       ELSE UNCHANGED <<memory, capConv>>
    /\ CaptureGoes(c, "callback")
    /\ UNCHANGED <<flags, queues, window, callback, capture_mutex, appVars, setVars,
                   strVars, pvVars, capSurface, capFrame, capCb, aborted>>

\* do_capture_callback: without a callback the frame is given back; with a
\* conversion a second frame is needed.
callbackCheck(c) ==
    /\ capPc[c] = "callback"
    /\ IF mFrameCallbackObj # NULL /\ mFrameCallbackFunc
       THEN \E f \in FRAME \cup {NULL} :
              /\ get_frame(f)
              /\ capCb' = [capCb EXCEPT ![c] = f]
              /\ CaptureGoes(c, IF f = NULL THEN "recycle" ELSE "convert")
       ELSE /\ CaptureGoes(c, IF mFrameCallbackObj = NULL THEN "recycle" ELSE "call")
            /\ UNCHANGED <<memory, capCb>>
    /\ UNCHANGED <<flags, queues, window, callback, capture_mutex, appVars, setVars,
                   strVars, pvVars, capSurface, capFrame, capConv, aborted>>

\* Faulty variant: the converted frame does not replace the one given back.
callbackConvert_NoHandover(c) ==
    /\ capPc[c] = "convert"
    /\ aborted' = ~mFrameCallbackFunc
    /\ recycle_frame(capFrame[c])
    /\ \E pc \in {"call", "recycle"} : CaptureGoes(c, pc)
    /\ UNCHANGED <<flags, queues, window, callback, capture_mutex, appVars, setVars,
                   strVars, pvVars, capSurface, capFrame, capConv, capCb>>

\* mFrameCallbackFunc is read again to convert: cleared meanwhile, it ends the
\* process.  The frame is given back; the converted one is called back unless
\* the conversion failed.
callbackConvert(c) ==
    /\ capPc[c] = "convert"
    /\ aborted' = ~mFrameCallbackFunc
    /\ recycle_frame(capFrame[c])
    /\ capFrame' = [capFrame EXCEPT ![c] = capCb[c]]
    /\ capCb' = [capCb EXCEPT ![c] = NULL]
    /\ \E pc \in {"call", "recycle"} : CaptureGoes(c, pc)
    /\ UNCHANGED <<flags, queues, window, callback, capture_mutex, appVars, setVars,
                   strVars, pvVars, capSurface, capConv>>

\* CallVoidMethod reads object and method again, without the mutex; a deleted
\* reference or a missing method ends the process.
CallSafe == mFrameCallbackObj \in globalRefs /\ onFrame # NULL

callOnFrame(c) ==
    /\ capPc[c] = "call"
    /\ aborted' = ~CallSafe
    /\ CaptureGoes(c, "recycle")
    /\ UNCHANGED <<flags, memory, queues, window, callback, capture_mutex, appVars,
                   setVars, strVars, pvVars, capData>>

callbackRecycle(c) ==
    /\ capPc[c] = "recycle"
    /\ recycle_frame(capFrame[c])
    /\ capFrame' = [capFrame EXCEPT ![c] = NULL]
    /\ CaptureGoes(c, "loop")
    /\ UNCHANGED <<flags, queues, window, callback, capture_mutex, appVars, setVars,
                   strVars, pvVars, capSurface, capConv, capCb, aborted>>

\* End of do_capture_surface: converted frame and window go, without the mutex.
leaveSurface(c) ==
    /\ capPc[c] = "leaveSurface"
    /\ IF capConv[c] = NULL THEN UNCHANGED memory ELSE recycle_frame(capConv[c])
    /\ capConv' = [capConv EXCEPT ![c] = NULL]
    /\ ReleaseCaptureWindow
    /\ CaptureGoes(c, "sync")
    /\ UNCHANGED <<flags, queues, callback, capture_mutex, appVars, setVars, strVars,
                   pvVars, capSurface, capFrame, capCb, aborted>>

captureSync(c) ==
    /\ capPc[c] = "sync"
    /\ capPc' = [AllWoken(capPc) EXCEPT ![c] = "top"]
    /\ setPc' = AllWoken(setPc)
    /\ UNCHANGED <<flags, memory, queues, window, callback, capture_mutex, appVars,
                   setData, strVars, pvVars, capData, aborted>>

CaptureStep(c) ==
    \/ captureClear(c) \/ captureReset(c) \/ captureFormat(c) \/ captureTop(c)
    \/ captureBegin(c) \/ captureMode(c)
    \/ captureLoop(c) \/ waitCaptureFrame(c) \/ surfaceConvert(c) \/ callbackCheck(c)
    \/ callbackConvert(c) \/ callOnFrame(c) \/ callbackRecycle(c) \/ leaveSurface(c)
    \/ captureSync(c)

-----------------------------------------------------------------------------
\* POSIX lets pthread_cond_wait return without a signal.
spuriousWakeup ==
    /\ Spurious
    /\ \/ /\ previewPc = "blocked"
          /\ PreviewGoes("woken")
          /\ UNCHANGED <<capPc, setPc>>
       \/ \E c \in CAPTURE :
          /\ capPc[c] = "blocked"
          /\ CaptureGoes(c, "woken")
          /\ UNCHANGED <<previewPc, setPc>>
       \/ \E t \in CALLER :
          /\ setPc[t] = "blocked"
          /\ SetterGoes(t, "woken")
          /\ UNCHANGED <<previewPc, capPc>>
    /\ UNCHANGED <<flags, memory, queues, window, callback, capture_mutex, appVars,
                   setData, strVars, pvData, capData, aborted>>

\* What the application decides to do.
UserStep ==
    \/ setPreviewDisplay \/ startPreview \/ stopPreview
    \/ \E t \in CALLER, kind \in {"callback", "display"},
          arg \in CALLBACK \cup WINDOW \cup {NULL} : callSetter(t, kind, arg)

Next ==
    /\ ~aborted
    /\ \/ UserStep \/ AppStep \/ StreamStep \/ PreviewStep \/ spuriousWakeup
       \/ \E t \in CALLER : SetterStep(t)
       \/ \E c \in CAPTURE : CaptureStep(c)

Spec == Init /\ [][Next]_vars

\* Every thread that can run does.  For the stream thread this says that the
\* camera keeps delivering frames and that copying them does not fail for ever.
\* Nobody owes a spurious wake-up.
Fairness ==
    /\ WF_vars(~aborted /\ AppStep)
    /\ WF_vars(~aborted /\ StreamStep)
    /\ SF_vars(~aborted /\ addPreviewFrame /\ queuePreviewFrame)
    /\ WF_vars(~aborted /\ PreviewStep)
    /\ \A t \in CALLER : WF_vars(~aborted /\ SetterStep(t))
    /\ \A c \in CAPTURE : WF_vars(~aborted /\ CaptureStep(c))

LiveSpec == Spec /\ Fairness
-----------------------------------------------------------------------------
(* Properties.                                                             *)

AppPc == {"idle", "starting", "unset", "signalPreview", "signalCapture",
          "joinCapture", "joinPreview", "clear", "clearCapture", "release"}
SetPc == {"idle", "enter", "wait", "blocked", "woken", "swap", "assign", "method",
          "reset", "format"}
PreviewPc == {"none", "prepare", "startStream", "clear", "create", "loop", "enter",
              "blocked", "woken", "decode", "decoded", "draw", "drawn", "add",
              "signal", "stopStream", "exited"}
CapPc == {"none", "clear", "reset", "format", "top", "begin", "mode", "loop", "enter", "blocked",
          "woken", "surface", "callback", "convert", "call", "recycle",
          "leaveSurface", "sync", "exited"}
FrameOrNull == FRAME \cup {NULL}

FlagsOK == mIsRunning \in BOOLEAN /\ mIsCapturing \in BOOLEAN
PoolOK == /\ mFramePool \in Seq(FRAME) /\ Len(mFramePool) <= FRAME_POOL_SZ
          /\ heap \subseteq FRAME
QueuesOK == /\ previewFrames \in Seq(FRAME) /\ Len(previewFrames) <= MAX_FRAME
            /\ captureQueu \in FrameOrNull
WindowOK == mCaptureWindow \in WINDOW \cup {NULL} /\ windowRefs \in [WINDOW -> Int]
CallbackOK == /\ mFrameCallbackObj \in CALLBACK \cup {NULL}
              /\ onFrame \in CALLBACK \cup {NULL}
              /\ mFrameCallbackFunc \in BOOLEAN /\ mPixelFormat \in BOOLEAN
              /\ globalRefs \subseteq CALLBACK
AppOK == /\ appPc \in AppPc /\ sessions \in 0 .. MaxSessions /\ sets \in 0 .. MaxSets
         /\ mPreviewWindow \in BOOLEAN /\ overtaken \in BOOLEAN
         /\ capture_thread \in CAPTURE \cup {NULL}
SettersOK == /\ setPc \in [CALLER -> SetPc]
             /\ setKind \in [CALLER -> {"callback", "display"}]
             /\ setArg \in [CALLER -> CALLBACK \cup WINDOW \cup {NULL}]
             /\ \A t \in CALLER : setArg[t] # NULL =>
                  setArg[t] \in (IF setKind[t] = "callback" THEN CALLBACK ELSE WINDOW)
             /\ \A t \in CALLER :
                  setPc[t] = "method" => setKind[t] = "callback" /\ setArg[t] # NULL
StreamOK == streamPc \in {"off", "ready", "copied"} /\ streamFrame \in FrameOrNull
PreviewOK == /\ previewPc \in PreviewPc /\ frameMode \in MODES
             /\ pvFrame \in FrameOrNull /\ pvConv \in FrameOrNull
CaptureOK == /\ capPc \in [CAPTURE -> CapPc]
             /\ capSurface \in [CAPTURE -> BOOLEAN]
             /\ capFrame \in [CAPTURE -> FrameOrNull]
             /\ capConv \in [CAPTURE -> FrameOrNull]
             /\ capCb \in [CAPTURE -> FrameOrNull]

\* Every variable has its type; in particular the pool and the frame queue
\* never grow past the sizes UVCPreview.cpp gives them.
TypeOK ==
    /\ FlagsOK /\ PoolOK /\ QueuesOK /\ WindowOK /\ CallbackOK /\ AppOK
    /\ SettersOK /\ StreamOK /\ PreviewOK /\ CaptureOK
    /\ capture_mutex \in CALLER \cup {NULL} /\ aborted \in BOOLEAN

\* The places that hold frame f.
Holders(f) ==
    {<<"pool", i>> : i \in {j \in DOMAIN mFramePool : mFramePool[j] = f}}
    \cup {<<"queue", i>> : i \in {j \in DOMAIN previewFrames : previewFrames[j] = f}}
    \cup {<<"capFrame", c>> : c \in {d \in CAPTURE : capFrame[d] = f}}
    \cup {<<"capConv", c>> : c \in {d \in CAPTURE : capConv[d] = f}}
    \cup {<<"capCb", c>> : c \in {d \in CAPTURE : capCb[d] = f}}
    \cup {<<place, NULL>> : place \in
             {p \in {"heap", "captureQueu", "stream", "pvFrame", "pvConv"} :
                \/ p = "heap" /\ f \in heap
                \/ p = "captureQueu" /\ captureQueu = f
                \/ p = "stream" /\ streamFrame = f
                \/ p = "pvFrame" /\ pvFrame = f
                \/ p = "pvConv" /\ pvConv = f}}

\* No frame is in two places: none is pooled twice, drawn while the stream
\* thread fills it, or freed while a thread still holds it.
FrameOwnership == \A f \in FRAME : Cardinality(Holders(f)) <= 1

\* The frames at each place, as the ledger keeps them.
Books == [heap |-> heap, pool |-> Range(mFramePool), stream |-> {streamFrame},
          queue |-> Range(previewFrames), pvFrame |-> {pvFrame}, pvConv |-> {pvConv},
          captureQueu |-> {captureQueu}, capFrame |-> Range(capFrame),
          capConv |-> Range(capConv), capCb |-> Range(capCb)]

\* FrameLedger is implemented: from every place a frame goes only where the
\* ledger lets it go.
Ledger == INSTANCE FrameLedger WITH holds <- Books
LedgerSpec == Ledger!Spec

\* Frames that nothing refers to any more.  addCaptureFrame drops the frame of
\* the preview thread when the stop comes first: once a session at most.
Leaked == {f \in FRAME : Holders(f) = {}}
LeakBound == Cardinality(Leaked) <= sessions

\* After stopPreview has returned, and until the next start, no preview thread
\* is left, no frame callback runs and both queues are empty.
StoppedQuiet ==
    appPc = "idle" /\ ~mIsRunning =>
        /\ previewPc = "none" /\ streamPc = "off"
        /\ previewFrames = <<>> /\ captureQueu = NULL
        /\ pvFrame = NULL /\ pvConv = NULL /\ streamFrame = NULL

\* Unless some stop came before its capture thread was created (and joined
\* nothing), there is never a capture thread but the one of the handle, and
\* none at all once stopPreview has returned.
NoStrayCapture ==
    ~overtaken =>
        /\ \A c \in CAPTURE : capPc[c] # "none" => c = capture_thread
        /\ appPc = "idle" /\ ~mIsRunning => \A c \in CAPTURE : capPc[c] = "none"
\* Where the preview thread is while the camera streams, and before it has
\* created its capture thread.
Streaming == {"clear", "create", "loop", "enter", "blocked", "woken", "decode",
              "decoded", "draw", "drawn", "add", "signal", "stopStream"}
NoCaptureYet == {"none", "prepare", "startStream", "clear", "create"}

PreviewAlive ==
    \/ mIsRunning /\ appPc \in {"idle", "unset"}
    \/ appPc \in {"signalPreview", "signalCapture", "joinCapture", "joinPreview"}

\* The preview thread exists exactly from a successful start to its join.
PreviewExists == /\ mIsRunning => appPc \in {"idle", "starting", "unset"}
                 /\ appPc = "starting" => mIsRunning
                 /\ previewPc # "none" <=> PreviewAlive

\* The stream and the queues are in use only while it does (or until stopPreview
\* has cleared them).
Inside ==
    /\ streamPc # "off" => previewPc \in Streaming
    /\ previewFrames # <<>> => previewPc # "none" \/ appPc = "clear"
    /\ captureQueu # NULL => previewPc # "none" \/ appPc \in {"clear", "clearCapture"}

\* Of the capture thread: it is the one of the handle, the preview thread has
\* created it, and it is gone once it has been joined.
OneCapture ==
    ~overtaken =>
        /\ \A c \in CAPTURE : capPc[c] # "none" => c = capture_thread
        /\ previewPc \in NoCaptureYet \/ appPc = "joinPreview" =>
               \A c \in CAPTURE : capPc[c] = "none"
        /\ appPc = "joinPreview" => previewPc \notin NoCaptureYet

\* What StoppedQuiet and NoStrayCapture rest on.
Lifecycle == PreviewExists /\ Inside /\ OneCapture

StreamHolds == streamFrame # NULL <=> streamPc = "copied"
FrameHolds ==
    pvFrame # NULL <=> previewPc \in {"decode", "decoded", "draw", "drawn", "add"}
ConvHolds ==
    /\ pvConv # NULL => previewPc \in {"decoded", "drawn"}
    /\ previewPc \in {"decoded", "drawn"} => pvConv # NULL \/ aborted
CaptureHolds ==
    \A c \in CAPTURE :
        /\ capFrame[c] # NULL <=>
               capPc[c] \in {"surface", "callback", "convert", "call", "recycle"}
        /\ capCb[c] # NULL <=> capPc[c] = "convert"

\* A thread holds a frame exactly between taking it and passing it on, so what
\* it passes on is a frame and never NULL (the decoded frame, whose allocation
\* do_preview does not check, is the exception: there the process dies).
Holding == StreamHolds /\ FrameHolds /\ ConvHolds /\ CaptureHolds

\* With no setter at work the callback is whole: the method belongs to the
\* object, and the references to the object and to what the setters on their
\* way will install are alive.
CallbackWhole ==
    MutexFree =>
        /\ onFrame = mFrameCallbackObj
        /\ ({mFrameCallbackObj}
              \cup {setArg[t] : t \in {u \in CALLER : setPc[u] # "idle"}})
           \cap CALLBACK \subseteq globalRefs

\* UVCPreview.cpp:218 and :673 say of the wait in the setters "wait finishing
\* capturing": when it ends, no capture thread is using what is replaced next.
FinishedCapturing ==
    [][\A t \in CALLER :
         setPc[t] = "woken" /\ setPc'[t] = "swap" =>
             \A c \in CAPTURE : capPc[c] \notin {"surface", "callback", "convert", "call"}
      ]_vars

\* The capture a setter waits for can finish: there is a capture thread, or a
\* preview thread that may still create it.  UVCPreview.cpp:218 calls the wait
\* "wait finishing capturing".
CaptureToFinish ==
    \A t \in CALLER :
        setPc[t] = "blocked" => \/ previewPc \notin {"none", "exited"}
                               \/ \E c \in CAPTURE : capPc[c] \notin {"none", "exited"}

\* A thread waits for a signal that was sent before it began to wait: it had
\* looked at isRunning() before stopPreview cleared it.
LostWakeup ==
    /\ ~mIsRunning
    /\ previewPc = "blocked" \/ \E c \in CAPTURE : capPc[c] = "blocked"

\* Setter t waits though no preview thread is left and every capture thread has
\* ended or waits as well.  Either stopPreview, on another thread, came between
\* the setter's look at the flags and its wait; or the preview thread failed before
\* it streamed, which leaves mIsRunning set, while mIsCapturing is that of an earlier
\* session (nothing clears it when a capture thread ends) or of a stray thread.
Unheard(t) ==
    /\ setPc[t] = "blocked"
    /\ previewPc \in {"none", "exited"}
    /\ \A c \in CAPTURE : capPc[c] \in {"none", "exited", "blocked"}

\* stopPreview returns, unless a thread it joins missed its only wake-up, or its
\* own setFrameCallback(null, 0) waits for nobody (or the process died).
StopReturns ==
    \/ <>[]LostWakeup
    \/ <>[]Unheard(Main)
    \/ appPc = "unset" ~> (appPc = "idle" \/ aborted)

\* A setter that waits for the capture thread is woken, by the end of the
\* capture, by the next frame or by the stop, unless nobody is left to do it.
\* (It then needs the mutex, for which it competes with other setters.)
SetterReturns ==
    \/ <>[]LostWakeup
    \/ \A t \in CALLER :
          \/ <>[]Unheard(t)
          \/ setPc[t] = "blocked" ~> (setPc[t] # "blocked" \/ aborted)

\* A frame that was queued for the preview is taken from the queue unless the
\* preview is stopped: the empty check and the signal never miss each other.
QueuedFrameTaken ==
    \A f \in FRAME :
        previewFrames # <<>> /\ Head(previewFrames) = f
            ~> (f \notin Range(previewFrames) \/ ~mIsRunning \/ aborted)
=============================================================================

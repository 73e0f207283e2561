# Verification of CarUVCCamera

TLA+ models, TLC runs and TLAPS proofs for the code of this repository: an
Android library that shows and records the picture of USB cameras (UVC), and a
small application on top of it.

## 1. Inventory

| component | state it keeps | operations | what it interacts with |
|---|---|---|---|
| **UVCPreview** (`UVCCamera/UVCPreview.cpp`, `objectarray.h`) | run and capture flags, frame pool, preview queue, one-slot capture queue, windows, Java callback, two threads | `setPreviewDisplay`, `startPreview`, `stopPreview`, `setFrameCallback`, `setCaptureDisplay`, the frame callback of libuvc, the loops of the preview and capture threads | called from Java through JNI; called back by libuvc's stream thread; calls Java's `onFrame` |
| **libuvc stream** (`libuvc/src/stream.c`) | transfers, the frame being assembled, hold buffers, `running` | open, start, stop, close, transfer callback, payload parsing, user callback thread | libusb below, UVCPreview above |
| **UVCCamera.cpp, JNI, UVCCamera.java** | device handle, file descriptor, control block, supported controls | connect, release, pass-through of preview calls and controls | USBMonitor gives the descriptor; owns UVCPreview |
| **USBMonitor** | receiver, permission state, table of control blocks per device | register, unregister, requestPermission, broadcasts, polling of devices, open and close of control blocks | Android USB service, the application's listener |
| **AbstractUVCCameraHandler** | message queue, camera thread, `mIsPreviewing`, `mIsRecording`, encoders | open, close, start/stop preview and recording, capture, release | application above; UVCCamera and encoders below |
| **MediaEncoder, MediaMuxerWrapper** | request counters and flags of each drain thread, muxer tracks and start count | prepare, start, stop, frameAvailableSoon, encode, drain | the camera thread, the frame callback, Android codecs |
| controls and descriptors of libuvc, Parameters | none that changes concurrently | single requests | libusb |
| views, dialog, activities | screens | user interface | handler, USBMonitor |
| pipeline library | frame queues | not compiled (`Android.mk`) | - |
| libusb, libjpeg-turbo, rapidjson | vendored | - | - |

Hard behaviour, by component (each with its line under `hazards` in
`PROJECT.json`):

* UVCPreview: condition variables waited on once, without a loop, and signalled
  without their mutex; flags read without a lock; the capture thread is created
  by the preview thread but joined, by handle, by `stopPreview`; frames that move
  between a pool, two queues and three threads; callback and window replaced
  while the capture thread uses them.
* libuvc stream: an unexpected disconnect clears `running` in the transfer
  callback and makes close skip the stop; half-submitted transfers at start.
* MediaEncoder: requests are counters and flags guarded by a monitor that is
  waited on once; the end of stream; muxer start as a rendezvous of all encoders.
* Handler: callers that wait for the camera thread; messages that change the
  state another message assumed.
* USBMonitor: broadcast, polling thread and API calls in any order; cloned
  control blocks.

What makes each correct:

* UVCPreview: a frame has one owner; few are lost; after a stop nothing runs;
  callback object, method and reference belong together; stop and setters return.
* stream: no buffer is freed while a transfer or the callback thread can use it;
  frames reach the user in order, complete, the newest first.
* encoders: the muxer gets samples only between start and stop, is stopped when
  the last encoder is, and every drain thread ends after a stop request.
* handler: commands take effect in order, waits end, the camera is closed once.
* USBMonitor: connect and disconnect alternate for a device, a descriptor is
  closed once and never used afterwards.

## 2. Plan

| order | module | what | status |
|---|---|---|---|
| 1 | `UVCPreview` | preview engine, all threads | checked |
| 1 | `UVCPreviewProofs` | types, who holds a frame, when threads exist | proved |
| 2 | `MediaRecording`, `MuxerRendezvous` (abstract) | encoders, AudioThread, shared muxer; what the muxer wrapper promises | checked |
| 2 | `MediaRecordingProofs` | inductive invariant, implementation of the rendezvous | proved |
| 3 | `UvcStream` | transfers, payloads, user callback thread, unplugging | checked |
| 3 | `UvcStreamProofs` | all its safety properties | proved |
| 4 | `CameraHandler` | camera thread, waiting callers, recordings | checked |
| 4 | `CameraHandlerProofs` | preview flag, recording and camera, the end of the thread | proved |
| 4 | `CameraHandlerQueue` | the message queue: types, callers answered, release arrives | proved |
| 5 | `USBMonitor`, composed with cameras in `CameraConnection` | broadcasts, permissions, polling, control blocks, clones, descriptors | checked |
| 5 | `CameraConnectionProofs` | all its properties | proved |
| 6 | `FrameLedger` (abstract) | where the frames of `UVCPreview` may be and go | checked |
| 6 | `UVCPreviewFrames` | one owner for each frame, implementation of the ledger, bound on lost frames | proved |
| 6 | `UVCPreviewCallback` | the frame callback through concurrent setters | proved |

Every module has one passing run of its safety and liveness properties (the preview
engine three, for three sizes), and one run for each disagreement between code and
comment: 12 runs, 7 that pass and 5 that are expected to find a violation. The longest
runs, `handler`, `preview_sessions` and `preview_live`, take about two minutes each, the
others less. No module uses a RECURSIVE operator, so
that all can be proved about.

## 3. The module UVCPreview

### State

| variables | code |
|---|---|
| `mIsRunning`, `mIsCapturing`, `frameMode`, `previewFrames`, `captureQueu`, `mFramePool`, `mCaptureWindow`, `mFrameCallbackObj`, `mPixelFormat`, `mFrameCallbackFunc`, `capture_thread` | members of the same name; a frame, window or callback reference is an identity, `mFrameCallbackFunc` and `mPixelFormat` only say whether the callback needs a conversion (`PIXEL_FORMAT_RAW` and `_YUV` do not) |
| `mPreviewWindow` | whether a preview window is set |
| `onFrame` | the method id, as the callback it was looked up for |
| `heap` | frames not allocated: `uvc_allocate_frame` takes one, `uvc_free_frame` gives it back, an empty heap is a failed allocation |
| `globalRefs`, `windowRefs` | JNI global references not deleted; window references this code holds |
| `capture_mutex` | the setter that holds it across steps (the other critical sections are single steps) |
| `appPc`, `setPc`, `streamPc`, `previewPc`, `capPc` | where the Java threads in start/stop and in a setter, the stream thread, the preview thread and the capture threads are; `blocked` is inside `pthread_cond_wait`, `woken` is waiting to get the mutex back |
| `streamFrame`, `pvFrame`, `pvConv`, `capFrame`, `capConv`, `capCb`, `capSurface` | locals of those threads |
| `overtaken` | history: some `stopPreview` reached its join when no capture thread could be joined |
| `aborted` | the process has crashed (a call through a null pointer, a deleted reference, an invalid join) |

### Steps

A step is what one thread does between two points where another can interfere.
A critical section without a wait is one step; every unlocked access to a shared
flag that another thread may change is a step of its own. The actions carry the
names of the functions; a function that waits or reads shared state several times
is cut at those points (`waitCaptureFrame`, `surfaceConvert`, `callbackCheck`,
`callbackConvert`, `callOnFrame`, `callbackRecycle` are the body of the capture
loop). `startPreview` and `stopPreview` are `synchronized` in UVCCamera.java, so
one thread, `Main`, stands for their callers; `setFrameCallback` and
`startCapture` are not, so any `CALLER` may run them at any time. `stopPreview`
of UVCCamera.java calls `setFrameCallback(null, 0)` first, and so does the model.

Undefined behaviour is a choice: joining a handle that was never assigned or is
stale fails or ends the process (bionic aborts), `mPixelFormat` starts with any
value, a signal wakes any one waiter. Waits may end spuriously where `Spurious`
is TRUE. libuvc is external to this module: between `uvc_start_streaming` and
`uvc_stop_streaming` it calls the frame callback any number of times, on one
thread, and stop returns only when no callback runs.

Left out: pixels, sizes and broken frames (a frame the callback refuses changes
nothing), `setPreviewSize` (only parameters of the next start), the constructor
and destructor, `ANativeWindow` calls other than acquire and release, and what
happens inside Java's `onFrame`.

Failures are modelled where the code handles them or goes on after them: a frame that
cannot be allocated or decoded, a stream that does not start, a capture thread that cannot
be created, and a callback object without an `onFrame` method (`setterMethod` deletes the
reference again and installs nothing).

### Properties and runs

| property | meaning |
|---|---|
| `TypeOK` | types; pool and queue limits |
| `FrameOwnership` | no frame in two places |
| `LedgerSpec` | the engine implements `FrameLedger`, see below |
| `LeakBound` | at most one frame a session is lost (`addCaptureFrame` after the stop) |
| `StoppedQuiet` | stopped means: no preview thread, stream, queued or held frame |
| `NoStrayCapture` | unless a stop overtook the creation of the capture thread, it is the one of the handle and gone after the stop |
| `Lifecycle`, `Holding` | the strengthening the proofs need: when each thread exists, and where it holds a frame |
| `CallbackWhole` | with no setter at work object, method and references belong together |
| `StopReturns` | stop returns, unless a thread it joins missed its only wake-up or its own `setFrameCallback` waits for nobody |
| `SetterReturns` | a setter that waits is woken, with the same exceptions |
| `CaptureToFinish` | a setter waits only while there is a capture thread, or a preview thread that may create it: refuted |
| `QueuedFrameTaken` | a queued frame is drawn unless the preview stops |
| `FinishedCapturing` | what the comment "wait finishing capturing" promises: refuted |

| run | bounds | shows |
|---|---|---|
| `preview_sessions` | 4 frames, 2 capture threads, 2 sessions, MJPEG, spurious wake-ups, no callbacks | ownership, leaks and quiet stops over two sessions, a capture thread of the first still alive in the second. Any two of the places that hold frames can be filled together with four frames, and allocation fails too |
| `preview_setters` | 2 frames, 1 capture thread, 2 callers, 2 callbacks, 1 window, 3 setter calls, 1 session | the setters against the capture thread, two setters against each other, and stop's own call |
| `preview_live` | 1 frame, 2 callers, 1 callback, 1 session, 3 setter calls | liveness of stop, of setters on two threads and of queued frames; no symmetry (186 380 states) |
| `preview_stale` | 1 frame, 1 caller, 1 callback, 2 sessions, 3 setter calls | a setter waits for a capture in a session that has none |
| `preview_finish` | as `preview_setters` | the wait of a setter ends while the capture thread is in the conversion or the callback |

`MAX_FRAME` is 1 in the runs (4 in the code) so that the full queue is met at
once; the pool's limit is 2 more, as in the code. `MaxSets` counts every call of a
setter and of `setPreviewDisplay`. Deadlock is not checked: an idle application,
a process that has died and a thread that missed its wake-up all stop.

Fairness (`LiveSpec`): each thread that can take a step does (weak fairness for
the caller in start/stop, each setter, the stream, preview and capture threads:
the operating system schedules all of them). Strong fairness for queueing a frame
says that the camera goes on delivering and that `uvc_duplicate_frame` does not
fail for ever; what the application decides to call is not fair. Without
frames a waiting preview thread waits for ever, as in the code.

`StopReturns` and `SetterReturns` are stated for executions without a *lost wake-up*
(`LostWakeup`: a thread blocks after `stopPreview` has cleared the flag and sent
its signals). The code allows it, because `stopPreview` signals without the mutex, and
nothing sends another signal: once `mIsRunning` is cleared, a frame that still arrives is
given back without one (`:423`). No document claims otherwise, so it is stated as the
exception, and a hazard that no property covers.

`Unheard(t)` is the other exception: setter `t` waits although no preview thread is left
and every capture thread has ended or waits itself. There are two ways into it. On two
threads, `stopPreview` may send all its wake-ups between the setter's look at
`mIsRunning` (`:214`) and its wait. On one, `mIsCapturing` is left over from an earlier
session (section 8, `preview_stale`). `StopReturns` names only `Unheard(Main)`, the
thread that stops. `SetterReturns` ends where the setter has been woken: it then needs
`capture_mutex`, and nothing makes that mutex fair among threads that keep calling setters.
The run has one session: over two, a thread that calls `stopPreview` again and again can
keep a capture thread left from the first session from the mutex, so that a setter on
another thread starves; and a liveness run over two sessions has too many states to check
along with the others. What a second session can do to a stop is what `preview_stale` shows.

### Proofs

`UVCPreviewProofs` proves, for every number of frames, threads, callers, callbacks,
windows and sessions, `Invariance`: `Spec => []IInv` with
`IInv == TypeOK /\ Holding /\ Lifecycle`, and from it `TypeCorrect`,
`LifecycleHolds`, `FramesInHand`, `StopIsQuiet` and `CaptureThreadJoined`.

Why the strengthening is needed: `TypeOK` alone is not inductive, because giving
back a frame that is NULL would put NULL into the pool; `Holding` says that the
threads hold a frame exactly where they give one back. `Holding` in turn needs to
know that a new preview thread or a new stream starts with nothing held, which
follows from `Lifecycle`: there was none before. `Lifecycle` is inductive together
with `TypeOK`. The proof has a lemma for each of the three (`TypeStep`,
`HoldingStep`, `LifecycleStep`), with one step per action and under it one per part
the action can disturb; `Untouched`, `HoldingUntouched` and `LifecycleUntouched`
settle the parts it leaves alone. `GetFrame` and `RecycleFrames` are the lemmas
about the pool. Assumptions used: the named ASSUMEs of `UVCPreview` on its
constants.

`NobodySleepsOnFrame` proves `Attentive`: the preview thread waits only while its queue is
empty, and a capture thread only while `captureQueu` is NULL. This is the safety part
of `QueuedFrameTaken`: with it a wake-up cannot be missed while a frame waits. It is
inductive together with `TypeOK`.

Only model-checked: liveness (`StopReturns`, `SetterReturns`, `QueuedFrameTaken`), which
the proof system does not reach.

`UVCPreviewCallback` proves `CallbackIsWhole`, for any number of setters. The property
speaks of moments when no setter holds the mutex, so `Whole` says what holds inside one:
the mutex is held exactly at the steps between lock and unlock (`Mutex`); from the
moment the old reference is deleted to the lookup of the new method there is no method
(`Installed`); and the references that calls still carry are alive, one for each call, and
not the installed one (`Arguments`), unless a setter is just replacing it, when a deleted
reference may be handed out again. It needs that callbacks and windows are different
things (`RolesAssumption`).

### The ledger of the frames

`FrameLedger` is the abstract specification of what the code does with frames, without
threads, loops or locks: ten places (heap, pool, the queues, the locals of the threads),
and the routes between them. Frames come from the heap or the pool into the hands of a
thread, go back there from anywhere but the buffer of a conversion, and travel from the
camera through the preview queue, the preview thread and the capture slot to the capture
thread. A step may move several frames, each along its own route (`stopPreview` clears a
queue, a conversion replaces the frame), and lose at most one, the one the preview thread
has. `Books` says what `UVCPreview` has in each place; `LedgerSpec` is the refinement.
It says more than `FrameOwnership`: a frame that the next one replaces in the capture slot
without being given back has no second user, and still breaks it.

`UVCPreviewFrames` proves it for every number of frames, threads and sessions. The
inductive form of `FrameOwnership` is `Single`: each frame has one place (`Only`), and no
frame is twice in the pool or in the queue. That every step is an entry of the ledger
(`Entered`: each frame stays, goes along a route, or is the one the preview thread drops)
is proved once, action by action (`EnteredStep`), with lemmas for what `get_frame` and
`recycle_frames` do (`Fetches`, `Returns`), and from it follow `FramesOwned`,
`ImplementsLedger` (by where the ledger finds a frame, `Located`) and `LeaksBounded`. The
last needs to know that a session loses one frame at most: `Counted` adds one for a
session that still runs or whose preview thread still holds a frame, so a loss pays for
itself, and `Spends` says that only `startPreview` begins a session.

## 4. The modules MediaRecording and MuxerRendezvous

`MediaRecording` is one recording of the kind the application makes (encoder type
2): a `MediaVideoBufferEncoder` and a `MediaAudioEncoder` that share a
`MediaMuxerWrapper`. Each recording constructs new objects and threads, so a
behaviour is one recording.

| variables | code |
|---|---|
| `camera`, `turn`, `mVideoEncoder` | where the camera thread is in `handleStartRecording` / `handleStopRecording`, the encoder `onFrame` uses |
| `mEncoderCount`, `mStatredCount`, `mIsStarted` | `MediaMuxerWrapper` |
| `mediaMuxer`, `muxerAlive` | state of Android's `MediaMuxer`; whether `mWeakMuxer` still leads to the wrapper |
| `mIsCapturing`, `mRequestStop`, `mRequestDrain`, `mIsEOS`, `mMuxerStarted`, `mMediaCodec` | `MediaEncoder`, for each encoder |
| `input`, `format` | how many buffers the codec has not returned, whether it announced its format |
| `drainPc`, `pass` | where the drain thread is in `run()`, and in which of its three `drain()` calls |
| `feederPc`, `fed`, `spare` | `onFrame` and `AudioThread` |
| `died` | an exception nobody catches has ended the process |

Each `synchronized` block and each read of a flag outside of one is a step of its
own. `drain()` consists of `enterDrain` (codec and muxer are looked up),
`tryAgainLater` (nothing came for 50 ms), `formatChanged` (`addTrack`),
`startMuxer`, `muxerReady`, `outputAvailable` and `writeSampleData`. A codec takes
input while it has room, announces its format before its first output and may
always be slow; `MediaMuxer` throws when it is called in the wrong state, which
sets `died` (`MediaMuxerWrapper.stop` catches). `collect` is the garbage
collector: it may take the muxer when the camera thread has dropped it and no
drain thread has it in a local variable. Not modelled: spurious wake-ups,
interrupts (nobody interrupts these threads), the branch for an output buffer with
the EOS flag (no input ever carries it, see below), time stamps.

`MuxerRendezvous` is the abstract specification: encoders join, the last one opens
the file, members write, and leave; the last one to leave closes it. `Rendezvous`
says that `MediaRecording` implements it, with the members computed from where the
drain threads are, not from `mStatredCount`.

| run | bounds | shows |
|---|---|---|
| `recording` | room for 1 buffer, 1 drain request, 1 silent buffer | order of the calls on the muxer, exact count, file closed, no encoders waiting for each other, implementation of the rendezvous, and that a stopped recording ends (383 776 states) |
| `recording_eos` | as above | no end of stream is sent |

`MAX_INPUT`, `MAX_REQUEST` and `TRIES` (5 in the code) bound what repeats without a
new situation: a codec with room for one buffer is both empty and full, a counter
of requests both 0 and at its bound. The safety results are proved for all values.
Deadlock is not checked: a recording ends.

Fairness (`LiveSpec`): the camera thread, the drain threads and AudioThread are
scheduled. Nothing is assumed of codecs, frames, user or collector.
`RecordingEnds` has three named exceptions that the code allows: a stop request
sent between the drain thread's look at its flags and its wait (`LostStop`), an
encoder that waits for the muxer although its partner ended, or missed its stop,
without ever joining (`Forsaken`), and a process that died of a missing codec.

### Proofs

`MediaRecordingProofs` proves for all bounds `Invariance`: `Spec => []IInv`, and
from it `RecordingTypes`, `NoCallThrows`, `CountCorrect`, `LastCloses`, `PartnerToCome` and
`RendezvousKept` (`Spec => Rendezvous`, step by step: `startMuxer` is Join,
`outputAvailable` BeginWrite, `writeSampleData` EndWrite, `stopMuxer` Leave,
`collect` Drop, everything else a stutter). The strengthening: the count is exact
only as long as an encoder joins and leaves once, so `Together` ties the state of
the MediaMuxer to where every drain thread is; `Tracks` (a waiting or writing
encoder has a track), `Held` (drain() keeps the muxer alive) and `Setup` (nothing
drains before the start, when the number of encoders is still growing) make it
inductive. `PartnerToCome` states `WaitsForPartner`, the safety core of the deadlock
that `Forsaken` names: `drain()` waits for the muxer in a loop that looks at nothing
else, so what matters is that there always is an encoder the wait is for; it follows
from `Held` (not finalized), `CountExact` (not started) and `Together` (not stopped, and
somebody has not joined). Assumptions: the named ASSUMEs of `MediaRecording`. Only
model-checked: `RecordingEnds` (liveness).

## 5. The module UvcStream

One device handle of libuvc and its stream. Three threads meet there: the *owner*
(in this library the preview thread for start and stop, and whoever opens and closes
the camera), libusb's *event thread*, and the *user thread* `_uvc_user_caller`, which
calls `UVCPreview`'s frame callback.

| variables | code |
|---|---|
| `plugged`, `devh`, `handler_thread`, `kill_handler_thread` | the device on the bus, the open handle, the event thread of the context and the flag that ends it |
| `strm`, `running`, `transfers` | the stream handle (none, open, freed), its flag, and for each transfer whether it is null, idle, in flight, cancelled or in its callback |
| `ownerPc`, `next` | where the owner is in start, stop and close, the transfer it submits next |
| `evPc` | where the callback the event thread runs is |
| `seq`, `got`, `bfh_err`, `hold_seq`, `hold_bfh_err` | frame number, whether it has data, error flag; the same of the published buffer |
| `userPc`, `last_seq`, `frame`, `delivered` | the user thread: last number seen, number of the frame it copied, of the last one handed out |
| `cause`, `bad` | history: who cleared `running` first, which frames were published with an error |

`cb_mutex` is never held across a wait other than of the condition, so a critical
section is one step; `running` and `hold_bfh_err` are read without it and these reads
are steps of their own (`decide_resubmit`/`resubmit_transfer`,
`_uvc_populate_frame`/`skip_bad_frame`/`user_cb`). A payload is what it does to the
frame: nothing, an error, data, data of the next frame, the last data. A device can be
unplugged at any time (`Unplug`), a submission can fail (`SubmitFails`), any transfer
can be cancelled, time out or end with an error. Where the code would use a freed
handle the model stops; the run `stream_unplug` shows how it gets there.

| property | meaning |
|---|---|
| `TypeOK` | types; no transfer beyond the last, no frame number beyond the bound |
| `SafeFree` | after a stop that cleared `running` itself, the handle is freed only when no transfer, callback or user thread uses it |
| `OneLate` | a cancellation misses at most one transfer, so a stop waits for one time-out at most |
| `NoLostWakeup` | owner and user thread never sleep through what they wait for; the exception is a start that failed, which leaves the user thread waiting |
| `FreshDelivery` | a frame handed out has no error and is newer than the last, unless a frame with an error came between: the flag read again after the unlock belongs to another frame |
| `StopReturns` | a stop that cleared `running` returns, unless a resubmission was lost (its result is ignored, `stream.c:1003`) or the event thread had been told to end: `kill_handler_thread` is never reset, so a device opened after the last one was closed has no event thread for long (`device.c:1575`) |
| `UserThreadEnds` | an unplugged device ends the user thread without a stop, unless its handle is freed first |
| `EndsThreads` | what `uvc_stop_streaming` documents: refuted |

| run | bounds | shows |
|---|---|---|
| `stream` | 2 transfers, 3 frames, 2 sessions, unplugging, failing submissions | all of the above (405 156 states). With two transfers one can be late and the other cancelled or not yet submitted; two sessions are needed for what is left over by the first |
| `stream_unplug` | 1 transfer, 1 frame, 1 session | the stop after an unplug leaves the user thread |

Fairness (`FairSpec`): a thread inside a call goes on (`Owner`), libusb's event thread
goes on, which includes that every transfer completes or is cancelled some day, and the
user thread goes on. Whether the application starts, stops or closes is not fair.

`UvcStreamProofs` proves all its safety properties for any number of transfers, frames
and sessions: `StreamTypes`, `FreeIsSafe`, `AtMostOneLate`, `NobodyOverslept` and
`DeliveryIsFresh`, from `Invariance`. The strengthening: `Calls` and `Causes` say where the owner
can be and who cleared `running` (without them `OneLate` would not survive the
decision to resubmit), `Callback` that one callback runs at a time, `Submitting` that
transfers not yet submitted are untouched, `Stopped` what a stop has waited for,
`Frames` how the numbers of the filling, the published and the delivered frame relate.
The number of a frame to be handed out is compared with a set of bad frames, so
`FreshDelivery` needs all of `Frames`. `StopReturns` and `UserThreadEnds` are only
model-checked.

## 6. The module CameraHandler

`AbstractUVCCameraHandler`: the application posts messages, the camera thread handles
them one by one.

| variables | code |
|---|---|
| `queue`, `mReleased` | the looper's message queue; `mReleased` of the handler |
| `mUVCCamera`, `mIsPreviewing`, `mIsRecording`, `mMuxer` | members of `CameraThread` (whether there is a camera, which recording) |
| `preview` | whether the native preview uses the surface (what `UVCPreview` models in detail) |
| `movie` | each recording: fed by the camera ("active"), written out by its encoder threads after the stop ("draining"), its `MEDIA_UPDATE` scheduled ("stopped"), finished ("over"), its report lost in an exception ("lost"); or where its encoder thread is in `handleRelease`: "release", "callback", "take", "destroy", "quit", and how that ended: "refused" because another recording goes on, or "failed" in an exception (what `MediaRecording` models in detail is not repeated) |
| `held` | the encoder threads that took a camera which still previews, until they have destroyed it |
| `mEncoderType`, `parentGone` | which video encoder (constant); whether a handler found the activity destroyed or collected |
| `camPc`, `after` | where the camera thread is inside a handler; where it goes on after `handleClose` |
| `pc`, `call`, `calls` | where an application thread is in a request, `stopPreview`, `close` or `release`; how many it made |
| `stale`, `overlap` | history: a close left `mIsPreviewing` set; a recording began while the last one drained |

An action per handler of `handleMessage`, cut where it gives up `mSync` between two
accesses to shared state; an action per step of the callers. A request (`open`,
`startPreview`, `startRecording`, ...) is two steps, because nothing holds between
`checkReleased()` and `sendMessage`: a message may be posted after the release that its
test did not see. `removeMessages` is `Without`, which drops every message of a kind and
keeps the order of the others. `synchronized (mSync) { send; wait }` is one step into
`waiting`, and `wait` is not repeated. Messages to a looper that has quit are dropped. The
two application roles are those of the application in this repository: cameras are opened
and started from the thread of the USB monitor, stopped and closed from others; either may
also stop the recording alone. `handleStopRecording` and `handleClose` have the steps
"callback" (remove the frame callback), "take" (take `mUVCCamera` under `mSync`) and
"destroy".

The listener's `onStopped` runs on an encoder thread. It ignores the buffer encoder (type 2,
which the application passes): it looks for the other two classes only. For those it clears
`mIsRecording` and schedules the update, if the muxer, and with it the path, still exists.
Otherwise (`AbstractUVCCameraHandler.java:709`), when the handler is released or the
activity has gone, `handleRelease` runs on the encoder thread: it stops the recording there
is, takes the camera away under the camera thread, and ends in `Looper.myLooper().quit()` on
a thread that has no looper; the exception is logged (`:715`). An exception earlier in
`onStopped` ends there as well. A camera thread that finds `mUVCCamera` null after it tested
it dies of the exception ("no_camera"), and so does one that starts a recording and meets an
exception other than an `IOException` ("crashed"); `running` ends the behaviour then.

| property | meaning |
|---|---|
| `TypeOK` | types; only an existing recording is drained |
| `PreviewFlag` | `mIsPreviewing` tells whether the surface is used, except inside a handler and after a close that overtook the message to stop (`handleClose` does not clear it, and the next start is ignored) |
| `RecordingHasCamera` | a recording that is fed has a camera, is the one the handler knows, and the camera thread never uses a camera that is gone. Exception: the `handleRelease` of an encoder thread took it (`Intruded`) |
| `StaysForEncoder` | the thread does not quit before the encoders that report to it, unless two recordings overlapped |
| `StopAnswered` | with one closing thread, the message a waiting `stopPreview` is to be woken by is queued or being handled as long as the camera thread lives, and will not be passed over: `mIsPreviewing` is still set |
| `ReleaseArrives` | after a release, with no recording going on, what makes the camera thread quit is being done, queued, or due from an encoder. Exception: a recording the thread had stayed for ended without a report (`ReportLost`) |
| `StopReturns` | with one closing thread `stopPreview` returns, or the camera thread has ended. (With two, one may wait for ever: the second notification is only sent when a preview runs) |
| `ThreadEnds` | `release` ends the thread, also when a recording is to be finished first. Exceptions: `mIsRecording` stays set for ever (`Stuck`: a recording failed to start, or one with the buffer encoder has begun, which `onStopped` does not know), or the report was lost (`ReportLost`) |
| `StoppedOnReturn` | what `stopPreview` documents: refuted |

| run | bounds | shows |
|---|---|---|
| `handler` | an opener with 3 calls, a closer with 2, 2 recordings, video or buffer encoder | all of the above (387 702 states). Three calls reach open, start and record, two stop or close and then release; two recordings overlap, and one may release the handler while the other is fed. The surface encoder (type 0) takes the same steps as the video encoder here |
| `handler_stop` | as above, video encoder | `stopPreview` returns while the preview runs |

Fairness: camera thread, encoder threads and a caller inside a call (also between its
test of `mReleased` and its message) go on; what the application calls is not fair. Deadlock is not checked: an application may call nothing.

`CameraHandlerProofs` proves `FlagTellsPreview`, `RecordingIsSafe` and `ThreadStays` for
any threads, calls and recordings, and `EndsClosed`: a camera thread that has quit leaves
no camera open, no preview on the surface (but for one an encoder thread took away) and no
recording that is still fed. `Between` (what a handler knows from one of its steps to the
next, as far as no encoder thread takes its camera) and `Drains` (an encoder that drains
keeps `mIsRecording` set, unless recordings overlapped) make them inductive. `Closing` and
`Stopping` say once what the handlers that begin with `handleClose` or
`handleStopRecording` do, and `IntrudedStays` that an encoder thread that took a camera
stays known for it, so what was excused remains so.

`CameraHandlerQueue` proves what depends on the messages in the queue, of any length:
`TypeCorrect`, `CallerAnswered` and `ReleaseReaches`. Its foundation is `Filtered`: what
`Without(q, m)` returns for every queue (the type of the queue, not a single `m`, every
other message). It is an induction over the queue; the library's induction theorems
cannot be instantiated here, as they take an operator, so `Induction` states it for a
set, from the existence of least elements (`WFMin`), and `KeptExists` shows that the
recursive function exists before anything is said of its values. `Sent`, `Taken` and
`Removed` then say what posting, handling and removing do to whether a message is in
the queue (`Has`) and is there once (`Once`). The inductive invariant is `QInv`:
`Typed`; `Roles` (what a thread is doing agrees with what it called); `Answers` and
`Arrives`. `Answers` says more than `StopAnswered`: while the closer does not wait there
is no `PREVIEW_STOP` at all, so the one it waits for is the only one, and none that is
older clears `mIsPreviewing` before it is handled. Its hypothesis, one closer at most
(`Lone`), is the case in which the code keeps the promise: with two, the first
`PREVIEW_STOP` clears the flag, the second is handled without a notification, and its
caller waits for ever. `Arrives` says of a handler that is released and records no more that its end is
`Underway` on the camera thread, `Coming` in the queue, or `Due` from an encoder. It needs
`Roles` (a caller that has released has set `mReleased`, so a `MEDIA_UPDATE` that is
handled then goes on releasing, and an encoder that ends without an update is in
`handleRelease` or counts as lost) and, from `CameraHandlerProofs`, that closing takes the
recording it stops from "active" to "draining" and never one that is already "stopped",
whose update is still due. `AnswersKept` settles the steps that touch neither queue nor
waiting caller. That `QInv` holds was checked by TLC on the instance of the run
`handler` before it was proved. Assumption: `HandlerAssumption`. Liveness is
only model-checked.

## 7. The modules USBMonitor and CameraConnection

`USBMonitor` is the monitor with its control blocks, `CameraConnection` composes it
with the `UVCCamera` objects that clone them (Java and C++ side).

| variables | code |
|---|---|
| `device`, `granted`, `asked`, `intents` | Android: devices on the bus, permissions, open dialogs, broadcasts not yet received |
| `registered`, `destroyed`, `mCtrlBlocks`, `mHasPermissions`, `mDeviceCounts` | members; keys are devices |
| `block` | every control block ever made: its device, its connection (`open`, `null` when `openDevice` failed, `closed`), whether it is a clone |
| `closing` | the block whose `close()` a thread is inside (the callback `onDisconnect` runs there) |
| `tasks`, `timer`, `asyncPc`, `asyncBlk`, `listed` | the thread of `mAsyncHandler`: connect tasks, the pending check, the one it runs |
| `offered` | blocks the application got by `onConnect` |
| `mDeviceHandle`, `mFd`, `mUsbFs`, `mCtrlBlock` | `UVCCamera.cpp` and `UVCCamera.java` |
| `owner` | for each descriptor of the process: free, of a camera, or other |
| `posted`, `counted`, `outdated`, `late` | history: devices reported by a check, the list the count was taken from, those of them whose departure had been handled before the count was written, blocks put into the table while `destroy` runs |

The main thread registers, receives and destroys; a broadcast, a task and each part of
`close()` are steps. A device can go at any point: `openDevice` then gives null, and
its broadcast comes later. A request for a permission may fail in the system, which then
counts as a refusal (`USBMonitor.java:429`). `dup` returns the lowest free descriptor, as POSIX says.

| property | meaning |
|---|---|
| `TypeOK` | types; who is handed a block is handed one |
| `ConnectLive` | `onConnect` gets a connected block unless the device has gone or the monitor was destroyed |
| `OriginalsInTable` | an open original is in the table, on its way into it or being closed. Two exceptions: the close of another block of that device (a camera's clone) has removed the entry, although the comment at `USBMonitor.java:1022` says clones are not handled; and a block put while `destroy` loops over the table |
| `OwnDescriptor` | a connected camera's descriptor is its own. Exception: descriptor 0, which a camera closes on release after a failed connect (`UVCCamera.cpp:177`, `:213`) |
| `AttachReported` | the check compares only numbers, and still reports every device it lists while registered, unless a device it had counted has gone: one whose broadcast is still to come (`detaching`), or one whose broadcast had been handled between the list and the write of the count (`outdated`). The first exception ends when the broadcast resets the count; the second lasts until another device goes or the monitor registers again |

| run | bounds | shows |
|---|---|---|
| `connection` | 2 devices, 3 control blocks, 3 calls, 2 cameras, 2 descriptors, symmetry of devices and cameras | all of the above (1 460 516 states). Three blocks are an original and its two clones, or two originals and a clone; a device comes and goes once, as another `UsbDevice` would be made for its return |

`CameraConnectionProofs` proves all five properties for any finite set of devices and
any number of blocks, cameras and descriptors. The argument: a permission goes only with its
device (`Permitted`), so a block without connection belongs to a device that has gone
(`Nulls`); an entry of the table is removed before its block is closed (`InTable`) and
nobody but the connect task knows a block before it is in the table (`Fresh`); the main
thread closes originals, cameras close clones (`Clones`). `Counts` ties the number to
the list it was taken from, and a set that has as many members as one it contains is
that set; `Departed` says of a counted device that has gone that its broadcast is on its way
(`BroadcastStays`) or that it was outdated when it was counted. `OwnDescriptor` follows from `Owned`, the same for every camera.

## 8. Divergences found

`preview_finish`: `UVCPreview.cpp:218` and `:673` describe the wait in
`setFrameCallback` and `setCaptureDisplay` as "wait finishing capturing". The wait
is not repeated, and `addCaptureFrame` broadcasts the same condition for each
frame (`:709`), so the setter may go on while the capture thread is between its
test of `mFrameCallbackObj` (`:851`) and the call (`:868`); it then deletes the
reference or clears the method that is about to be used.

`preview_stale`: `do_capture` sets `mIsCapturing` (`UVCPreview.cpp:781`) and nothing clears
it when the capture thread ends; only the setters do (`:215`, `:670`). When the stream of a
later session fails to start, `mIsRunning` stays set and there is no capture thread, yet
`isRunning() && isCapturing()` holds. A setter then enters the wait "wait finishing
capturing" (`:218`) for a capture that never began. `UVCCamera.stopPreview` calls
`setFrameCallback(null, 0)` first, so the stop that should clean up does not return.

`recording_eos`: `MediaEncoder.java:254` says that a length of zero means EOS, and
`signalEndOfInputStream` (`:243`) relies on it. `encode()` enters its loop only while
`ix < length` (`:263`), so it sends nothing; `mIsEOS` is never set. The second drain
of the stop, meant for the answer to EOS, ends after 50 ms without output, and what
the codec still holds is lost.

`stream_unplug`: `stream.c:1776` says `uvc_stop_streaming` "Closes all streams, ends
threads and cancels pollers". `uvc_stream_close` (`:1867`) stops the stream, and so ends
the user thread, only while `running` is set. After an unplug the transfer callback has
cleared it (`:985`): the handle is freed while the user thread may still wait on it or
run the frame callback.

`handler_stop`: `AbstractUVCCameraHandler.java:182` says `stopPreview` waits "for actually
preview stopped". It waits only if `isPreviewing()` (`:176`); a start that the camera
thread has already taken from the queue, where `removeMessages` does not find it, sets
the flag later, and the preview then starts after `stopPreview` has returned.

Disagreements and failures that no quoted comment contradicts, or that the properties
name as exceptions, have no run of their own. The models reach each of them:

* A recording with the buffer encoder, the one the application chooses, leaves
  `mIsRecording` set (`AbstractUVCCameraHandler.java:695`), so a released camera thread
  never ends (`Stuck`); so does a recording that fails to start (`:596`).
* `handleRelease` on an encoder thread (`:712`) cannot quit, so a thread that had stayed for
  the recording never does (`ReportLost`), and it may take the camera from under the camera
  thread (`Intruded`).
* `USBMonitor.java:511` says the periodic check looks for changes of the connected devices;
  it looks for a change of their number, and misses a device that comes while another goes,
  or after a stale number was written (`AttachReported`).
* The lost wake-ups `LostWakeup`, `Unheard` and `LostStop`, the partner that never comes
  (`Forsaken`), the missing codec of `OnlyMissingCodecThrows`, the lost resubmission and the
  event thread that ends at once (`StopReturns` of the stream), the start that fails and
  frees what is in flight (`SafeFree`), the flag a close leaves (`stale`), the entry a clone
  removes, a block put behind `destroy` (`late`) and descriptor 0.

## 9. Not modelled

* Parts of modelled components: in UVCPreview the constructor, destructor and
  `setPreviewSize` (they change parameters while nothing runs); in stream.c the choice of
  alternate settings and bandwidth, the probe and commit requests and
  `uvc_stream_get_frame` (no caller); in the handler the application's callbacks, names of
  files and the delivery of pictures; in USBMonitor the filter, names and keys of devices,
  the interfaces of a control block, and `onAttach`, `onDettach`, `onCancel`, which run
  only the application; camera controls, which pass one value to one request.
* Smaller things inside modelled components, none of which a property depends on unless
  it says so:
  * UVCPreview: `joinCapture` reads the handle again while it waits (`UVCPreview.cpp:361`
    passes it once; this differs only after a stop overtook the creation, or the creation
    failed, when the join is undefined anyway); the two critical sections at `:371-382` and
    the two tests at `:851-852` are one step each.
  * UvcStream: the reads of `running` at `stream.c:1867` and `:1805` and its write at `:1810`
    are one step; `pthread_create` succeeds (its result is ignored, `:1586`); no session
    begins after a failed start that left its user thread (`Quiet`); transfer callbacks do
    not nest in the synchronous control transfers of a transfer callback (`:729-731`,
    `:869-871`).
  * MediaRecording: `release()` clears its flags and frees the codec in one step, without
    the exceptions it catches (`MediaEncoder.java:225-227`); `prepareThrows` is the
    `IOException` that the handler catches, before there is a codec; every
    output buffer a codec announces exists (`:397` throws for one that does not).
  * CameraHandler: `startPreview` of the native side succeeds (its result is ignored,
    `AbstractUVCCameraHandler.java:494`); `stopPreview` is not called from the camera thread
    itself, where it does not wait (`:181`); a handler tests `mUVCCamera` and uses it in one
    step where nothing else lies between (`:453`, `:505`); critical sections with nothing
    shared between them are one step (`onStopped`, `handleClose` up to its `mSync`).
  * USBMonitor: calls after `destroy` that end in an `IllegalStateException` (`:287`,
    `:388`); `mDeviceCounts` is read and written in one step (`:530-531`); a second check
    posted while one is pending is the same check; permissions are requested for a device,
    by the main thread.
  * CameraConnection: a `dup` that fails (`UVCCamera.cpp:154`, not tested) is a connect that
    fails.
* `Parameters`, `DeviceFilter`, `Size`, the conversions of `frame.c`: functions from data to
  data without shared state. Their correctness is about bytes and text, and would be a
  transliteration.
* Views, dialogs, activities: drawing and buttons. The only concurrent part, which thread
  calls what, is in the roles of `CameraHandler`.
* The pipeline library: `Android.mk` does not compile it.
* libusb, libjpeg-turbo, rapidjson: vendored. What this code relies on (completion and
  cancellation of transfers, event handling) is part of `UvcStream` as the behaviour of
  its surroundings. They are most of the repository's lines, which is why the models
  stand for a small share of it.

## 10. Running

    tlc -workers 2 -config MCPreviewSessions.cfg MCUVCPreview.tla
    tlc -workers 2 -config MCPreviewSetters.cfg MCUVCPreview.tla
    tlc -workers 2 -config MCPreviewLive.cfg MCUVCPreview.tla
    tlapm UVCPreviewProofs.tla
    tlapm UVCPreviewFrames.tla
    tlapm UVCPreviewCallback.tla
    tlc -workers 2 -config MCRecording.cfg MediaRecording.tla
    tlapm MediaRecordingProofs.tla
    tlc -workers 2 -config MCStream.cfg UvcStream.tla
    tlapm UvcStreamProofs.tla
    tlc -workers 2 -config MCHandler.cfg CameraHandler.tla
    tlapm CameraHandlerProofs.tla
    tlapm CameraHandlerQueue.tla
    tlc -workers 2 -config MCConnection.cfg MCCameraConnection.tla
    tlapm CameraConnectionProofs.tla

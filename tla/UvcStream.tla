----------------------------- MODULE UvcStream -----------------------------
(***************************************************************************)
(* libuvc's streaming (stream.c) and the device handle's event thread      *)
(* (device.c, init.c).  Three threads share one stream handle:             *)
(*   - the owner, which opens the device, starts and stops the stream;     *)
(*   - the event thread, in which libusb runs the transfer callbacks;      *)
(*   - the user thread, which calls the frame callback.                    *)
(* cb_mutex is never held across a wait, so a critical section is one      *)
(* step; the unlocked reads and writes of running and of hold_bfh_err are  *)
(* steps of their own.  A payload is abstracted to what it does to the     *)
(* frame being assembled; numbers start again when a handle is freed.      *)
(* Using a freed handle is undefined: the model stops where it would       *)
(* happen.                                                                 *)
(***************************************************************************)
EXTENDS Integers, FiniteSets

CONSTANTS
    NumTransfers,   \* LIBUVC_NUM_TRANSFER_BUFS
    MaxSeq,         \* bound: frames published in a session
    MaxSessions,    \* bound: streams started
    Unplug,         \* whether the device may be unplugged
    SubmitFails     \* whether libusb_submit_transfer may fail on a plugged device

ASSUME StreamAssumption == /\ NumTransfers \in Nat \ {0}
                           /\ MaxSeq \in Nat
                           /\ MaxSessions \in Nat
                           /\ Unplug \in BOOLEAN
                           /\ SubmitFails \in BOOLEAN

TRANSFER == 1 .. NumTransfers

VARIABLES
    plugged, devh, kill_handler_thread, handler_thread, \* the device handle
    strm, running,                       \* the stream handle and its flag
    cause,                               \* history: who cleared running first
    transfers,
    ownerPc, next, sessions,             \* the owner; next transfer to submit
    evPc,                                \* where the callback being run is
    seq, got, bfh_err, bad,              \* frame being filled; bad: history
    hold_seq, hold_bfh_err,              \* the published frame
    userPc, last_seq, frame, delivered   \* frame -1: never populated

device == <<plugged, devh, kill_handler_thread, handler_thread>>
handle == <<strm, running, cause>>
owner  == <<ownerPc, next, sessions>>
filling == <<seq, got, bfh_err, bad>>
hold   == <<hold_seq, hold_bfh_err>>
user   == <<userPc, last_seq, frame, delivered>>
vars == <<device, handle, transfers, owner, evPc, filling, hold, user>>

Init ==
    /\ plugged = TRUE /\ devh = FALSE
    /\ kill_handler_thread = FALSE /\ handler_thread = FALSE
    /\ strm = "none" /\ running = FALSE /\ cause = "none"
    /\ transfers = [i \in TRANSFER |-> "null"]
    /\ ownerPc = "idle" /\ next = 1 /\ sessions = 0
    /\ evPc = "poll"
    /\ seq = 0 /\ got = FALSE /\ bfh_err = FALSE /\ bad = {}
    /\ hold_seq = 0 /\ hold_bfh_err = FALSE
    /\ userPc = "none" /\ last_seq = 0 /\ frame = -1 /\ delivered = -1

\* Nobody but the owner can still touch the stream handle.
Quiet == /\ \A i \in TRANSFER : transfers[i] \in {"null", "idle"}
         /\ evPc = "poll"
         /\ userPc \in {"none", "done"}

\* A submission failed and left the transfer where no callback finds it.
Lost == ownerPc # "submit" /\ \E i \in TRANSFER : transfers[i] = "idle"

\* running = 0, remembering who was first.
clear_running(who) ==
    /\ running' = FALSE
    /\ cause' = IF running THEN who ELSE cause

\* pthread_cond_broadcast(&cb_cond), owner and user thread being the waiters.
broadcast == /\ ownerPc' = IF ownerPc = "blocked" THEN "wait" ELSE ownerPc
             /\ userPc' = IF userPc = "blocked" THEN "test" ELSE userPc

-----------------------------------------------------------------------------
(* The owner.                                                              *)

\* The first device of the context starts the event thread.
uvc_open ==
    /\ plugged /\ ~devh /\ ownerPc = "idle"
    /\ devh' = TRUE /\ handler_thread' = TRUE
    /\ UNCHANGED <<plugged, kill_handler_thread, handle, transfers, owner,
                   evPc, filling, hold, user>>

\* The streams are stopped before; kill_handler_thread is never reset.
uvc_close ==
    /\ devh /\ ownerPc = "idle" /\ Quiet
    /\ kill_handler_thread' = TRUE
    /\ ownerPc' = "join_events"
    /\ UNCHANGED <<plugged, devh, handler_thread, handle, transfers, next,
                   sessions, evPc, filling, hold, user>>

join_handler_thread ==
    /\ ownerPc = "join_events" /\ ~handler_thread
    /\ devh' = FALSE /\ ownerPc' = "idle"
    /\ UNCHANGED <<plugged, kill_handler_thread, handler_thread, handle,
                   transfers, next, sessions, evPc, filling, hold, user>>

\* uvc_stream_open_ctrl and uvc_stream_start_bandwidth up to the creation of
\* the user thread, on a new handle.
uvc_stream_start ==
    /\ devh /\ ownerPc = "idle" /\ Quiet /\ sessions < MaxSessions
    /\ strm' = "open" /\ running' = TRUE /\ cause' = "none"
    /\ transfers' = [i \in TRANSFER |-> "idle"]
    /\ ownerPc' = "submit" /\ sessions' = sessions + 1
    /\ userPc' = "test"
    /\ UNCHANGED <<device, next, evPc, filling, hold, last_seq, frame, delivered>>

\* An error before any transfer exists; the new handle is closed again.
uvc_stream_start_fails ==
    /\ devh /\ ownerPc = "idle" /\ Quiet /\ sessions < MaxSessions
    /\ strm' = "freed" /\ running' = FALSE /\ cause' = "start"
    /\ transfers' = [i \in TRANSFER |-> "null"]
    /\ sessions' = sessions + 1
    /\ UNCHANGED <<device, ownerPc, next, evPc, filling, hold, user>>

\* Faulty variant: the loop over the transfers runs once too often.
submit_next_TooFar ==
    /\ ownerPc = "submit" /\ plugged
    /\ transfers' = [transfers EXCEPT ![next] = "flight"]
    /\ next' = next + 1
    /\ ownerPc' = IF next > NumTransfers THEN "streaming" ELSE "submit"
    /\ UNCHANGED <<device, handle, sessions, evPc, filling, hold, user>>

submit_next ==
    /\ ownerPc = "submit" /\ plugged
    /\ transfers' = [transfers EXCEPT ![next] = "flight"]
    /\ next' = IF next = NumTransfers THEN next ELSE next + 1
    /\ ownerPc' = IF next = NumTransfers THEN "streaming" ELSE "submit"
    /\ UNCHANGED <<device, handle, sessions, evPc, filling, hold, user>>

\* The transfers already submitted stay in flight.
submit_next_fails ==
    /\ ownerPc = "submit" /\ (SubmitFails \/ ~plugged)
    /\ clear_running("start")
    /\ ownerPc' = "close"
    /\ UNCHANGED <<device, strm, transfers, next, sessions, evPc, filling,
                   hold, user>>

uvc_stop_streaming ==
    /\ ownerPc = "streaming"
    /\ ownerPc' = "close"
    /\ UNCHANGED <<device, handle, transfers, next, sessions, evPc, filling,
                   hold, user>>

\* Faulty variant: the stop does not clear running before it cancels.
uvc_stream_close_Running ==
    /\ ownerPc = "close"
    /\ ownerPc' = IF running THEN "cancel" ELSE "free"
    /\ UNCHANGED <<device, handle, transfers, next, sessions, evPc, filling,
                   hold, user>>

\* uvc_stream_close stops the stream only while running is set.
uvc_stream_close ==
    /\ ownerPc = "close"
    /\ IF running THEN ownerPc' = "cancel" /\ clear_running("stop")
                  ELSE ownerPc' = "free" /\ UNCHANGED <<running, cause>>
    /\ UNCHANGED <<device, strm, transfers, next, sessions, evPc, filling,
                   hold, user>>

\* Faulty variant: the user thread is not kicked awake.
test_transfers_NoKick ==
    /\ ownerPc' = IF \A i \in TRANSFER : transfers[i] = "null" THEN "join" ELSE "blocked"
    /\ UNCHANGED userPc

\* All transfers deleted: wake the user thread up; otherwise wait.
test_transfers ==
    LET deleted == \A i \in TRANSFER : transfers[i] = "null"
    IN  /\ ownerPc' = IF deleted THEN "join" ELSE "blocked"
        /\ userPc' = IF deleted /\ userPc = "blocked" THEN "test" ELSE userPc

\* A transfer whose callback is running is not found by libusb_cancel_transfer.
cancel_transfers ==
    /\ ownerPc = "cancel"
    /\ transfers' = [i \in TRANSFER |-> IF transfers[i] = "flight" THEN "cancelled"
                                                           ELSE transfers[i]]
    /\ test_transfers
    /\ UNCHANGED <<device, handle, next, sessions, evPc, filling, hold,
                   last_seq, frame, delivered>>

wait_transfers ==
    /\ ownerPc = "wait"
    /\ test_transfers
    /\ UNCHANGED <<device, handle, transfers, next, sessions, evPc, filling,
                   hold, last_seq, frame, delivered>>

\* Faulty variant: the user thread is not joined.
join_user_thread_Skipped ==
    /\ ownerPc = "join"
    /\ ownerPc' = "free"
    /\ UNCHANGED <<device, handle, transfers, next, sessions, evPc, filling,
                   hold, user>>

join_user_thread ==
    /\ ownerPc = "join" /\ userPc = "done"
    /\ ownerPc' = "free"
    /\ UNCHANGED <<device, handle, transfers, next, sessions, evPc, filling,
                   hold, user>>

free_stream ==
    /\ ownerPc = "free"
    /\ strm' = "freed" /\ ownerPc' = "idle" /\ next' = 1
    /\ seq' = 0 /\ got' = FALSE /\ bfh_err' = FALSE /\ bad' = {}
    /\ hold_seq' = 0 /\ hold_bfh_err' = FALSE
    /\ last_seq' = 0 /\ frame' = -1 /\ delivered' = -1
    /\ UNCHANGED <<device, running, cause, transfers, sessions, evPc, userPc>>

-----------------------------------------------------------------------------
(* The event thread.                                                       *)

exit_handle_events ==
    /\ handler_thread /\ kill_handler_thread /\ evPc = "poll"
    /\ handler_thread' = FALSE
    /\ UNCHANGED <<plugged, devh, kill_handler_thread, handle, transfers,
                   owner, evPc, filling, hold, user>>

\* libusb completes transfer i; a cancelled one may still have completed.
_uvc_stream_callback(i, status) ==
    /\ handler_thread /\ ~kill_handler_thread /\ evPc = "poll"
    /\ strm = "open"
    /\ transfers[i] \in {"flight", "cancelled"}
    /\ status = "cancelled" => transfers[i] = "cancelled"
    /\ status = "no_device" => ~plugged
    /\ status = "completed" => plugged
    /\ transfers' = [transfers EXCEPT ![i] = "callback"]
    /\ evPc' = CASE status = "completed" -> "payload"
                 [] status = "timed_out" -> "decide"
                 [] OTHER -> "delete"
    /\ IF status = "no_device" THEN clear_running("no_device")
                               ELSE UNCHANGED <<running, cause>>
    /\ UNCHANGED <<device, strm, owner, filling, hold, user>>

\* Publish the frame with error flag err and start the next one.
_uvc_swap_buffers(err) ==
    /\ seq < MaxSeq
    /\ hold_seq' = seq /\ hold_bfh_err' = err
    /\ bad' = IF err THEN bad \cup {seq} ELSE bad
    /\ seq' = seq + 1 /\ bfh_err' = FALSE
    /\ broadcast

keep_filling == UNCHANGED <<seq, bad, hold, userPc, ownerPc>>

\* One packet, not necessarily the last of the payload: without effect, a bad
\* one, image data, data of the next frame (the frame id flipped), the last data
\* of a frame.
_uvc_process_payload ==
    /\ strm = "open" /\ evPc = "payload"
    /\ \/ UNCHANGED <<got, bfh_err>> /\ keep_filling
       \/ bfh_err' = TRUE /\ UNCHANGED got /\ keep_filling
       \/ got' = TRUE /\ UNCHANGED bfh_err /\ keep_filling
       \/ got /\ got' = TRUE /\ _uvc_swap_buffers(bfh_err)
       \/ got' = FALSE /\ _uvc_swap_buffers(bfh_err)
    /\ evPc' \in {"payload", "decide"}
    /\ UNCHANGED <<device, handle, transfers, next, sessions, last_seq, frame,
                   delivered>>

\* running is read without the mutex, and may be cleared before the submit.
decide_resubmit ==
    /\ strm = "open" /\ evPc = "decide"
    /\ evPc' = IF running THEN "submit" ELSE "delete"
    /\ UNCHANGED <<device, handle, transfers, owner, filling, hold, user>>

\* The transfer whose callback is run becomes what.
callback_transfer(what) ==
    transfers' = [i \in TRANSFER |-> IF transfers[i] = "callback" THEN what
                                                                ELSE transfers[i]]

\* The result of libusb_submit_transfer is ignored.
resubmit_transfer ==
    /\ strm = "open" /\ evPc = "submit"
    /\ \/ plugged /\ callback_transfer("flight")
       \/ (SubmitFails \/ ~plugged) /\ callback_transfer("idle")
    /\ evPc' = "poll"
    /\ UNCHANGED <<device, handle, owner, filling, hold, user>>

\* Faulty variant: the waiters are signalled one at a time.
_uvc_delete_transfer_Signal ==
    /\ strm = "open" /\ evPc = "delete"
    /\ callback_transfer("null")
    /\ \/ userPc = "blocked" /\ userPc' = "test" /\ UNCHANGED ownerPc
       \/ ownerPc = "blocked" /\ ownerPc' = "wait" /\ UNCHANGED userPc
       \/ "blocked" \notin {userPc, ownerPc} /\ UNCHANGED <<userPc, ownerPc>>
    /\ evPc' = "poll"
    /\ UNCHANGED <<device, handle, next, sessions, filling, hold, last_seq,
                   frame, delivered>>

\* Faulty variant: nobody is told that the transfer is gone.
_uvc_delete_transfer_Silent ==
    /\ strm = "open" /\ evPc = "delete"
    /\ callback_transfer("null")
    /\ evPc' = "poll"
    /\ UNCHANGED <<device, handle, owner, filling, hold, user>>

_uvc_delete_transfer ==
    /\ strm = "open" /\ evPc = "delete"
    /\ callback_transfer("null")
    /\ broadcast
    /\ evPc' = "poll"
    /\ UNCHANGED <<device, handle, next, sessions, filling, hold, last_seq,
                   frame, delivered>>

-----------------------------------------------------------------------------
(* The user thread, _uvc_user_caller.                                      *)

wait_frame ==
    /\ strm = "open" /\ userPc = "test"
    /\ running /\ last_seq = hold_seq
    /\ userPc' = "blocked"
    /\ UNCHANGED <<device, handle, transfers, owner, evPc, filling, hold,
                   last_seq, frame, delivered>>

leave_user_caller ==
    /\ strm = "open" /\ userPc = "test" /\ ~running
    /\ userPc' = "done"
    /\ UNCHANGED <<device, handle, transfers, owner, evPc, filling, hold,
                   last_seq, frame, delivered>>

\* Faulty variant: a frame with an error is copied too.
_uvc_populate_frame_Always ==
    /\ strm = "open" /\ userPc = "test"
    /\ running /\ last_seq # hold_seq
    /\ last_seq' = hold_seq
    /\ frame' = hold_seq
    /\ userPc' = "check"
    /\ UNCHANGED <<device, handle, transfers, owner, evPc, filling, hold,
                   delivered>>

_uvc_populate_frame ==
    /\ strm = "open" /\ userPc = "test"
    /\ running /\ last_seq # hold_seq
    /\ last_seq' = hold_seq
    /\ frame' = IF hold_bfh_err THEN frame ELSE hold_seq
    /\ userPc' = "check"
    /\ UNCHANGED <<device, handle, transfers, owner, evPc, filling, hold,
                   delivered>>

\* hold_bfh_err is read again after the unlock.
skip_bad_frame ==
    /\ strm = "open" /\ userPc = "check" /\ hold_bfh_err
    /\ userPc' = "test"
    /\ UNCHANGED <<device, handle, transfers, owner, evPc, filling, hold,
                   last_seq, frame, delivered>>

user_cb ==
    /\ strm = "open" /\ userPc = "check" /\ ~hold_bfh_err
    /\ delivered' = frame
    /\ userPc' = "callback"
    /\ UNCHANGED <<device, handle, transfers, owner, evPc, filling, hold,
                   last_seq, frame>>

user_cb_returns ==
    /\ strm = "open" /\ userPc = "callback"
    /\ userPc' = "test"
    /\ UNCHANGED <<device, handle, transfers, owner, evPc, filling, hold,
                   last_seq, frame, delivered>>

-----------------------------------------------------------------------------
unplug ==
    /\ Unplug /\ plugged
    /\ plugged' = FALSE
    /\ UNCHANGED <<devh, kill_handler_thread, handler_thread, handle,
                   transfers, owner, evPc, filling, hold, user>>

STATUS == {"completed", "timed_out", "cancelled", "error", "no_device"}

Start == uvc_open \/ uvc_stream_start \/ uvc_stream_start_fails
Stop  == uvc_stop_streaming \/ uvc_close

\* Steps the owner takes once it is inside a call.
Owner == \/ submit_next \/ submit_next_fails \/ uvc_stream_close
         \/ cancel_transfers \/ wait_transfers \/ join_user_thread
         \/ free_stream \/ join_handler_thread

Event == \/ exit_handle_events
         \/ \E i \in TRANSFER, s \in STATUS : _uvc_stream_callback(i, s)
         \/ _uvc_process_payload \/ decide_resubmit \/ resubmit_transfer
         \/ _uvc_delete_transfer

User == \/ wait_frame \/ leave_user_caller \/ _uvc_populate_frame
        \/ skip_bad_frame \/ user_cb \/ user_cb_returns

Next == Start \/ Stop \/ Owner \/ Event \/ User \/ unplug

Spec == Init /\ [][Next]_vars
FairSpec == Spec /\ WF_vars(Owner) /\ WF_vars(Event) /\ WF_vars(User)

-----------------------------------------------------------------------------
TypeOK ==
    /\ {plugged, devh, kill_handler_thread, handler_thread, running, got, bfh_err,
        hold_bfh_err} \subseteq BOOLEAN
    /\ strm \in {"none", "open", "freed"}
    /\ cause \in {"none", "start", "stop", "no_device"}
    /\ transfers \in [TRANSFER -> {"null", "idle", "flight", "cancelled", "callback"}]
    /\ ownerPc \in {"idle", "submit", "streaming", "close", "cancel", "wait",
                    "blocked", "join", "free", "join_events"}
    /\ next \in TRANSFER
    /\ sessions \in 0 .. MaxSessions
    /\ evPc \in {"poll", "payload", "decide", "submit", "delete"}
    /\ seq \in 0 .. MaxSeq /\ hold_seq \in 0 .. MaxSeq /\ last_seq \in 0 .. MaxSeq
    /\ bad \subseteq 0 .. MaxSeq
    /\ userPc \in {"none", "test", "blocked", "check", "callback", "done"}
    /\ frame \in -1 .. MaxSeq /\ delivered \in -1 .. MaxSeq

\* A handle freed by a stop that cleared running itself is out of everybody's
\* reach: all transfers are deleted, no callback runs, the user thread ended.
SafeFree ==
    strm = "freed" /\ cause = "stop" =>
        /\ \A i \in TRANSFER : transfers[i] = "null"
        /\ evPc = "poll"
        /\ userPc = "done"

\* uvc_stop_streaming: "Closes all streams, ends threads and cancels pollers"
\* (stream.c:1776): once it has freed the handle the user thread has ended.
EndsThreads == strm = "freed" /\ cause # "start" => userPc = "done"

\* Nobody sleeps through what it waits for: the owner waits only for transfers
\* that are still to be deleted, the user thread never past a published frame,
\* nor after running was cleared unless a wake-up is still to come.  A start that
\* failed is the exception, it leaves the user thread waiting for ever.
NoLostWakeup ==
    /\ ownerPc = "blocked" => \E i \in TRANSFER : transfers[i] # "null"
    /\ strm = "open" /\ userPc = "blocked" =>
          /\ last_seq = hold_seq
          /\ \/ running \/ evPc = "delete" \/ cause = "start"
             \/ ownerPc \in {"cancel", "wait", "blocked"}

\* A cancellation misses at most one transfer, the one whose callback read
\* running before it was cleared and submits it again: a stop waits for the
\* time-out of one transfer at most, not for one after the other.
Late == {i \in TRANSFER : \/ transfers[i] = "flight"
                           \/ (transfers[i] = "callback" /\ evPc = "submit")}
OneLate ==
    ownerPc \in {"wait", "blocked"} => \A i, j \in Late : i = j

\* A frame handed to the callback is newer than the one before, unless a frame
\* was published with an error since: reading hold_bfh_err after the unlock may
\* then hand out the old frame again.  A frame with an error is never handed out.
FreshDelivery ==
    [][userPc = "check" /\ userPc' = "callback" =>
          /\ frame \notin bad
          /\ frame > delivered \/ \E s \in bad : s > delivered]_vars

\* A stop that cleared running returns, as long as the event thread of the
\* device is there and no resubmission was lost.
StopReturns ==
    ownerPc = "cancel" /\ handler_thread /\ ~kill_handler_thread
        ~> ownerPc = "idle" \/ Lost

\* When the device goes away the user thread ends without any stop, unless its
\* handle is freed before it could.
UserThreadEnds ==
    cause = "no_device" /\ userPc # "done" ~> userPc = "done" \/ strm = "freed"
=============================================================================

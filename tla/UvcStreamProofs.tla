-------------------------- MODULE UvcStreamProofs --------------------------
(* Theorems about UvcStream for any number of transfers and frames.         *)
EXTENDS UvcStream, TLAPS

\* Where the owner is while it has a stream handle.
InCall == {"submit", "streaming", "close", "cancel", "wait", "blocked", "join",
           "free"}
Calls == strm = "open" <=> ownerPc \in InCall

\* Who has cleared running, in each phase of the owner.
Causes ==
    /\ ownerPc \in {"submit", "streaming"} =>
          cause = IF running THEN "none" ELSE "no_device"
    /\ ownerPc = "close" => cause # "stop" /\ (running <=> cause = "none")
    /\ ownerPc \in {"cancel", "wait", "blocked", "join"} => ~running /\ cause = "stop"
    /\ ownerPc \in {"free", "idle", "join_events"} => ~running

\* At most one callback runs, that of the transfer marked so.
Callback ==
    /\ evPc # "poll" <=> \E i \in TRANSFER : transfers[i] = "callback"
    /\ \A i, j \in TRANSFER :
          transfers[i] = "callback" /\ transfers[j] = "callback" => i = j

\* What is still to submit has not been touched.
Submitting ==
    ownerPc = "submit" => \A i \in TRANSFER : i >= next => transfers[i] = "idle"

\* What a stop that cleared running itself has waited for.
Stopped ==
    /\ cause = "stop" /\ (ownerPc \in {"join", "free"} \/ strm = "freed") =>
          \A i \in TRANSFER : transfers[i] = "null"
    /\ cause = "stop" /\ (ownerPc = "free" \/ strm = "freed") => userPc = "done"

\* How the frame numbers of the two threads relate.
Frames ==
    /\ \A s \in bad : s < seq
    /\ hold_bfh_err <=> hold_seq \in bad
    /\ hold_seq < seq \/ hold_seq = 0
    /\ last_seq <= hold_seq
    /\ frame \notin bad /\ frame <= last_seq /\ frame < seq
    /\ delivered <= frame
    /\ strm = "open" /\ userPc = "check" =>
          delivered < last_seq /\ (frame = last_seq \/ last_seq \in bad)

\* TypeOK in two parts: the flags, and everything else.
Flags == {plugged, devh, kill_handler_thread, handler_thread, running, got, bfh_err,
          hold_bfh_err} \subseteq BOOLEAN
Ranges ==
    /\ strm \in {"none", "open", "freed"}
    /\ cause \in {"none", "start", "stop", "no_device"}
    /\ transfers \in [TRANSFER -> {"null", "idle", "flight", "cancelled", "callback"}]
    /\ ownerPc \in InCall \cup {"idle", "join_events"}
    /\ next \in TRANSFER
    /\ sessions \in 0 .. MaxSessions
    /\ evPc \in {"poll", "payload", "decide", "submit", "delete"}
    /\ seq \in 0 .. MaxSeq /\ hold_seq \in 0 .. MaxSeq /\ last_seq \in 0 .. MaxSeq
    /\ bad \subseteq 0 .. MaxSeq
    /\ userPc \in {"none", "test", "blocked", "check", "callback", "done"}
    /\ frame \in -1 .. MaxSeq /\ delivered \in -1 .. MaxSeq

IInv == Flags /\ Ranges /\ Calls /\ Causes /\ Callback /\ Submitting /\ Stopped
        /\ OneLate /\ Frames /\ NoLostWakeup

LEMMA FlagsStep ==
    ASSUME IInv, Next
    PROVE  Flags'
<1> USE DEF IInv
<1>1. ASSUME uvc_open PROVE Flags'
  BY <1>1 DEF Flags, uvc_open, handle, owner, filling, hold, user
<1>2. ASSUME uvc_stream_start PROVE Flags'
  BY <1>2 DEF Flags, uvc_stream_start, Quiet, TRANSFER, device, filling, hold
<1>3. ASSUME uvc_stream_start_fails PROVE Flags'
  BY <1>3 DEF Flags, uvc_stream_start_fails, Quiet, TRANSFER, device, filling,
       hold, user
<1>4. ASSUME uvc_close PROVE Flags'
  BY <1>4 DEF Flags, uvc_close, Quiet, TRANSFER, handle, filling, hold, user
<1>5. ASSUME submit_next_fails PROVE Flags'
  BY <1>5 DEF Flags, submit_next_fails, clear_running, device, filling, hold,
       user
<1>6. ASSUME uvc_stream_close PROVE Flags'
  BY <1>6 DEF Flags, uvc_stream_close, clear_running, device, filling, hold,
       user
<1>7. ASSUME free_stream PROVE Flags'
  BY <1>7 DEF Flags, free_stream, device
<1>8. ASSUME join_handler_thread PROVE Flags'
  BY <1>8 DEF Flags, join_handler_thread, handle, filling, hold, user
<1>9. ASSUME exit_handle_events PROVE Flags'
  BY <1>9 DEF Flags, exit_handle_events, handle, owner, filling, hold, user
<1>10. ASSUME NEW i \in TRANSFER, NEW s \in STATUS, _uvc_stream_callback(i, s) PROVE Flags'
  BY <1>10 DEF Flags, _uvc_stream_callback, clear_running, device, owner,
       filling, hold, user
<1>11. ASSUME _uvc_process_payload PROVE Flags'
  BY <1>11 DEF Flags, _uvc_process_payload, keep_filling, _uvc_swap_buffers,
       broadcast, device, handle, hold
<1>12. ASSUME unplug PROVE Flags'
  BY <1>12 DEF Flags, unplug, handle, owner, filling, hold, user
<1>13. ASSUME uvc_stop_streaming \/ submit_next \/ cancel_transfers \/
            wait_transfers \/ join_user_thread \/ decide_resubmit \/
            resubmit_transfer \/ _uvc_delete_transfer \/ wait_frame \/
            leave_user_caller \/ _uvc_populate_frame \/ skip_bad_frame \/
            user_cb \/ user_cb_returns
      PROVE  Flags'
  <2>1. UNCHANGED <<plugged, devh, kill_handler_thread, handler_thread,
       running, got, bfh_err, hold_bfh_err>>
    BY <1>13 DEF uvc_stop_streaming, submit_next, cancel_transfers,
       wait_transfers, join_user_thread, decide_resubmit, resubmit_transfer,
       _uvc_delete_transfer, wait_frame, leave_user_caller,
       _uvc_populate_frame, skip_bad_frame, user_cb, user_cb_returns, device,
       handle, owner, filling, hold, user
  <2> QED BY <2>1 DEF Flags
<1> QED BY <1>1, <1>2, <1>3, <1>4, <1>5, <1>6, <1>7, <1>8, <1>9, <1>10, <1>11,
       <1>12, <1>13 DEF Next, Start, Stop, Owner, Event, User

(* Types: the bounds of seq are those of _uvc_swap_buffers. *)
LEMMA RangesStep ==
    ASSUME IInv, Next
    PROVE  Ranges'
<1> USE DEF IInv
<1>1. ASSUME uvc_stream_start PROVE Ranges'
  BY <1>1, StreamAssumption DEF InCall, Ranges, uvc_stream_start, Quiet,
       TRANSFER, device, filling, hold
<1>2. ASSUME uvc_stream_start_fails PROVE Ranges'
  BY <1>2, StreamAssumption DEF InCall, Ranges, uvc_stream_start_fails, Quiet,
       TRANSFER, device, filling, hold, user
<1>3. ASSUME uvc_stop_streaming PROVE Ranges'
  BY <1>3, StreamAssumption DEF InCall, Ranges, uvc_stop_streaming, device,
       handle, filling, hold, user
<1>4. ASSUME uvc_close PROVE Ranges'
  BY <1>4, StreamAssumption DEF InCall, Ranges, uvc_close, Quiet, TRANSFER,
       handle, filling, hold, user
<1>5. ASSUME submit_next PROVE Ranges'
  BY <1>5, StreamAssumption DEF InCall, Ranges, TRANSFER, submit_next, device,
       handle, filling, hold, user
<1>6. ASSUME submit_next_fails PROVE Ranges'
  BY <1>6, StreamAssumption DEF InCall, Ranges, submit_next_fails,
       clear_running, device, filling, hold, user
<1>7. ASSUME uvc_stream_close PROVE Ranges'
  BY <1>7, StreamAssumption DEF InCall, Ranges, uvc_stream_close,
       clear_running, device, filling, hold, user
<1>8. ASSUME cancel_transfers PROVE Ranges'
  BY <1>8, StreamAssumption DEF InCall, Ranges, cancel_transfers, TRANSFER,
       test_transfers, device, handle, filling, hold
<1>9. ASSUME wait_transfers PROVE Ranges'
  BY <1>9, StreamAssumption DEF InCall, Ranges, wait_transfers,
       test_transfers, TRANSFER, device, handle, filling, hold
<1>10. ASSUME join_user_thread PROVE Ranges'
  BY <1>10, StreamAssumption DEF InCall, Ranges, join_user_thread, device,
       handle, filling, hold, user
<1>11. ASSUME free_stream PROVE Ranges'
  BY <1>11, StreamAssumption DEF InCall, Ranges, TRANSFER, free_stream, device
<1>12. ASSUME join_handler_thread PROVE Ranges'
  BY <1>12, StreamAssumption DEF InCall, Ranges, join_handler_thread, handle,
       filling, hold, user
<1>13. ASSUME NEW i \in TRANSFER, NEW s \in STATUS, _uvc_stream_callback(i, s) PROVE Ranges'
  BY <1>13, StreamAssumption DEF InCall, Ranges, _uvc_stream_callback,
       clear_running, device, owner, filling, hold, user
<1>14. ASSUME _uvc_process_payload PROVE Ranges'
  <2>1. /\ strm = "open" /\ evPc' \in {"payload", "decide"}
        /\ UNCHANGED <<strm, cause, transfers, next, sessions, last_seq, frame,
                       delivered>>
    BY <1>14 DEF _uvc_process_payload, handle
  <2>2. keep_filling \/ _uvc_swap_buffers(bfh_err)
    BY <1>14 DEF _uvc_process_payload
  <2>3. CASE keep_filling
    BY <2>1, <2>3 DEF keep_filling, hold, Ranges, InCall
  <2>4. CASE _uvc_swap_buffers(bfh_err)
    BY <2>1, <2>4, StreamAssumption DEF _uvc_swap_buffers, broadcast, Ranges, InCall
  <2> QED BY <2>2, <2>3, <2>4
<1>15. ASSUME decide_resubmit PROVE Ranges'
  BY <1>15, StreamAssumption DEF InCall, Ranges, decide_resubmit, device,
       handle, owner, filling, hold, user
<1>16. ASSUME resubmit_transfer PROVE Ranges'
  BY <1>16, StreamAssumption DEF InCall, Ranges, resubmit_transfer,
       callback_transfer, TRANSFER, device, handle, owner, filling, hold, user
<1>17. ASSUME _uvc_delete_transfer PROVE Ranges'
  BY <1>17, StreamAssumption DEF InCall, Ranges, _uvc_delete_transfer,
       callback_transfer, TRANSFER, broadcast, device, handle, filling, hold
<1>18. ASSUME wait_frame PROVE Ranges'
  BY <1>18, StreamAssumption DEF InCall, Ranges, wait_frame, device, handle,
       owner, filling, hold
<1>19. ASSUME leave_user_caller PROVE Ranges'
  BY <1>19, StreamAssumption DEF InCall, Ranges, leave_user_caller, device,
       handle, owner, filling, hold
<1>20. ASSUME _uvc_populate_frame PROVE Ranges'
  BY <1>20, StreamAssumption DEF InCall, Ranges, _uvc_populate_frame, device,
       handle, owner, filling, hold
<1>21. ASSUME skip_bad_frame PROVE Ranges'
  BY <1>21, StreamAssumption DEF InCall, Ranges, skip_bad_frame, device,
       handle, owner, filling, hold
<1>22. ASSUME user_cb PROVE Ranges'
  BY <1>22, StreamAssumption DEF InCall, Ranges, user_cb, device, handle,
       owner, filling, hold
<1>23. ASSUME user_cb_returns PROVE Ranges'
  BY <1>23, StreamAssumption DEF InCall, Ranges, user_cb_returns, device,
       handle, owner, filling, hold
<1>24. ASSUME uvc_open \/ exit_handle_events \/ unplug
      PROVE  Ranges'
  <2>1. UNCHANGED <<strm, cause, transfers, ownerPc, next, sessions, evPc,
       seq, bad, hold_seq, userPc, last_seq, frame, delivered>>
    BY <1>24 DEF uvc_open, exit_handle_events, unplug, handle, owner, filling,
       hold, user
  <2> QED BY <2>1 DEF Ranges
<1> QED BY <1>1, <1>2, <1>3, <1>4, <1>5, <1>6, <1>7, <1>8, <1>9, <1>10, <1>11,
       <1>12, <1>13, <1>14, <1>15, <1>16, <1>17, <1>18, <1>19, <1>20, <1>21,
       <1>22, <1>23, <1>24 DEF Next, Start, Stop, Owner, Event, User

(* The handle exists exactly while the owner is in a call. *)
LEMMA CallsStep ==
    ASSUME IInv, Next
    PROVE  Calls'
<1> USE DEF IInv
<1>1. ASSUME uvc_stream_start PROVE Calls'
  BY <1>1 DEF InCall, Calls, uvc_stream_start, Quiet, TRANSFER, device,
       filling, hold
<1>2. ASSUME uvc_stream_start_fails PROVE Calls'
  BY <1>2 DEF InCall, Calls, uvc_stream_start_fails, Quiet, TRANSFER, device,
       filling, hold, user
<1>3. ASSUME uvc_stop_streaming PROVE Calls'
  BY <1>3 DEF InCall, Calls, uvc_stop_streaming, device, handle, filling,
       hold, user
<1>4. ASSUME uvc_close PROVE Calls'
  BY <1>4 DEF InCall, Calls, uvc_close, Quiet, TRANSFER, handle, filling,
       hold, user
<1>5. ASSUME submit_next PROVE Calls'
  BY <1>5 DEF InCall, Calls, submit_next, device, handle, filling, hold, user
<1>6. ASSUME submit_next_fails PROVE Calls'
  BY <1>6 DEF InCall, Calls, submit_next_fails, clear_running, device,
       filling, hold, user
<1>7. ASSUME uvc_stream_close PROVE Calls'
  BY <1>7 DEF InCall, Calls, uvc_stream_close, clear_running, device, filling,
       hold, user
<1>8. ASSUME cancel_transfers PROVE Calls'
  BY <1>8 DEF InCall, Calls, cancel_transfers, TRANSFER, test_transfers,
       device, handle, filling, hold
<1>9. ASSUME wait_transfers PROVE Calls'
  BY <1>9 DEF InCall, Calls, wait_transfers, test_transfers, TRANSFER, device,
       handle, filling, hold
<1>10. ASSUME join_user_thread PROVE Calls'
  BY <1>10 DEF InCall, Calls, join_user_thread, device, handle, filling, hold,
       user
<1>11. ASSUME free_stream PROVE Calls'
  BY <1>11 DEF InCall, Calls, free_stream, device
<1>12. ASSUME join_handler_thread PROVE Calls'
  BY <1>12 DEF InCall, Calls, join_handler_thread, handle, filling, hold, user
<1>13. ASSUME _uvc_process_payload PROVE Calls'
  BY <1>13 DEF InCall, Calls, _uvc_process_payload, keep_filling,
       _uvc_swap_buffers, broadcast, device, handle, hold
<1>14. ASSUME _uvc_delete_transfer PROVE Calls'
  BY <1>14 DEF InCall, Calls, _uvc_delete_transfer, callback_transfer,
       TRANSFER, broadcast, device, handle, filling, hold
<1>15. ASSUME uvc_open \/ exit_handle_events \/ (\E i \in TRANSFER : \E s \in
            STATUS : _uvc_stream_callback(i, s)) \/ decide_resubmit \/
            resubmit_transfer \/ wait_frame \/ leave_user_caller \/
            _uvc_populate_frame \/ skip_bad_frame \/ user_cb \/
            user_cb_returns \/ unplug
      PROVE  Calls'
  <2>1. UNCHANGED <<strm, ownerPc>>
    BY <1>15 DEF uvc_open, exit_handle_events, _uvc_stream_callback,
       decide_resubmit, resubmit_transfer, wait_frame, leave_user_caller,
       _uvc_populate_frame, skip_bad_frame, user_cb, user_cb_returns, unplug,
       device, handle, owner, filling, hold, user
  <2> QED BY <2>1 DEF Calls, InCall
<1> QED BY <1>1, <1>2, <1>3, <1>4, <1>5, <1>6, <1>7, <1>8, <1>9, <1>10, <1>11,
       <1>12, <1>13, <1>14, <1>15 DEF Next, Start, Stop, Owner, Event, User

(* Only the owner and an unplugged device clear running. *)
LEMMA CausesStep ==
    ASSUME IInv, Next
    PROVE  Causes'
<1> USE DEF IInv
<1>1. ASSUME uvc_stream_start PROVE Causes'
  BY <1>1 DEF Causes, uvc_stream_start, Quiet, TRANSFER, device, filling, hold
<1>2. ASSUME uvc_stream_start_fails PROVE Causes'
  BY <1>2 DEF Causes, uvc_stream_start_fails, Quiet, TRANSFER, device,
       filling, hold, user
<1>3. ASSUME uvc_stop_streaming PROVE Causes'
  BY <1>3 DEF Causes, uvc_stop_streaming, device, handle, filling, hold, user
<1>4. ASSUME uvc_close PROVE Causes'
  BY <1>4 DEF Causes, uvc_close, Quiet, TRANSFER, handle, filling, hold, user
<1>5. ASSUME submit_next PROVE Causes'
  BY <1>5 DEF Causes, submit_next, device, handle, filling, hold, user
<1>6. ASSUME submit_next_fails PROVE Causes'
  BY <1>6 DEF Causes, submit_next_fails, clear_running, device, filling, hold,
       user
<1>7. ASSUME uvc_stream_close PROVE Causes'
  BY <1>7 DEF Causes, uvc_stream_close, clear_running, device, filling, hold,
       user
<1>8. ASSUME cancel_transfers PROVE Causes'
  BY <1>8 DEF Causes, cancel_transfers, TRANSFER, test_transfers, device,
       handle, filling, hold
<1>9. ASSUME wait_transfers PROVE Causes'
  BY <1>9 DEF Causes, wait_transfers, test_transfers, TRANSFER, device,
       handle, filling, hold
<1>10. ASSUME join_user_thread PROVE Causes'
  BY <1>10 DEF Causes, join_user_thread, device, handle, filling, hold, user
<1>11. ASSUME free_stream PROVE Causes'
  BY <1>11 DEF Causes, free_stream, device
<1>12. ASSUME join_handler_thread PROVE Causes'
  BY <1>12 DEF Causes, join_handler_thread, handle, filling, hold, user
<1>13. ASSUME NEW i \in TRANSFER, NEW s \in STATUS, _uvc_stream_callback(i, s) PROVE Causes'
  BY <1>13 DEF Causes, _uvc_stream_callback, clear_running, device, owner,
       filling, hold, user
<1>14. ASSUME _uvc_process_payload PROVE Causes'
  BY <1>14 DEF Causes, _uvc_process_payload, keep_filling, _uvc_swap_buffers,
       broadcast, device, handle, hold
<1>15. ASSUME _uvc_delete_transfer PROVE Causes'
  BY <1>15 DEF Causes, _uvc_delete_transfer, callback_transfer, TRANSFER,
       broadcast, device, handle, filling, hold
<1>16. ASSUME uvc_open \/ exit_handle_events \/ decide_resubmit \/
            resubmit_transfer \/ wait_frame \/ leave_user_caller \/
            _uvc_populate_frame \/ skip_bad_frame \/ user_cb \/
            user_cb_returns \/ unplug
      PROVE  Causes'
  <2>1. UNCHANGED <<running, cause, ownerPc>>
    BY <1>16 DEF uvc_open, exit_handle_events, decide_resubmit,
       resubmit_transfer, wait_frame, leave_user_caller, _uvc_populate_frame,
       skip_bad_frame, user_cb, user_cb_returns, unplug, device, handle,
       owner, filling, hold, user
  <2> QED BY <2>1 DEF Causes
<1> QED BY <1>1, <1>2, <1>3, <1>4, <1>5, <1>6, <1>7, <1>8, <1>9, <1>10, <1>11,
       <1>12, <1>13, <1>14, <1>15, <1>16 DEF Next, Start, Stop, Owner, Event,
       User

(* Callbacks run one after the other. *)
LEMMA CallbackStep ==
    ASSUME IInv, Next
    PROVE  Callback'
<1> USE DEF IInv
<1>1. ASSUME uvc_stream_start PROVE Callback'
  BY <1>1 DEF Callback, uvc_stream_start, Quiet, TRANSFER, device, filling,
       hold
<1>2. ASSUME uvc_stream_start_fails PROVE Callback'
  BY <1>2 DEF Callback, uvc_stream_start_fails, Quiet, TRANSFER, device,
       filling, hold, user
<1>3. ASSUME submit_next PROVE Callback'
  BY <1>3 DEF Submitting, Callback, Ranges, TRANSFER, submit_next, device,
       handle, filling, hold, user
<1>4. ASSUME cancel_transfers PROVE Callback'
  BY <1>4 DEF Callback, cancel_transfers, TRANSFER, test_transfers, device,
       handle, filling, hold
<1>5. ASSUME NEW i \in TRANSFER, NEW s \in STATUS, _uvc_stream_callback(i, s) PROVE Callback'
  BY <1>5 DEF Callback, Ranges, _uvc_stream_callback, clear_running, device,
       owner, filling, hold, user
<1>6. ASSUME _uvc_process_payload PROVE Callback'
  BY <1>6 DEF Callback, _uvc_process_payload, keep_filling, _uvc_swap_buffers,
       broadcast, device, handle, hold
<1>7. ASSUME decide_resubmit PROVE Callback'
  BY <1>7 DEF Callback, decide_resubmit, device, handle, owner, filling, hold,
       user
<1>8. ASSUME resubmit_transfer PROVE Callback'
  BY <1>8 DEF Callback, resubmit_transfer, callback_transfer, TRANSFER,
       device, handle, owner, filling, hold, user
<1>9. ASSUME _uvc_delete_transfer PROVE Callback'
  BY <1>9 DEF Callback, _uvc_delete_transfer, callback_transfer, TRANSFER,
       broadcast, device, handle, filling, hold
<1>10. ASSUME uvc_open \/ uvc_stop_streaming \/ uvc_close \/ submit_next_fails
            \/ uvc_stream_close \/ wait_transfers \/ join_user_thread \/
            free_stream \/ join_handler_thread \/ exit_handle_events \/
            wait_frame \/ leave_user_caller \/ _uvc_populate_frame \/
            skip_bad_frame \/ user_cb \/ user_cb_returns \/ unplug
      PROVE  Callback'
  <2>1. UNCHANGED <<evPc, transfers>>
    BY <1>10 DEF uvc_open, uvc_stop_streaming, uvc_close, submit_next_fails,
       uvc_stream_close, wait_transfers, join_user_thread, free_stream,
       join_handler_thread, exit_handle_events, wait_frame, leave_user_caller,
       _uvc_populate_frame, skip_bad_frame, user_cb, user_cb_returns, unplug,
       device, handle, owner, filling, hold, user
  <2> QED BY <2>1 DEF Callback
<1> QED BY <1>1, <1>2, <1>3, <1>4, <1>5, <1>6, <1>7, <1>8, <1>9, <1>10 DEF
       Next, Start, Stop, Owner, Event, User

LEMMA SubmittingStep ==
    ASSUME IInv, Next
    PROVE  Submitting'
<1> USE DEF IInv
<1>1. ASSUME uvc_stream_start PROVE Submitting'
  BY <1>1 DEF Submitting, TRANSFER, uvc_stream_start, Quiet, device, filling,
       hold
<1>2. ASSUME uvc_stream_start_fails PROVE Submitting'
  BY <1>2 DEF Submitting, TRANSFER, uvc_stream_start_fails, Quiet, device,
       filling, hold, user
<1>3. ASSUME uvc_stop_streaming PROVE Submitting'
  BY <1>3 DEF Submitting, TRANSFER, uvc_stop_streaming, device, handle,
       filling, hold, user
<1>4. ASSUME uvc_close PROVE Submitting'
  BY <1>4 DEF Submitting, TRANSFER, uvc_close, Quiet, handle, filling, hold,
       user
<1>5. ASSUME submit_next PROVE Submitting'
  BY <1>5 DEF Submitting, Ranges, TRANSFER, submit_next, device, handle,
       filling, hold, user
<1>6. ASSUME submit_next_fails PROVE Submitting'
  BY <1>6 DEF Submitting, TRANSFER, submit_next_fails, clear_running, device,
       filling, hold, user
<1>7. ASSUME uvc_stream_close PROVE Submitting'
  BY <1>7 DEF Submitting, TRANSFER, uvc_stream_close, clear_running, device,
       filling, hold, user
<1>8. ASSUME cancel_transfers PROVE Submitting'
  BY <1>8 DEF Submitting, TRANSFER, cancel_transfers, test_transfers, device,
       handle, filling, hold
<1>9. ASSUME wait_transfers PROVE Submitting'
  BY <1>9 DEF Submitting, TRANSFER, wait_transfers, test_transfers, device,
       handle, filling, hold
<1>10. ASSUME join_user_thread PROVE Submitting'
  BY <1>10 DEF Submitting, TRANSFER, join_user_thread, device, handle,
       filling, hold, user
<1>11. ASSUME free_stream PROVE Submitting'
  BY <1>11 DEF Submitting, TRANSFER, free_stream, device
<1>12. ASSUME join_handler_thread PROVE Submitting'
  BY <1>12 DEF Submitting, TRANSFER, join_handler_thread, handle, filling,
       hold, user
<1>13. ASSUME NEW i \in TRANSFER, NEW s \in STATUS, _uvc_stream_callback(i, s) PROVE Submitting'
  BY <1>13 DEF Submitting, TRANSFER, _uvc_stream_callback, clear_running,
       device, owner, filling, hold, user
<1>14. ASSUME _uvc_process_payload PROVE Submitting'
  BY <1>14 DEF Submitting, TRANSFER, _uvc_process_payload, keep_filling,
       _uvc_swap_buffers, broadcast, device, handle, hold
<1>15. ASSUME resubmit_transfer PROVE Submitting'
  BY <1>15 DEF Submitting, TRANSFER, resubmit_transfer, callback_transfer,
       device, handle, owner, filling, hold, user
<1>16. ASSUME _uvc_delete_transfer PROVE Submitting'
  BY <1>16 DEF Submitting, TRANSFER, _uvc_delete_transfer, callback_transfer,
       broadcast, device, handle, filling, hold
<1>17. ASSUME uvc_open \/ exit_handle_events \/ decide_resubmit \/ wait_frame
            \/ leave_user_caller \/ _uvc_populate_frame \/ skip_bad_frame \/
            user_cb \/ user_cb_returns \/ unplug
      PROVE  Submitting'
  <2>1. UNCHANGED <<ownerPc, next, transfers>>
    BY <1>17 DEF uvc_open, exit_handle_events, decide_resubmit, wait_frame,
       leave_user_caller, _uvc_populate_frame, skip_bad_frame, user_cb,
       user_cb_returns, unplug, device, handle, owner, filling, hold, user
  <2> QED BY <2>1 DEF Submitting
<1> QED BY <1>1, <1>2, <1>3, <1>4, <1>5, <1>6, <1>7, <1>8, <1>9, <1>10, <1>11,
       <1>12, <1>13, <1>14, <1>15, <1>16, <1>17 DEF Next, Start, Stop, Owner,
       Event, User

(* After the wait and the join nothing brings transfers or thread back. *)
LEMMA StoppedStep ==
    ASSUME IInv, Next
    PROVE  Stopped'
<1> USE DEF IInv
<1>1. ASSUME uvc_stream_start PROVE Stopped'
  BY <1>1 DEF Stopped, uvc_stream_start, Quiet, TRANSFER, device, filling, hold
<1>2. ASSUME uvc_stream_start_fails PROVE Stopped'
  BY <1>2 DEF Stopped, uvc_stream_start_fails, Quiet, TRANSFER, device,
       filling, hold, user
<1>3. ASSUME uvc_stop_streaming PROVE Stopped'
  BY <1>3 DEF Stopped, uvc_stop_streaming, device, handle, filling, hold, user
<1>4. ASSUME uvc_close PROVE Stopped'
  BY <1>4 DEF Stopped, uvc_close, Quiet, TRANSFER, handle, filling, hold, user
<1>5. ASSUME submit_next PROVE Stopped'
  BY <1>5 DEF Callback, Stopped, Causes, Ranges, submit_next, device, handle,
       filling, hold, user
<1>6. ASSUME submit_next_fails PROVE Stopped'
  BY <1>6 DEF Stopped, submit_next_fails, clear_running, device, filling,
       hold, user
<1>7. ASSUME uvc_stream_close PROVE Stopped'
  BY <1>7 DEF Callback, Stopped, Causes, InCall, Calls, Ranges,
       uvc_stream_close, clear_running, device, filling, hold, user
<1>8. ASSUME cancel_transfers PROVE Stopped'
  BY <1>8 DEF Stopped, cancel_transfers, TRANSFER, test_transfers, device,
       handle, filling, hold
<1>9. ASSUME wait_transfers PROVE Stopped'
  BY <1>9 DEF Stopped, wait_transfers, test_transfers, TRANSFER, device,
       handle, filling, hold
<1>10. ASSUME join_user_thread PROVE Stopped'
  BY <1>10 DEF Stopped, join_user_thread, device, handle, filling, hold, user
<1>11. ASSUME free_stream PROVE Stopped'
  BY <1>11 DEF Stopped, free_stream, device
<1>12. ASSUME join_handler_thread PROVE Stopped'
  BY <1>12 DEF Stopped, join_handler_thread, handle, filling, hold, user
<1>13. ASSUME NEW i \in TRANSFER, NEW s \in STATUS, _uvc_stream_callback(i, s) PROVE Stopped'
  BY <1>13 DEF Stopped, _uvc_stream_callback, clear_running, device, owner,
       filling, hold, user
<1>14. ASSUME _uvc_process_payload PROVE Stopped'
  BY <1>14 DEF Stopped, _uvc_process_payload, keep_filling, _uvc_swap_buffers,
       broadcast, device, handle, hold
<1>15. ASSUME resubmit_transfer PROVE Stopped'
  BY <1>15 DEF Stopped, resubmit_transfer, callback_transfer, TRANSFER,
       device, handle, owner, filling, hold, user
<1>16. ASSUME _uvc_delete_transfer PROVE Stopped'
  BY <1>16 DEF Stopped, _uvc_delete_transfer, callback_transfer, TRANSFER,
       broadcast, device, handle, filling, hold
<1>17. ASSUME wait_frame PROVE Stopped'
  BY <1>17 DEF Stopped, wait_frame, device, handle, owner, filling, hold
<1>18. ASSUME leave_user_caller PROVE Stopped'
  BY <1>18 DEF Stopped, leave_user_caller, device, handle, owner, filling, hold
<1>19. ASSUME _uvc_populate_frame PROVE Stopped'
  BY <1>19 DEF Stopped, _uvc_populate_frame, device, handle, owner, filling,
       hold
<1>20. ASSUME skip_bad_frame PROVE Stopped'
  BY <1>20 DEF Stopped, skip_bad_frame, device, handle, owner, filling, hold
<1>21. ASSUME user_cb PROVE Stopped'
  BY <1>21 DEF Stopped, user_cb, device, handle, owner, filling, hold
<1>22. ASSUME user_cb_returns PROVE Stopped'
  BY <1>22 DEF Stopped, user_cb_returns, device, handle, owner, filling, hold
<1>23. ASSUME uvc_open \/ exit_handle_events \/ decide_resubmit \/ unplug
      PROVE  Stopped'
  <2>1. UNCHANGED <<cause, ownerPc, strm, transfers, userPc>>
    BY <1>23 DEF uvc_open, exit_handle_events, decide_resubmit, unplug,
       device, handle, owner, filling, hold, user
  <2> QED BY <2>1 DEF Stopped
<1> QED BY <1>1, <1>2, <1>3, <1>4, <1>5, <1>6, <1>7, <1>8, <1>9, <1>10, <1>11,
       <1>12, <1>13, <1>14, <1>15, <1>16, <1>17, <1>18, <1>19, <1>20, <1>21,
       <1>22, <1>23 DEF Next, Start, Stop, Owner, Event, User

(* No callback that begins after the cancellation submits its transfer. *)
LEMMA LateStep ==
    ASSUME IInv, Next
    PROVE  OneLate'
<1> USE DEF IInv
<1>1. ASSUME uvc_stream_start PROVE OneLate'
  BY <1>1 DEF OneLate, Late, uvc_stream_start, Quiet, TRANSFER, device,
       filling, hold
<1>2. ASSUME uvc_stream_start_fails PROVE OneLate'
  BY <1>2 DEF OneLate, Late, uvc_stream_start_fails, Quiet, TRANSFER, device,
       filling, hold, user
<1>3. ASSUME uvc_stop_streaming PROVE OneLate'
  BY <1>3 DEF OneLate, Late, uvc_stop_streaming, device, handle, filling,
       hold, user
<1>4. ASSUME uvc_close PROVE OneLate'
  BY <1>4 DEF OneLate, Late, uvc_close, Quiet, TRANSFER, handle, filling,
       hold, user
<1>5. ASSUME submit_next PROVE OneLate'
  BY <1>5 DEF OneLate, Late, submit_next, device, handle, filling, hold, user
<1>6. ASSUME submit_next_fails PROVE OneLate'
  BY <1>6 DEF OneLate, Late, submit_next_fails, clear_running, device,
       filling, hold, user
<1>7. ASSUME uvc_stream_close PROVE OneLate'
  BY <1>7 DEF OneLate, Late, uvc_stream_close, clear_running, device, filling,
       hold, user
<1>8. ASSUME cancel_transfers PROVE OneLate'
  BY <1>8 DEF Callback, Causes, Ranges, OneLate, Late, cancel_transfers,
       TRANSFER, test_transfers, device, handle, filling, hold
<1>9. ASSUME wait_transfers PROVE OneLate'
  BY <1>9 DEF OneLate, Late, wait_transfers, test_transfers, TRANSFER, device,
       handle, filling, hold
<1>10. ASSUME join_user_thread PROVE OneLate'
  BY <1>10 DEF OneLate, Late, join_user_thread, device, handle, filling, hold,
       user
<1>11. ASSUME free_stream PROVE OneLate'
  BY <1>11 DEF OneLate, Late, free_stream, device
<1>12. ASSUME join_handler_thread PROVE OneLate'
  BY <1>12 DEF OneLate, Late, join_handler_thread, handle, filling, hold, user
<1>13. ASSUME NEW i \in TRANSFER, NEW s \in STATUS, _uvc_stream_callback(i, s) PROVE OneLate'
  BY <1>13 DEF OneLate, Late, _uvc_stream_callback, clear_running, device,
       owner, filling, hold, user
<1>14. ASSUME _uvc_process_payload PROVE OneLate'
  BY <1>14 DEF OneLate, Late, _uvc_process_payload, keep_filling,
       _uvc_swap_buffers, broadcast, device, handle, hold
<1>15. ASSUME decide_resubmit PROVE OneLate'
  BY <1>15 DEF Callback, Causes, Ranges, OneLate, Late, decide_resubmit,
       device, handle, owner, filling, hold, user
<1>16. ASSUME resubmit_transfer PROVE OneLate'
  BY <1>16 DEF OneLate, Late, resubmit_transfer, callback_transfer, TRANSFER,
       device, handle, owner, filling, hold, user
<1>17. ASSUME _uvc_delete_transfer PROVE OneLate'
  BY <1>17 DEF OneLate, Late, _uvc_delete_transfer, callback_transfer,
       TRANSFER, broadcast, device, handle, filling, hold
<1>18. ASSUME uvc_open \/ exit_handle_events \/ wait_frame \/
            leave_user_caller \/ _uvc_populate_frame \/ skip_bad_frame \/
            user_cb \/ user_cb_returns \/ unplug
      PROVE  OneLate'
  <2>1. UNCHANGED <<ownerPc, transfers, evPc>>
    BY <1>18 DEF uvc_open, exit_handle_events, wait_frame, leave_user_caller,
       _uvc_populate_frame, skip_bad_frame, user_cb, user_cb_returns, unplug,
       device, handle, owner, filling, hold, user
  <2> QED BY <2>1 DEF OneLate, Late
<1> QED BY <1>1, <1>2, <1>3, <1>4, <1>5, <1>6, <1>7, <1>8, <1>9, <1>10, <1>11,
       <1>12, <1>13, <1>14, <1>15, <1>16, <1>17, <1>18 DEF Next, Start, Stop,
       Owner, Event, User

(* Numbers only grow, from the event thread to the user thread. *)
LEMMA FramesStep ==
    ASSUME IInv, Next
    PROVE  Frames'
<1> USE DEF IInv
<1>1. ASSUME uvc_stream_start PROVE Frames'
  BY <1>1 DEF Frames, uvc_stream_start, Quiet, TRANSFER, device, filling, hold
<1>2. ASSUME uvc_stream_start_fails PROVE Frames'
  BY <1>2 DEF Frames, uvc_stream_start_fails, Quiet, TRANSFER, device,
       filling, hold, user
<1>3. ASSUME cancel_transfers PROVE Frames'
  BY <1>3 DEF Frames, cancel_transfers, TRANSFER, test_transfers, device,
       handle, filling, hold
<1>4. ASSUME wait_transfers PROVE Frames'
  BY <1>4 DEF Frames, wait_transfers, test_transfers, TRANSFER, device,
       handle, filling, hold
<1>5. ASSUME free_stream PROVE Frames'
  BY <1>5 DEF Frames, free_stream, device
<1>6. ASSUME _uvc_process_payload PROVE Frames'
  <2>1. /\ strm = "open" /\ evPc' \in {"payload", "decide"}
        /\ UNCHANGED <<strm, last_seq, frame, delivered>>
    BY <1>6 DEF _uvc_process_payload, handle
  <2>2. keep_filling \/ _uvc_swap_buffers(bfh_err)
    BY <1>6 DEF _uvc_process_payload
  <2>3. CASE keep_filling
    BY <2>1, <2>3 DEF keep_filling, hold, Frames, Ranges
  <2>4. CASE _uvc_swap_buffers(bfh_err)
    BY <2>1, <2>4 DEF _uvc_swap_buffers, broadcast, Frames, Ranges
  <2> QED BY <2>2, <2>3, <2>4
<1>7. ASSUME _uvc_delete_transfer PROVE Frames'
  BY <1>7 DEF Frames, _uvc_delete_transfer, callback_transfer, TRANSFER,
       broadcast, device, handle, filling, hold
<1>8. ASSUME wait_frame PROVE Frames'
  BY <1>8 DEF Frames, wait_frame, device, handle, owner, filling, hold
<1>9. ASSUME leave_user_caller PROVE Frames'
  BY <1>9 DEF Frames, leave_user_caller, device, handle, owner, filling, hold
<1>10. ASSUME _uvc_populate_frame PROVE Frames'
  BY <1>10 DEF Frames, Ranges, _uvc_populate_frame, device, handle, owner,
       filling, hold
<1>11. ASSUME skip_bad_frame PROVE Frames'
  BY <1>11 DEF Frames, skip_bad_frame, device, handle, owner, filling, hold
<1>12. ASSUME user_cb PROVE Frames'
  BY <1>12 DEF Frames, Ranges, user_cb, device, handle, owner, filling, hold
<1>13. ASSUME user_cb_returns PROVE Frames'
  BY <1>13 DEF Frames, user_cb_returns, device, handle, owner, filling, hold
<1>14. ASSUME uvc_open \/ uvc_stop_streaming \/ uvc_close \/ submit_next \/
            submit_next_fails \/ uvc_stream_close \/ join_user_thread \/
            join_handler_thread \/ exit_handle_events \/ (\E i \in TRANSFER :
            \E s \in STATUS : _uvc_stream_callback(i, s)) \/ decide_resubmit
            \/ resubmit_transfer \/ unplug
      PROVE  Frames'
  <2>1. UNCHANGED <<bad, seq, hold_seq, hold_bfh_err, last_seq, frame,
       delivered, strm, userPc>>
    BY <1>14 DEF uvc_open, uvc_stop_streaming, uvc_close, submit_next,
       submit_next_fails, uvc_stream_close, join_user_thread,
       join_handler_thread, exit_handle_events, _uvc_stream_callback,
       decide_resubmit, resubmit_transfer, unplug, device, handle, owner,
       filling, hold, user
  <2> QED BY <2>1 DEF Frames
<1> QED BY <1>1, <1>2, <1>3, <1>4, <1>5, <1>6, <1>7, <1>8, <1>9, <1>10, <1>11,
       <1>12, <1>13, <1>14 DEF Next, Start, Stop, Owner, Event, User

(* Every wait is entered under cb_mutex, and followed by a broadcast. *)
LEMMA WakeupStep ==
    ASSUME IInv, Next
    PROVE  NoLostWakeup'
<1> USE DEF IInv
<1>1. ASSUME uvc_stream_start PROVE NoLostWakeup'
  BY <1>1 DEF NoLostWakeup, uvc_stream_start, Quiet, TRANSFER, device,
       filling, hold
<1>2. ASSUME uvc_stream_start_fails PROVE NoLostWakeup'
  BY <1>2 DEF NoLostWakeup, uvc_stream_start_fails, Quiet, TRANSFER, device,
       filling, hold, user
<1>3. ASSUME uvc_stop_streaming PROVE NoLostWakeup'
  BY <1>3 DEF NoLostWakeup, uvc_stop_streaming, device, handle, filling, hold,
       user
<1>4. ASSUME uvc_close PROVE NoLostWakeup'
  BY <1>4 DEF NoLostWakeup, uvc_close, Quiet, TRANSFER, handle, filling, hold,
       user
<1>5. ASSUME submit_next PROVE NoLostWakeup'
  BY <1>5 DEF NoLostWakeup, submit_next, device, handle, filling, hold, user
<1>6. ASSUME submit_next_fails PROVE NoLostWakeup'
  BY <1>6 DEF NoLostWakeup, submit_next_fails, clear_running, device, filling,
       hold, user
<1>7. ASSUME uvc_stream_close PROVE NoLostWakeup'
  BY <1>7 DEF NoLostWakeup, uvc_stream_close, clear_running, device, filling,
       hold, user
<1>8. ASSUME cancel_transfers PROVE NoLostWakeup'
  BY <1>8 DEF NoLostWakeup, cancel_transfers, TRANSFER, test_transfers,
       device, handle, filling, hold
<1>9. ASSUME wait_transfers PROVE NoLostWakeup'
  BY <1>9 DEF NoLostWakeup, wait_transfers, test_transfers, TRANSFER, device,
       handle, filling, hold
<1>10. ASSUME join_user_thread PROVE NoLostWakeup'
  BY <1>10 DEF NoLostWakeup, join_user_thread, device, handle, filling, hold,
       user
<1>11. ASSUME free_stream PROVE NoLostWakeup'
  BY <1>11 DEF NoLostWakeup, free_stream, device
<1>12. ASSUME join_handler_thread PROVE NoLostWakeup'
  BY <1>12 DEF NoLostWakeup, join_handler_thread, handle, filling, hold, user
<1>13. ASSUME NEW i \in TRANSFER, NEW s \in STATUS, _uvc_stream_callback(i, s) PROVE NoLostWakeup'
  BY <1>13 DEF NoLostWakeup, _uvc_stream_callback, clear_running, device,
       owner, filling, hold, user
<1>14. ASSUME _uvc_process_payload PROVE NoLostWakeup'
  BY <1>14 DEF NoLostWakeup, _uvc_process_payload, keep_filling,
       _uvc_swap_buffers, broadcast, device, handle, hold
<1>15. ASSUME decide_resubmit PROVE NoLostWakeup'
  BY <1>15 DEF NoLostWakeup, decide_resubmit, device, handle, owner, filling,
       hold, user
<1>16. ASSUME resubmit_transfer PROVE NoLostWakeup'
  BY <1>16 DEF NoLostWakeup, resubmit_transfer, callback_transfer, TRANSFER,
       device, handle, owner, filling, hold, user
<1>17. ASSUME _uvc_delete_transfer PROVE NoLostWakeup'
  BY <1>17 DEF NoLostWakeup, _uvc_delete_transfer, callback_transfer,
       TRANSFER, broadcast, device, handle, filling, hold
<1>18. ASSUME wait_frame PROVE NoLostWakeup'
  BY <1>18 DEF NoLostWakeup, wait_frame, device, handle, owner, filling, hold
<1>19. ASSUME leave_user_caller PROVE NoLostWakeup'
  BY <1>19 DEF NoLostWakeup, leave_user_caller, device, handle, owner,
       filling, hold
<1>20. ASSUME _uvc_populate_frame PROVE NoLostWakeup'
  BY <1>20 DEF NoLostWakeup, _uvc_populate_frame, device, handle, owner,
       filling, hold
<1>21. ASSUME skip_bad_frame PROVE NoLostWakeup'
  BY <1>21 DEF NoLostWakeup, skip_bad_frame, device, handle, owner, filling,
       hold
<1>22. ASSUME user_cb PROVE NoLostWakeup'
  BY <1>22 DEF NoLostWakeup, user_cb, device, handle, owner, filling, hold
<1>23. ASSUME user_cb_returns PROVE NoLostWakeup'
  BY <1>23 DEF NoLostWakeup, user_cb_returns, device, handle, owner, filling,
       hold
<1>24. ASSUME uvc_open \/ exit_handle_events \/ unplug
      PROVE  NoLostWakeup'
  <2>1. UNCHANGED <<ownerPc, transfers, strm, userPc, last_seq, hold_seq,
       running, evPc, cause>>
    BY <1>24 DEF uvc_open, exit_handle_events, unplug, handle, owner, filling,
       hold, user
  <2> QED BY <2>1 DEF NoLostWakeup
<1> QED BY <1>1, <1>2, <1>3, <1>4, <1>5, <1>6, <1>7, <1>8, <1>9, <1>10, <1>11,
       <1>12, <1>13, <1>14, <1>15, <1>16, <1>17, <1>18, <1>19, <1>20, <1>21,
       <1>22, <1>23, <1>24 DEF Next, Start, Stop, Owner, Event, User

\* The strengthened invariant holds in every reachable state.
THEOREM Invariance == Spec => []IInv
<1>1. ASSUME Init PROVE IInv
  <2> USE DEF Init
  <2>1. Flags
    BY <1>1 DEF Flags
  <2>2. Ranges
    BY <1>1, StreamAssumption DEF Ranges, InCall, TRANSFER
  <2>3. Calls /\ Causes /\ Submitting /\ Stopped /\ OneLate
    BY <1>1 DEF Calls, InCall, Causes, Submitting, Stopped, OneLate
  <2>4. Callback
    BY <1>1 DEF Callback
  <2>5. Frames /\ NoLostWakeup
    BY <1>1 DEF Frames, NoLostWakeup
  <2> QED BY <2>1, <2>2, <2>3, <2>4, <2>5 DEF IInv
<1>2. IInv /\ [Next]_vars => IInv'
  <2>1. ASSUME IInv, Next PROVE IInv'
    BY <2>1, FlagsStep, RangesStep, CallsStep, CausesStep, CallbackStep,
       SubmittingStep, StoppedStep,
       LateStep, FramesStep, WakeupStep DEF IInv
  <2>2. ASSUME IInv, UNCHANGED vars PROVE IInv'
    BY <2>2 DEF IInv, vars, device, handle, owner, filling, hold, user, Flags, Ranges,
       Calls, InCall, Causes, Callback, Submitting, Stopped,
       OneLate, Late, Frames, NoLostWakeup
  <2> QED BY <2>1, <2>2
<1> QED BY <1>1, <1>2, PTL DEF Spec

\* Every variable of the stream keeps its type.
THEOREM StreamTypes == Spec => []TypeOK
<1>1. IInv => TypeOK
  BY DEF IInv, TypeOK, Flags, Ranges, InCall
<1> QED BY Invariance, <1>1, PTL

\* uvc_stream_close after a stop of its own frees what nobody uses any more.
THEOREM FreeIsSafe == Spec => []SafeFree
<1>1. IInv => SafeFree
  <2> SUFFICES ASSUME IInv, strm = "freed", cause = "stop"
               PROVE  /\ \A i \in TRANSFER : transfers[i] = "null"
                      /\ evPc = "poll"
                      /\ userPc = "done"
    BY DEF SafeFree
  <2>1. \A i \in TRANSFER : transfers[i] = "null"
    BY DEF IInv, Stopped
  <2>2. evPc = "poll"
    BY <2>1 DEF IInv, Callback
  <2>3. userPc = "done"
    BY DEF IInv, Stopped
  <2> QED BY <2>1, <2>2, <2>3
<1> QED BY Invariance, <1>1, PTL

\* A stop never waits for more than one transfer that was submitted again.
THEOREM AtMostOneLate == Spec => []OneLate
<1>1. IInv => OneLate
  BY DEF IInv
<1> QED BY Invariance, <1>1, PTL

\* Neither the owner nor the user thread misses its wake-up.
THEOREM NobodyOverslept == Spec => []NoLostWakeup
<1>1. IInv => NoLostWakeup
  BY DEF IInv
<1> QED BY Invariance, <1>1, PTL

\* The user's callback gets no bad frame, and an old one only after a bad one.
THEOREM DeliveryIsFresh == Spec => FreshDelivery
<1>1. ASSUME IInv, [Next]_vars, userPc = "check", userPc' = "callback"
      PROVE  /\ frame \notin bad
             /\ frame > delivered \/ \E s \in bad : s > delivered
  <2>1. strm = "open"
    BY <1>1 DEF vars, device, handle, owner, filling, hold, user, Next, Start,
       Stop, Owner, Event, User, uvc_open, uvc_stream_start,
       uvc_stream_start_fails, uvc_stop_streaming, uvc_close, submit_next,
       submit_next_fails, uvc_stream_close, cancel_transfers, wait_transfers,
       test_transfers, join_user_thread, free_stream, join_handler_thread,
       exit_handle_events, _uvc_stream_callback, _uvc_process_payload,
       _uvc_swap_buffers, keep_filling, broadcast, decide_resubmit,
       resubmit_transfer, _uvc_delete_transfer, wait_frame, leave_user_caller,
       _uvc_populate_frame, skip_bad_frame, user_cb, user_cb_returns, unplug
  <2>2. delivered < last_seq /\ (frame = last_seq \/ last_seq \in bad)
    BY <1>1, <2>1 DEF IInv, Frames
  <2>3. frame \notin bad
    BY <1>1 DEF IInv, Frames
  <2>4. last_seq \in Int /\ delivered \in Int
    BY <1>1 DEF IInv, Ranges
  <2> QED BY <2>2, <2>3, <2>4
<1> QED BY Invariance, <1>1, PTL DEF Spec, FreshDelivery
=============================================================================

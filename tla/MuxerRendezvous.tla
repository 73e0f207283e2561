--------------------------- MODULE MuxerRendezvous ---------------------------
(***************************************************************************)
(* What MediaMuxerWrapper promises the encoders that share it: nobody      *)
(* writes before everybody has joined, the file is closed when the last    *)
(* one leaves and not earlier, and it is opened and closed once.  A muxer  *)
(* nobody refers to any more may be dropped.                               *)
(***************************************************************************)
EXTENDS FiniteSets

CONSTANT ENCODER

VARIABLES
    phase,      \* "open", "writing", "closed" or "dropped"
    members,    \* encoders that have joined and not left
    writers     \* members that have a sample to write

vars == <<phase, members, writers>>

Init == phase = "open" /\ members = {} /\ writers = {}

\* The last encoder to join starts the file.
Join(e) ==
    /\ phase = "open"
    /\ e \notin members
    /\ members' = members \cup {e}
    /\ phase' = IF members' = ENCODER THEN "writing" ELSE "open"
    /\ UNCHANGED writers

BeginWrite(e) ==
    /\ phase = "writing"
    /\ e \in members \ writers
    /\ writers' = writers \cup {e}
    /\ UNCHANGED <<phase, members>>

EndWrite(e) ==
    /\ phase = "writing"
    /\ e \in writers
    /\ writers' = writers \ {e}
    /\ UNCHANGED <<phase, members>>

\* The last encoder to leave closes the file.
Leave(e) ==
    /\ phase = "writing"
    /\ e \in members \ writers
    /\ members' = members \ {e}
    /\ phase' = IF members' = {} THEN "closed" ELSE "writing"
    /\ UNCHANGED writers

Drop ==
    /\ phase # "dropped"
    /\ writers = {}
    /\ phase' = "dropped"
    /\ members' = {}
    /\ UNCHANGED writers

Next ==
    \/ \E e \in ENCODER : Join(e) \/ BeginWrite(e) \/ EndWrite(e) \/ Leave(e)
    \/ Drop

Spec == Init /\ [][Next]_vars

=============================================================================

---------------------------- MODULE FrameLedger ----------------------------
(***************************************************************************)
(* What the frame handling of UVCPreview.cpp promises, without threads,    *)
(* queues or a pool: a frame is in one place at a time, it moves only      *)
(* along the routes below, and the one way to lose it starts at the        *)
(* preview thread.  Places have the names of what holds the frame.         *)
(***************************************************************************)
CONSTANT FRAME

VARIABLE holds      \* the frames at each place

PLACE == {"heap", "pool", "stream", "queue", "pvFrame", "pvConv", "captureQueu",
          "capFrame", "capConv", "capCb"}

STORE == {"heap", "pool"}

\* Where get_frame takes a frame to; a frame of capCb is called back next.
WORK == {"stream", "pvConv", "capConv", "capCb"}

\* From where a frame is given back, to the pool or, if that is full, freed.
RETURN == PLACE \ {"heap", "pool", "capCb"}

\* The way of a picture from the camera to the application.
ROUTE == {<<"stream", "queue">>, <<"queue", "pvFrame">>, <<"pvConv", "pvFrame">>,
          <<"pvFrame", "captureQueu">>, <<"captureQueu", "capFrame">>,
          <<"capCb", "capFrame">>}

MOVES == (STORE \X WORK) \cup (RETURN \X STORE) \cup ROUTE

\* The places of frame f: more than one means that two users share it.
At(f, h) == {p \in PLACE : f \in h[p]}

Moves(f, h, g) == \E m \in MOVES : At(f, h) = {m[1]} /\ At(f, g) = {m[2]}

Loses(f, h, g) == At(f, h) = {"pvFrame"} /\ At(f, g) = {}

\* From h to g several frames may move, each on its own way, and one be lost.
Accounted(h, g) ==
    \A f \in FRAME : At(f, h) # At(f, g) =>
        \/ Moves(f, h, g)
        \/ Loses(f, h, g) /\ \A e \in FRAME \ {f} : ~Loses(e, h, g)

LedgerInit == \A f \in FRAME : At(f, holds) = {"heap"}

LedgerNext == holds' # holds /\ Accounted(holds, holds')

Spec == LedgerInit /\ [][LedgerNext]_holds
=============================================================================

------------------------- MODULE UVCPreviewFrames -------------------------
(***************************************************************************)
(* The frames of UVCPreview, for every number of frames, threads, callers  *)
(* and sessions: no frame has two users (FramesOwned), the engine keeps    *)
(* the ledger (ImplementsLedger), at most one frame a session goes missing *)
(* (LeaksBounded).  Each step of the engine is shown once to be an entry   *)
(* of the ledger (EnteredStep); the three theorems follow from that.       *)
(***************************************************************************)
EXTENDS UVCPreviewProofs, FiniteSetTheorems

(* No frame is twice in a pool or a queue.                                 *)
Distinct(s) == \A i, j \in DOMAIN s : s[i] = s[j] => i = j

(* get_frame takes the last frame of the pool.                             *)
LEMMA RemoveLast ==
    ASSUME NEW S, NEW s \in Seq(S), s # <<>>, Distinct(s)
    PROVE  /\ Distinct(Front(s))
           /\ Range(Front(s)) = Range(s) \ {Last(s)}
           /\ Last(s) \in Range(s)
<1> DEFINE n == Len(s) - 1
<1>1. n \in Nat /\ Len(s) = n + 1 /\ DOMAIN s = 1 .. n + 1
  OBVIOUS
<1>2. \A i \in 1 .. n : s[i] \in S
  OBVIOUS
<1>3. /\ Front(s) = SubSeq(s, 1, n) /\ Last(s) = s[n + 1]
  BY <1>1 DEF Front, Last
<1> HIDE DEF n
<1>4. /\ DOMAIN SubSeq(s, 1, n) = 1 .. n
      /\ \A i \in 1 .. n : SubSeq(s, 1, n)[i] = s[i]
  BY <1>1, <1>2
<1>5. Distinct(Front(s))
  BY <1>1, <1>3, <1>4 DEF Distinct
<1>6. Range(Front(s)) = {s[i] : i \in 1 .. n}
  BY <1>3, <1>4 DEF Range
<1>7. Range(s) = {s[i] : i \in 1 .. n + 1}
  BY <1>1 DEF Range
<1>8. s[n + 1] \notin {s[i] : i \in 1 .. n}
  BY <1>1 DEF Distinct
<1>9. {s[i] : i \in 1 .. n + 1} = {s[i] : i \in 1 .. n} \cup {s[n + 1]}
  BY <1>1
<1> QED BY <1>3, <1>5, <1>6, <1>7, <1>8, <1>9

(* waitPreviewFrame takes the first frame of the queue.                    *)
LEMMA RemoveHead ==
    ASSUME NEW S, NEW s \in Seq(S), s # <<>>, Distinct(s)
    PROVE  /\ Distinct(Tail(s))
           /\ Range(Tail(s)) = Range(s) \ {Head(s)}
           /\ Head(s) \in Range(s)
<1> DEFINE n == Len(s) - 1
<1>1. n \in Nat /\ Len(s) = n + 1 /\ DOMAIN s = 1 .. n + 1
  OBVIOUS
<1>2. /\ Head(s) = s[1] /\ DOMAIN Tail(s) = 1 .. n
      /\ \A i \in 1 .. n : Tail(s)[i] = s[i + 1]
  OBVIOUS
<1> HIDE DEF n
<1>5. Distinct(Tail(s))
  BY <1>1, <1>2 DEF Distinct
<1>6. Range(Tail(s)) = {s[i + 1] : i \in 1 .. n}
  BY <1>2 DEF Range
<1>7. Range(s) = {s[i] : i \in 1 .. n + 1}
  BY <1>1 DEF Range
<1>8. s[1] \notin {s[i + 1] : i \in 1 .. n}
  BY <1>1 DEF Distinct
<1>9. {s[i] : i \in 1 .. n + 1} = {s[i + 1] : i \in 1 .. n} \cup {s[1]}
  <2>1. \A i \in 1 .. n + 1 : i # 1 => i - 1 \in 1 .. n /\ i = (i - 1) + 1
    BY <1>1
  <2>2. \A i \in 1 .. n : i + 1 \in 1 .. n + 1
    BY <1>1
  <2>3. 1 \in 1 .. n + 1
    BY <1>1
  <2>4. ASSUME NEW i \in 1 .. n + 1
        PROVE  s[i] \in {s[j + 1] : j \in 1 .. n} \cup {s[1]}
    BY <2>1
  <2> QED BY <2>2, <2>3, <2>4
<1> QED BY <1>2, <1>5, <1>6, <1>7, <1>8, <1>9

(* recycle_frame and addPreviewFrame append a frame.                       *)
LEMMA AddLast ==
    ASSUME NEW S, NEW s \in Seq(S), NEW x \in S, Distinct(s), x \notin Range(s)
    PROVE  /\ Distinct(Append(s, x))
           /\ Range(Append(s, x)) = Range(s) \cup {x}
<1> DEFINE n == Len(s)
<1>1. n \in Nat /\ DOMAIN s = 1 .. n
  OBVIOUS
<1>2. /\ DOMAIN Append(s, x) = 1 .. n + 1 /\ Append(s, x)[n + 1] = x
      /\ \A i \in 1 .. n : Append(s, x)[i] = s[i]
  OBVIOUS
<1> HIDE DEF n
<1>3. Distinct(Append(s, x))
  BY <1>1, <1>2 DEF Distinct, Range
<1>4. Range(Append(s, x)) = Range(s) \cup {x}
  BY <1>1, <1>2 DEF Range
<1> QED BY <1>3, <1>4

(* recycle_frames appends what fits of a whole queue.                      *)
LEMMA Joined ==
    ASSUME NEW S, NEW s \in Seq(S), NEW q \in Seq(S), NEW k \in 0 .. Len(q),
           Distinct(s), Distinct(q), Range(s) \cap Range(q) = {}
    PROVE  /\ Distinct(s \o SubSeq(q, 1, k))
           /\ Range(s \o SubSeq(q, 1, k)) = Range(s) \cup {q[i] : i \in 1 .. k}
           /\ Range(q) = {q[i] : i \in 1 .. k} \cup {q[i] : i \in k + 1 .. Len(q)}
           /\ \A i \in 1 .. k, j \in k + 1 .. Len(q) : q[i] # q[j]
<1> DEFINE n == Len(s)
           t == s \o SubSeq(q, 1, k)
<1>1. /\ n \in Nat /\ DOMAIN s = 1 .. n
      /\ DOMAIN q = 1 .. Len(q) /\ Len(q) \in Nat /\ k \in Nat /\ k <= Len(q)
  OBVIOUS
<1>2. \A i \in 1 .. k : q[i] \in S
  BY <1>1
<1>3. /\ SubSeq(q, 1, k) \in Seq(S) /\ Len(SubSeq(q, 1, k)) = k
      /\ \A i \in 1 .. k : SubSeq(q, 1, k)[i] = q[i]
  BY <1>1, <1>2
<1>4. /\ DOMAIN t = 1 .. n + k
      /\ \A i \in 1 .. n : t[i] = s[i]
      /\ \A i \in n + 1 .. n + k : t[i] = q[i - n]
  BY <1>1, <1>3
<1> HIDE DEF n, t
<1>5. \A i \in 1 .. n, j \in 1 .. k : s[i] # q[j]
  <2>1. \A j \in 1 .. k : j \in DOMAIN q
    BY <1>1
  <2> QED BY <1>1, <2>1 DEF Range
<1>6. Distinct(t)
  <2> SUFFICES ASSUME NEW i \in 1 .. n + k, NEW j \in 1 .. n + k, t[i] = t[j]
               PROVE  i = j
    BY <1>4 DEF Distinct
  <2>1. CASE i \in 1 .. n /\ j \in 1 .. n
    BY <2>1, <1>1, <1>4 DEF Distinct
  <2>2. CASE i \in 1 .. n /\ j \in n + 1 .. n + k
    <3>1. j - n \in 1 .. k
      BY <2>2, <1>1
    <3> QED BY <2>2, <3>1, <1>1, <1>4, <1>5
  <2>3. CASE j \in 1 .. n /\ i \in n + 1 .. n + k
    <3>1. i - n \in 1 .. k
      BY <2>3, <1>1
    <3> QED BY <2>3, <3>1, <1>1, <1>4, <1>5
  <2>4. CASE i \in n + 1 .. n + k /\ j \in n + 1 .. n + k
    <3>1. i - n \in 1 .. Len(q) /\ j - n \in 1 .. Len(q) /\ q[i - n] = q[j - n]
      BY <2>4, <1>1, <1>4
    <3>2. i - n = j - n
      BY <3>1, <1>1 DEF Distinct
    <3> QED BY <3>2, <1>1, <2>4
  <2> QED BY <1>1, <2>1, <2>2, <2>3, <2>4
<1>7. Range(t) = Range(s) \cup {q[i] : i \in 1 .. k}
  <2>1. \A i \in 1 .. k : n + i \in n + 1 .. n + k /\ (n + i) - n = i
    BY <1>1
  <2>2. \A i \in n + 1 .. n + k : i - n \in 1 .. k
    BY <1>1
  <2>3. \A i \in 1 .. n + k : i \in 1 .. n \/ i \in n + 1 .. n + k
    BY <1>1
  <2>4. ASSUME NEW x \in Range(t) PROVE x \in Range(s) \cup {q[i] : i \in 1 .. k}
    BY <1>1, <1>4, <2>2, <2>3 DEF Range
  <2>5. \A i \in 1 .. n : i \in 1 .. n + k
    BY <1>1
  <2>6. ASSUME NEW x \in Range(s) PROVE x \in Range(t)
    BY <1>1, <1>4, <2>5 DEF Range
  <2>7. ASSUME NEW i \in 1 .. k PROVE q[i] \in Range(t)
    <3>1. n + i \in DOMAIN t /\ t[n + i] = q[i]
      BY <1>1, <1>4, <2>1
    <3> QED BY <3>1 DEF Range
  <2> QED BY <2>4, <2>6, <2>7
<1>8. \A i \in 1 .. Len(q) : i \in 1 .. k \/ i \in k + 1 .. Len(q)
  BY <1>1
<1>9. /\ \A i \in 1 .. k : i \in 1 .. Len(q)
      /\ \A i \in k + 1 .. Len(q) : i \in 1 .. Len(q)
      /\ \A i \in 1 .. k, j \in k + 1 .. Len(q) : i # j
  BY <1>1
<1>10. Range(q) = {q[i] : i \in 1 .. k} \cup {q[i] : i \in k + 1 .. Len(q)}
  BY <1>1, <1>8, <1>9 DEF Range
<1>11. \A i \in 1 .. k, j \in k + 1 .. Len(q) : q[i] # q[j]
  BY <1>1, <1>9 DEF Distinct
<1> QED BY <1>6, <1>7, <1>10, <1>11 DEF t
-----------------------------------------------------------------------------
(* Where frame f is: its only place can be p (and there thread c).         *)
Only(f, p, c) ==
    /\ f \in heap => p = "heap"
    /\ f \in Range(mFramePool) => p = "pool"
    /\ streamFrame = f => p = "stream"
    /\ f \in Range(previewFrames) => p = "queue"
    /\ pvFrame = f => p = "pvFrame"
    /\ pvConv = f => p = "pvConv"
    /\ captureQueu = f => p = "captureQueu"
    /\ \A d \in CAPTURE : /\ capFrame[d] = f => p = "capFrame" /\ d = c
                          /\ capConv[d] = f => p = "capConv" /\ d = c
                          /\ capCb[d] = f => p = "capCb" /\ d = c

(* Frame f is in place p.                                                  *)
Here(f, p) ==
    \/ p = "heap" /\ f \in heap
    \/ p = "pool" /\ f \in Range(mFramePool)
    \/ p = "stream" /\ streamFrame = f
    \/ p = "queue" /\ f \in Range(previewFrames)
    \/ p = "pvFrame" /\ pvFrame = f
    \/ p = "pvConv" /\ pvConv = f
    \/ p = "captureQueu" /\ captureQueu = f
    \/ p = "capFrame" /\ \E d \in CAPTURE : capFrame[d] = f
    \/ p = "capConv" /\ \E d \in CAPTURE : capConv[d] = f
    \/ p = "capCb" /\ \E d \in CAPTURE : capCb[d] = f

(* The capture threads, and NULL for the places that no thread owns.       *)
THREAD == CAPTURE \cup {NULL}

(* The inductive form of FrameOwnership.                                   *)
Single ==
    /\ Distinct(mFramePool) /\ Distinct(previewFrames)
    /\ \A f \in FRAME : \E p \in Ledger!PLACE, c \in THREAD : Only(f, p, c)

(* What a step does with a frame.                                          *)
Stays(f) ==
    /\ f \in heap' <=> f \in heap
    /\ f \in Range(mFramePool') <=> f \in Range(mFramePool)
    /\ streamFrame' = f <=> streamFrame = f
    /\ f \in Range(previewFrames') <=> f \in Range(previewFrames)
    /\ pvFrame' = f <=> pvFrame = f
    /\ pvConv' = f <=> pvConv = f
    /\ captureQueu' = f <=> captureQueu = f
    /\ \A d \in CAPTURE : /\ capFrame'[d] = f <=> capFrame[d] = f
                          /\ capConv'[d] = f <=> capConv[d] = f
                          /\ capCb'[d] = f <=> capCb[d] = f

(* Frame f goes from p to q, along a route, and is nowhere else then.      *)
Goes(f, p, q) ==
    /\ <<p, q>> \in Ledger!MOVES
    /\ Here(f, p) /\ Here(f, q)'
    /\ \E c \in THREAD : Only(f, q, c)'

(* The frame of the preview thread goes nowhere.                           *)
Lost(f) == f = pvFrame /\ \A p \in Ledger!PLACE : ~Here(f, p)'

(* An entry of the ledger: of each frame, what a step has done with it.    *)
Entered ==
    /\ Distinct(mFramePool') /\ Distinct(previewFrames')
    /\ \A f \in FRAME :
          \/ Stays(f)
          \/ \E p, q \in Ledger!PLACE : Goes(f, p, q)
          \/ Lost(f) /\ ~mIsRunning /\ UNCHANGED mIsRunning /\ pvFrame' = NULL

places == <<memory, queues, streamFrame, pvFrame, pvConv, capFrame, capConv, capCb>>

(* The routes of the ledger.                                               *)
LEMMA Routes ==
    /\ \A p \in {"heap", "pool"}, q \in {"stream", "pvConv", "capConv", "capCb"} :
          <<p, q>> \in Ledger!MOVES
    /\ \A p \in {"stream", "queue", "pvFrame", "pvConv", "captureQueu", "capFrame",
                 "capConv"}, q \in {"heap", "pool"} : <<p, q>> \in Ledger!MOVES
    /\ <<"stream", "queue">> \in Ledger!MOVES
    /\ <<"queue", "pvFrame">> \in Ledger!MOVES
    /\ <<"pvConv", "pvFrame">> \in Ledger!MOVES
    /\ <<"pvFrame", "captureQueu">> \in Ledger!MOVES
    /\ <<"captureQueu", "capFrame">> \in Ledger!MOVES
    /\ <<"capCb", "capFrame">> \in Ledger!MOVES
BY DEF Ledger!MOVES, Ledger!STORE, Ledger!WORK, Ledger!RETURN, Ledger!ROUTE,
   Ledger!PLACE

(* A frame that is somewhere is nowhere else.                              *)
LEMMA Nowhere ==
    ASSUME Single, NEW f \in FRAME, NEW p, Here(f, p)
    PROVE  \E c \in THREAD : Only(f, p, c)
<1>1. PICK q \in Ledger!PLACE, c \in THREAD : Only(f, q, c)
  BY DEF Single
<1>2. p = q
  BY <1>1 DEF Only, Here
<1> QED BY <1>1, <1>2

(* get_frame takes a frame out of the store, where alone it was.           *)
LEMMA Fetches ==
    ASSUME PoolOK, Single, NEW f \in FrameOrNull, get_frame(f)
    PROVE  /\ Distinct(mFramePool')
           /\ f = NULL => UNCHANGED memory
           /\ f # NULL => /\ Range(mFramePool') = Range(mFramePool) \ {f}
                          /\ heap' = heap \ {f}
                          /\ f \in FRAME
                          /\ \E p \in {"heap", "pool"}, c \in THREAD :
                                Here(f, p) /\ Only(f, p, c)
<1>0. NULL \notin FRAME
  BY NullAssumption
<1>1. CASE mFramePool # <<>>
  <2>1. /\ f = Last(mFramePool) /\ mFramePool' = Front(mFramePool) /\ heap' = heap
    BY <1>1 DEF get_frame
  <2>2. /\ Distinct(mFramePool')
        /\ Range(mFramePool') = Range(mFramePool) \ {f} /\ f \in Range(mFramePool)
    BY <1>1, <2>1, RemoveLast DEF PoolOK, Single
  <2>3. f \in FRAME
    BY <2>2 DEF PoolOK, Range
  <2>4. Here(f, "pool")
    BY <2>2 DEF Here
  <2>5. PICK c \in THREAD : Only(f, "pool", c)
    BY <2>3, <2>4, Nowhere
  <2>6. f \notin heap
    BY <2>5 DEF Only
  <2> QED BY <1>0, <2>1, <2>2, <2>3, <2>4, <2>5, <2>6
<1>2. CASE mFramePool = <<>> /\ f = NULL
  <2>1. UNCHANGED memory
    BY <1>0, <1>2 DEF get_frame, PoolOK
  <2> QED BY <1>2, <2>1 DEF Single, memory
<1>3. CASE mFramePool = <<>> /\ f # NULL
  <2>1. /\ f \in heap /\ heap' = heap \ {f} /\ mFramePool' = mFramePool /\ f \in FRAME
    BY <1>3 DEF get_frame, FrameOrNull
  <2>2. Here(f, "heap")
    BY <2>1 DEF Here
  <2>3. PICK c \in THREAD : Only(f, "heap", c)
    BY <2>1, <2>2, Nowhere
  <2>4. f \notin Range(mFramePool)
    BY <2>3 DEF Only
  <2> QED BY <1>3, <2>1, <2>2, <2>3, <2>4 DEF Single
<1> QED BY <1>1, <1>2, <1>3

(* What is given back ends in the pool or in the heap, never in both.      *)
LEMMA Returns ==
    ASSUME PoolOK, Single, NEW q \in Seq(FRAME), Distinct(q), recycle_frames(q),
           Range(q) \cap Range(mFramePool) = {}, Range(q) \cap heap = {}
    PROVE  /\ Distinct(mFramePool')
           /\ \A f \in FRAME \ Range(q) :
                 /\ f \in heap' <=> f \in heap
                 /\ f \in Range(mFramePool') <=> f \in Range(mFramePool)
           /\ \A f \in Range(q) : f \in heap' <=> f \notin Range(mFramePool')
<1> DEFINE room == FRAME_POOL_SZ - Len(mFramePool)
           k == IF Len(q) < room THEN Len(q) ELSE room
<1>1. k \in 0 .. Len(q)
  BY BoundsAssumption DEF PoolOK, FRAME_POOL_SZ
<1>2. /\ mFramePool' = mFramePool \o SubSeq(q, 1, k)
      /\ heap' = heap \cup {q[i] : i \in k + 1 .. Len(q)}
  BY DEF recycle_frames
<1> HIDE DEF k
<1>3. mFramePool \in Seq(FRAME) /\ Distinct(mFramePool)
  BY DEF PoolOK, Single
<1> DEFINE t == mFramePool \o SubSeq(q, 1, k)
<1>4. /\ Distinct(t)
      /\ Range(t) = Range(mFramePool) \cup {q[i] : i \in 1 .. k}
      /\ Range(q) = {q[i] : i \in 1 .. k} \cup {q[i] : i \in k + 1 .. Len(q)}
      /\ \A i \in 1 .. k, j \in k + 1 .. Len(q) : q[i] # q[j]
  <2>1. Range(mFramePool) \cap Range(q) = {}
    OBVIOUS
  <2> QED BY <2>1, <1>1, <1>3, Joined
<1> HIDE DEF t
<1>5. /\ Distinct(mFramePool')
      /\ Range(mFramePool') = Range(mFramePool) \cup {q[i] : i \in 1 .. k}
      /\ Range(q) = {q[i] : i \in 1 .. k} \cup {q[i] : i \in k + 1 .. Len(q)}
      /\ \A i \in 1 .. k, j \in k + 1 .. Len(q) : q[i] # q[j]
  BY <1>2, <1>4 DEF t
<1> DEFINE kept == {q[i] : i \in 1 .. k}
           freed == {q[i] : i \in k + 1 .. Len(q)}
<1> HIDE DEF kept, freed
<1>6. /\ Range(mFramePool') = Range(mFramePool) \cup kept /\ heap' = heap \cup freed
      /\ Range(q) = kept \cup freed
  BY <1>2, <1>5 DEF kept, freed
<1>7. kept \cap freed = {}
  BY <1>5 DEF kept, freed
<1> QED BY <1>5, <1>6, <1>7

(* The same for a single frame.                                            *)
LEMMA ReturnsOne ==
    ASSUME PoolOK, Single, NEW f \in FRAME, recycle_frame(f), f \notin heap,
           f \notin Range(mFramePool)
    PROVE  /\ Distinct(mFramePool')
           /\ \A g \in FRAME \ {f} :
                 /\ g \in heap' <=> g \in heap
                 /\ g \in Range(mFramePool') <=> g \in Range(mFramePool)
           /\ f \in heap' <=> f \notin Range(mFramePool')
<1>1. /\ <<f>> \in Seq(FRAME) /\ Range(<<f>>) = {f} /\ Distinct(<<f>>)
  BY DEF Range, Distinct
<1>2. recycle_frames(<<f>>)
  BY DEF recycle_frame
<1> QED BY <1>1, <1>2, Returns

-----------------------------------------------------------------------------
(* What moves a frame, and what leaves every frame where it is.            *)
Away(f) ==
    /\ streamFrame # f /\ f \notin Range(previewFrames)
    /\ pvFrame # f /\ pvConv # f /\ captureQueu # f
    /\ \A d \in CAPTURE : capFrame[d] # f /\ capConv[d] # f /\ capCb[d] # f

(* A step that leaves every place alone.                                   *)
LEMMA Idle ==
    ASSUME Single, UNCHANGED places
    PROVE  Entered
BY DEF Entered, Single, Stays, places, memory, queues

(* One frame moves, the others stay.                                       *)
LEMMA OneMoves ==
    ASSUME Distinct(mFramePool'), Distinct(previewFrames'), NEW f \in FRAME,
           \A g \in FRAME \ {f} : Stays(g),
           \E p, q \in Ledger!PLACE : Goes(f, p, q)
    PROVE  Entered
BY DEF Entered

(* What is nowhere else after it was given back is where it was put.       *)
LEMMA Stored ==
    ASSUME NEW f,
           NEW p \in {"stream", "queue", "pvFrame", "pvConv", "captureQueu",
                      "capFrame", "capConv"},
           Here(f, p), Away(f)', f \in heap' <=> f \notin Range(mFramePool')
    PROVE  \E r, q \in Ledger!PLACE : Goes(f, r, q)
<1>1. \E q \in {"heap", "pool"} : Here(f, q)' /\ Only(f, q, NULL)'
  <2>1. CASE f \in heap'
    <3>1. Here(f, "heap")'
      BY <2>1 DEF Here
    <3>2. Only(f, "heap", NULL)'
      BY <2>1 DEF Only, Away
    <3> QED BY <3>1, <3>2
  <2>2. CASE f \notin heap'
    <3>1. Here(f, "pool")'
      BY <2>2 DEF Here
    <3>2. Only(f, "pool", NULL)'
      BY <2>2 DEF Only, Away
    <3> QED BY <3>1, <3>2
  <2> QED BY <2>1, <2>2
<1>2. \A q \in {"heap", "pool"} :
         <<p, q>> \in Ledger!MOVES /\ p \in Ledger!PLACE /\ q \in Ledger!PLACE
  BY Routes DEF Ledger!PLACE
<1> QED BY <1>1, <1>2 DEF Goes, THREAD

(* One frame is given back.                                                *)
LEMMA GivesBack ==
    ASSUME PoolOK, Single, NEW f \in FRAME, recycle_frame(f),
           NEW p \in {"stream", "queue", "pvFrame", "pvConv", "captureQueu",
                      "capFrame", "capConv"},
           Here(f, p), Away(f)'
    PROVE  /\ Distinct(mFramePool')
           /\ \A g \in FRAME \ {f} :
                 /\ g \in heap' <=> g \in heap
                 /\ g \in Range(mFramePool') <=> g \in Range(mFramePool)
           /\ \E r, q \in Ledger!PLACE : Goes(f, r, q)
<1>1. PICK c \in THREAD : Only(f, p, c)
  BY Nowhere
<1>2. f \notin heap /\ f \notin Range(mFramePool)
  BY <1>1 DEF Only
<1>3. /\ Distinct(mFramePool')
      /\ \A g \in FRAME \ {f} :
            /\ g \in heap' <=> g \in heap
            /\ g \in Range(mFramePool') <=> g \in Range(mFramePool)
      /\ f \in heap' <=> f \notin Range(mFramePool')
  BY <1>2, ReturnsOne
<1>4. \E r, q \in Ledger!PLACE : Goes(f, r, q)
  BY <1>3, Stored
<1> QED BY <1>3, <1>4

(* A frame that get_frame returned is in nobody's hands yet.               *)
LEMMA Fetched ==
    ASSUME PoolOK, Single, NEW f \in FrameOrNull, get_frame(f), f # NULL
    PROVE  /\ f \in FRAME /\ Away(f)
           /\ Distinct(mFramePool') /\ f \notin heap' /\ f \notin Range(mFramePool')
           /\ \A g \in FRAME \ {f} :
                 /\ g \in heap' <=> g \in heap
                 /\ g \in Range(mFramePool') <=> g \in Range(mFramePool)
           /\ \E p \in {"heap", "pool"} : p \in Ledger!PLACE /\ Here(f, p)
<1>1. /\ f \in FRAME /\ Distinct(mFramePool')
      /\ Range(mFramePool') = Range(mFramePool) \ {f} /\ heap' = heap \ {f}
  BY Fetches
<1>2. PICK p \in {"heap", "pool"}, c \in THREAD : Here(f, p) /\ Only(f, p, c)
  BY Fetches
<1>3. Away(f)
  BY <1>2 DEF Only, Away
<1>4. p \in Ledger!PLACE
  BY DEF Ledger!PLACE
<1> QED BY <1>1, <1>2, <1>3, <1>4

(* clearPreviewFrame gives back the whole queue.                           *)
LEMMA ClearsQueue ==
    ASSUME IInv, Single, recycle_frames(previewFrames), previewFrames' = <<>>,
           UNCHANGED <<captureQueu, streamFrame, pvFrame, pvConv, capFrame, capConv, capCb>>
    PROVE  Entered
<1>0. PoolOK /\ previewFrames \in Seq(FRAME) /\ Distinct(previewFrames)
  BY DEF IInv, TypeOK, QueuesOK, Single
<1>1. Range(<<>>) = {} /\ Distinct(<<>>)
  BY DEF Range, Distinct
<1>2. \A f \in Range(previewFrames) : f \in FRAME /\ Here(f, "queue")
  BY <1>0 DEF Range, Here
<1>3. \A f \in Range(previewFrames) : \E c \in THREAD : Only(f, "queue", c)
  BY <1>2, Nowhere
<1>4. \A f \in Range(previewFrames) : f \notin heap /\ f \notin Range(mFramePool)
  BY <1>3 DEF Only
<1>5. /\ Distinct(mFramePool')
      /\ \A f \in FRAME \ Range(previewFrames) :
            /\ f \in heap' <=> f \in heap
            /\ f \in Range(mFramePool') <=> f \in Range(mFramePool)
      /\ \A f \in Range(previewFrames) : f \in heap' <=> f \notin Range(mFramePool')
  BY <1>0, <1>4, Returns
<1>6. \A f \in FRAME \ Range(previewFrames) : Stays(f)
  BY <1>1, <1>5 DEF Stays
<1>7. \A f \in Range(previewFrames) : Away(f)'
  BY <1>1, <1>3 DEF Away, Only
<1>8. \A f \in Range(previewFrames) : \E r, q \in Ledger!PLACE : Goes(f, r, q)
  BY <1>2, <1>5, <1>7, Stored
<1> QED BY <1>1, <1>5, <1>6, <1>8 DEF Entered

(* stopPreview and a new capture thread clear the capture queue.           *)
LEMMA ClearsCapture ==
    ASSUME IInv, Single, ClearCaptureQueue,
           UNCHANGED <<previewFrames, streamFrame, pvFrame, pvConv, capFrame, capConv, capCb>>
    PROVE  Entered
<1>0. PICK f \in FrameOrNull : f = captureQueu
  BY DEF IInv, TypeOK, QueuesOK
<1>3. PoolOK /\ NULL \notin FRAME /\ captureQueu' = NULL
  BY NullAssumption DEF IInv, TypeOK, ClearCaptureQueue
<1>1. CASE f = NULL
  <2>1. UNCHANGED places
    BY <1>0, <1>3, <1>1 DEF places, queues, ClearCaptureQueue
  <2> QED BY <2>1, Idle
<1>2. CASE f # NULL
  <2>1. f \in FRAME /\ recycle_frame(f)
    BY <1>0, <1>2 DEF ClearCaptureQueue, FrameOrNull
  <2>2. Here(f, "captureQueu")
    BY <1>0 DEF Here
  <2>3. PICK c \in THREAD : Only(f, "captureQueu", c)
    BY <2>1, <2>2, Nowhere
  <2>4. Away(f)'
    BY <1>0, <1>3, <2>1, <2>3 DEF Away, Only
  <2>5. /\ Distinct(mFramePool')
        /\ \A g \in FRAME \ {f} :
              /\ g \in heap' <=> g \in heap
              /\ g \in Range(mFramePool') <=> g \in Range(mFramePool)
        /\ \E r, q \in Ledger!PLACE : Goes(f, r, q)
    BY <1>3, <2>1, <2>2, <2>4, GivesBack
  <2>6. \A g \in FRAME \ {f} : Stays(g)
    BY <1>0, <1>3, <2>1, <2>5 DEF Stays
  <2> QED BY <2>1, <2>5, <2>6, OneMoves DEF Single
<1> QED BY <1>1, <1>2

(* The preview thread decodes or converts into a frame of the store.       *)
LEMMA FetchesConv ==
    ASSUME IInv, Single, NEW f \in FrameOrNull, get_frame(f), pvConv = NULL,
           pvConv' = f,
           UNCHANGED <<queues, streamFrame, pvFrame, capFrame, capConv, capCb>>
    PROVE  Entered
<1>0. PoolOK /\ NULL \notin FRAME
  BY NullAssumption DEF IInv, TypeOK
<1>1. CASE f = NULL
  <2>1. UNCHANGED places
    BY <1>0, <1>1, Fetches DEF places
  <2> QED BY <2>1, Idle
<1>2. CASE f # NULL
  <2>1. /\ f \in FRAME /\ Away(f) /\ Distinct(mFramePool')
        /\ f \notin heap' /\ f \notin Range(mFramePool')
        /\ \A g \in FRAME \ {f} :
              /\ g \in heap' <=> g \in heap
              /\ g \in Range(mFramePool') <=> g \in Range(mFramePool)
    BY <1>0, <1>2, Fetched
  <2>2. PICK p \in {"heap", "pool"} : p \in Ledger!PLACE /\ Here(f, p)
    BY <1>0, <1>2, Fetched
  <2>3. \A g \in FRAME \ {f} : Stays(g)
    BY <1>0, <2>1 DEF Stays, queues
  <2>4. Here(f, "pvConv")' /\ Only(f, "pvConv", NULL)'
    BY <2>1 DEF Here, Only, Away, queues
  <2>5. \E r, q \in Ledger!PLACE : Goes(f, r, q)
    BY <2>2, <2>4, Routes DEF Goes, THREAD, Ledger!PLACE
  <2> QED BY <2>1, <2>3, <2>5, OneMoves DEF Single, queues
<1> QED BY <1>1, <1>2

(* Every step of the engine is an entry of the ledger.                     *)
LEMMA EnteredStep ==
    ASSUME IInv, Single, Next
    PROVE  Entered
<1> USE DEF IInv
<1>0. ~aborted /\ PoolOK /\ TypeOK /\ Holding /\ NULL \notin FRAME
  BY NullAssumption DEF Next, TypeOK
<1>1. CASE setPreviewDisplay
  BY <1>1, Idle DEF setPreviewDisplay, places, memory, queues, strVars, pvVars,
     capVars
<1>2. CASE startPreview
  BY <1>2, Idle DEF startPreview, places, memory, queues, strVars, pvVars,
     capVars
<1>3. CASE stopPreview
  BY <1>3, Idle DEF stopPreview, places, memory, queues, strVars, pvVars,
     capVars
<1>4. CASE createPreviewThread
  BY <1>4, Idle DEF createPreviewThread, places, memory, queues, strVars,
     pvData, capVars
<1>5. CASE stopRunning
  BY <1>5, Idle DEF stopRunning, places, memory, queues, strVars, pvVars,
     capVars
<1>6. CASE signalPreview
  BY <1>6, Idle DEF signalPreview, places, memory, queues, strVars, pvData,
     capVars
<1>7. CASE signalCapture
  BY <1>7, Idle DEF signalCapture, places, memory, queues, strVars, pvVars,
     capData
<1>8. CASE joinCapture
  BY <1>8, Idle DEF joinCapture, places, memory, queues, strVars, pvVars,
     capData
<1>9. CASE joinNoCapture
  BY <1>9, Idle DEF joinNoCapture, places, memory, queues, strVars, pvVars,
     capVars
<1>10. CASE joinPreview
  BY <1>10, Idle DEF joinPreview, places, memory, queues, strVars, pvData,
     capVars
<1>11. CASE stopReleaseWindows
  BY <1>11, Idle DEF stopReleaseWindows, places, memory, queues, strVars, pvVars,
     capVars
<1>12. CASE prepare_preview
  BY <1>12, Idle DEF prepare_preview, places, memory, queues, strVars, capVars
<1>13. CASE startStreaming
  BY <1>13, Idle DEF startStreaming, places, memory, queues, pvData, capVars
<1>14. CASE createCaptureThread
  BY <1>14, Idle DEF createCaptureThread, places, memory, queues, strVars,
     pvData, capData
<1>15. CASE previewLoop
  BY <1>15, Idle DEF previewLoop, places, memory, queues, strVars, pvData,
     capVars
<1>16. CASE previewSignalCapture
  BY <1>16, Idle DEF previewSignalCapture, places, memory, queues, strVars,
     pvData, capData
<1>17. CASE stopStreaming
  BY <1>17, Idle DEF stopStreaming, places, memory, queues, pvData, capVars
<1>18. CASE spuriousWakeup
  BY <1>18, Idle DEF spuriousWakeup, places, memory, queues, strVars, pvData,
     capData
<1>19. ASSUME NEW t \in CALLER, NEW kind \in {"callback", "display"},
             NEW arg \in CALLBACK \cup WINDOW \cup {NULL}, callSetter(t, kind, arg)
      PROVE  Entered
  BY <1>19, Idle DEF callSetter, places, memory, queues, strVars, pvVars, capVars
<1>20. ASSUME NEW t \in CALLER, setterEnter(t) PROVE Entered
  BY <1>20, Idle DEF setterEnter, places, memory, queues, strVars, pvVars,
     capVars
<1>21. ASSUME NEW t \in CALLER, setterWait(t) PROVE Entered
  BY <1>21, Idle DEF setterWait, places, memory, queues, strVars, pvVars, capData
<1>22. ASSUME NEW t \in CALLER, setterWoken(t) PROVE Entered
  BY <1>22, Idle DEF setterWoken, places, memory, queues, strVars, pvVars,
     capVars
<1>23. ASSUME NEW t \in CALLER, setterDrop(t) PROVE Entered
  BY <1>23, Idle DEF setterDrop, places, memory, queues, strVars, pvVars, capVars
<1>24. ASSUME NEW t \in CALLER, setterAssign(t) PROVE Entered
  BY <1>24, Idle DEF setterAssign, places, memory, queues, strVars, pvVars,
     capVars
<1>25. ASSUME NEW t \in CALLER, setterMethod(t) PROVE Entered
  BY <1>25, Idle DEF setterMethod, places, memory, queues, strVars, pvVars,
     capVars
<1>26. ASSUME NEW t \in CALLER, setterReset(t) PROVE Entered
  BY <1>26, Idle DEF setterReset, places, memory, queues, strVars, pvVars,
     capVars
<1>27. ASSUME NEW t \in CALLER, setterFormat(t) PROVE Entered
  BY <1>27, Idle DEF setterFormat, places, memory, queues, strVars, pvVars,
     capVars
<1>28. ASSUME NEW c \in CAPTURE, captureReset(c) PROVE Entered
  BY <1>28, Idle DEF captureReset, places, memory, queues, strVars, pvVars,
     capData
<1>29. ASSUME NEW c \in CAPTURE, captureFormat(c) PROVE Entered
  BY <1>29, Idle DEF captureFormat, places, memory, queues, strVars, pvVars,
     capData
<1>30. ASSUME NEW c \in CAPTURE, captureTop(c) PROVE Entered
  BY <1>30, Idle DEF captureTop, places, memory, queues, strVars, pvVars, capData
<1>31. ASSUME NEW c \in CAPTURE, captureBegin(c) PROVE Entered
  BY <1>31, Idle DEF captureBegin, places, memory, queues, strVars, pvVars,
     capData
<1>32. ASSUME NEW c \in CAPTURE, captureMode(c) PROVE Entered
  BY <1>32, Idle DEF captureMode, places, memory, queues, strVars, pvVars
<1>33. ASSUME NEW c \in CAPTURE, captureLoop(c) PROVE Entered
  BY <1>33, Idle DEF captureLoop, places, memory, queues, strVars, pvVars,
     capData
<1>34. ASSUME NEW c \in CAPTURE, callOnFrame(c) PROVE Entered
  BY <1>34, Idle DEF callOnFrame, places, memory, queues, strVars, pvVars,
     capData
<1>35. ASSUME NEW c \in CAPTURE, captureSync(c) PROVE Entered
  BY <1>35, Idle DEF captureSync, places, memory, queues, strVars, pvVars,
     capData
<1>36. CASE stopClearPreview
  <2>1. /\ recycle_frames(previewFrames) /\ previewFrames' = <<>>
        /\ UNCHANGED <<captureQueu, strVars, pvVars, capVars>>
    BY <1>36 DEF stopClearPreview
  <2> QED BY <2>1, ClearsQueue DEF strVars, pvVars, capVars
<1>37. CASE clearPreviewFrame
  <2>1. /\ recycle_frames(previewFrames) /\ previewFrames' = <<>>
        /\ UNCHANGED <<captureQueu, strVars, pvFrame, pvConv, capVars>>
    BY <1>37 DEF clearPreviewFrame, pvData
  <2> QED BY <2>1, ClearsQueue DEF strVars, pvVars, capVars
<1>38. CASE stopClearCapture
  <2>1. ClearCaptureQueue /\ UNCHANGED <<previewFrames, strVars, pvVars, capVars>>
    BY <1>38 DEF stopClearCapture
  <2> QED BY <2>1, ClearsCapture DEF strVars, pvVars, capVars, capData
<1>39. ASSUME NEW c \in CAPTURE, captureClear(c) PROVE Entered
  <2>1. ClearCaptureQueue /\ UNCHANGED <<previewFrames, strVars, pvVars, capData>>
    BY <1>39 DEF captureClear
  <2> QED BY <2>1, ClearsCapture DEF strVars, pvVars, capVars, capData
<1>40. CASE uvc_preview_frame_callback
  <2>1. PICK f \in FrameOrNull :
           get_frame(f) /\ streamFrame' = f /\ streamFrame = NULL
    BY <1>40 DEF uvc_preview_frame_callback, FrameOrNull, Holding, StreamHolds
  <2>2. UNCHANGED <<previewFrames, captureQueu, pvFrame, pvConv, capFrame, capConv, capCb>>
    BY <1>40 DEF uvc_preview_frame_callback, queues, pvVars, capVars
  <2>3. CASE f = NULL
    <3>1. UNCHANGED places
      BY <1>0, <2>1, <2>2, <2>3, Fetches DEF places, queues
    <3> QED BY <3>1, Idle
  <2>4. CASE f # NULL
    <3>1. /\ f \in FRAME /\ Away(f) /\ Distinct(mFramePool')
          /\ f \notin heap' /\ f \notin Range(mFramePool')
          /\ \A g \in FRAME \ {f} :
                /\ g \in heap' <=> g \in heap
                /\ g \in Range(mFramePool') <=> g \in Range(mFramePool)
      BY <1>0, <2>1, <2>4, Fetched
    <3>2. PICK p \in {"heap", "pool"} : p \in Ledger!PLACE /\ Here(f, p)
      BY <1>0, <2>1, <2>4, Fetched
    <3>3. \A g \in FRAME \ {f} : Stays(g)
      BY <1>0, <2>1, <2>2, <3>1 DEF Stays
    <3>4. Here(f, "stream")' /\ Only(f, "stream", NULL)'
      BY <2>1, <2>2, <3>1 DEF Here, Only, Away
    <3>5. \E r, q \in Ledger!PLACE : Goes(f, r, q)
      BY <3>2, <3>4, Routes DEF Goes, THREAD, Ledger!PLACE
    <3> QED BY <2>2, <3>1, <3>3, <3>5, OneMoves DEF Single
  <2> QED BY <2>3, <2>4
<1>41. CASE addPreviewFrame /\ queuePreviewFrame
  <2>0. PICK f \in FRAME : f = streamFrame
    BY <1>0, <1>41 DEF addPreviewFrame, queuePreviewFrame, Holding, StreamHolds,
       TypeOK, StreamOK, FrameOrNull
  <2>1. /\ streamFrame' = NULL
        /\ previewFrames' = Append(previewFrames, f)
        /\ UNCHANGED <<memory, captureQueu, pvFrame, pvConv, capFrame, capConv, capCb>>
    BY <2>0, <1>0, <1>41 DEF addPreviewFrame, queuePreviewFrame, pvData, capVars
  <2>2. Here(f, "stream")
    BY <2>0 DEF Here
  <2>3. PICK c \in THREAD : Only(f, "stream", c)
    BY <2>0, <2>1, <2>2, Nowhere
  <2>4. /\ Distinct(previewFrames')
        /\ Range(previewFrames') = Range(previewFrames) \cup {f}
    BY <1>0, <2>0, <2>1, <2>3, AddLast DEF Single, Only, TypeOK, QueuesOK
  <2>5. \A g \in FRAME \ {f} : Stays(g)
    BY <1>0, <2>0, <2>1, <2>4 DEF Stays, memory
  <2>6. Here(f, "queue")' /\ Only(f, "queue", NULL)'
    BY <1>0, <2>0, <2>1, <2>3, <2>4 DEF Here, Only, memory
  <2>7. \E r, q \in Ledger!PLACE : Goes(f, r, q)
    BY <2>2, <2>6, Routes DEF Goes, THREAD, Ledger!PLACE
  <2> QED BY <2>0, <2>1, <2>4, <2>5, <2>7, OneMoves DEF Single, memory
<1>42. CASE addPreviewFrame /\ dropFrame
  <2>0. PICK f \in FRAME : f = streamFrame
    BY <1>0, <1>42 DEF addPreviewFrame, dropFrame, Holding, StreamHolds, TypeOK,
       StreamOK, FrameOrNull
  <2>1. /\ streamFrame' = NULL /\ recycle_frame(f)
        /\ UNCHANGED <<queues, pvFrame, pvConv, capFrame, capConv, capCb>>
    BY <2>0, <1>0, <1>42 DEF addPreviewFrame, dropFrame, pvData, capVars, queues
  <2>2. Here(f, "stream")
    BY <2>0 DEF Here
  <2>3. PICK c \in THREAD : Only(f, "stream", c)
    BY <2>0, <2>1, <2>2, Nowhere
  <2>4. Away(f)'
    BY <1>0, <2>0, <2>1, <2>3 DEF Away, Only, queues
  <2>5. /\ Distinct(mFramePool')
        /\ \A g \in FRAME \ {f} :
              /\ g \in heap' <=> g \in heap
              /\ g \in Range(mFramePool') <=> g \in Range(mFramePool)
        /\ \E r, q \in Ledger!PLACE : Goes(f, r, q)
    BY <1>0, <2>0, <2>1, <2>2, <2>4, GivesBack
  <2>6. \A g \in FRAME \ {f} : Stays(g)
    BY <1>0, <2>0, <2>1, <2>5 DEF Stays, queues
  <2> QED BY <2>0, <2>1, <2>5, <2>6, OneMoves DEF Single, queues
<1>43. CASE waitPreviewFrame
  <2>1. UNCHANGED <<memory, captureQueu, streamFrame, pvConv, capFrame, capConv, capCb>>
    BY <1>43 DEF waitPreviewFrame, strVars, capVars
  <2>2. CASE UNCHANGED <<previewFrames, pvFrame>>
    <3>1. UNCHANGED places
      BY <2>1, <2>2 DEF places, queues
    <3> QED BY <3>1, Idle
  <2>3. CASE ~UNCHANGED <<previewFrames, pvFrame>>
    <3>0. PICK f : f = Head(previewFrames)
      OBVIOUS
    <3>1. /\ previewFrames # <<>> /\ pvFrame' = f /\ previewFrames' = Tail(previewFrames)
          /\ pvFrame = NULL
      BY <1>0, <1>43, <2>3, <3>0 DEF waitPreviewFrame, Holding, FrameHolds
    <3>2. /\ Distinct(previewFrames') /\ f \in Range(previewFrames)
          /\ Range(previewFrames') = Range(previewFrames) \ {f}
      BY <1>0, <3>0, <3>1, RemoveHead DEF Single, TypeOK, QueuesOK
    <3>3. f \in FRAME
      BY <1>0, <3>0, <3>1 DEF TypeOK, QueuesOK
    <3>4. Here(f, "queue")
      BY <3>2 DEF Here
    <3>5. PICK c \in THREAD : Only(f, "queue", c)
      BY <3>3, <3>4, Nowhere
    <3>6. \A g \in FRAME \ {f} : Stays(g)
      BY <1>0, <2>1, <3>0, <3>1, <3>2 DEF Stays, memory
    <3>7. Here(f, "pvFrame")' /\ Only(f, "pvFrame", NULL)'
      BY <1>0, <2>1, <3>1, <3>2, <3>5 DEF Here, Only, memory
    <3>8. \E r, q \in Ledger!PLACE : Goes(f, r, q)
      BY <3>4, <3>7, Routes DEF Goes, THREAD, Ledger!PLACE
    <3> QED BY <2>1, <3>2, <3>3, <3>6, <3>8, OneMoves DEF Single, memory
  <2> QED BY <2>2, <2>3
<1>44. CASE decodeFrame
  <2>1. PICK f \in FrameOrNull : get_frame(f) /\ pvConv' = f /\ pvConv = NULL
    BY <1>0, <1>44 DEF decodeFrame, FrameOrNull, Holding, ConvHolds
  <2>2. UNCHANGED <<queues, streamFrame, pvFrame, capFrame, capConv, capCb>>
    BY <1>44 DEF decodeFrame, strVars, capVars
  <2> QED BY <1>0, <2>1, <2>2, FetchesConv
<1>45. CASE draw_preview_one
  <2>1. pvConv = NULL
    BY <1>0, <1>45 DEF draw_preview_one, Holding, ConvHolds
  <2>2. UNCHANGED <<queues, streamFrame, pvFrame, capFrame, capConv, capCb>>
    BY <1>45 DEF draw_preview_one, strVars, capVars
  <2>3. CASE UNCHANGED <<memory, pvConv>>
    <3>1. UNCHANGED places
      BY <2>2, <2>3 DEF places, memory
    <3> QED BY <3>1, Idle
  <2>4. CASE ~UNCHANGED <<memory, pvConv>>
    <3>1. PICK f \in FrameOrNull : get_frame(f) /\ pvConv' = f
      BY <1>45, <2>4 DEF draw_preview_one, FrameOrNull
    <3> QED BY <1>0, <2>1, <2>2, <3>1, FetchesConv
  <2> QED BY <2>3, <2>4
<1>46. CASE decodedFrame
  <2>0. PICK f, e \in FRAME : f = pvFrame /\ e = pvConv
    BY <1>0, <1>46 DEF decodedFrame, Holding, FrameHolds, ConvHolds, TypeOK,
       PreviewOK, FrameOrNull
  <2>1. /\ pvConv' = NULL
        /\ UNCHANGED <<queues, streamFrame, capFrame, capConv, capCb>>
    BY <2>0, <1>0, <1>46 DEF decodedFrame, strVars, capVars
  <2>2. Here(f, "pvFrame") /\ Here(e, "pvConv")
    BY <2>0 DEF Here
  <2>3. PICK c \in THREAD : Only(f, "pvFrame", c)
    BY <2>0, <2>1, <2>2, Nowhere
  <2>4. PICK d \in THREAD : Only(e, "pvConv", d)
    BY <2>0, <2>1, <2>2, Nowhere
  <2>5. e # f
    BY <2>0, <2>3 DEF Only
  <2>6. CASE recycle_frame(f) /\ pvFrame' = e
    <3>1. Away(f)'
      BY <1>0, <2>0, <2>1, <2>3, <2>5, <2>6 DEF Away, Only, queues
    <3>2. /\ Distinct(mFramePool')
          /\ \A g \in FRAME \ {f} :
                /\ g \in heap' <=> g \in heap
                /\ g \in Range(mFramePool') <=> g \in Range(mFramePool)
          /\ \E r, q \in Ledger!PLACE : Goes(f, r, q)
      BY <1>0, <2>0, <2>1, <2>2, <2>6, <3>1, GivesBack
    <3>3. \A g \in FRAME \ {f, e} : Stays(g)
      BY <1>0, <2>0, <2>1, <2>6, <3>2 DEF Stays, queues
    <3>4. Here(e, "pvFrame")' /\ Only(e, "pvFrame", NULL)'
      BY <1>0, <2>0, <2>1, <2>4, <2>5, <2>6, <3>2 DEF Here, Only, queues
    <3>5. \E r, q \in Ledger!PLACE : Goes(e, r, q)
      BY <2>2, <3>4, Routes DEF Goes, THREAD, Ledger!PLACE
    <3> QED BY <2>0, <2>1, <3>2, <3>3, <3>5 DEF Entered, Single, queues
  <2>7. CASE recycle_frames(<<f, e>>) /\ pvFrame' = NULL
    <3>1. /\ <<f, e>> \in Seq(FRAME) /\ Range(<<f, e>>) = {f, e} /\ Distinct(<<f, e>>)
      BY <2>0, <2>1, <2>5 DEF Range, Distinct
    <3>2. /\ f \notin heap /\ f \notin Range(mFramePool)
          /\ e \notin heap /\ e \notin Range(mFramePool)
      BY <2>3, <2>4 DEF Only
    <3>3. /\ Distinct(mFramePool')
          /\ \A g \in FRAME \ {f, e} :
                /\ g \in heap' <=> g \in heap
                /\ g \in Range(mFramePool') <=> g \in Range(mFramePool)
          /\ \A g \in {f, e} : g \in heap' <=> g \notin Range(mFramePool')
      BY <1>0, <2>7, <3>1, <3>2, Returns
    <3>4. \A g \in FRAME \ {f, e} : Stays(g)
      BY <1>0, <2>0, <2>1, <2>7, <3>3 DEF Stays, queues
    <3>5. Away(f)' /\ Away(e)'
      BY <1>0, <2>0, <2>1, <2>3, <2>4, <2>7 DEF Away, Only, queues
    <3>6. \A g \in {f, e} : \E r, q \in Ledger!PLACE : Goes(g, r, q)
      BY <2>2, <3>3, <3>5, Stored
    <3> QED BY <2>0, <2>1, <3>3, <3>4, <3>6 DEF Entered, Single, queues
  <2> QED BY <1>46, <2>0, <2>6, <2>7 DEF decodedFrame
<1>47. CASE recycleDrawn
  <2>0. PICK f \in FRAME : f = pvConv
    BY <1>0, <1>47 DEF recycleDrawn, Holding, ConvHolds, TypeOK, PreviewOK,
       FrameOrNull
  <2>1. /\ pvConv' = NULL /\ recycle_frame(f)
        /\ UNCHANGED <<queues, streamFrame, pvFrame, capFrame, capConv, capCb>>
    BY <2>0, <1>0, <1>47 DEF recycleDrawn, strVars, capVars
  <2>2. Here(f, "pvConv")
    BY <2>0 DEF Here
  <2>3. PICK c \in THREAD : Only(f, "pvConv", c)
    BY <2>0, <2>1, <2>2, Nowhere
  <2>4. Away(f)'
    BY <1>0, <2>0, <2>1, <2>3 DEF Away, Only, queues
  <2>5. /\ Distinct(mFramePool')
        /\ \A g \in FRAME \ {f} :
              /\ g \in heap' <=> g \in heap
              /\ g \in Range(mFramePool') <=> g \in Range(mFramePool)
        /\ \E r, q \in Ledger!PLACE : Goes(f, r, q)
    BY <1>0, <2>0, <2>1, <2>2, <2>4, GivesBack
  <2>6. \A g \in FRAME \ {f} : Stays(g)
    BY <1>0, <2>0, <2>1, <2>5 DEF Stays, queues
  <2> QED BY <2>0, <2>1, <2>5, <2>6, OneMoves DEF Single, queues
<1>48. CASE addCaptureFrame /\ ~mIsRunning
  <2>0. PICK f \in FRAME : f = pvFrame
    BY <1>0, <1>48 DEF addCaptureFrame, Holding, FrameHolds, TypeOK, PreviewOK,
       FrameOrNull
  <2>1. /\ pvFrame' = NULL /\ UNCHANGED mIsRunning
        /\ UNCHANGED <<memory, queues, streamFrame, pvConv, capFrame, capConv, capCb>>
    BY <2>0, <1>0, <1>48 DEF addCaptureFrame, strVars, capData, flags, queues
  <2>2. Here(f, "pvFrame")
    BY <2>0 DEF Here
  <2>3. PICK c \in THREAD : Only(f, "pvFrame", c)
    BY <2>0, <2>1, <2>2, Nowhere
  <2>4. \A g \in FRAME \ {f} : Stays(g)
    BY <1>0, <2>0, <2>1 DEF Stays, memory, queues
  <2>5. Lost(f)
    BY <1>0, <2>0, <2>1, <2>3 DEF Lost, Here, Only, memory, queues
  <2> QED BY <1>48, <2>0, <2>1, <2>4, <2>5 DEF Entered, Single, memory, queues
<1>49. CASE addCaptureFrame /\ mIsRunning
  <2>0. PICK f \in FRAME, e \in FrameOrNull : f = pvFrame /\ e = captureQueu
    BY <1>0, <1>49 DEF addCaptureFrame, Holding, FrameHolds, TypeOK, PreviewOK,
       QueuesOK, FrameOrNull
  <2>1. /\ pvFrame' = NULL /\ captureQueu' = f
        /\ UNCHANGED <<previewFrames, streamFrame, pvConv, capFrame, capConv, capCb>>
    BY <2>0, <1>0, <1>49 DEF addCaptureFrame, strVars, capData
  <2>2. Here(f, "pvFrame")
    BY <2>0 DEF Here
  <2>3. PICK c \in THREAD : Only(f, "pvFrame", c)
    BY <2>0, <2>1, <2>2, Nowhere
  <2>4. e # f
    BY <2>0, <2>3 DEF Only
  <2>5. ASSUME f \in heap' <=> f \in heap,
               f \in Range(mFramePool') <=> f \in Range(mFramePool)
        PROVE  \E r, q \in Ledger!PLACE : Goes(f, r, q)
    <3>1. Here(f, "captureQueu")' /\ Only(f, "captureQueu", NULL)'
      BY <1>0, <2>0, <2>1, <2>3, <2>5 DEF Here, Only
    <3> QED BY <2>2, <3>1, Routes DEF Goes, THREAD, Ledger!PLACE
  <2>6. CASE e = NULL
    <3>1. UNCHANGED memory
      BY <1>49, <2>0, <2>6 DEF addCaptureFrame
    <3>2. \A g \in FRAME \ {f} : Stays(g)
      BY <1>0, <2>0, <2>1, <2>6, <3>1 DEF Stays, memory
    <3> QED BY <2>0, <2>1, <2>5, <3>1, <3>2, OneMoves DEF Single, memory
  <2>7. CASE e # NULL
    <3>1. recycle_frame(e) /\ e \in FRAME
      BY <2>0, <1>49, <2>7 DEF addCaptureFrame, FrameOrNull
    <3>2. Here(e, "captureQueu")
      BY <2>0 DEF Here
    <3>3. PICK d \in THREAD : Only(e, "captureQueu", d)
      BY <3>1, <3>2, Nowhere
    <3>4. Away(e)'
      BY <1>0, <2>0, <2>1, <2>4, <3>1, <3>3 DEF Away, Only
    <3>5. /\ Distinct(mFramePool')
          /\ \A g \in FRAME \ {e} :
                /\ g \in heap' <=> g \in heap
                /\ g \in Range(mFramePool') <=> g \in Range(mFramePool)
          /\ \E r, q \in Ledger!PLACE : Goes(e, r, q)
      BY <1>0, <3>1, <3>2, <3>4, GivesBack
    <3>6. \A g \in FRAME \ {f, e} : Stays(g)
      BY <1>0, <2>0, <2>1, <3>5 DEF Stays
    <3>7. \E r, q \in Ledger!PLACE : Goes(f, r, q)
      BY <2>0, <2>1, <2>4, <2>5, <3>5
    <3> QED BY <2>0, <2>1, <3>5, <3>6, <3>7 DEF Entered, Single
  <2> QED BY <2>6, <2>7
<1>50. ASSUME NEW c \in CAPTURE, waitCaptureFrame(c) PROVE Entered
  <2>1. UNCHANGED <<memory, previewFrames, streamFrame, pvFrame, pvConv, capConv, capCb>>
    BY <1>50 DEF waitCaptureFrame, strVars, pvVars
  <2>2. CASE UNCHANGED <<captureQueu, capFrame>>
    <3>1. UNCHANGED places
      BY <2>1, <2>2 DEF places, queues
    <3> QED BY <3>1, Idle
  <2>3. CASE ~UNCHANGED <<captureQueu, capFrame>>
    <3>0. PICK f : f = captureQueu
      OBVIOUS
    <3>1. /\ f # NULL /\ capFrame' = [capFrame EXCEPT ![c] = f] /\ captureQueu' = NULL
      BY <1>50, <2>3, <3>0 DEF waitCaptureFrame
    <3>2. f \in FRAME /\ capFrame[c] = NULL /\ capFrame \in [CAPTURE -> FrameOrNull]
      BY <1>0, <1>50, <3>0, <3>1 DEF TypeOK, QueuesOK, CaptureOK, FrameOrNull, Holding,
         CaptureHolds, waitCaptureFrame
    <3>3. Here(f, "captureQueu")
      BY <3>0 DEF Here
    <3>4. PICK d \in THREAD : Only(f, "captureQueu", d)
      BY <3>2, <3>3, Nowhere
    <3>5. \A g \in FRAME \ {f} : Stays(g)
      BY <1>0, <2>1, <3>0, <3>1, <3>2 DEF Stays, memory
    <3>6. Here(f, "capFrame")' /\ Only(f, "capFrame", c)'
      BY <1>0, <2>1, <3>1, <3>2, <3>4 DEF Here, Only, memory
    <3>7. \E r, q \in Ledger!PLACE : Goes(f, r, q)
      BY <3>3, <3>6, Routes DEF Goes, THREAD, Ledger!PLACE
    <3> QED BY <2>1, <3>2, <3>5, <3>7, OneMoves DEF Single, memory
  <2> QED BY <2>2, <2>3
<1>51. ASSUME NEW c \in CAPTURE, surfaceConvert(c) PROVE Entered
  <2>1. /\ UNCHANGED <<queues, streamFrame, pvFrame, pvConv, capFrame, capCb>>
        /\ capConv \in [CAPTURE -> FrameOrNull]
    BY <1>0, <1>51 DEF surfaceConvert, strVars, pvVars, TypeOK, CaptureOK
  <2>2. CASE UNCHANGED <<memory, capConv>>
    <3>1. UNCHANGED places
      BY <2>1, <2>2 DEF places, memory
    <3> QED BY <3>1, Idle
  <2>3. CASE ~UNCHANGED <<memory, capConv>>
    <3>1. PICK f \in FrameOrNull : /\ get_frame(f) /\ capConv[c] = NULL
                                   /\ capConv' = [capConv EXCEPT ![c] = f]
      BY <1>51, <2>3 DEF surfaceConvert, FrameOrNull
    <3>2. CASE f = NULL
      <4>1. UNCHANGED memory
        BY <1>0, <3>1, <3>2, Fetches
      <4>2. capConv' = capConv
        BY <2>1, <3>1, <3>2
      <4> QED BY <2>3, <4>1, <4>2
    <3>3. CASE f # NULL
      <4>1. /\ f \in FRAME /\ Away(f) /\ Distinct(mFramePool')
            /\ f \notin heap' /\ f \notin Range(mFramePool')
            /\ \A g \in FRAME \ {f} :
                  /\ g \in heap' <=> g \in heap
                  /\ g \in Range(mFramePool') <=> g \in Range(mFramePool)
        BY <1>0, <3>1, <3>3, Fetched
      <4>2. PICK p \in {"heap", "pool"} : p \in Ledger!PLACE /\ Here(f, p)
        BY <1>0, <3>1, <3>3, Fetched
      <4>3. \A g \in FRAME \ {f} : Stays(g)
        BY <1>0, <2>1, <3>1, <4>1 DEF Stays, queues
      <4>4. Here(f, "capConv")' /\ Only(f, "capConv", c)'
        BY <2>1, <3>1, <4>1 DEF Here, Only, Away, queues
      <4>5. \E r, q \in Ledger!PLACE : Goes(f, r, q)
        BY <4>2, <4>4, Routes DEF Goes, THREAD, Ledger!PLACE
      <4> QED BY <2>1, <4>1, <4>3, <4>5, OneMoves DEF Single, queues
    <3> QED BY <3>2, <3>3
  <2> QED BY <2>2, <2>3
<1>52. ASSUME NEW c \in CAPTURE, callbackCheck(c) PROVE Entered
  <2>1. /\ UNCHANGED <<queues, streamFrame, pvFrame, pvConv, capFrame, capConv>>
        /\ capCb \in [CAPTURE -> FrameOrNull] /\ capCb[c] = NULL
    BY <1>0, <1>52 DEF callbackCheck, strVars, pvVars, TypeOK, CaptureOK, Holding,
       CaptureHolds
  <2>2. CASE UNCHANGED <<memory, capCb>>
    <3>1. UNCHANGED places
      BY <2>1, <2>2 DEF places, memory
    <3> QED BY <3>1, Idle
  <2>3. CASE ~UNCHANGED <<memory, capCb>>
    <3>1. PICK f \in FrameOrNull :
             get_frame(f) /\ capCb' = [capCb EXCEPT ![c] = f]
      BY <1>52, <2>3 DEF callbackCheck, FrameOrNull
    <3>2. CASE f = NULL
      <4>1. UNCHANGED memory
        BY <1>0, <3>1, <3>2, Fetches
      <4>2. capCb' = capCb
        BY <2>1, <3>1, <3>2
      <4> QED BY <2>3, <4>1, <4>2
    <3>3. CASE f # NULL
      <4>1. /\ f \in FRAME /\ Away(f) /\ Distinct(mFramePool')
            /\ f \notin heap' /\ f \notin Range(mFramePool')
            /\ \A g \in FRAME \ {f} :
                  /\ g \in heap' <=> g \in heap
                  /\ g \in Range(mFramePool') <=> g \in Range(mFramePool)
        BY <1>0, <3>1, <3>3, Fetched
      <4>2. PICK p \in {"heap", "pool"} : p \in Ledger!PLACE /\ Here(f, p)
        BY <1>0, <3>1, <3>3, Fetched
      <4>3. \A g \in FRAME \ {f} : Stays(g)
        BY <1>0, <2>1, <3>1, <4>1 DEF Stays, queues
      <4>4. Here(f, "capCb")' /\ Only(f, "capCb", c)'
        BY <2>1, <3>1, <4>1 DEF Here, Only, Away, queues
      <4>5. \E r, q \in Ledger!PLACE : Goes(f, r, q)
        BY <4>2, <4>4, Routes DEF Goes, THREAD, Ledger!PLACE
      <4> QED BY <2>1, <4>1, <4>3, <4>5, OneMoves DEF Single, queues
    <3> QED BY <3>2, <3>3
  <2> QED BY <2>2, <2>3
<1>53. ASSUME NEW c \in CAPTURE, callbackConvert(c) PROVE Entered
  <2>0. PICK f, e \in FRAME : f = capFrame[c] /\ e = capCb[c]
    BY <1>0, <1>53 DEF callbackConvert, Holding, CaptureHolds, TypeOK, CaptureOK,
       FrameOrNull
  <2>1. /\ recycle_frame(f)
        /\ capFrame' = [capFrame EXCEPT ![c] = e] /\ capCb' = [capCb EXCEPT ![c] = NULL]
        /\ capFrame \in [CAPTURE -> FrameOrNull] /\ capCb \in [CAPTURE -> FrameOrNull]
        /\ UNCHANGED <<queues, streamFrame, pvFrame, pvConv, capConv>>
    BY <2>0, <1>0, <1>53 DEF callbackConvert, TypeOK, CaptureOK, strVars, pvVars
  <2>2. Here(f, "capFrame") /\ Here(e, "capCb")
    BY <2>0 DEF Here
  <2>3. PICK x \in THREAD : Only(f, "capFrame", x)
    BY <2>0, <2>1, <2>2, Nowhere
  <2>4. PICK y \in THREAD : Only(e, "capCb", y)
    BY <2>0, <2>1, <2>2, Nowhere
  <2>5. e # f /\ x = c /\ y = c
    BY <2>0, <2>3, <2>4 DEF Only
  <2>6. Away(f)'
    BY <1>0, <2>0, <2>1, <2>3, <2>5 DEF Away, Only, queues
  <2>7. /\ Distinct(mFramePool')
        /\ \A g \in FRAME \ {f} :
              /\ g \in heap' <=> g \in heap
              /\ g \in Range(mFramePool') <=> g \in Range(mFramePool)
        /\ \E r, q \in Ledger!PLACE : Goes(f, r, q)
    BY <1>0, <2>0, <2>1, <2>2, <2>6, GivesBack
  <2>8. \A g \in FRAME \ {f, e} : Stays(g)
    BY <1>0, <2>0, <2>1, <2>7 DEF Stays, queues
  <2>9. Here(e, "capFrame")' /\ Only(e, "capFrame", c)'
    BY <1>0, <2>0, <2>1, <2>4, <2>5, <2>7 DEF Here, Only, queues
  <2>10. \E r, q \in Ledger!PLACE : Goes(e, r, q)
    BY <2>2, <2>9, Routes DEF Goes, THREAD, Ledger!PLACE
  <2> QED BY <2>0, <2>1, <2>7, <2>8, <2>10 DEF Entered, Single, queues
<1>54. ASSUME NEW c \in CAPTURE, callbackRecycle(c) PROVE Entered
  <2>0. PICK f \in FRAME : f = capFrame[c]
    BY <1>0, <1>54 DEF callbackRecycle, Holding, CaptureHolds, TypeOK, CaptureOK,
       FrameOrNull
  <2>1. /\ recycle_frame(f) /\ capFrame' = [capFrame EXCEPT ![c] = NULL]
        /\ capFrame \in [CAPTURE -> FrameOrNull]
        /\ UNCHANGED <<queues, streamFrame, pvFrame, pvConv, capConv, capCb>>
    BY <2>0, <1>0, <1>54 DEF callbackRecycle, TypeOK, CaptureOK, strVars, pvVars
  <2>2. Here(f, "capFrame")
    BY <2>0 DEF Here
  <2>3. PICK x \in THREAD : Only(f, "capFrame", x)
    BY <2>0, <2>1, <2>2, Nowhere
  <2>4. x = c
    BY <2>0, <2>3 DEF Only
  <2>5. Away(f)'
    BY <1>0, <2>0, <2>1, <2>3, <2>4 DEF Away, Only, queues
  <2>6. /\ Distinct(mFramePool')
        /\ \A g \in FRAME \ {f} :
              /\ g \in heap' <=> g \in heap
              /\ g \in Range(mFramePool') <=> g \in Range(mFramePool)
        /\ \E r, q \in Ledger!PLACE : Goes(f, r, q)
    BY <1>0, <2>0, <2>1, <2>2, <2>5, GivesBack
  <2>7. \A g \in FRAME \ {f} : Stays(g)
    BY <1>0, <2>0, <2>1, <2>6 DEF Stays, queues
  <2> QED BY <2>0, <2>1, <2>6, <2>7, OneMoves DEF Single, queues
<1>55. ASSUME NEW c \in CAPTURE, leaveSurface(c) PROVE Entered
  <2>0. PICK f : f = capConv[c]
    OBVIOUS
  <2>1. /\ capConv' = [capConv EXCEPT ![c] = NULL]
        /\ capConv \in [CAPTURE -> FrameOrNull]
        /\ UNCHANGED <<queues, streamFrame, pvFrame, pvConv, capFrame, capCb>>
    BY <1>0, <1>55 DEF leaveSurface, TypeOK, CaptureOK, strVars, pvVars
  <2>2. CASE f = NULL
    <3>1. UNCHANGED memory /\ capConv' = capConv
      BY <1>55, <2>0, <2>1, <2>2 DEF leaveSurface
    <3>2. UNCHANGED places
      BY <2>1, <3>1 DEF places
    <3> QED BY <3>2, Idle
  <2>3. CASE f # NULL
    <3>1. f \in FRAME /\ recycle_frame(f)
      BY <1>55, <2>0, <2>1, <2>3 DEF leaveSurface, FrameOrNull
    <3>2. Here(f, "capConv")
      BY <2>0 DEF Here
    <3>3. PICK x \in THREAD : Only(f, "capConv", x)
      BY <3>1, <3>2, Nowhere
    <3>4. x = c
      BY <2>0, <3>3 DEF Only
    <3>5. Away(f)'
      BY <1>0, <2>0, <2>1, <3>1, <3>3, <3>4 DEF Away, Only, queues
    <3>6. /\ Distinct(mFramePool')
          /\ \A g \in FRAME \ {f} :
                /\ g \in heap' <=> g \in heap
                /\ g \in Range(mFramePool') <=> g \in Range(mFramePool)
          /\ \E r, q \in Ledger!PLACE : Goes(f, r, q)
      BY <1>0, <3>1, <3>2, <3>5, GivesBack
    <3>7. \A g \in FRAME \ {f} : Stays(g)
      BY <1>0, <2>0, <2>1, <3>6 DEF Stays, queues
    <3> QED BY <2>1, <3>1, <3>6, <3>7, OneMoves DEF Single, queues
  <2> QED BY <2>2, <2>3
<1>56. addPreviewFrame => addPreviewFrame /\ (queuePreviewFrame \/ dropFrame)
  BY DEF addPreviewFrame
<1> QED
  BY <1>1, <1>2, <1>3, <1>4, <1>5, <1>6, <1>7, <1>8, <1>9, <1>10, <1>11,
     <1>12, <1>13, <1>14, <1>15, <1>16, <1>17, <1>18, <1>19, <1>20, <1>21,
     <1>22, <1>23, <1>24, <1>25, <1>26, <1>27, <1>28, <1>29, <1>30, <1>31,
     <1>32, <1>33, <1>34, <1>35, <1>36, <1>37, <1>38, <1>39, <1>40, <1>41,
     <1>42, <1>43, <1>44, <1>45, <1>46, <1>47, <1>48, <1>49, <1>50, <1>51,
     <1>52, <1>53, <1>54, <1>55, <1>56 DEF Next, UserStep, AppStep,
     StreamStep, PreviewStep, SetterStep, CaptureStep

-----------------------------------------------------------------------------
(* At first every frame is on the heap.                                    *)
LEMMA InitSingle == Init => Single
<1> SUFFICES ASSUME Init PROVE Single
  OBVIOUS
<1>1. Range(<<>>) = {} /\ Distinct(<<>>) /\ NULL \notin FRAME
  BY NullAssumption DEF Range, Distinct
<1>2. \A f \in FRAME : Only(f, "heap", NULL)
  BY <1>1 DEF Init, Only
<1> QED BY <1>1, <1>2 DEF Init, Single, THREAD, Ledger!PLACE

(* A step that moves every frame to one place keeps frames in one place.   *)
LEMMA EnteredSingle ==
    ASSUME Single, Entered
    PROVE  Single'
<1>1. ASSUME NEW f \in FRAME
      PROVE  \E p \in Ledger!PLACE, c \in THREAD : Only(f, p, c)'
  <2>1. CASE Stays(f)
    <3>1. PICK p \in Ledger!PLACE, c \in THREAD : Only(f, p, c)
      BY DEF Single
    <3>2. Only(f, p, c)'
      BY <2>1, <3>1 DEF Only, Stays
    <3> QED BY <3>2
  <2>2. CASE \E p, q \in Ledger!PLACE : Goes(f, p, q)
    BY <2>2 DEF Goes
  <2>3. CASE Lost(f)
    <3>1. \A p \in Ledger!PLACE : ~Here(f, p)'
      BY <2>3 DEF Lost
    <3>2. Only(f, "heap", NULL)'
      BY <3>1 DEF Only, Here, Ledger!PLACE
    <3> QED BY <3>2 DEF THREAD, Ledger!PLACE
  <2> QED BY <2>1, <2>2, <2>3 DEF Entered
<1> QED BY <1>1 DEF Entered, Single

(* A step that touches no frame is an entry.                               *)
LEMMA IdleEntered ==
    ASSUME Single, UNCHANGED vars
    PROVE  Entered
<1>1. UNCHANGED places
  BY DEF vars, places, strVars, pvVars, capVars
<1> QED BY <1>1, Idle

(* Every step and every stutter is an entry.                               *)
LEMMA NextEntered ==
    ASSUME IInv, Single, [Next]_vars
    PROVE  Entered
BY EnteredStep, IdleEntered

(* Every frame stays in one place.                                         *)
LEMMA SingleInvariance == Spec => []Single
<1>1. IInv /\ Single /\ [Next]_vars => Single'
  BY NextEntered, EnteredSingle
<1> QED BY <1>1, InitSingle, Invariance, PTL DEF Spec

(* The holders of a frame, place by place.                                 *)
LEMMA Held ==
    ASSUME NEW f
    PROVE  \A h : h \in Holders(f) <=>
              \/ \E i \in DOMAIN mFramePool : mFramePool[i] = f /\ h = <<"pool", i>>
              \/ \E i \in DOMAIN previewFrames :
                    previewFrames[i] = f /\ h = <<"queue", i>>
              \/ \E c \in CAPTURE : capFrame[c] = f /\ h = <<"capFrame", c>>
              \/ \E c \in CAPTURE : capConv[c] = f /\ h = <<"capConv", c>>
              \/ \E c \in CAPTURE : capCb[c] = f /\ h = <<"capCb", c>>
              \/ f \in heap /\ h = <<"heap", NULL>>
              \/ captureQueu = f /\ h = <<"captureQueu", NULL>>
              \/ streamFrame = f /\ h = <<"stream", NULL>>
              \/ pvFrame = f /\ h = <<"pvFrame", NULL>>
              \/ pvConv = f /\ h = <<"pvConv", NULL>>
BY DEF Holders

(* A frame that is in one place has one holder.                            *)
LEMMA OneHolder ==
    ASSUME Single, NEW f \in FRAME
    PROVE  Cardinality(Holders(f)) <= 1
<1>1. PICK p \in Ledger!PLACE, c \in THREAD : Only(f, p, c)
  BY DEF Single
<1>2. /\ \A i \in DOMAIN mFramePool : mFramePool[i] = f => p = "pool"
      /\ \A i \in DOMAIN previewFrames : previewFrames[i] = f => p = "queue"
  BY <1>1 DEF Only, Range
<1>3. ASSUME NEW h \in Holders(f), NEW k \in Holders(f)
      PROVE  h = k
  <2>1. CASE p = "pool"
    <3>1. PICK i \in DOMAIN mFramePool : mFramePool[i] = f /\ h = <<"pool", i>>
      BY <1>1, <1>2, <2>1, Held DEF Only
    <3>2. PICK j \in DOMAIN mFramePool : mFramePool[j] = f /\ k = <<"pool", j>>
      BY <1>1, <1>2, <2>1, Held DEF Only
    <3> QED BY <3>1, <3>2 DEF Single, Distinct
  <2>2. CASE p = "queue"
    <3>1. PICK i \in DOMAIN previewFrames : previewFrames[i] = f /\ h = <<"queue", i>>
      BY <1>1, <1>2, <2>2, Held DEF Only
    <3>2. PICK j \in DOMAIN previewFrames : previewFrames[j] = f /\ k = <<"queue", j>>
      BY <1>1, <1>2, <2>2, Held DEF Only
    <3> QED BY <3>1, <3>2 DEF Single, Distinct
  <2>3. CASE p \in {"capFrame", "capConv", "capCb"}
    <3>1. h = <<p, c>> /\ k = <<p, c>>
      BY <1>1, <1>2, <2>3, Held DEF Only
    <3> QED BY <3>1
  <2>4. CASE p \in {"heap", "captureQueu", "stream", "pvFrame", "pvConv"}
    <3>1. h = <<p, NULL>> /\ k = <<p, NULL>>
      BY <1>1, <1>2, <2>4, Held DEF Only
    <3> QED BY <3>1
  <2> QED BY <2>1, <2>2, <2>3, <2>4 DEF Ledger!PLACE
<1>4. CASE Holders(f) = {}
  BY <1>4, FS_EmptySet
<1>5. CASE Holders(f) # {}
  <2>1. PICK h : h \in Holders(f)
    BY <1>5
  <2>2. Holders(f) = {h}
    BY <1>3, <2>1
  <2>3. Cardinality({h}) = 1
    BY FS_Singleton
  <2> QED BY <2>2, <2>3
<1> QED BY <1>4, <1>5

(* No frame is ever in two places, for any number of frames, threads and   *)
(* sessions: none is pooled twice, filled while it is drawn, or freed      *)
(* while somebody holds it.                                                *)
THEOREM FramesOwned == Spec => []FrameOwnership
<1>1. Single => FrameOwnership
  BY OneHolder DEF FrameOwnership
<1> QED BY <1>1, SingleInvariance, PTL

-----------------------------------------------------------------------------
(* The ledger.                                                             *)
LEMMA Located ==
    ASSUME CaptureOK, NEW f \in FRAME
    PROVE  Ledger!At(f, Books) = {p \in Ledger!PLACE : Here(f, p)}
<1>1. /\ f \in Range(capFrame) <=> \E d \in CAPTURE : capFrame[d] = f
      /\ f \in Range(capConv) <=> \E d \in CAPTURE : capConv[d] = f
      /\ f \in Range(capCb) <=> \E d \in CAPTURE : capCb[d] = f
  BY DEF CaptureOK, Range
<1>2. ASSUME NEW p \in Ledger!PLACE
      PROVE  f \in Books[p] <=> Here(f, p)
  BY <1>1 DEF Ledger!PLACE, Books, Here
<1> QED BY <1>2 DEF Ledger!At

(* The same after a step.                                                  *)
LEMMA LocatedNext ==
    ASSUME CaptureOK', NEW f \in FRAME
    PROVE  Ledger!At(f, Books)' = {p \in Ledger!PLACE : Here(f, p)'}
<1>1. /\ f \in Range(capFrame') <=> \E d \in CAPTURE : capFrame'[d] = f
      /\ f \in Range(capConv') <=> \E d \in CAPTURE : capConv'[d] = f
      /\ f \in Range(capCb') <=> \E d \in CAPTURE : capCb'[d] = f
  BY DEF CaptureOK, Range
<1>2. ASSUME NEW p \in Ledger!PLACE
      PROVE  f \in Books'[p] <=> Here(f, p)'
  BY <1>1 DEF Ledger!PLACE, Books, Here
<1> QED BY <1>2 DEF Ledger!At

(* What an entry moves, the ledger lets move.                              *)
LEMMA EnteredAccounted ==
    ASSUME CaptureOK, CaptureOK', Single, Entered
    PROVE  Ledger!Accounted(Books, Books')
<1>0. \A f : Ledger!At(f, Books)' = Ledger!At(f, Books')
  BY DEF Ledger!At
<1>1. \A f \in FRAME : /\ Ledger!At(f, Books) = {p \in Ledger!PLACE : Here(f, p)}
                       /\ Ledger!At(f, Books') = {p \in Ledger!PLACE : Here(f, p)'}
  BY <1>0, Located, LocatedNext
<1>2. ASSUME NEW f \in FRAME, Stays(f)
      PROVE  Ledger!At(f, Books) = Ledger!At(f, Books')
  <2>1. \A p \in Ledger!PLACE : Here(f, p) <=> Here(f, p)'
    BY <1>2 DEF Stays, Here
  <2> QED BY <1>1, <2>1
<1>3. ASSUME NEW f \in FRAME, NEW p \in Ledger!PLACE, NEW q \in Ledger!PLACE,
             Goes(f, p, q)
      PROVE  Ledger!Moves(f, Books, Books')
  <2>1. PICK c \in THREAD : Only(f, p, c)
    BY <1>3, Nowhere DEF Goes
  <2>2. PICK d \in THREAD : Only(f, q, d)'
    BY <1>3 DEF Goes
  <2>3. \A r \in Ledger!PLACE : Here(f, r) <=> r = p
    BY <1>3, <2>1 DEF Goes, Only, Here
  <2>4. \A r \in Ledger!PLACE : Here(f, r)' <=> r = q
    BY <1>3, <2>2 DEF Goes, Only, Here
  <2>5. Ledger!At(f, Books) = {p} /\ Ledger!At(f, Books') = {q}
    BY <1>1, <2>3, <2>4
  <2> QED BY <1>3, <2>5 DEF Goes, Ledger!Moves
<1>4. ASSUME NEW f \in FRAME, Lost(f)
      PROVE  Ledger!Loses(f, Books, Books')
  <2>1. Here(f, "pvFrame") /\ "pvFrame" \in Ledger!PLACE
    BY <1>4 DEF Lost, Here, Ledger!PLACE
  <2>2. PICK c \in THREAD : Only(f, "pvFrame", c)
    BY <2>1, Nowhere
  <2>3. \A r \in Ledger!PLACE : Here(f, r) <=> r = "pvFrame"
    BY <2>1, <2>2 DEF Only, Here
  <2>4. \A r \in Ledger!PLACE : ~Here(f, r)'
    BY <1>4 DEF Lost
  <2> QED BY <1>1, <2>1, <2>3, <2>4 DEF Ledger!Loses
<1>5. ASSUME NEW e \in FRAME, Ledger!Loses(e, Books, Books')
      PROVE  e = pvFrame
  <2>1. Here(e, "pvFrame")
    BY <1>1, <1>5 DEF Ledger!Loses, Ledger!PLACE
  <2> QED BY <2>1 DEF Here
<1>6. ASSUME NEW f \in FRAME, Ledger!At(f, Books) # Ledger!At(f, Books')
      PROVE  \/ Ledger!Moves(f, Books, Books')
             \/ /\ Ledger!Loses(f, Books, Books')
                /\ \A e \in FRAME \ {f} : ~Ledger!Loses(e, Books, Books')
  <2>1. CASE \E p, q \in Ledger!PLACE : Goes(f, p, q)
    BY <1>3, <2>1
  <2>2. CASE Lost(f)
    <3>1. f = pvFrame
      BY <2>2 DEF Lost
    <3> QED BY <1>4, <1>5, <2>2, <3>1
  <2> QED BY <1>2, <1>6, <2>1, <2>2 DEF Entered
<1> QED BY <1>6 DEF Ledger!Accounted

(* The preview engine implements the frame ledger: a frame has one user at *)
(* a time, is passed on only along the routes of the ledger, and the one   *)
(* way to lose it starts at the preview thread.                            *)
THEOREM ImplementsLedger == Spec => LedgerSpec
<1>1. Init => Ledger!LedgerInit
  <2> SUFFICES ASSUME Init, NEW f \in FRAME PROVE Ledger!At(f, Books) = {"heap"}
    BY DEF Ledger!LedgerInit
  <2>1. CaptureOK /\ NULL \notin FRAME
    BY InitIInv, NullAssumption DEF IInv, TypeOK
  <2>2. Range(<<>>) = {}
    BY DEF Range
  <2>3. \A p \in Ledger!PLACE : Here(f, p) <=> p = "heap"
    BY <2>1, <2>2 DEF Init, Here, Ledger!PLACE
  <2>4. "heap" \in Ledger!PLACE
    BY DEF Ledger!PLACE
  <2> QED BY <2>1, <2>3, <2>4, Located
<1>2. IInv /\ IInv' /\ Single /\ [Next]_vars => [Ledger!LedgerNext]_Books
  BY NextEntered, EnteredAccounted DEF IInv, TypeOK, Ledger!LedgerNext
<1> QED BY <1>1, <1>2, Invariance, SingleInvariance, PTL
        DEF Spec, LedgerSpec, Ledger!Spec

-----------------------------------------------------------------------------
(* LeakBound: a session that can still lose a frame has not yet lost one,  *)
(* which is what makes the bound inductive.                                *)
Missing == {f \in FRAME : \A p \in Ledger!PLACE : ~Here(f, p)}
MayLose == mIsRunning \/ pvFrame # NULL

Counted ==
    /\ IsFiniteSet(Missing)
    /\ Cardinality(Missing) + (IF MayLose THEN 1 ELSE 0) <= sessions

(* A step starts a session, or keeps the count and gives no session that   *)
(* is over a frame to lose.                                                *)
Spent ==
    \/ sessions' = sessions + 1
    \/ /\ sessions' = sessions
       /\ mIsRunning' => mIsRunning
       /\ pvFrame' # NULL => pvFrame # NULL \/ mIsRunning

(* A frame without a holder is nowhere.                                    *)
LEMMA Unheld ==
    ASSUME NEW f \in FRAME
    PROVE  f \in Leaked <=> f \in Missing
<1>1. Holders(f) # {} <=> \E h : h \in Holders(f)
  OBVIOUS
<1>2. (\E h : h \in Holders(f)) => \E p \in Ledger!PLACE : Here(f, p)
  BY Held DEF Here, Range, Ledger!PLACE
<1>3. ASSUME NEW p \in Ledger!PLACE, Here(f, p)
      PROVE  \E h : h \in Holders(f)
  <2>1. CASE p = "pool"
    <3>1. PICK i \in DOMAIN mFramePool : mFramePool[i] = f
      BY <1>3, <2>1 DEF Here, Range
    <3>2. <<"pool", i>> \in Holders(f)
      BY <3>1, Held
    <3> QED BY <3>2
  <2>2. CASE p = "queue"
    <3>1. PICK i \in DOMAIN previewFrames : previewFrames[i] = f
      BY <1>3, <2>2 DEF Here, Range
    <3>2. <<"queue", i>> \in Holders(f)
      BY <3>1, Held
    <3> QED BY <3>2
  <2>3. CASE p \in {"capFrame", "capConv", "capCb"}
    <3>1. PICK c \in CAPTURE : \/ p = "capFrame" /\ capFrame[c] = f
                               \/ p = "capConv" /\ capConv[c] = f
                               \/ p = "capCb" /\ capCb[c] = f
      BY <1>3, <2>3 DEF Here
    <3>2. <<p, c>> \in Holders(f)
      BY <3>1, Held
    <3> QED BY <3>2
  <2>4. CASE p \in {"heap", "captureQueu", "stream", "pvFrame", "pvConv"}
    <3>1. <<p, NULL>> \in Holders(f)
      BY <1>3, <2>4, Held DEF Here
    <3> QED BY <3>1
  <2> QED BY <2>1, <2>2, <2>3, <2>4 DEF Ledger!PLACE
<1> QED BY <1>1, <1>2, <1>3 DEF Leaked, Missing

(* Only startPreview begins a session; only a running one takes frames.    *)
LEMMA Spends ==
    ASSUME IInv, Next
    PROVE  Spent
<1>0. pvFrame = NULL => previewPc \notin {"decoded", "drawn"}
  BY DEF IInv, Holding, FrameHolds
<1>1. CASE startPreview
  BY <1>1 DEF startPreview, Spent
<1>2. CASE setPreviewDisplay
  BY <1>2 DEF setPreviewDisplay, flags, pvVars, pvData, Spent
<1>3. CASE stopPreview
  BY <1>3 DEF stopPreview, flags, pvVars, pvData, Spent
<1>4. CASE createPreviewThread
  BY <1>4 DEF createPreviewThread, pvData, Spent
<1>5. CASE stopRunning
  BY <1>5 DEF stopRunning, pvVars, pvData, Spent
<1>6. CASE signalPreview
  BY <1>6 DEF signalPreview, flags, pvData, Spent
<1>7. CASE signalCapture
  BY <1>7 DEF signalCapture, flags, pvVars, pvData, Spent
<1>8. CASE joinCapture
  BY <1>8 DEF joinCapture, flags, pvVars, pvData, Spent
<1>9. CASE joinNoCapture
  BY <1>9 DEF joinNoCapture, flags, pvVars, pvData, Spent
<1>10. CASE joinPreview
  BY <1>10 DEF joinPreview, flags, pvData, Spent
<1>11. CASE stopClearPreview
  BY <1>11 DEF stopClearPreview, flags, pvVars, pvData, Spent
<1>12. CASE stopClearCapture
  BY <1>12 DEF stopClearCapture, flags, pvVars, pvData, Spent
<1>13. CASE stopReleaseWindows
  BY <1>13 DEF stopReleaseWindows, flags, pvVars, pvData, Spent
<1>14. CASE uvc_preview_frame_callback
  BY <1>14 DEF uvc_preview_frame_callback, flags, appVars, pvVars, pvData,
     Spent
<1>15. CASE addPreviewFrame
  BY <1>15 DEF addPreviewFrame, queuePreviewFrame, dropFrame, flags, appVars,
     pvData, Spent
<1>16. CASE prepare_preview
  BY <1>16 DEF prepare_preview, flags, appVars, Spent
<1>17. CASE startStreaming
  BY <1>17 DEF startStreaming, flags, appVars, pvData, Spent
<1>18. CASE clearPreviewFrame
  BY <1>18 DEF clearPreviewFrame, flags, appVars, pvData, Spent
<1>19. CASE createCaptureThread
  BY <1>19 DEF createCaptureThread, flags, pvData, Spent
<1>20. CASE previewLoop
  BY <1>20 DEF previewLoop, flags, appVars, pvData, Spent
<1>21. CASE waitPreviewFrame
  BY <1>21 DEF waitPreviewFrame, flags, appVars, Spent
<1>22. CASE decodeFrame
  BY <1>22 DEF decodeFrame, flags, appVars, Spent
<1>23. CASE decodedFrame
  BY <1>23, <1>0 DEF decodedFrame, flags, appVars, Spent
<1>24. CASE draw_preview_one
  BY <1>24, <1>0 DEF draw_preview_one, flags, appVars, Spent
<1>25. CASE recycleDrawn
  BY <1>25, <1>0 DEF recycleDrawn, flags, appVars, Spent
<1>26. CASE addCaptureFrame
  BY <1>26 DEF addCaptureFrame, flags, appVars, Spent
<1>27. CASE previewSignalCapture
  BY <1>27 DEF previewSignalCapture, flags, appVars, pvData, Spent
<1>28. CASE stopStreaming
  BY <1>28 DEF stopStreaming, flags, appVars, pvData, Spent
<1>29. CASE spuriousWakeup
  BY <1>29 DEF spuriousWakeup, flags, appVars, pvData, Spent
<1>30. ASSUME NEW t \in CALLER, NEW kind \in {"callback", "display"},
             NEW arg \in CALLBACK \cup WINDOW \cup {NULL}, callSetter(t, kind, arg)
      PROVE  Spent
  BY <1>30 DEF callSetter, flags, pvVars, pvData, Spent
<1>31. ASSUME NEW t \in CALLER, setterEnter(t) PROVE Spent
  BY <1>31 DEF setterEnter, appVars, pvVars, pvData, Spent
<1>32. ASSUME NEW t \in CALLER, setterWait(t) PROVE Spent
  BY <1>32 DEF setterWait, flags, appVars, pvVars, pvData, Spent
<1>33. ASSUME NEW t \in CALLER, setterWoken(t) PROVE Spent
  BY <1>33 DEF setterWoken, flags, appVars, pvVars, pvData, Spent
<1>34. ASSUME NEW t \in CALLER, setterDrop(t) PROVE Spent
  BY <1>34 DEF setterDrop, flags, appVars, pvVars, pvData, Spent
<1>35. ASSUME NEW t \in CALLER, setterAssign(t) PROVE Spent
  BY <1>35 DEF setterAssign, flags, appVars, pvVars, pvData, Spent
<1>36. ASSUME NEW t \in CALLER, setterMethod(t) PROVE Spent
  BY <1>36 DEF setterMethod, flags, appVars, pvVars, pvData, Spent
<1>37. ASSUME NEW t \in CALLER, setterReset(t) PROVE Spent
  BY <1>37 DEF setterReset, flags, appVars, pvVars, pvData, Spent
<1>38. ASSUME NEW t \in CALLER, setterFormat(t) PROVE Spent
  BY <1>38 DEF setterFormat, flags, appVars, pvVars, pvData, Spent
<1>39. ASSUME NEW c \in CAPTURE, captureClear(c) PROVE Spent
  BY <1>39 DEF captureClear, flags, appVars, pvVars, pvData, Spent
<1>40. ASSUME NEW c \in CAPTURE, captureReset(c) PROVE Spent
  BY <1>40 DEF captureReset, flags, appVars, pvVars, pvData, Spent
<1>41. ASSUME NEW c \in CAPTURE, captureFormat(c) PROVE Spent
  BY <1>41 DEF captureFormat, flags, appVars, pvVars, pvData, Spent
<1>42. ASSUME NEW c \in CAPTURE, captureTop(c) PROVE Spent
  BY <1>42 DEF captureTop, flags, appVars, pvVars, pvData, Spent
<1>43. ASSUME NEW c \in CAPTURE, captureBegin(c) PROVE Spent
  BY <1>43 DEF captureBegin, appVars, pvVars, pvData, Spent
<1>44. ASSUME NEW c \in CAPTURE, captureMode(c) PROVE Spent
  BY <1>44 DEF captureMode, flags, appVars, pvVars, pvData, Spent
<1>45. ASSUME NEW c \in CAPTURE, captureLoop(c) PROVE Spent
  BY <1>45 DEF captureLoop, flags, appVars, pvVars, pvData, Spent
<1>46. ASSUME NEW c \in CAPTURE, waitCaptureFrame(c) PROVE Spent
  BY <1>46 DEF waitCaptureFrame, flags, appVars, pvVars, pvData, Spent
<1>47. ASSUME NEW c \in CAPTURE, surfaceConvert(c) PROVE Spent
  BY <1>47 DEF surfaceConvert, flags, appVars, pvVars, pvData, Spent
<1>48. ASSUME NEW c \in CAPTURE, callbackCheck(c) PROVE Spent
  BY <1>48 DEF callbackCheck, flags, appVars, pvVars, pvData, Spent
<1>49. ASSUME NEW c \in CAPTURE, callbackConvert(c) PROVE Spent
  BY <1>49 DEF callbackConvert, flags, appVars, pvVars, pvData, Spent
<1>50. ASSUME NEW c \in CAPTURE, callOnFrame(c) PROVE Spent
  BY <1>50 DEF callOnFrame, flags, appVars, pvVars, pvData, Spent
<1>51. ASSUME NEW c \in CAPTURE, callbackRecycle(c) PROVE Spent
  BY <1>51 DEF callbackRecycle, flags, appVars, pvVars, pvData, Spent
<1>52. ASSUME NEW c \in CAPTURE, leaveSurface(c) PROVE Spent
  BY <1>52 DEF leaveSurface, flags, appVars, pvVars, pvData, Spent
<1>53. ASSUME NEW c \in CAPTURE, captureSync(c) PROVE Spent
  BY <1>53 DEF captureSync, flags, appVars, pvVars, pvData, Spent
<1> QED
  BY <1>1, <1>2, <1>3, <1>4, <1>5, <1>6, <1>7, <1>8, <1>9, <1>10, <1>11,
     <1>12, <1>13, <1>14, <1>15, <1>16, <1>17, <1>18, <1>19, <1>20, <1>21,
     <1>22, <1>23, <1>24, <1>25, <1>26, <1>27, <1>28, <1>29, <1>30, <1>31,
     <1>32, <1>33, <1>34, <1>35, <1>36, <1>37, <1>38, <1>39, <1>40, <1>41,
     <1>42, <1>43, <1>44, <1>45, <1>46, <1>47, <1>48, <1>49, <1>50, <1>51,
     <1>52, <1>53 DEF Next, UserStep, AppStep, StreamStep, PreviewStep,
     SetterStep, CaptureStep

(* At most the frame of the preview thread goes missing.                   *)
LEMMA MissingNext ==
    ASSUME Single, Entered
    PROVE  \/ Missing' = Missing
           \/ /\ pvFrame \in FRAME /\ ~mIsRunning /\ ~mIsRunning' /\ pvFrame' = NULL
              /\ Missing' \subseteq Missing \cup {pvFrame}
<1>1. ASSUME NEW f \in FRAME, Stays(f)
      PROVE  f \in Missing <=> f \in Missing'
  <2>1. \A p \in Ledger!PLACE : Here(f, p) <=> Here(f, p)'
    BY <1>1 DEF Stays, Here
  <2> QED BY <2>1 DEF Missing
<1>2. ASSUME NEW f \in FRAME, NEW p \in Ledger!PLACE, NEW q \in Ledger!PLACE,
             Goes(f, p, q)
      PROVE  f \notin Missing /\ f \notin Missing'
  BY <1>2 DEF Goes, Missing
<1>3. ASSUME NEW f \in FRAME, Lost(f), ~mIsRunning, UNCHANGED mIsRunning, pvFrame' = NULL
      PROVE  /\ pvFrame \in FRAME /\ ~mIsRunning /\ ~mIsRunning' /\ pvFrame' = NULL
             /\ Missing' \subseteq Missing \cup {pvFrame}
  <2>1. f = pvFrame
    BY <1>3 DEF Lost
  <2>2. ASSUME NEW g \in FRAME, g # f, g \in Missing'
        PROVE  g \in Missing
    <3>1. ~Lost(g)
      BY <2>1, <2>2 DEF Lost
    <3> QED BY <1>1, <1>2, <2>2, <3>1 DEF Entered
  <2> QED BY <1>3, <2>1, <2>2 DEF Missing
<1>4. CASE \E f \in FRAME : Lost(f) /\ ~mIsRunning /\ UNCHANGED mIsRunning /\ pvFrame' = NULL
  BY <1>3, <1>4
<1>5. CASE ~\E f \in FRAME : Lost(f) /\ ~mIsRunning /\ UNCHANGED mIsRunning /\ pvFrame' = NULL
  <2>1. \A f \in FRAME : f \in Missing <=> f \in Missing'
    BY <1>1, <1>2, <1>5 DEF Entered
  <2> QED BY <2>1 DEF Missing
<1> QED BY <1>4, <1>5

(* An entry keeps the count.                                               *)
LEMMA CountedStep ==
    ASSUME IInv, Single, Entered, Spent, Counted
    PROVE  Counted'
<1>1. sessions \in Nat /\ NULL \notin FRAME
  BY NullAssumption DEF IInv, TypeOK, AppOK
<1>2. Cardinality(Missing) \in Nat
  BY FS_CardinalityType DEF Counted
<1>3. CASE Missing' = Missing
  <2>1. MayLose' => MayLose \/ sessions' = sessions + 1
    BY DEF MayLose, Spent
  <2> QED BY <1>1, <1>2, <1>3, <2>1 DEF Counted, Spent
<1>4. CASE /\ pvFrame \in FRAME /\ ~mIsRunning /\ ~mIsRunning' /\ pvFrame' = NULL
           /\ Missing' \subseteq Missing \cup {pvFrame}
  <2>1. MayLose /\ ~MayLose' /\ sessions' >= sessions
    BY <1>1, <1>4 DEF MayLose, Spent
  <2>2. /\ IsFiniteSet(Missing \cup {pvFrame})
        /\ Cardinality(Missing \cup {pvFrame}) <= Cardinality(Missing) + 1
    BY <1>2, FS_AddElement DEF Counted
  <2>3. /\ IsFiniteSet(Missing')
        /\ Cardinality(Missing') <= Cardinality(Missing \cup {pvFrame})
    BY <1>4, <2>2, FS_Subset
  <2>4. Cardinality(Missing') \in Nat /\ Cardinality(Missing \cup {pvFrame}) \in Nat
    BY <2>2, <2>3, FS_CardinalityType
  <2>5. sessions' \in Nat
    BY <1>1 DEF Spent
  <2> QED BY <1>1, <1>2, <2>1, <2>2, <2>3, <2>4, <2>5 DEF Counted
<1> QED BY <1>3, <1>4, MissingNext

(* At first nothing is missing.                                            *)
LEMMA InitCounted == Init => Counted
<1> SUFFICES ASSUME Init PROVE Counted
  OBVIOUS
<1>1. \A f \in FRAME : Here(f, "heap") /\ "heap" \in Ledger!PLACE
  BY DEF Init, Here, Ledger!PLACE
<1>2. Missing = {}
  BY <1>1 DEF Missing
<1>3. ~MayLose /\ sessions = 0
  BY DEF Init, MayLose
<1> QED BY <1>2, <1>3, FS_EmptySet DEF Counted

(* The count is inductive.                                                 *)
LEMMA NextCounted == IInv /\ Single /\ Counted /\ [Next]_vars => Counted'
<1> SUFFICES ASSUME IInv, Single, Counted, [Next]_vars PROVE Counted'
  OBVIOUS
<1>1. Entered
  BY NextEntered
<1>2. CASE Next
  BY <1>1, <1>2, Spends, CountedStep
<1>3. CASE UNCHANGED vars
  <2>1. Spent
    BY <1>3 DEF Spent, vars, flags, appVars, pvVars, pvData
  <2> QED BY <1>1, <2>1, CountedStep
<1> QED BY <1>2, <1>3

(* The frames that nothing refers to any more are at most one for each     *)
(* session, however many threads and frames there are.                     *)
THEOREM LeaksBounded == Spec => []LeakBound
<1>1. Leaked = Missing
  BY Unheld DEF Leaked, Missing
<1>2. IInv /\ Counted => LeakBound
  <2> SUFFICES ASSUME IInv, Counted PROVE LeakBound
    OBVIOUS
  <2>1. sessions \in Nat /\ Cardinality(Missing) \in Nat
    BY FS_CardinalityType DEF IInv, TypeOK, AppOK, Counted
  <2> QED BY <1>1, <2>1 DEF Counted, LeakBound
<1>3. Spec => []Counted
  BY InitCounted, NextCounted, Invariance, SingleInvariance, PTL DEF Spec
<1> QED BY <1>2, <1>3, Invariance, PTL
===========================================================================

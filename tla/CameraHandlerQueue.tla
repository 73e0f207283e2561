------------------------- MODULE CameraHandlerQueue -------------------------
(***************************************************************************)
(* The message queue of CameraHandler, for any threads, calls and          *)
(* recordings: what removeMessages leaves of it (Filtered), its type       *)
(* (TypeCorrect), that the message a caller waits for is not lost          *)
(* (CallerAnswered), and that a released camera thread is brought to its   *)
(* end (ReleaseReaches).                                                   *)
(***************************************************************************)
EXTENDS CameraHandlerProofs, WellFoundedInduction

(* Induction over the natural numbers, for a set.                          *)
LEMMA Induction ==
    ASSUME NEW S, 0 \in S, \A n \in Nat : n \in S => n + 1 \in S
    PROVE  Nat \subseteq S
<1> SUFFICES ASSUME NEW k \in Nat, k \notin S PROVE FALSE
  OBVIOUS
<1> DEFINE T == {n \in Nat : n \notin S}
           R == OpToRel(<, Nat)
<1>1. IsWellFoundedOn(R, Nat)
  BY NatLessThanWellFounded
<1>2. \A x, y \in Nat : <<x, y>> \in R <=> x < y
  BY DEF OpToRel
<1>3. T \subseteq Nat /\ T # {}
  OBVIOUS
<1> HIDE DEF R, T
<1>4. PICK m \in T : \A j \in T : <<j, m>> \notin R
  BY <1>1, <1>3, WFMin
<1>5. m \in Nat /\ m \notin S /\ m # 0
  BY <1>4 DEF T
<1>6. m - 1 \in Nat /\ <<m - 1, m>> \in R
  BY <1>5, <1>2
<1>7. m - 1 \in S
  BY <1>4, <1>6 DEF T
<1> QED BY <1>5, <1>6, <1>7

(* The recursion of Without is that of a function.                         *)
KeepNext(q, m, n, s) == IF q[n] = m THEN s ELSE Append(s, q[n])

Keeps(q, m, k, N) ==
    \A n \in 0 .. N : k[n] = IF n = 0 THEN <<>> ELSE KeepNext(q, m, n, k[n - 1])

LEMMA KeptExists ==
    ASSUME NEW S, NEW q \in Seq(S), NEW m
    PROVE  \E k : /\ k = [n \in 0 .. Len(q) |-> k[n]]
                  /\ Keeps(q, m, k, Len(q))
                  /\ Without(q, m) = k[Len(q)]
<1> DEFINE body(k) == [n \in 0 .. Len(q) |->
                         IF n = 0 THEN <<>>
                         ELSE IF q[n] = m THEN k[n - 1] ELSE Append(k[n - 1], q[n])]
           P == {N \in Nat : \E k : Keeps(q, m, k, N)}
<1>1. 0 \in P
  <2>1. Keeps(q, m, [n \in 0 .. 0 |-> <<>>], 0)
    BY DEF Keeps
  <2> QED BY <2>1
<1>2. ASSUME NEW N \in Nat, N \in P PROVE N + 1 \in P
  <2>1. PICK k : Keeps(q, m, k, N)
    BY <1>2
  <2> DEFINE g == [n \in 0 .. N + 1 |-> IF n = N + 1 THEN KeepNext(q, m, n, k[N]) ELSE k[n]]
  <2>2. Keeps(q, m, g, N + 1)
    <3> SUFFICES ASSUME NEW n \in 0 .. N + 1
                 PROVE  g[n] = IF n = 0 THEN <<>> ELSE KeepNext(q, m, n, g[n - 1])
      BY DEF Keeps
    <3>1. CASE n = N + 1
      <4>1. g[n] = KeepNext(q, m, n, k[N]) /\ n - 1 = N /\ N \in 0 .. N + 1 /\ N # N + 1 /\ n # 0
        BY <3>1
      <4>2. g[n - 1] = k[N]
        BY <4>1
      <4> QED BY <4>1, <4>2
    <3>2. CASE n # N + 1
      <4>1. n \in 0 .. N
        BY <3>2
      <4>2. g[n] = k[n]
        BY <3>2
      <4>3. n # 0 => n - 1 \in 0 .. N + 1 /\ n - 1 # N + 1
        BY <4>1
      <4>4. n # 0 => g[n - 1] = k[n - 1]
        BY <4>3
      <4> QED BY <2>1, <4>1, <4>2, <4>4 DEF Keeps
    <3> QED BY <3>1, <3>2
  <2> QED BY <2>2
<1>3. Len(q) \in P
  <2>1. Len(q) \in Nat
    OBVIOUS
  <2> HIDE DEF P
  <2> QED BY <1>1, <1>2, <2>1, Induction
<1>4. PICK k : Keeps(q, m, k, Len(q))
  BY <1>3
<1>5. [n \in 0 .. Len(q) |-> k[n]] = body([n \in 0 .. Len(q) |-> k[n]])
  <2> DEFINE f == [n \in 0 .. Len(q) |-> k[n]]
  <2>1. \A n \in 0 .. Len(q) : f[n] = body(f)[n]
    <3> SUFFICES ASSUME NEW n \in 0 .. Len(q) PROVE f[n] = body(f)[n]
      OBVIOUS
    <3>1. f[n] = k[n] /\ (n # 0 => n - 1 \in 0 .. Len(q))
      OBVIOUS
    <3>2. n # 0 => f[n - 1] = k[n - 1]
      BY <3>1
    <3> QED BY <3>1, <3>2, <1>4 DEF Keeps, KeepNext
  <2> QED BY <2>1
<1> DEFINE K == CHOOSE k_1 : k_1 = body(k_1)
<1>6. K = body(K)
  BY <1>5
<1>7. Without(q, m) = K[Len(q)]
  BY DEF Without
<1>8. Keeps(q, m, K, Len(q)) /\ K = [n \in 0 .. Len(q) |-> K[n]]
  <2> HIDE DEF K
  <2> QED BY <1>6 DEF Keeps, KeepNext
<1> QED BY <1>7, <1>8

(* s is what is left of the first n elements of q without m: every other   *)
(* one once, in its order, at the place e tells.                           *)
Places(q, m, n, s, e) ==
    /\ e \in [1 .. Len(s) -> 1 .. n]
    /\ \A i \in 1 .. Len(s) : s[i] = q[e[i]] /\ q[e[i]] # m
    /\ \A i, j \in 1 .. Len(s) : i < j => e[i] < e[j]
    /\ \A l \in 1 .. n : q[l] # m => \E i \in 1 .. Len(s) : e[i] = l

LEMMA PlacesStep ==
    ASSUME NEW S, NEW q \in Seq(S), NEW m, NEW n \in Nat, n + 1 <= Len(q),
           NEW s \in Seq(S), NEW e, Places(q, m, n, s, e)
    PROVE  /\ KeepNext(q, m, n + 1, s) \in Seq(S)
           /\ \E d : Places(q, m, n + 1, KeepNext(q, m, n + 1, s), d)
<1>1. n + 1 \in DOMAIN q /\ q[n + 1] \in S
  OBVIOUS
<1>2. CASE q[n + 1] = m
  <2>1. KeepNext(q, m, n + 1, s) = s
    BY <1>2 DEF KeepNext
  <2>2. \A l \in 1 .. n + 1 : l \in 1 .. n \/ l = n + 1
    OBVIOUS
  <2>3. e \in [1 .. Len(s) -> 1 .. n + 1]
    <3>1. \A l \in 1 .. n : l \in 1 .. n + 1
      OBVIOUS
    <3> QED BY <3>1 DEF Places
  <2>4. Places(q, m, n + 1, s, e)
    BY <1>2, <2>2, <2>3 DEF Places
  <2> QED BY <2>1, <2>4
<1>3. CASE q[n + 1] # m
  <2> DEFINE L == Len(s)
             t == Append(s, q[n + 1])
             d == [i \in 1 .. L + 1 |-> IF i = L + 1 THEN n + 1 ELSE e[i]]
  <2>1. KeepNext(q, m, n + 1, s) = t /\ t \in Seq(S) /\ L \in Nat /\ Len(t) = L + 1
    BY <1>1, <1>3 DEF KeepNext
  <2>2. t[L + 1] = q[n + 1] /\ \A i \in 1 .. L : t[i] = s[i]
    BY <1>1
  <2>3. d[L + 1] = n + 1 /\ \A i \in 1 .. L : d[i] = e[i] /\ d[i] \in 1 .. n
    <3>1. L + 1 \in 1 .. L + 1 /\ \A i \in 1 .. L : i \in 1 .. L + 1 /\ i # L + 1
      BY <2>1
    <3>2. \A i \in 1 .. L : e[i] \in 1 .. n
      BY DEF Places
    <3> HIDE DEF L
    <3> QED BY <3>1, <3>2
  <2>4. \A i \in 1 .. L + 1 : i \in 1 .. L \/ i = L + 1
    BY <2>1
  <2>5. \A l \in 1 .. n + 1 : l \in 1 .. n \/ l = n + 1
    OBVIOUS
  <2>6. d = [i \in 1 .. L + 1 |-> d[i]]
    OBVIOUS
  <2>7. \A i \in 1 .. L : s[i] = q[e[i]] /\ q[e[i]] # m
    BY DEF Places
  <2>8. \A i, j \in 1 .. L : i < j => e[i] < e[j]
    BY DEF Places
  <2>9. \A l \in 1 .. n : q[l] # m => \E i \in 1 .. L : e[i] = l
    BY DEF Places
  <2> HIDE DEF L, t, d
  <2>10. d \in [1 .. L + 1 -> 1 .. n + 1]
    <3>1. \A i \in 1 .. L + 1 : d[i] \in 1 .. n + 1
      BY <2>3, <2>4
    <3> QED BY <3>1, <2>6
  <2>11. \A i \in 1 .. L + 1 : t[i] = q[d[i]] /\ q[d[i]] # m
    BY <2>2, <2>3, <2>4, <2>7, <1>3
  <2>12. \A i, j \in 1 .. L + 1 : i < j => d[i] < d[j]
    <3> SUFFICES ASSUME NEW i \in 1 .. L + 1, NEW j \in 1 .. L + 1, i < j
                 PROVE  d[i] < d[j]
      OBVIOUS
    <3>1. i \in 1 .. L
      BY <2>1
    <3>2. CASE j = L + 1
      BY <3>1, <3>2, <2>3
    <3>3. CASE j \in 1 .. L
      BY <3>1, <3>3, <2>3, <2>8
    <3> QED BY <3>2, <3>3, <2>4
  <2>13. \A l \in 1 .. n + 1 : q[l] # m => \E i \in 1 .. L + 1 : d[i] = l
    <3> SUFFICES ASSUME NEW l \in 1 .. n + 1, q[l] # m
                 PROVE  \E i \in 1 .. L + 1 : d[i] = l
      OBVIOUS
    <3>1. CASE l = n + 1
      <4>1. L + 1 \in 1 .. L + 1
        BY <2>1
      <4> QED BY <3>1, <4>1, <2>3
    <3>2. CASE l \in 1 .. n
      <4>1. PICK i \in 1 .. L : e[i] = l
        BY <3>2, <2>9
      <4>2. i \in 1 .. L + 1
        BY <2>1
      <4> QED BY <4>1, <4>2, <2>3
    <3> QED BY <3>1, <3>2, <2>5
  <2>14. Places(q, m, n + 1, t, d)
    BY <2>1, <2>10, <2>11, <2>12, <2>13 DEF Places
  <2> QED BY <2>1, <2>14
<1> QED BY <1>2, <1>3

(* removeMessages drops m and nothing else, and keeps the order.           *)
THEOREM Filtered ==
    ASSUME NEW S, NEW q \in Seq(S), NEW m
    PROVE  /\ Without(q, m) \in Seq(S)
           /\ \E e : Places(q, m, Len(q), Without(q, m), e)
<1>1. PICK k : Keeps(q, m, k, Len(q)) /\ Without(q, m) = k[Len(q)]
  BY KeptExists
<1> DEFINE P == {n \in Nat : n <= Len(q) => k[n] \in Seq(S) /\ \E e : Places(q, m, n, k[n], e)}
<1>2. 0 \in P
  <2>1. k[0] = <<>>
    BY <1>1 DEF Keeps
  <2>2. Places(q, m, 0, <<>>, <<>>)
    BY DEF Places
  <2>3. <<>> \in Seq(S)
    OBVIOUS
  <2> QED BY <2>1, <2>2, <2>3
<1>3. ASSUME NEW n \in Nat, n \in P PROVE n + 1 \in P
  <2> SUFFICES ASSUME n + 1 <= Len(q)
               PROVE  k[n + 1] \in Seq(S) /\ \E e : Places(q, m, n + 1, k[n + 1], e)
    OBVIOUS
  <2>1. n <= Len(q) /\ n + 1 \in 0 .. Len(q) /\ n + 1 # 0 /\ (n + 1) - 1 = n
    OBVIOUS
  <2>2. k[n + 1] = KeepNext(q, m, n + 1, k[n])
    BY <1>1, <2>1 DEF Keeps
  <2>3. k[n] \in Seq(S) /\ \E e : Places(q, m, n, k[n], e)
    BY <1>3, <2>1
  <2> QED BY <2>2, <2>3, PlacesStep
<1>4. Len(q) \in P
  <2>1. Len(q) \in Nat
    OBVIOUS
  <2> HIDE DEF P
  <2> QED BY <1>2, <1>3, <2>1, Induction
<1> QED BY <1>1, <1>4

-----------------------------------------------------------------------------
(* What is in a queue, and how often.                                      *)
Has(q, m)  == \E i \in DOMAIN q : q[i] = m
Once(q, m) == \A i, j \in DOMAIN q : q[i] = m /\ q[j] = m => i = j

(* A message is sent.                                                      *)
LEMMA Sent ==
    ASSUME NEW S, NEW q \in Seq(S), NEW x \in S
    PROVE  /\ send(q, x) \in Seq(S)
           /\ \A m : Has(send(q, x), m) <=> Has(q, m) \/ (alive /\ m = x)
           /\ \A m : Once(q, m) /\ (m # x \/ ~Has(q, m)) => Once(send(q, x), m)
<1> DEFINE n == Len(q)
           t == Append(q, x)
<1>1. n \in Nat /\ DOMAIN q = 1 .. n /\ t \in Seq(S)
  OBVIOUS
<1>2. /\ DOMAIN t = 1 .. n + 1 /\ t[n + 1] = x
      /\ \A i \in 1 .. n : t[i] = q[i]
  OBVIOUS
<1>3. \A i \in 1 .. n + 1 : i \in 1 .. n \/ i = n + 1
  BY <1>1
<1>4. n + 1 \in 1 .. n + 1 /\ \A i \in 1 .. n : i \in 1 .. n + 1
  BY <1>1
<1> HIDE DEF n, t
<1>5. \A m : Has(t, m) <=> Has(q, m) \/ m = x
  BY <1>1, <1>2, <1>3, <1>4 DEF Has
<1>6. \A m : Once(q, m) /\ (m # x \/ ~Has(q, m)) => Once(t, m)
  BY <1>1, <1>2, <1>3 DEF Has, Once
<1> QED BY <1>1, <1>5, <1>6 DEF send, t

(* The first message is taken.                                             *)
LEMMA Taken ==
    ASSUME NEW S, NEW q \in Seq(S), q # <<>>
    PROVE  /\ Head(q) \in S /\ Tail(q) \in Seq(S)
           /\ \A m : Has(q, m) <=> Head(q) = m \/ Has(Tail(q), m)
           /\ \A m : Once(q, m) =>
                    Once(Tail(q), m) /\ (Head(q) = m => ~Has(Tail(q), m))
<1> DEFINE n == Len(q) - 1
           t == Tail(q)
           h == Head(q)
<1>1. n \in Nat /\ DOMAIN q = 1 .. n + 1 /\ t \in Seq(S) /\ h \in S
  OBVIOUS
<1>2. /\ h = q[1] /\ DOMAIN t = 1 .. n
      /\ \A i \in 1 .. n : t[i] = q[i + 1]
  OBVIOUS
<1>3. 1 \in 1 .. n + 1 /\ \A i \in 1 .. n : i + 1 \in 1 .. n + 1 /\ i + 1 # 1
  BY <1>1
<1>4. \A i \in 1 .. n + 1 : i = 1 \/ (i - 1 \in 1 .. n /\ (i - 1) + 1 = i)
  BY <1>1
<1>5. \A i, j \in 1 .. n : i + 1 = j + 1 => i = j
  OBVIOUS
<1> HIDE DEF n, t, h
<1>6. ASSUME NEW m PROVE Has(q, m) <=> h = m \/ Has(t, m)
  <2>1. ASSUME NEW i \in 1 .. n + 1, q[i] = m PROVE h = m \/ \E j \in 1 .. n : t[j] = m
    <3>1. CASE i = 1
      BY <2>1, <3>1, <1>2
    <3>2. CASE i - 1 \in 1 .. n /\ (i - 1) + 1 = i
      BY <2>1, <3>2, <1>2
    <3> QED BY <3>1, <3>2, <1>4
  <2>2. ASSUME NEW j \in 1 .. n, t[j] = m PROVE \E i \in 1 .. n + 1 : q[i] = m
    BY <2>2, <1>2, <1>3
  <2> QED BY <2>1, <2>2, <1>1, <1>2, <1>3 DEF Has
<1>7. \A m : Once(q, m) => Once(t, m) /\ (h = m => ~Has(t, m))
  BY <1>1, <1>2, <1>3, <1>5 DEF Has, Once
<1> QED BY <1>1, <1>6, <1>7 DEF t, h

(* All messages of a kind are removed.                                     *)
LEMMA Removed ==
    ASSUME NEW S, NEW q \in Seq(S), NEW x
    PROVE  /\ Without(q, x) \in Seq(S)
           /\ \A m : Has(Without(q, x), m) <=> Has(q, m) /\ m # x
           /\ \A m : Once(q, m) => Once(Without(q, x), m)
<1> DEFINE n == Len(q)
           t == Without(q, x)
           l == Len(t)
<1>1. PICK e : t \in Seq(S) /\ Places(q, x, n, t, e)
  BY Filtered
<1>2. n \in Nat /\ DOMAIN q = 1 .. n
  OBVIOUS
<1> HIDE DEF t
<1>3. l \in Nat /\ DOMAIN t = 1 .. l
  BY <1>1
<1> HIDE DEF n, l
<1>4. /\ \A i \in 1 .. l : e[i] \in 1 .. n /\ t[i] = q[e[i]] /\ q[e[i]] # x
      /\ \A i, j \in 1 .. l : i < j => e[i] < e[j]
      /\ \A k \in 1 .. n : q[k] # x => \E i \in 1 .. l : e[i] = k
  BY <1>1 DEF Places, l
<1>5. ASSUME NEW m PROVE Has(t, m) <=> Has(q, m) /\ m # x
  <2>1. ASSUME NEW i \in 1 .. l, t[i] = m PROVE m # x /\ \E k \in 1 .. n : q[k] = m
    BY <2>1, <1>4
  <2>2. ASSUME NEW k \in 1 .. n, q[k] = m, m # x PROVE \E i \in 1 .. l : t[i] = m
    <3>1. PICK i \in 1 .. l : e[i] = k
      BY <2>2, <1>4
    <3> QED BY <2>2, <3>1, <1>4
  <2> QED BY <2>1, <2>2, <1>2, <1>3 DEF Has
<1>6. \A i, j \in 1 .. l : e[i] = e[j] => i = j
  <2> SUFFICES ASSUME NEW i \in 1 .. l, NEW j \in 1 .. l, e[i] = e[j], i # j
               PROVE  FALSE
    OBVIOUS
  <2>1. e[i] \in Nat /\ e[j] \in Nat
    BY <1>4, <1>2
  <2>2. i < j \/ j < i
    BY <1>3
  <2> QED BY <1>4, <2>1, <2>2
<1>7. \A m : Once(q, m) => Once(t, m)
  BY <1>2, <1>3, <1>4, <1>6 DEF Once
<1> QED BY <1>1, <1>5, <1>7 DEF t


-----------------------------------------------------------------------------
(* The part of TypeOK that IInv leaves out.                                *)
Callers ==
    /\ pc \in [CLIENT -> {"idle", "post", "close", "stop_preview", "stop_recording",
                          "is_previewing", "stop_and_wait", "waiting", "woken",
                          "stop_returns", "send_close", "send_release", "released"}]
    /\ call \in [CLIENT -> {"none", "stop", "close", "release"} \cup Request]
    /\ calls \in [CLIENT -> Nat]
    /\ \A c \in OPENER : calls[c] <= MAX_POSTS
    /\ \A c \in CLOSER : calls[c] <= MAX_STOPS

Typed == queue \in Seq(Message) /\ Callers

\* What a thread is doing agrees with what it called.
Roles ==
    \A c \in CLIENT :
        /\ pc[c] = "post" => call[c] \in Request
        /\ pc[c] \in {"send_release", "released"} => call[c] = "release"
        /\ call[c] = "release" => mReleased

\* The only closer c knows of the only PREVIEW_STOP there is.
Answers(c) ==
    /\ Once(queue, "PREVIEW_STOP")
    /\ camPc = "stopped" => ~Has(queue, "PREVIEW_STOP")
    /\ pc[c] = "stop_and_wait" => mIsPreviewing
    /\ pc[c] # "waiting" => camPc # "stopped" /\ ~Has(queue, "PREVIEW_STOP")
    /\ pc[c] = "waiting" /\ alive =>
          mIsPreviewing /\ (camPc = "stopped" \/ Has(queue, "PREVIEW_STOP"))

Lone == \A c, d \in CLOSER : c = d

(* The queue holds messages.                                               *)
LEMMA QueueStep ==
    ASSUME Typed, Roles, Next
    PROVE  queue' \in Seq(Message)
<1>q. queue \in Seq(Message)
  BY DEF Typed
<1>1. ASSUME NEW d \in OPENER, post(d) PROVE queue' \in Seq(Message)
  BY <1>1, <1>q, Sent DEF post, Message, Roles, Request, CLIENT
<1>2. ASSUME NEW d \in OPENER, stopRecording_alone(d) PROVE queue' \in
       Seq(Message)
  BY <1>2, <1>q, Sent DEF stopRecording_alone, Message
<1>3. ASSUME NEW d \in CLOSER, stopRecording(d) PROVE queue' \in Seq(Message)
  BY <1>3, <1>q, Sent DEF stopRecording, Message
<1>4. ASSUME NEW d \in CLOSER, send_stop_and_wait(d) PROVE queue' \in
       Seq(Message)
  BY <1>4, <1>q, Sent DEF send_stop_and_wait, Message
<1>5. ASSUME NEW d \in CLOSER, send_close(d) PROVE queue' \in Seq(Message)
  BY <1>5, <1>q, Sent DEF send_close, Message
<1>6. ASSUME NEW d \in CLOSER, send_release(d) PROVE queue' \in Seq(Message)
  BY <1>6, <1>q, Sent DEF send_release, Message
<1>7. ASSUME NEW m \in MOVIE, update_due(m) PROVE queue' \in Seq(Message)
  BY <1>7, <1>q, Sent DEF update_due, Message
<1>8. ASSUME NEW d \in CLOSER, stopPreview(d) PROVE queue' \in Seq(Message)
  BY <1>8, <1>q, Removed DEF stopPreview
<1>9. ASSUME handle_open \/ handle_close \/ handle_release \/
            handle_update_media \/ handle_start_preview \/ handle_stop_preview
            \/ handle_start_recording \/ handle_stop_recording
      PROVE  queue' \in Seq(Message)
  <2>1. queue # <<>> /\ queue' = Tail(queue)
    BY <1>9 DEF handle, handle_open, handle_close, handle_release,
       handle_update_media, handle_start_preview, handle_stop_preview,
       handle_start_recording, handle_stop_recording
  <2> QED BY <1>q, <2>1, Taken
<1>10. ASSUME handle_capture_still PROVE queue' \in Seq(Message)
  <2>1. Tail(queue) \in Seq(Message) /\ "MEDIA_UPDATE" \in Message
    BY <1>10, <1>q, Taken DEF handle_capture_still, Message
  <2>2. send(Tail(queue), "MEDIA_UPDATE") \in Seq(Message)
    BY <2>1, Sent
  <2> QED BY <1>10, <2>1, <2>2 DEF handle_capture_still
<1>11. ASSUME run_ends PROVE queue' \in Seq(Message)
  BY <1>11 DEF run_ends
<1>12. ASSUME (\E d \in OPENER : \E what \in Request : checkReleased(d, what))
       \/ (\E d \in CLOSER : \E op \in {"stop", "close", "release"} :
       stop_close_release(d, op)) \/ (\E d \in CLOSER : isOpened(d)) \/ (\E d
       \in CLOSER : isPreviewing(d)) \/ (\E d \in CLOSER : woken(d)) \/ (\E d
       \in CLOSER : stopPreview_returns(d)) \/ remove_callback \/ take_camera
       \/ destroy_camera \/ open_camera \/ start_preview \/ preview_started \/
       preview_stopped \/ start_fails \/ (\E m \in MOVIE : start_recording(m))
       \/ release_thread \/ (\E m \in MOVIE : onStopped_ignored(m)) \/ (\E m
       \in MOVIE : onStopped(m)) \/ (\E m \in MOVIE : release_stops(m)) \/ (\E
       m \in MOVIE : release_callback(m)) \/ (\E m \in MOVIE :
       release_takes(m)) \/ (\E m \in MOVIE : release_destroys(m)) \/ (\E m
       \in MOVIE : release_quits(m))
      PROVE  queue' \in Seq(Message)
  <2>1. queue' = queue
    BY <1>12 DEF messages, checkReleased, stop_close_release, isOpened,
       isPreviewing, woken, stopPreview_returns, remove_callback, take_camera,
       destroy_camera, open_camera, start_preview, preview_started,
       preview_stopped, start_fails, start_recording, release_thread,
       onStopped_ignored, onStopped, release_stops, release_callback,
       release_takes, release_destroys, release_quits
  <2> QED BY <1>q, <2>1
<1> QED BY <1>1, <1>2, <1>3, <1>4, <1>5, <1>6, <1>7, <1>8, <1>9, <1>10, <1>11,
     <1>12 DEF Next, Posts, Calls, Camera, Client, Encoder

(* An application thread goes from one step of its call to the next.       *)
LEMMA CallersStep ==
    ASSUME Flags, Callers, Roles, Next
    PROVE  Callers' /\ Roles'
<1> USE DEF CLIENT, Callers, Roles
<1>1. ASSUME NEW d \in OPENER, post(d) PROVE Callers' /\ Roles'
  BY <1>1 DEF Request, post, history, camera, outside, setting, flags, goto
<1>2. ASSUME NEW d \in OPENER, stopRecording_alone(d) PROVE Callers' /\ Roles'
  BY <1>2, HandlerAssumption DEF stopRecording_alone, history, camera,
     outside, setting, flags
<1>3. ASSUME NEW d \in OPENER, NEW what \in Request, checkReleased(d, what)
       PROVE Callers' /\ Roles'
  BY <1>3, HandlerAssumption DEF Request, checkReleased, history, camera,
     outside, setting, flags, messages, goto
<1>4. ASSUME NEW d \in CLOSER, NEW op \in {"stop", "close", "release"},
       stop_close_release(d, op) PROVE Callers' /\ Roles'
  <2>1. /\ pc[d] = "idle" /\ d \in CLIENT
        /\ pc' = [pc EXCEPT ![d] = IF op = "stop" THEN "stop_preview" ELSE "close"]
        /\ call' = [call EXCEPT ![d] = op]
        /\ calls[d] < MAX_STOPS /\ calls' = [calls EXCEPT ![d] = @ + 1]
        /\ mReleased' = (mReleased \/ op = "release")
    BY <1>4 DEF stop_close_release, goto
  <2>2. Callers'
    BY <2>1, HandlerAssumption
  <2>3. Roles'
    BY <2>1 DEF Flags
  <2> QED BY <2>2, <2>3
<1>5. ASSUME NEW d \in CLOSER, isOpened(d) PROVE Callers' /\ Roles'
  BY <1>5 DEF isOpened, history, camera, outside, setting, flags, messages,
     goto
<1>6. ASSUME NEW d \in CLOSER, stopPreview(d) PROVE Callers' /\ Roles'
  BY <1>6 DEF stopPreview, history, camera, outside, setting, flags, goto
<1>7. ASSUME NEW d \in CLOSER, stopRecording(d) PROVE Callers' /\ Roles'
  BY <1>7 DEF stopRecording, history, camera, outside, setting, flags, goto
<1>8. ASSUME NEW d \in CLOSER, isPreviewing(d) PROVE Callers' /\ Roles'
  BY <1>8 DEF isPreviewing, history, camera, outside, setting, flags,
     messages, stopped, goto
<1>9. ASSUME NEW d \in CLOSER, send_stop_and_wait(d) PROVE Callers' /\ Roles'
  BY <1>9 DEF send_stop_and_wait, history, camera, outside, setting, flags,
     goto
<1>10. ASSUME NEW d \in CLOSER, woken(d) PROVE Callers' /\ Roles'
  BY <1>10 DEF woken, history, camera, outside, setting, flags, messages,
     stopped, goto
<1>11. ASSUME NEW d \in CLOSER, stopPreview_returns(d) PROVE Callers' /\
       Roles'
  BY <1>11 DEF stopPreview_returns, history, camera, outside, setting, flags,
     messages, goto
<1>12. ASSUME NEW d \in CLOSER, send_close(d) PROVE Callers' /\ Roles'
  BY <1>12 DEF send_close, history, camera, outside, setting, flags, goto
<1>13. ASSUME NEW d \in CLOSER, send_release(d) PROVE Callers' /\ Roles'
  BY <1>13 DEF send_release, history, camera, outside, setting, flags, goto
<1>14. ASSUME preview_stopped PROVE Callers' /\ Roles'
  BY <1>14 DEF preview_stopped, outside, setting, messages, notifyAll
<1>15. ASSUME release_thread PROVE Callers' /\ Roles'
  BY <1>15 DEF Flags, release_thread, history, clients, outside, setting,
     flags
<1>16. ASSUME run_ends PROVE Callers' /\ Roles'
  BY <1>16 DEF run_ends, history, outside, setting, flags, notifyAll
<1>17. ASSUME NEW m \in MOVIE, release_quits(m) PROVE Callers' /\ Roles'
  BY <1>17 DEF Flags, release_quits, history, clients, camera, setting, flags,
     becomes
<1>18. ASSUME handle_open \/ handle_close \/ handle_release \/
       handle_update_media \/ remove_callback \/ take_camera \/ destroy_camera
       \/ open_camera \/ handle_start_preview \/ start_preview \/
       preview_started \/ handle_stop_preview \/ handle_capture_still \/
       handle_start_recording \/ start_fails \/ (\E m \in MOVIE :
       start_recording(m)) \/ handle_stop_recording \/ (\E m \in MOVIE :
       onStopped_ignored(m)) \/ (\E m \in MOVIE : onStopped(m)) \/ (\E m \in
       MOVIE : update_due(m)) \/ (\E m \in MOVIE : release_stops(m)) \/ (\E m
       \in MOVIE : release_callback(m)) \/ (\E m \in MOVIE : release_takes(m))
       \/ (\E m \in MOVIE : release_destroys(m))
      PROVE  Callers' /\ Roles'
  <2>1. UNCHANGED <<mReleased, pc, call, calls>>
    BY <1>18 DEF handle, camera_only, clients, messages, handle_open,
       handle_close, handle_release, handle_update_media, remove_callback,
       take_camera, destroy_camera, open_camera, handle_start_preview,
       start_preview, preview_started, handle_stop_preview,
       handle_capture_still, handle_start_recording, start_fails,
       start_recording, handle_stop_recording, onStopped_ignored, onStopped,
       update_due, release_stops, release_callback, release_takes,
       release_destroys
  <2> QED BY <2>1
<1> QED BY <1>1, <1>2, <1>3, <1>4, <1>5, <1>6, <1>7, <1>8, <1>9, <1>10, <1>11,
     <1>12, <1>13, <1>14, <1>15, <1>16, <1>17, <1>18 DEF Next, Posts, Calls,
     Camera, Client, Encoder

(* A step that keeps what the waiting closer relies on.                    *)
LEMMA AnswersKept ==
    ASSUME NEW c \in CLOSER, Answers(c),
           Has(queue', "PREVIEW_STOP") <=> Has(queue, "PREVIEW_STOP"),
           Once(queue, "PREVIEW_STOP") => Once(queue', "PREVIEW_STOP"),
           camPc' = "stopped" <=> camPc = "stopped", alive' => alive,
           mIsPreviewing => mIsPreviewing',
           pc'[c] = "waiting" <=> pc[c] = "waiting",
           pc'[c] = "stop_and_wait" => pc[c] = "stop_and_wait" \/ mIsPreviewing
    PROVE  Answers(c)'
BY DEF Answers

(* Only the lone closer sends PREVIEW_STOP, and then it waits for it.      *)
LEMMA AnswersStep ==
    ASSUME Typed, Roles, Kinds, Between, RecordingHasCamera, Lone,
           NEW c \in CLOSER, Answers(c), Next
    PROVE  Answers(c)'
<1> DEFINE same == camPc' = camPc /\ mIsPreviewing' = mIsPreviewing
           kept == /\ camPc' = "stopped" <=> camPc = "stopped"
                   /\ alive' => alive
                   /\ mIsPreviewing => mIsPreviewing'
           waits == /\ pc'[c] = "waiting" <=> pc[c] = "waiting"
                    /\ pc'[c] = "stop_and_wait" =>
                          pc[c] = "stop_and_wait" \/ mIsPreviewing
           queued(q) == /\ Has(q, "PREVIEW_STOP") <=> Has(queue, "PREVIEW_STOP")
                        /\ Once(queue, "PREVIEW_STOP") => Once(q, "PREVIEW_STOP")
<1>q. queue \in Seq(Message)
  BY DEF Typed
<1>p. pc = [d \in CLIENT |-> pc[d]] /\ c \in CLIENT /\ c \notin OPENER
  BY HandlerAssumption DEF Typed, Callers, CLIENT
<1>l. \A d \in CLOSER : d = c
  BY DEF Lone
<1>n. running
  BY DEF Next
<1>s. ASSUME NEW x \in Message, x # "PREVIEW_STOP", queue' = send(queue, x)
      PROVE  queued(queue')
  BY <1>q, <1>s, Sent
<1>t. ASSUME queue # <<>>, Head(queue) # "PREVIEW_STOP"
      PROVE  queued(Tail(queue)) /\ Tail(queue) \in Seq(Message)
  BY <1>q, <1>t, Taken
<1>k. ASSUME same PROVE kept
  BY <1>k DEF alive, running
<1>a. ASSUME queued(queue'), kept, waits PROVE Answers(c)'
  BY <1>a, AnswersKept
<1> HIDE DEF kept, waits, queued
<1>1. ASSUME NEW d \in OPENER, post(d) PROVE Answers(c)'
  <2>1. call[d] \in Message /\ call[d] # "PREVIEW_STOP" /\ queue' = send(queue, call[d])
    BY <1>1 DEF post, Roles, Request, CLIENT, Message
  <2>2. same /\ waits
    BY <1>1, <1>p DEF post, goto, flags, camera, waits
  <2> QED BY <2>1, <2>2, <1>s, <1>k, <1>a
<1>2. ASSUME NEW d \in OPENER, stopRecording_alone(d) PROVE Answers(c)'
  <2>1. queued(queue')
    BY <1>2, <1>s DEF stopRecording_alone, Message
  <2>2. same /\ waits
    BY <1>2, <1>p, <1>l DEF waits, stopRecording_alone, camera, flags
  <2> QED BY <2>1, <2>2, <1>k, <1>a
<1>3. ASSUME NEW d \in OPENER, NEW what \in Request, checkReleased(d, what)
       PROVE Answers(c)'
  <2>1. queued(queue')
    BY <1>3 DEF checkReleased, messages, queued
  <2>2. same /\ waits
    BY <1>3, <1>p, <1>l DEF waits, checkReleased, camera, flags, goto
  <2> QED BY <2>1, <2>2, <1>k, <1>a
<1>4. ASSUME NEW d \in CLOSER, NEW op \in {"stop", "close", "release"},
       stop_close_release(d, op) PROVE Answers(c)'
  <2>1. queued(queue')
    BY <1>4 DEF stop_close_release, messages, queued
  <2>2. same /\ waits
    BY <1>4, <1>p, <1>l DEF waits, stop_close_release, camera, flags, goto
  <2> QED BY <2>1, <2>2, <1>k, <1>a
<1>5. ASSUME NEW d \in CLOSER, isOpened(d) PROVE Answers(c)'
  <2>1. queued(queue')
    BY <1>5 DEF isOpened, messages, queued
  <2>2. same /\ waits
    BY <1>5, <1>p, <1>l DEF waits, isOpened, camera, flags, goto
  <2> QED BY <2>1, <2>2, <1>k, <1>a
<1>6. ASSUME NEW d \in CLOSER, stopPreview(d) PROVE Answers(c)'
  <2>1. queued(queue')
    BY <1>6, <1>q, Removed DEF stopPreview, queued
  <2>2. same /\ waits
    BY <1>6, <1>p, <1>l DEF stopPreview, goto, flags, camera, waits
  <2> QED BY <2>1, <2>2, <1>k, <1>a
<1>7. ASSUME NEW d \in CLOSER, stopRecording(d) PROVE Answers(c)'
  <2>1. queued(queue')
    BY <1>7, <1>s DEF stopRecording, Message
  <2>2. same /\ waits
    BY <1>7, <1>p, <1>l DEF waits, stopRecording, camera, flags, goto
  <2> QED BY <2>1, <2>2, <1>k, <1>a
<1>8. ASSUME NEW d \in CLOSER, isPreviewing(d) PROVE Answers(c)'
  <2>1. queued(queue')
    BY <1>8 DEF isPreviewing, messages, queued
  <2>2. same /\ waits
    BY <1>8, <1>p, <1>l DEF waits, isPreviewing, camera, flags, stopped, goto
  <2> QED BY <2>1, <2>2, <1>k, <1>a
<1>9. ASSUME NEW d \in CLOSER, send_stop_and_wait(d) PROVE Answers(c)'
  <2>1. ~Has(queue, "PREVIEW_STOP") /\ camPc # "stopped" /\ d = c /\ mIsPreviewing
    BY <1>9, <1>l DEF send_stop_and_wait, Answers
  <2>2. /\ Has(queue', "PREVIEW_STOP") <=> alive
        /\ Once(queue', "PREVIEW_STOP")
    <3>1. queue' = send(queue, "PREVIEW_STOP") /\ "PREVIEW_STOP" \in Message
      BY <1>9 DEF send_stop_and_wait, Message
    <3> QED BY <1>q, <2>1, <3>1, Sent DEF Answers
  <2>3. same /\ pc'[c] = "waiting" /\ (alive' <=> alive)
    BY <1>9, <1>p, <2>1 DEF send_stop_and_wait, goto, flags, camera, alive, running
  <2> QED BY <2>1, <2>2, <2>3 DEF Answers
<1>10. ASSUME NEW d \in CLOSER, woken(d) PROVE Answers(c)'
  <2>1. queued(queue')
    BY <1>10 DEF woken, messages, queued
  <2>2. same /\ waits
    BY <1>10, <1>p, <1>l DEF waits, woken, camera, flags, stopped, goto
  <2> QED BY <2>1, <2>2, <1>k, <1>a
<1>11. ASSUME NEW d \in CLOSER, stopPreview_returns(d) PROVE Answers(c)'
  <2>1. queued(queue')
    BY <1>11 DEF stopPreview_returns, messages, queued
  <2>2. same /\ waits
    BY <1>11, <1>p, <1>l DEF waits, stopPreview_returns, camera, flags, goto
  <2> QED BY <2>1, <2>2, <1>k, <1>a
<1>12. ASSUME NEW d \in CLOSER, send_close(d) PROVE Answers(c)'
  <2>1. queued(queue')
    BY <1>12, <1>s DEF send_close, Message
  <2>2. same /\ waits
    BY <1>12, <1>p, <1>l DEF waits, send_close, camera, flags, goto
  <2> QED BY <2>1, <2>2, <1>k, <1>a
<1>13. ASSUME NEW d \in CLOSER, send_release(d) PROVE Answers(c)'
  <2>1. queued(queue')
    BY <1>13, <1>s DEF send_release, Message
  <2>2. same /\ waits
    BY <1>13, <1>p, <1>l DEF waits, send_release, camera, flags, goto
  <2> QED BY <2>1, <2>2, <1>k, <1>a
<1>14. ASSUME remove_callback PROVE Answers(c)'
  <2>1. queued(queue')
    BY <1>14 DEF remove_callback, messages, queued
  <2>2. kept /\ waits
    BY <1>14, <1>n DEF Between, Kinds, alive, running, kept, waits,
       remove_callback, history, clients, outside, setting, flags, messages
  <2> QED BY <2>1, <2>2, <1>a
<1>15. ASSUME take_camera PROVE Answers(c)'
  <2>1. queued(queue')
    BY <1>15 DEF take_camera, messages, queued
  <2>2. kept /\ waits
    BY <1>15, <1>n DEF Between, Kinds, alive, running, kept, waits,
       take_camera, clients, outside, setting, messages, takeCamera
  <2> QED BY <2>1, <2>2, <1>a
<1>16. ASSUME destroy_camera PROVE Answers(c)'
  <2>1. queued(queue')
    BY <1>16 DEF destroy_camera, messages, queued
  <2>2. kept /\ waits
    BY <1>16, <1>n DEF Between, Kinds, alive, running, kept, waits,
       destroy_camera, history, clients, setting, flags, messages
  <2> QED BY <2>1, <2>2, <1>a
<1>17. ASSUME open_camera PROVE Answers(c)'
  <2>1. queued(queue')
    BY <1>17 DEF open_camera, messages, queued
  <2>2. kept /\ waits
    BY <1>17, <1>n DEF Between, Kinds, alive, running, kept, waits,
       open_camera, history, clients, outside, setting, messages
  <2> QED BY <2>1, <2>2, <1>a
<1>18. ASSUME handle_start_preview PROVE Answers(c)'
  <2>1. queued(queue')
    BY <1>18, <1>t DEF handle_start_preview, handle
  <2>2. kept /\ waits
    BY <1>18, <1>n DEF Between, Kinds, alive, running, kept, waits,
       handle_start_preview, history, clients, outside, setting, flags, handle
  <2> QED BY <2>1, <2>2, <1>a
<1>19. ASSUME start_preview PROVE Answers(c)'
  <2>1. queued(queue')
    BY <1>19 DEF start_preview, messages, queued
  <2>2. kept /\ waits
    BY <1>19, <1>n DEF Between, Kinds, alive, running, kept, waits,
       start_preview, history, clients, setting, flags, messages
  <2> QED BY <2>1, <2>2, <1>a
<1>20. ASSUME preview_started PROVE Answers(c)'
  <2>1. queued(queue')
    BY <1>20 DEF preview_started, messages, queued
  <2>2. kept /\ waits
    BY <1>20, <1>n DEF Between, Kinds, alive, running, kept, waits,
       preview_started, clients, outside, setting, messages
  <2> QED BY <2>1, <2>2, <1>a
<1>21. ASSUME handle_stop_preview PROVE Answers(c)'
  <2>1. queue # <<>> /\ queue' = Tail(queue) /\ Head(queue) = "PREVIEW_STOP"
    BY <1>21 DEF handle_stop_preview, handle
  <2>2. Has(queue, "PREVIEW_STOP") /\ ~Has(queue', "PREVIEW_STOP") /\ Once(queue', "PREVIEW_STOP")
    BY <1>q, <2>1, Taken DEF Answers
  <2>3. camPc = "idle" /\ UNCHANGED <<mIsPreviewing, pc>>
    BY <1>21 DEF handle_stop_preview, handle, flags, clients
  <2>4. pc[c] = "waiting" /\ mIsPreviewing
    BY <2>2, <2>3 DEF Answers, alive, running
  <2> QED BY <1>21, <2>2, <2>3, <2>4 DEF Answers, handle_stop_preview
<1>22. ASSUME preview_stopped PROVE Answers(c)'
  <2>1. queue' = queue /\ camPc = "stopped" /\ camPc' = "idle" /\ pc'[c] \in {pc[c], "woken"}
        /\ pc'[c] # "waiting"
    BY <1>22, <1>p DEF preview_stopped, notifyAll, messages
  <2>2. pc[c] = "waiting" /\ pc'[c] = "woken"
    BY <1>22, <1>p, <2>1 DEF Answers, preview_stopped, notifyAll
  <2> QED BY <2>1, <2>2 DEF Answers
<1>23. ASSUME handle_capture_still PROVE Answers(c)'
  <2>1. queue # <<>> /\ Head(queue) # "PREVIEW_STOP" /\ "MEDIA_UPDATE" \in Message
    BY <1>23 DEF handle_capture_still, Message
  <2>2. queued(Tail(queue)) /\ Tail(queue) \in Seq(Message)
    BY <2>1, <1>t
  <2>3. LET t == send(Tail(queue), "MEDIA_UPDATE")
        IN  /\ Has(t, "PREVIEW_STOP") <=> Has(Tail(queue), "PREVIEW_STOP")
            /\ Once(Tail(queue), "PREVIEW_STOP") => Once(t, "PREVIEW_STOP")
    BY <2>1, <2>2, Sent
  <2>4. queued(queue')
    BY <1>23, <2>2, <2>3 DEF handle_capture_still, queued
  <2>5. same /\ waits
    BY <1>23 DEF handle_capture_still, camera, flags, clients, waits
  <2> QED BY <2>4, <2>5, <1>k, <1>a
<1>24. ASSUME handle_start_recording PROVE Answers(c)'
  <2>1. queued(queue')
    BY <1>24, <1>t DEF handle_start_recording, handle
  <2>2. kept /\ waits
    BY <1>24, <1>n DEF Between, Kinds, alive, running, kept, waits,
       handle_start_recording, history, clients, outside, setting, flags,
       handle
  <2> QED BY <2>1, <2>2, <1>a
<1>25. ASSUME start_fails PROVE Answers(c)'
  <2>1. queued(queue')
    BY <1>25 DEF start_fails, messages, queued
  <2>2. kept /\ waits
    BY <1>25, <1>n DEF Between, Kinds, alive, running, kept, waits,
       start_fails, history, clients, outside, setting, messages
  <2> QED BY <2>1, <2>2, <1>a
<1>26. ASSUME NEW m \in MOVIE, start_recording(m) PROVE Answers(c)'
  <2>1. queued(queue')
    BY <1>26 DEF start_recording, messages, queued
  <2>2. kept /\ waits
    BY <1>26, <1>n DEF Between, Kinds, alive, running, kept, waits,
       start_recording, clients, setting, messages
  <2> QED BY <2>1, <2>2, <1>a
<1>27. ASSUME handle_stop_recording PROVE Answers(c)'
  <2>1. queued(queue')
    BY <1>27, <1>t DEF handle_stop_recording, handle
  <2>2. kept /\ waits
    BY <1>27, <1>n DEF Between, Kinds, alive, running, kept, waits,
       handle_stop_recording, history, clients, setting, camera, handle
  <2> QED BY <2>1, <2>2, <1>a
<1>28. ASSUME release_thread PROVE Answers(c)'
  <2>1. queued(queue')
    BY <1>28 DEF release_thread, messages, queued
  <2>2. kept /\ waits
    BY <1>28, <1>n DEF Between, Kinds, alive, running, kept, waits,
       release_thread, history, clients, outside, setting, flags
  <2> QED BY <2>1, <2>2, <1>a
<1>29. ASSUME run_ends PROVE Answers(c)'
  <2>1. ~Has(queue', "PREVIEW_STOP") /\ Once(queue', "PREVIEW_STOP") /\ camPc' = "dead"
    BY <1>29 DEF run_ends, Has, Once
  <2>2. pc'[c] = "stop_and_wait" => pc[c] = "stop_and_wait" /\ mIsPreviewing' = mIsPreviewing
    BY <1>29, <1>p DEF run_ends, notifyAll, flags
  <2> QED BY <2>1, <2>2 DEF Answers, alive
<1>30. ASSUME NEW m \in MOVIE, update_due(m) PROVE Answers(c)'
  <2>1. queued(queue')
    BY <1>30, <1>s DEF update_due, Message
  <2>2. same /\ waits
    BY <1>30, <1>p, <1>l DEF waits, update_due, clients, camera, flags,
       becomes
  <2> QED BY <2>1, <2>2, <1>k, <1>a
<1>31. ASSUME handle_open \/ handle_close \/ handle_release \/ handle_update_media
      PROVE  Answers(c)'
  <2>1. queued(queue')
    BY <1>31, <1>t DEF handle_open, handle_close, handle_release, handle_update_media,
       handle
  <2>2. /\ camPc = "idle" /\ camPc' \in {"idle", "callback", "destroy", "open", "release"}
        /\ UNCHANGED <<mIsPreviewing, pc>>
    BY <1>31, Closing
  <2>3. kept /\ waits
    BY <2>2, <1>n DEF alive, running, kept, waits
  <2> QED BY <2>1, <2>3, <1>a
<1>32. ASSUME (\E m \in MOVIE : onStopped_ignored(m)) \/ (\E m \in MOVIE :
       onStopped(m)) \/ (\E m \in MOVIE : release_stops(m)) \/ (\E m \in MOVIE
       : release_callback(m)) \/ (\E m \in MOVIE : release_takes(m)) \/ (\E m
       \in MOVIE : release_destroys(m)) \/ (\E m \in MOVIE : release_quits(m))
      PROVE  Answers(c)'
  <2>1. same /\ pc' = pc /\ queue' = queue
    BY <1>32 DEF camera, clients, flags, history, messages, setting,
       onStopped_ignored, onStopped, release_stops, release_callback,
       release_takes, release_destroys, release_quits
  <2>2. queued(queue') /\ waits
    BY <2>1 DEF queued, waits
  <2> QED BY <2>1, <2>2, <1>k, <1>a
<1> QED BY <1>1, <1>2, <1>3, <1>4, <1>5, <1>6, <1>7, <1>8, <1>9, <1>10, <1>11,
     <1>12, <1>13, <1>14, <1>15, <1>16, <1>17, <1>18, <1>19, <1>20, <1>21,
     <1>22, <1>23, <1>24, <1>25, <1>26, <1>27, <1>28, <1>29, <1>30, <1>31,
     <1>32 DEF Next, Posts, Calls, Camera, Client, Encoder

(* What ends the camera thread is a RELEASE, or an update after release.   *)
Coming(q) == Has(q, "RELEASE") \/ Has(q, "MEDIA_UPDATE")

\* It is handled, or the thread has ended.
Underway == \/ ~alive \/ camPc \in {"release", "quit"}
            \/ camPc \in {"callback", "take", "destroy"} /\ after = "release"

\* An encoder thread is about to send it, or has failed to.
Due == \E m \in MOVIE : movie[m] \in Releasing \cup {"stopped", "lost", "failed"}

Released == \E c \in CLOSER : pc[c] = "released"

Arrives == Released /\ ~mIsRecording => Underway \/ Coming(queue) \/ Due

LEMMA ArrivesStep ==
    ASSUME Typed, Roles, Kinds, Flags, RecordingHasCamera, Arrives, Next
    PROVE  Arrives'
<1> DEFINE on == Underway => Underway'
           due == Due => Due'
           coming == Coming(queue) => Coming(queue')
           rec == mIsRecording => mIsRecording'
           rel == Released' => Released
<1>q. queue \in Seq(Message)
  BY DEF Typed
<1>p. pc = [d \in CLIENT |-> pc[d]] /\ CLOSER \cap OPENER = {} /\ CLOSER \subseteq CLIENT
  BY HandlerAssumption DEF Typed, Callers, CLIENT
<1>n. running
  BY DEF Next
<1>s. ASSUME NEW x \in Message, queue' = send(queue, x) PROVE coming
  BY <1>q, <1>s, Sent DEF Coming
<1>t. ASSUME queue # <<>>, queue' = Tail(queue), Head(queue) \notin {"RELEASE", "MEDIA_UPDATE"}
      PROVE  coming
  BY <1>q, <1>t, Taken DEF Coming
<1>c. ASSUME UNCHANGED <<camPc, after>> PROVE on
  BY <1>c DEF Underway, alive, running
<1>h. ASSUME camPc = "idle" PROVE on
  BY <1>h, <1>n DEF Underway, alive
<1>m. ASSUME movie' = movie PROVE due
  BY <1>m DEF Due
<1>r. ASSUME pc' = pc PROVE rel
  BY <1>r DEF Released
<1>v. Released => mReleased
  BY <1>p DEF Released, Roles
<1>a. ASSUME on, due, coming, rec, rel PROVE Arrives'
  BY <1>a DEF Arrives
<1> HIDE DEF on, due, coming, rec, rel
<1>1. ASSUME NEW d \in OPENER, post(d) PROVE Arrives'
  <2>1. coming
    BY <1>1, <1>s DEF post, Roles, Request, CLIENT, Message
  <2>2. on
    BY <1>1, <1>c DEF post, camera
  <2>3. due
    BY <1>1, <1>m DEF post, outside
  <2>4. rec /\ rel
    BY <1>1, <1>p DEF post, rec, flags, rel, Released, goto
  <2> QED BY <2>1, <2>2, <2>3, <2>4, <1>a
<1>2. ASSUME NEW d \in OPENER, stopRecording_alone(d) PROVE Arrives'
  <2>1. coming
    BY <1>2, <1>s DEF stopRecording_alone, Message
  <2>2. on
    BY <1>2, <1>c DEF stopRecording_alone, camera
  <2>3. due
    BY <1>2, <1>m DEF stopRecording_alone, outside
  <2>4. rec /\ rel
    BY <1>2, <1>r DEF stopRecording_alone, rec, flags
  <2> QED BY <2>1, <2>2, <2>3, <2>4, <1>a
<1>3. ASSUME NEW d \in OPENER, NEW what \in Request, checkReleased(d, what)
       PROVE Arrives'
  <2>1. coming
    BY <1>3 DEF checkReleased, messages, coming
  <2>2. on
    BY <1>3, <1>c DEF checkReleased, camera
  <2>3. due
    BY <1>3, <1>m DEF checkReleased, outside
  <2>4. rec /\ rel
    BY <1>3, <1>p DEF checkReleased, rec, flags, rel, Released, goto
  <2> QED BY <2>1, <2>2, <2>3, <2>4, <1>a
<1>4. ASSUME NEW d \in CLOSER, NEW op \in {"stop", "close", "release"},
       stop_close_release(d, op) PROVE Arrives'
  <2>1. coming
    BY <1>4 DEF stop_close_release, messages, coming
  <2>2. on
    BY <1>4, <1>c DEF stop_close_release, camera
  <2>3. due
    BY <1>4, <1>m DEF stop_close_release, outside
  <2>4. rec /\ rel
    BY <1>4, <1>p DEF stop_close_release, rec, flags, rel, Released, goto
  <2> QED BY <2>1, <2>2, <2>3, <2>4, <1>a
<1>5. ASSUME NEW d \in CLOSER, isOpened(d) PROVE Arrives'
  <2>1. coming
    BY <1>5 DEF isOpened, messages, coming
  <2>2. on
    BY <1>5, <1>c DEF isOpened, camera
  <2>3. due
    BY <1>5, <1>m DEF isOpened, outside
  <2>4. rec /\ rel
    BY <1>5, <1>p DEF isOpened, rec, flags, rel, Released, goto
  <2> QED BY <2>1, <2>2, <2>3, <2>4, <1>a
<1>6. ASSUME NEW d \in CLOSER, stopPreview(d) PROVE Arrives'
  <2>1. coming
    BY <1>6, <1>q, Removed DEF stopPreview, Coming, coming
  <2>2. on
    BY <1>6, <1>c DEF stopPreview, camera
  <2>3. due
    BY <1>6, <1>m DEF stopPreview, outside
  <2>4. rec /\ rel
    BY <1>6, <1>p DEF stopPreview, rec, flags, rel, Released, goto
  <2> QED BY <2>1, <2>2, <2>3, <2>4, <1>a
<1>7. ASSUME NEW d \in CLOSER, stopRecording(d) PROVE Arrives'
  <2>1. coming
    BY <1>7, <1>s DEF stopRecording, Message
  <2>2. on
    BY <1>7, <1>c DEF stopRecording, camera
  <2>3. due
    BY <1>7, <1>m DEF stopRecording, outside
  <2>4. rec /\ rel
    BY <1>7, <1>p DEF stopRecording, rec, flags, rel, Released, goto
  <2> QED BY <2>1, <2>2, <2>3, <2>4, <1>a
<1>8. ASSUME NEW d \in CLOSER, isPreviewing(d) PROVE Arrives'
  <2>1. coming
    BY <1>8 DEF isPreviewing, messages, coming
  <2>2. on
    BY <1>8, <1>c DEF isPreviewing, camera
  <2>3. due
    BY <1>8, <1>m DEF isPreviewing, outside
  <2>4. rec /\ rel
    BY <1>8, <1>p DEF isPreviewing, rec, flags, rel, Released, stopped, goto
  <2> QED BY <2>1, <2>2, <2>3, <2>4, <1>a
<1>9. ASSUME NEW d \in CLOSER, send_stop_and_wait(d) PROVE Arrives'
  <2>1. coming
    BY <1>9, <1>s DEF send_stop_and_wait, Message
  <2>2. on
    BY <1>9, <1>c DEF send_stop_and_wait, camera
  <2>3. due
    BY <1>9, <1>m DEF send_stop_and_wait, outside
  <2>4. rec /\ rel
    BY <1>9, <1>p DEF send_stop_and_wait, rec, flags, rel, Released, goto
  <2> QED BY <2>1, <2>2, <2>3, <2>4, <1>a
<1>10. ASSUME NEW d \in CLOSER, woken(d) PROVE Arrives'
  <2>1. coming
    BY <1>10 DEF woken, messages, coming
  <2>2. on
    BY <1>10, <1>c DEF woken, camera
  <2>3. due
    BY <1>10, <1>m DEF woken, outside
  <2>4. rec /\ rel
    BY <1>10, <1>p DEF woken, rec, flags, rel, Released, stopped, goto
  <2> QED BY <2>1, <2>2, <2>3, <2>4, <1>a
<1>11. ASSUME NEW d \in CLOSER, stopPreview_returns(d) PROVE Arrives'
  <2>1. coming
    BY <1>11 DEF stopPreview_returns, messages, coming
  <2>2. on
    BY <1>11, <1>c DEF stopPreview_returns, camera
  <2>3. due
    BY <1>11, <1>m DEF stopPreview_returns, outside
  <2>4. rec /\ rel
    BY <1>11, <1>p DEF stopPreview_returns, rec, flags, rel, Released, goto
  <2> QED BY <2>1, <2>2, <2>3, <2>4, <1>a
<1>12. ASSUME NEW d \in CLOSER, send_close(d) PROVE Arrives'
  <2>1. coming
    BY <1>12, <1>s DEF send_close, Message
  <2>2. on
    BY <1>12, <1>c DEF send_close, camera
  <2>3. due
    BY <1>12, <1>m DEF send_close, outside
  <2>4. rec /\ rel
    BY <1>12, <1>p DEF send_close, rec, flags, rel, Released, goto
  <2> QED BY <2>1, <2>2, <2>3, <2>4, <1>a
<1>13. ASSUME NEW d \in CLOSER, send_release(d) PROVE Arrives'
  <2>1. Coming(queue') \/ ~alive
    BY <1>13, <1>q, Sent DEF send_release, Message, Coming
  <2>2. alive' <=> alive
    BY <1>13 DEF send_release, camera, alive, running
  <2> QED BY <2>1, <2>2 DEF Arrives, Underway
<1>14. ASSUME remove_callback PROVE Arrives'
  <2>1. coming
    BY <1>14 DEF remove_callback, messages, coming
  <2>2. on
    BY <1>14 DEF remove_callback, on, Underway, alive, running, Kinds
  <2>3. due
    BY <1>14, <1>m DEF remove_callback, outside
  <2>4. rec /\ rel
    BY <1>14, <1>r DEF remove_callback, rec, flags, clients
  <2> QED BY <2>1, <2>2, <2>3, <2>4, <1>a
<1>15. ASSUME take_camera PROVE Arrives'
  <2>1. coming
    BY <1>15 DEF take_camera, messages, coming
  <2>2. on
    BY <1>15 DEF take_camera, on, Underway, alive, running, Kinds, takeCamera
  <2>3. due
    BY <1>15, <1>m DEF take_camera, outside
  <2>4. rec /\ rel
    BY <1>15, <1>r DEF take_camera, rec, clients
  <2> QED BY <2>1, <2>2, <2>3, <2>4, <1>a
<1>16. ASSUME destroy_camera PROVE Arrives'
  <2>1. coming
    BY <1>16 DEF destroy_camera, messages, coming
  <2>2. on
    BY <1>16 DEF destroy_camera, on, Underway, alive, running, Kinds
  <2>3. due
    BY <1>16, <1>m DEF destroy_camera
  <2>4. rec /\ rel
    BY <1>16, <1>r DEF destroy_camera, rec, flags, clients
  <2> QED BY <2>1, <2>2, <2>3, <2>4, <1>a
<1>17. ASSUME open_camera PROVE Arrives'
  <2>1. coming
    BY <1>17 DEF open_camera, messages, coming
  <2>2. on
    BY <1>17 DEF open_camera, on, Underway, alive, running, Kinds
  <2>3. due
    BY <1>17, <1>m DEF open_camera, outside
  <2>4. rec /\ rel
    BY <1>17, <1>r DEF open_camera, rec, clients
  <2> QED BY <2>1, <2>2, <2>3, <2>4, <1>a
<1>18. ASSUME handle_start_preview PROVE Arrives'
  <2>1. coming
    BY <1>18, <1>t DEF handle_start_preview, handle
  <2>2. on
    BY <1>18, <1>h DEF handle_start_preview, handle
  <2>3. due
    BY <1>18, <1>m DEF handle_start_preview, outside
  <2>4. rec /\ rel
    BY <1>18, <1>r DEF handle_start_preview, rec, flags, clients
  <2> QED BY <2>1, <2>2, <2>3, <2>4, <1>a
<1>19. ASSUME start_preview PROVE Arrives'
  <2>1. coming
    BY <1>19 DEF start_preview, messages, coming
  <2>2. on
    BY <1>19 DEF start_preview, on, Underway, alive, running, Kinds
  <2>3. due
    BY <1>19, <1>m DEF start_preview
  <2>4. rec /\ rel
    BY <1>19, <1>r DEF start_preview, rec, flags, clients
  <2> QED BY <2>1, <2>2, <2>3, <2>4, <1>a
<1>20. ASSUME preview_started PROVE Arrives'
  <2>1. coming
    BY <1>20 DEF preview_started, messages, coming
  <2>2. on
    BY <1>20 DEF preview_started, on, Underway, alive, running, Kinds
  <2>3. due
    BY <1>20, <1>m DEF preview_started, outside
  <2>4. rec /\ rel
    BY <1>20, <1>r DEF preview_started, rec, clients
  <2> QED BY <2>1, <2>2, <2>3, <2>4, <1>a
<1>21. ASSUME handle_stop_preview PROVE Arrives'
  <2>1. coming
    BY <1>21, <1>t DEF handle_stop_preview, handle
  <2>2. on
    BY <1>21, <1>h DEF handle_stop_preview, handle
  <2>3. due
    BY <1>21, <1>m DEF handle_stop_preview
  <2>4. rec /\ rel
    BY <1>21, <1>r DEF handle_stop_preview, rec, flags, clients
  <2> QED BY <2>1, <2>2, <2>3, <2>4, <1>a
<1>22. ASSUME preview_stopped PROVE Arrives'
  <2>1. coming
    BY <1>22 DEF preview_stopped, messages, coming
  <2>2. on
    BY <1>22 DEF preview_stopped, on, Underway, alive, running, Kinds
  <2>3. due
    BY <1>22, <1>m DEF preview_stopped, outside
  <2>4. rec /\ rel
    BY <1>22, <1>p DEF preview_stopped, rec, rel, Released, notifyAll
  <2> QED BY <2>1, <2>2, <2>3, <2>4, <1>a
<1>23. ASSUME handle_capture_still PROVE Arrives'
  <2>1. queue # <<>> /\ Head(queue) = "CAPTURE_STILL" /\ "MEDIA_UPDATE" \in Message
    BY <1>23 DEF handle_capture_still, Message
  <2>2. Tail(queue) \in Seq(Message) /\ (Coming(queue) => Coming(Tail(queue)))
    BY <1>q, <2>1, Taken DEF Coming
  <2>3. Coming(Tail(queue)) => Coming(send(Tail(queue), "MEDIA_UPDATE"))
    BY <2>1, <2>2, Sent DEF Coming
  <2>4. coming
    BY <1>23, <2>2, <2>3 DEF handle_capture_still, coming
  <2>5. on /\ due /\ rec /\ rel
    BY <1>23, <1>c, <1>m, <1>r DEF handle_capture_still, camera, outside, flags,
       clients, rec
  <2> QED BY <2>4, <2>5, <1>a
<1>24. ASSUME handle_start_recording PROVE Arrives'
  <2>1. coming
    BY <1>24, <1>t DEF handle_start_recording, handle
  <2>2. on
    BY <1>24, <1>h DEF handle_start_recording, handle
  <2>3. due
    BY <1>24, <1>m DEF handle_start_recording, outside
  <2>4. rec /\ rel
    BY <1>24, <1>r DEF handle_start_recording, rec, flags, clients
  <2> QED BY <2>1, <2>2, <2>3, <2>4, <1>a
<1>25. ASSUME start_fails PROVE Arrives'
  <2>1. coming
    BY <1>25 DEF start_fails, messages, coming
  <2>2. on
    BY <1>25 DEF start_fails, on, Underway, alive, running, Kinds
  <2>3. due
    BY <1>25, <1>m DEF start_fails, outside
  <2>4. rec /\ rel
    <3>1. mIsRecording' \in {mIsRecording, TRUE} /\ pc' = pc
      BY <1>25 DEF start_fails, clients
    <3>2. CASE mIsRecording' = mIsRecording
      BY <3>1, <3>2, <1>r DEF rec
    <3>3. CASE mIsRecording' = TRUE
      BY <3>1, <3>3, <1>r DEF rec
    <3> QED BY <3>1, <3>2, <3>3
  <2> QED BY <2>1, <2>2, <2>3, <2>4, <1>a
<1>26. ASSUME NEW m \in MOVIE, start_recording(m) PROVE Arrives'
  <2>1. coming
    BY <1>26 DEF start_recording, messages, coming
  <2>2. on
    BY <1>26 DEF start_recording, on, Underway, alive, running, Kinds
  <2>3. due
    <3>1. /\ \A n \in MOVIE \ {m} : movie'[n] = movie[n]
          /\ movie[m] \in Releasing \cup {"stopped", "lost", "failed"} =>
                movie'[m] \in Releasing \cup {"stopped", "lost", "failed"}
      BY <1>26 DEF start_recording, becomes, Kinds, Releasing
    <3> QED BY <3>1 DEF due, Due
  <2>4. rec /\ rel
    BY <1>26, <1>r DEF start_recording, rec, clients, Flags
  <2> QED BY <2>1, <2>2, <2>3, <2>4, <1>a
<1>27. ASSUME handle_stop_recording PROVE Arrives'
  <2>1. coming
    BY <1>27, <1>t DEF handle_stop_recording, handle
  <2>2. on
    BY <1>27, <1>h DEF handle_stop_recording, handle
  <2>3. due
    <3>1. \A n \in MOVIE : movie[n] = "active" \/ movie'[n] = movie[n]
      BY <1>27, HandlerAssumption DEF handle_stop_recording, takeMuxer, RecordingHasCamera,
         MOVIE
    <3> QED BY <3>1 DEF due, Due, Releasing
  <2>4. rec /\ rel
    BY <1>27, <1>r DEF handle_stop_recording, rec, clients
  <2> QED BY <2>1, <2>2, <2>3, <2>4, <1>a
<1>28. ASSUME release_thread PROVE Arrives'
  BY <1>28 DEF release_thread, flags, Arrives, Underway
<1>29. ASSUME run_ends PROVE Arrives'
  BY <1>29 DEF run_ends, Arrives, Underway, alive
<1>30. ASSUME NEW m \in MOVIE, onStopped_ignored(m) PROVE Arrives'
  <2>1. coming
    BY <1>30 DEF onStopped_ignored, messages, coming
  <2>2. on
    BY <1>30, <1>c DEF onStopped_ignored, camera
  <2>3. due
    <3>1. /\ \A n \in MOVIE \ {m} : movie'[n] = movie[n]
          /\ movie[m] \in Releasing \cup {"stopped", "lost", "failed"} =>
                movie'[m] \in Releasing \cup {"stopped", "lost", "failed"}
      BY <1>30 DEF onStopped_ignored, becomes, Kinds, Releasing
    <3> QED BY <3>1 DEF due, Due
  <2>4. rec /\ rel
    BY <1>30, <1>r DEF onStopped_ignored, rec, flags, clients
  <2> QED BY <2>1, <2>2, <2>3, <2>4, <1>a
<1>31. ASSUME NEW m \in MOVIE, onStopped(m) PROVE Arrives'
  <2>1. CASE movie'[m] = "over" /\ ~mReleased
    <3>1. rel
      BY <1>31, <1>r DEF onStopped, clients
    <3> QED BY <2>1, <3>1, <1>v DEF Arrives, rel
  <2>2. CASE movie'[m] \in {"stopped", "lost", "release"}
    BY <2>2 DEF Arrives, Due, Releasing
  <2> QED BY <1>31, <2>1, <2>2 DEF onStopped, becomes, Kinds
<1>32. ASSUME NEW m \in MOVIE, update_due(m) PROVE Arrives'
  <2>1. Coming(queue') \/ ~alive
    BY <1>32, <1>q, Sent DEF update_due, Message, Coming
  <2>2. alive' <=> alive
    BY <1>32 DEF update_due, camera, alive, running
  <2> QED BY <2>1, <2>2 DEF Arrives, Underway
<1>33. ASSUME NEW m \in MOVIE, release_stops(m) PROVE Arrives'
  <2>1. coming
    BY <1>33 DEF release_stops, messages, coming
  <2>2. on
    BY <1>33, <1>c DEF release_stops, camera
  <2>3. due
    <3>1. movie'[m] \in Releasing
      BY <1>33, Stopping DEF Kinds, Releasing
    <3> QED BY <3>1 DEF due, Due
  <2>4. rec /\ rel
    BY <1>33, <1>r DEF release_stops, rec, clients
  <2> QED BY <2>1, <2>2, <2>3, <2>4, <1>a
<1>34. ASSUME NEW m \in MOVIE, release_callback(m) PROVE Arrives'
  <2>1. coming
    BY <1>34 DEF release_callback, messages, coming
  <2>2. on
    BY <1>34, <1>c DEF release_callback, camera
  <2>3. due
    <3>1. /\ \A n \in MOVIE \ {m} : movie'[n] = movie[n]
          /\ movie[m] \in Releasing \cup {"stopped", "lost", "failed"} =>
                movie'[m] \in Releasing \cup {"stopped", "lost", "failed"}
      BY <1>34 DEF release_callback, becomes, Kinds, Releasing
    <3> QED BY <3>1 DEF due, Due
  <2>4. rec /\ rel
    BY <1>34, <1>r DEF release_callback, rec, flags, clients
  <2> QED BY <2>1, <2>2, <2>3, <2>4, <1>a
<1>35. ASSUME NEW m \in MOVIE, release_takes(m) PROVE Arrives'
  <2>1. coming
    BY <1>35 DEF release_takes, messages, coming
  <2>2. on
    BY <1>35, <1>c DEF release_takes, camera
  <2>3. due
    <3>1. /\ \A n \in MOVIE \ {m} : movie'[n] = movie[n]
          /\ movie[m] \in Releasing \cup {"stopped", "lost", "failed"} =>
                movie'[m] \in Releasing \cup {"stopped", "lost", "failed"}
      BY <1>35 DEF release_takes, becomes, Kinds, Releasing
    <3> QED BY <3>1 DEF due, Due
  <2>4. rec /\ rel
    BY <1>35, <1>r DEF release_takes, rec, clients
  <2> QED BY <2>1, <2>2, <2>3, <2>4, <1>a
<1>36. ASSUME NEW m \in MOVIE, release_destroys(m) PROVE Arrives'
  <2>1. coming
    BY <1>36 DEF release_destroys, messages, coming
  <2>2. on
    BY <1>36, <1>c DEF release_destroys, camera
  <2>3. due
    <3>1. /\ \A n \in MOVIE \ {m} : movie'[n] = movie[n]
          /\ movie[m] \in Releasing \cup {"stopped", "lost", "failed"} =>
                movie'[m] \in Releasing \cup {"stopped", "lost", "failed"}
      BY <1>36 DEF release_destroys, becomes, Kinds, Releasing
    <3> QED BY <3>1 DEF due, Due
  <2>4. rec /\ rel
    BY <1>36, <1>r DEF release_destroys, rec, flags, clients
  <2> QED BY <2>1, <2>2, <2>3, <2>4, <1>a
<1>37. ASSUME NEW m \in MOVIE, release_quits(m) PROVE Arrives'
  <2>1. CASE mIsRecording
    BY <1>37, <2>1 DEF release_quits, flags, Arrives
  <2>2. CASE ~mIsRecording
    <3>1. movie'[m] = "failed"
      BY <1>37, <2>2 DEF release_quits, becomes, Kinds
    <3> QED BY <3>1 DEF Arrives, Due
  <2> QED BY <2>1, <2>2
<1>38. ASSUME handle_open \/ handle_close PROVE Arrives'
  <2>1. coming
    BY <1>38, <1>t DEF handle_open, handle_close, handle
  <2>2. on
    BY <1>38, <1>h DEF handle_open, handle_close, handle
  <2>3. due
    <3>1. \A n \in MOVIE : movie[n] = "active" \/ movie'[n] = movie[n]
      BY <1>38, Closing DEF Kinds
    <3> QED BY <3>1 DEF due, Due, Releasing
  <2>4. UNCHANGED <<mIsRecording, pc>>
    BY <1>38, Closing
  <2>5. rec /\ rel
    BY <2>4, <1>r DEF rec
  <2> QED BY <2>1, <2>2, <2>3, <2>5, <1>a
<1>39. ASSUME handle_release \/ handle_update_media PROVE Arrives'
  <2>1. CASE handle_release \/ mReleased
    <3>1. after' = "release" /\ camPc' \in {"callback", "destroy", "release"}
      BY <1>39, <2>1 DEF handle_release, handle_update_media, handleClose, takeCamera
    <3> QED BY <3>1 DEF Arrives, Underway
  <2>2. CASE ~mReleased
    <3>1. rel
      BY <1>39, <1>r, Closing
    <3> QED BY <2>2, <3>1, <1>v DEF Arrives, rel
  <2> QED BY <1>39, <2>1, <2>2
<1> QED BY <1>1, <1>2, <1>3, <1>4, <1>5, <1>6, <1>7, <1>8, <1>9, <1>10, <1>11,
     <1>12, <1>13, <1>14, <1>15, <1>16, <1>17, <1>18, <1>19, <1>20, <1>21,
     <1>22, <1>23, <1>24, <1>25, <1>26, <1>27, <1>28, <1>29, <1>30, <1>31,
     <1>32, <1>33, <1>34, <1>35, <1>36, <1>37, <1>38, <1>39 DEF Next, Posts,
     Calls, Camera, Client, Encoder

-----------------------------------------------------------------------------
QInv == Typed /\ Roles /\ (Lone => \A c \in CLOSER : Answers(c)) /\ Arrives

LEMMA QueueInvariance == Spec => []QInv
<1>1. ASSUME Init PROVE QInv
  <2> USE DEF Init
  <2>1. Typed /\ Roles
    <3>1. calls \in [CLIENT -> Nat] /\ \A c \in CLIENT : calls[c] = 0
      BY <1>1
    <3>2. Callers
      BY <1>1, <3>1, HandlerAssumption DEF Callers, CLIENT
    <3> QED BY <1>1, <3>2 DEF Typed, Roles
  <2>2. ASSUME NEW c \in CLOSER PROVE Answers(c)
    BY <1>1, <2>2 DEF Answers, Has, Once, CLIENT
  <2>3. Arrives
    BY <1>1 DEF Arrives, Released, CLIENT
  <2> QED BY <2>1, <2>2, <2>3 DEF QInv
<1>2. IInv /\ QInv /\ [Next]_vars => QInv'
  <2>1. ASSUME IInv, QInv, Next PROVE QInv'
    <3>1. Typed' /\ Roles'
      BY <2>1, QueueStep, CallersStep DEF IInv, QInv, Typed
    <3>2. ASSUME Lone, NEW c \in CLOSER PROVE Answers(c)'
      BY <2>1, <3>2, AnswersStep DEF IInv, QInv
    <3>3. Lone' => Lone
      BY DEF Lone
    <3>4. Arrives'
      BY <2>1, ArrivesStep DEF IInv, QInv
    <3> QED BY <3>1, <3>2, <3>3, <3>4 DEF QInv
  <2>2. ASSUME QInv, UNCHANGED vars PROVE QInv'
    <3>1. Typed' /\ Roles'
      BY <2>2 DEF QInv, Typed, Callers, Roles, vars, messages, clients
    <3>2. ASSUME Lone, NEW c \in CLOSER PROVE Answers(c)'
      BY <2>2, <3>2 DEF QInv, Answers, alive, running, vars, messages, flags,
           camera, clients
    <3>3. Lone' => Lone
      BY DEF Lone
    <3>4. Arrives'
      BY <2>2 DEF QInv, Arrives, Released, Underway, Due, alive, running, vars,
           messages, flags, outside, camera, clients
    <3> QED BY <3>1, <3>2, <3>3, <3>4 DEF QInv
  <2> QED BY <2>1, <2>2
<1> QED BY <1>1, <1>2, Invariance, PTL DEF Spec

\* Every variable keeps its type, the queue among them.
THEOREM TypeCorrect == Spec => []TypeOK
<1>1. IInv /\ QInv => TypeOK
  BY DEF IInv, Flags, Kinds, QInv, Typed, Callers, TypeOK
<1> QED BY Invariance, QueueInvariance, <1>1, PTL

\* With one closer, the stop a caller waits for is queued or being handled, and
\* will wake it: the wait of stopPreview misses no notification.
THEOREM CallerAnswered == Spec => []StopAnswered
<1>1. QInv => StopAnswered
  BY DEF QInv, Answers, Lone, Has, StopAnswered
<1> QED BY QueueInvariance, <1>1, PTL

\* A released camera thread is brought to its end as soon as the encoders have
\* finished, unless the report it stayed for was lost.
THEOREM ReleaseReaches == Spec => []ReleaseArrives
<1>1. QInv => ReleaseArrives
  BY DEF QInv, Arrives, Released, Underway, Due, Coming, Has, ReportLost,
     ReleaseArrives
<1> QED BY QueueInvariance, <1>1, PTL
=============================================================================

----------------------- MODULE CameraConnectionProofs -----------------------
(* Theorems about USBMonitor and CameraConnection for any devices, cameras, *)
(* control blocks and descriptors.                                          *)
EXTENDS CameraConnection, FiniteSetTheorems, SequenceTheorems, TLAPS

\* TypeOK in four parts, and that a broadcast is taken after it was handled.
Simple ==
    /\ device \in [DEVICE -> {"unplugged", "plugged", "gone"}]
    /\ {granted, asked, mHasPermissions, listed, posted, counted, outdated} \subseteq SUBSET DEVICE
    /\ {registered, destroyed, timer} \subseteq BOOLEAN
    /\ calls \in 0 .. MAX_CALLS
    /\ mainPc \in {"idle", "detached", "destroy", "destroyed"}
    /\ asyncPc \in {"idle", "put", "connect", "check"}
Queues ==
    /\ intents \in Seq([what : INTENT, dev : DEVICE])
    /\ tasks \in Seq(DEVICE)
    /\ mainPc = "detached" => intents # <<>>
Blocks ==
    /\ block \in Seq([dev : DEVICE, conn : {"open", "null", "closed"}, clone : BOOLEAN])
    /\ Len(block) <= MAX_BLOCKS
    /\ mCtrlBlocks \in [DEVICE -> BlockOrNone]
    /\ closing \in [CLOSER -> BlockOrNone]
    /\ asyncBlk \in BlockOrNone
    /\ offered \subseteq DOMAIN block /\ late \subseteq DOMAIN block
Cameras ==
    /\ mDeviceHandle \in [CAMERA -> BOOLEAN] /\ mUsbFs \in [CAMERA -> BOOLEAN]
    /\ mFd \in [CAMERA -> FD]
    /\ mCtrlBlock \in [CAMERA -> BlockOrNone]
    /\ owner \in [FD -> CAMERA \cup {"free", "process"}]

\* OwnDescriptor for every descriptor a camera notes.
Owned == \A c \in CAMERA : mFd[c] # 0 => owner[mFd[c]] = c

\* A permission that is on its way, or was acted on, is there as long as the
\* device is.
Permitted ==
    /\ \A d \in asked \cup granted : device[d] = "plugged"
    /\ \A i \in DOMAIN intents :
          /\ intents[i].what = "granted" =>
                 intents[i].dev \in granted \/ device[intents[i].dev] = "gone"
          /\ intents[i].what = "detached" => device[intents[i].dev] = "gone"
    /\ \A i \in DOMAIN tasks : tasks[i] \in granted \/ device[tasks[i]] = "gone"

\* Which blocks are clones: those of the cameras, and no others.
Clones ==
    /\ \A d \in DEVICE : mCtrlBlocks[d] # NONE =>
          block[mCtrlBlocks[d]].dev = d /\ ~block[mCtrlBlocks[d]].clone
    /\ asyncBlk # NONE => ~block[asyncBlk].clone
    /\ \A t \in CLOSER : closing[t] # NONE =>
          (block[closing[t]].clone <=> t # Main)
CameraClones ==
    \A c \in CAMERA : mCtrlBlock[c] # NONE => block[mCtrlBlock[c]].clone

\* What the main thread closes, and when.
Closes ==
    /\ mainPc \in {"idle", "destroyed"} => closing[Main] = NONE
    /\ destroyed <=> mainPc \in {"destroy", "destroyed"}
    /\ mainPc = "detached" /\ closing[Main] # NONE =>
          device[block[closing[Main]].dev] = "gone"

\* A block that is new, and one that is in the table.
Fresh ==
    /\ asyncPc \in {"put", "connect"} <=> asyncBlk # NONE
    /\ asyncPc = "put" => /\ mCtrlBlocks[block[asyncBlk].dev] = NONE
                          /\ \A t \in CLOSER : closing[t] # asyncBlk
                          /\ block[asyncBlk].conn # "closed"
InTable ==
    \A d \in DEVICE : mCtrlBlocks[d] # NONE =>
        /\ block[mCtrlBlocks[d]].conn # "closed"
        /\ \A t \in CLOSER : closing[t] # mCtrlBlocks[d]
Nulls ==
    \A b \in DOMAIN block : /\ device[block[b].dev] # "unplugged"
                            /\ block[b].conn = "null" => device[block[b].dev] = "gone"

\* What the device check has counted and reported.
Counts ==
    /\ mDeviceCounts = Cardinality(counted) /\ counted \subseteq posted
    /\ \A d \in counted : device[d] # "unplugged"
    /\ \A d \in listed : device[d] # "unplugged"
    /\ asyncPc = "check" => \A d \in counted : device[d] = "plugged" => d \in listed

\* Of a counted device that has gone the broadcast is still to come, or had come
\* before it was counted.
Departed ==
    registered => \A d \in counted : device[d] = "gone" => detaching(d) \/ d \in outdated

IInv == /\ Simple /\ Queues /\ Blocks /\ Cameras /\ Owned /\ Permitted /\ Clones
        /\ CameraClones /\ Closes /\ Fresh /\ InTable /\ Nulls /\ Counts
        /\ Departed /\ ConnectLive /\ OriginalsInTable

RECORD == [dev : DEVICE, conn : {"open", "null", "closed"}, clone : BOOLEAN]

(* What a sequence holds after an element is added, and after one is taken. *)
LEMMA Appended ==
    ASSUME NEW S, NEW s \in Seq(S), NEW e \in S
    PROVE  /\ Append(s, e) \in Seq(S)
           /\ Len(Append(s, e)) = Len(s) + 1 /\ Len(s) \in Nat
           /\ DOMAIN s = 1 .. Len(s)
           /\ DOMAIN Append(s, e) = DOMAIN s \cup {Len(s) + 1}
           /\ Len(s) + 1 \notin DOMAIN s
           /\ \A i \in DOMAIN s : Append(s, e)[i] = s[i]
           /\ Append(s, e)[Len(s) + 1] = e
<1>1. /\ Append(s, e) \in Seq(S) /\ Len(Append(s, e)) = Len(s) + 1
      /\ \A i \in 1 .. Len(s) : Append(s, e)[i] = s[i]
      /\ Append(s, e)[Len(s) + 1] = e
  BY AppendProperties
<1>2. Len(s) \in Nat /\ DOMAIN s = 1 .. Len(s)
  BY LenProperties
<1>3. DOMAIN Append(s, e) = 1 .. Len(s) + 1
  BY <1>1, LenProperties
<1>4. Len(s) + 1 \notin 1 .. Len(s)
  BY <1>2
<1>5. 1 .. Len(s) + 1 = (1 .. Len(s)) \cup {Len(s) + 1}
  BY <1>2
<1> QED BY <1>1, <1>2, <1>3, <1>4, <1>5

LEMMA Taken ==
    ASSUME NEW S, NEW s \in Seq(S), s # <<>>
    PROVE  /\ Tail(s) \in Seq(S)
           /\ Head(s) \in S /\ Head(s) = s[1] /\ 1 \in DOMAIN s
           /\ \A i \in DOMAIN Tail(s) : i + 1 \in DOMAIN s /\ Tail(s)[i] = s[i + 1]
           /\ \A j \in DOMAIN s : \/ s[j] = Head(s)
                                  \/ \E i \in DOMAIN Tail(s) : Tail(s)[i] = s[j]
<1>1. /\ Tail(s) \in Seq(S) /\ Head(s) \in S /\ Head(s) = s[1]
      /\ Len(Tail(s)) = Len(s) - 1 /\ \A i \in 1 .. Len(Tail(s)) : Tail(s)[i] = s[i + 1]
  BY HeadTailProperties
<1>2. Len(s) \in Nat /\ Len(s) # 0 /\ DOMAIN s = 1 .. Len(s)
  BY LenProperties, EmptySeq
<1>3. DOMAIN Tail(s) = 1 .. Len(s) - 1
  BY <1>1, LenProperties
<1>4. ASSUME NEW j \in DOMAIN s, s[j] # Head(s)
      PROVE  \E i \in DOMAIN Tail(s) : Tail(s)[i] = s[j]
  <2>1. j - 1 \in DOMAIN Tail(s) /\ (j - 1) + 1 = j
    BY <1>1, <1>2, <1>3, <1>4
  <2> QED BY <1>1, <1>3, <2>1
<1> QED BY <1>1, <1>2, <1>3, <1>4

(* A new block is added at the end; its connection is open unless the device *)
(* is away or not permitted.                                                *)
Grown(d, clone) ==
    /\ block' \in Seq(RECORD) /\ Len(block') <= MAX_BLOCKS
    /\ Len(block) + 1 \in DOMAIN block' /\ Len(block) + 1 # NONE
    /\ Len(block) + 1 \notin DOMAIN block
    /\ DOMAIN block' = DOMAIN block \cup {Len(block) + 1}
    /\ \A b \in DOMAIN block : block'[b] = block[b]
    /\ block'[Len(block) + 1].dev = d
    /\ block'[Len(block) + 1].clone = clone
    /\ block'[Len(block) + 1].conn = connection(d)
    /\ connection(d) \in {"open", "null"}
    /\ connection(d) = "open" <=> device[d] = "plugged" /\ d \in granted

LEMMA NewBlock ==
    ASSUME Blocks, NEW d \in DEVICE, NEW clone \in BOOLEAN,
           new_block(d, clone)
    PROVE  Grown(d, clone)
<1> DEFINE new == [dev |-> d, conn |-> connection(d), clone |-> clone]
<1>1. connection(d) \in {"open", "null"}
  BY DEF connection
<1>2. new \in RECORD /\ new.dev = d /\ new.conn = connection(d) /\ new.clone = clone
  BY <1>1 DEF RECORD
<1>3. block \in Seq(RECORD)
  BY DEF Blocks, RECORD
<1>4. block' = Append(block, new) /\ Len(block) < MAX_BLOCKS
  BY DEF new_block
<1> HIDE DEF new
<1>5. /\ block' \in Seq(RECORD)
      /\ Len(block') = Len(block) + 1 /\ Len(block) \in Nat
      /\ DOMAIN block' = DOMAIN block \cup {Len(block) + 1}
      /\ Len(block) + 1 \notin DOMAIN block
      /\ \A b \in DOMAIN block : block'[b] = block[b]
      /\ block'[Len(block) + 1] = new
  BY <1>2, <1>3, <1>4, Appended
<1>6. Len(block') <= MAX_BLOCKS /\ Len(block) + 1 # NONE
  BY <1>4, <1>5, MonitorAssumption DEF NONE
<1>7. connection(d) = "open" <=> device[d] = "plugged" /\ d \in granted
  BY DEF connection, Plugged
<1> QED BY <1>1, <1>2, <1>5, <1>6, <1>7 DEF Grown

(* Closing a block changes its connection and nothing else.                 *)
LEMMA ClosedBlock ==
    ASSUME Blocks, NEW t \in CLOSER, close_connection(t)
    PROVE  /\ block' \in Seq(RECORD) /\ Len(block') = Len(block)
           /\ DOMAIN block' = DOMAIN block
           /\ closing[t] \in DOMAIN block
           /\ block[closing[t]].conn = "open"
           /\ block'[closing[t]].conn = "closed"
           /\ \A b \in DOMAIN block : /\ block'[b].dev = block[b].dev
                                      /\ block'[b].clone = block[b].clone
                                      /\ b # closing[t] => block'[b].conn = block[b].conn
<1>1. block \in Seq(RECORD) /\ closing[t] \in DOMAIN block
  BY DEF Blocks, RECORD, close_connection, BlockOrNone
<1>2. block' = [block EXCEPT ![closing[t]].conn = "closed"]
  BY DEF close_connection
<1>3. block[closing[t]] \in RECORD
  BY <1>1, ElementOfSeq, LenProperties
<1>4. [block[closing[t]] EXCEPT !.conn = "closed"] \in RECORD
  BY <1>3 DEF RECORD
<1>5. block' \in Seq(RECORD) /\ Len(block') = Len(block) /\ DOMAIN block' = DOMAIN block
  BY <1>1, <1>2, <1>4
<1>6. /\ block'[closing[t]] = [block[closing[t]] EXCEPT !.conn = "closed"]
      /\ \A b \in DOMAIN block : b # closing[t] => block'[b] = block[b]
  BY <1>1, <1>2
<1>7. /\ block'[closing[t]].dev = block[closing[t]].dev
      /\ block'[closing[t]].clone = block[closing[t]].clone
      /\ block'[closing[t]].conn = "closed"
  BY <1>3, <1>6 DEF RECORD
<1> QED BY <1>1, <1>5, <1>6, <1>7 DEF close_connection

LEMMA BlockTypes ==
    ASSUME Blocks
    PROVE  \A b \in DOMAIN block :
              /\ b # NONE /\ block[b].dev \in DEVICE /\ block[b].clone \in BOOLEAN
              /\ block[b].conn \in {"open", "null", "closed"}
<1>1. block \in Seq(RECORD)
  BY DEF Blocks, RECORD
<1>2. DOMAIN block = 1 .. Len(block) /\ Len(block) \in Nat
  BY <1>1, LenProperties
<1>3. \A b \in DOMAIN block : block[b] \in RECORD /\ b # NONE
  BY <1>1, <1>2, ElementOfSeq DEF NONE
<1> QED BY <1>3 DEF RECORD

(* The steps on the queues, on the table and of a camera, with what a proof  *)
(* needs to know of them.                                                    *)
INTENTS == [what : INTENT, dev : DEVICE]
Sent(what, d) ==
    /\ intents' \in Seq(INTENTS) /\ (intents # <<>> => intents' # <<>>)
    /\ \A i \in DOMAIN intents' :
          \/ i \in DOMAIN intents /\ intents'[i] = intents[i]
          \/ intents'[i].what = what /\ intents'[i].dev = d

LEMMA Broadcast ==
    ASSUME Queues, NEW what \in INTENT, NEW d \in DEVICE, broadcast(what, d)
    PROVE  Sent(what, d)
<1> DEFINE new == [what |-> what, dev |-> d]
<1>1. intents \in Seq(INTENTS)
  BY DEF Queues, INTENTS
<1>2. new \in INTENTS /\ new.what = what /\ new.dev = d
  BY DEF INTENTS
<1>3. intents' = intents \/ intents' = Append(intents, new)
  BY DEF broadcast
<1> HIDE DEF new
<1>4. CASE intents' = intents
  BY <1>1, <1>4 DEF Sent
<1>5. CASE intents' = Append(intents, new)
  <2>1. /\ Append(intents, new) \in Seq(INTENTS)
        /\ DOMAIN Append(intents, new) = DOMAIN intents \cup {Len(intents) + 1}
        /\ \A i \in DOMAIN intents : Append(intents, new)[i] = intents[i]
        /\ Append(intents, new)[Len(intents) + 1] = new
        /\ Append(intents, new) # <<>>
    BY <1>1, <1>2, Appended
  <2> QED BY <1>2, <1>5, <2>1 DEF Sent
<1> QED BY <1>3, <1>4, <1>5

Received == /\ Tail(intents) \in Seq(INTENTS)
            /\ \A i \in DOMAIN Tail(intents) :
                  i + 1 \in DOMAIN intents /\ Tail(intents)[i] = intents[i + 1]
LEMMA FirstIntent ==
    ASSUME Queues, intents # <<>>
    PROVE  /\ Received
           /\ 1 \in DOMAIN intents /\ Head(intents) = intents[1]
           /\ Head(intents).what \in INTENT /\ Head(intents).dev \in DEVICE
<1>1. intents \in Seq(INTENTS)
  BY DEF Queues, INTENTS
<1>2. /\ Received /\ Head(intents) \in INTENTS
      /\ 1 \in DOMAIN intents /\ Head(intents) = intents[1]
  BY <1>1, Taken DEF Received
<1> QED BY <1>2 DEF INTENTS

Queued(d) ==
    /\ tasks' \in Seq(DEVICE)
    /\ \A i \in DOMAIN tasks' :
          \/ i \in DOMAIN tasks /\ tasks'[i] = tasks[i]
          \/ tasks'[i] = d

LEMMA Connects ==
    ASSUME Queues, NEW d \in DEVICE, processConnect(d)
    PROVE  Queued(d)
<1>1. tasks \in Seq(DEVICE)
  BY DEF Queues
<1>2. tasks' = tasks \/ tasks' = Append(tasks, d)
  BY DEF processConnect
<1>3. /\ Append(tasks, d) \in Seq(DEVICE)
      /\ DOMAIN Append(tasks, d) = DOMAIN tasks \cup {Len(tasks) + 1}
      /\ \A i \in DOMAIN tasks : Append(tasks, d)[i] = tasks[i]
      /\ Append(tasks, d)[Len(tasks) + 1] = d
  BY <1>1, Appended
<1> QED BY <1>1, <1>2, <1>3 DEF Queued

Permits(d) ==
    /\ MainFree /\ Received /\ intents' = Tail(intents)
    /\ \/ d \in granted \/ device[d] = "gone"
       \/ tasks' = tasks
    /\ \/ mHasPermissions' = mHasPermissions \cup {d} /\ Queued(d)
       \/ mHasPermissions' = mHasPermissions \ {d} /\ tasks' = tasks
LEMMA Permission ==
    ASSUME Queues, Permitted, receive_permission
    PROVE  \E d \in DEVICE : Permits(d)
<1> DEFINE d == Head(intents).dev
<1>1. /\ Received /\ 1 \in DOMAIN intents /\ Head(intents) = intents[1]
      /\ Head(intents).what \in INTENT /\ d \in DEVICE
  BY FirstIntent DEF receive_permission
<1>2. CASE Head(intents).what = "granted"
  <2>1. d \in granted \/ device[d] = "gone"
    BY <1>1, <1>2 DEF Permitted
  <2>2. processConnect(d) /\ MainFree /\ intents' = Tail(intents)
    BY <1>2 DEF receive_permission
  <2>3. Queued(d)
    BY <1>1, <2>2, Connects
  <2> QED BY <1>1, <2>1, <2>2, <2>3 DEF Permits, processConnect
<1>3. CASE Head(intents).what # "granted"
  <2>1. processCancel(d) /\ MainFree /\ intents' = Tail(intents)
    BY <1>3 DEF receive_permission
  <2> QED BY <1>1, <2>1 DEF Permits, processCancel
<1> QED BY <1>2, <1>3

Detaches(d) ==
    /\ MainFree /\ device[d] = "gone"
    /\ mCtrlBlocks' = [mCtrlBlocks EXCEPT ![d] = NONE]
    /\ closing' = [closing EXCEPT ![Main] = mCtrlBlocks[d]]
    /\ mainPc' = "detached"
LEMMA Detached ==
    ASSUME Queues, Permitted, receive_detached
    PROVE  \E d \in DEVICE : Detaches(d)
<1> DEFINE d == Head(intents).dev
<1>1. 1 \in DOMAIN intents /\ Head(intents) = intents[1] /\ d \in DEVICE
  BY FirstIntent DEF receive_detached
<1>2. device[d] = "gone"
  BY <1>1 DEF Permitted, receive_detached
<1> QED BY <1>1, <1>2 DEF Detaches, receive_detached

Runs(d) ==
    /\ AsyncFree
    /\ \/ /\ mCtrlBlocks[d] = NONE /\ Grown(d, FALSE)
          /\ asyncBlk' = Len(block) + 1 /\ asyncPc' = "put"
       \/ /\ mCtrlBlocks[d] # NONE /\ block' = block
          /\ asyncBlk' = mCtrlBlocks[d] /\ asyncPc' = "connect"
    /\ tasks' \in Seq(DEVICE)
    /\ \A i \in DOMAIN tasks' : i + 1 \in DOMAIN tasks /\ tasks'[i] = tasks[i + 1]
    /\ d \in granted \/ device[d] = "gone"
LEMMA RunConnect ==
    ASSUME Queues, Permitted, Blocks, run_connect
    PROVE  \E d \in DEVICE : Runs(d)
<1> DEFINE d == Head(tasks)
<1>1. tasks \in Seq(DEVICE) /\ tasks # <<>>
  BY DEF Queues, run_connect
<1>2. /\ Tail(tasks) \in Seq(DEVICE) /\ d \in DEVICE /\ d = tasks[1] /\ 1 \in DOMAIN tasks
      /\ \A i \in DOMAIN Tail(tasks) : i + 1 \in DOMAIN tasks /\ Tail(tasks)[i] = tasks[i + 1]
  BY <1>1, Taken
<1>3. d \in granted \/ device[d] = "gone"
  BY <1>2 DEF Permitted
<1>4. AsyncFree /\ tasks' = Tail(tasks)
  BY DEF run_connect
<1>5. CASE mCtrlBlocks[d] = NONE
  <2>1. /\ new_block(d, FALSE)
        /\ asyncBlk' = Len(block) + 1 /\ asyncPc' = "put"
    BY <1>5 DEF run_connect
  <2>2. Grown(d, FALSE)
    BY <1>2, <2>1, NewBlock
  <2> QED BY <1>2, <1>3, <1>4, <1>5, <2>1, <2>2 DEF Runs
<1>6. CASE mCtrlBlocks[d] # NONE
  <2>1. block' = block /\ asyncBlk' = mCtrlBlocks[d] /\ asyncPc' = "connect"
    BY <1>6 DEF run_connect
  <2> QED BY <1>2, <1>3, <1>4, <1>6, <2>1 DEF Runs
<1> QED BY <1>5, <1>6

Opens(c, d) ==
    /\ Grown(d, TRUE) /\ device[d] = "plugged" /\ connection(d) = "open"
    /\ mCtrlBlock' = [mCtrlBlock EXCEPT ![c] = Len(block) + 1]
    /\ UNCHANGED <<bus, intents, main, mCtrlBlocks, mHasPermissions, count,
                   closing, tasks, timer, async, offered, posted, late>>
LEMMA OpenCamera ==
    ASSUME Blocks, NEW c \in CAMERA, open(c)
    PROVE  \E d \in DEVICE : Opens(c, d)
<1>1. PICK b \in offered : /\ connection(block[b].dev) = "open"
                           /\ new_block(block[b].dev, TRUE)
  BY DEF open
<1> DEFINE d == block[b].dev
<1>2. d \in DEVICE
  <2>1. block \in Seq(RECORD) /\ b \in DOMAIN block
    BY <1>1 DEF Blocks, RECORD
  <2>2. DOMAIN block = 1 .. Len(block)
    BY <2>1, LenProperties
  <2>3. block[b] \in RECORD
    BY <2>1, <2>2, ElementOfSeq
  <2> QED BY <2>3 DEF RECORD
<1>3. Grown(d, TRUE)
  BY <1>1, <1>2, NewBlock
<1>4. device[d] = "plugged" /\ connection(d) = "open"
  BY <1>1, <1>3 DEF Grown
<1> QED BY <1>2, <1>3, <1>4 DEF open, Opens

Shuts(c) ==
    /\ c \in CLOSER /\ c # Main /\ closing[c] = NONE
    /\ mCtrlBlock[c] \in BlockOrNone
    /\ mCtrlBlock[c] # NONE => block[mCtrlBlock[c]].clone
    /\ closing' = [closing EXCEPT ![c] = mCtrlBlock[c]]
    /\ mCtrlBlock' = [mCtrlBlock EXCEPT ![c] = NONE]
    /\ UNCHANGED <<bus, intents, main, mCtrlBlocks, mHasPermissions, count,
                   block, tasks, timer, async, offered, posted, late>>
LEMMA CloseCamera ==
    ASSUME Cameras, CameraClones, NEW c \in CAMERA, close(c)
    PROVE  Shuts(c)
BY CameraAssumption DEF Cameras, CameraClones, close, Shuts

(* Simple is kept.                                                          *)
LEMMA SimpleStep ==
    ASSUME IInv, Next
    PROVE  Simple'
<1> USE DEF IInv
<1>1. ASSUME NEW d \in DEVICE, plug(d) PROVE Simple'
  BY <1>1, MonitorAssumption DEF Simple, Plugged, plug, main, async, count
<1>2. ASSUME NEW d \in DEVICE, unplug(d) PROVE Simple'
  BY <1>2, MonitorAssumption DEF Simple, Plugged, unplug, broadcast, main,
       async, count
<1>3. ASSUME NEW d \in DEVICE, NEW what \in {"granted", "denied"}, answer(d, what) PROVE Simple'
  BY <1>3, MonitorAssumption DEF Simple, Plugged, answer, broadcast, main,
       async, count
<1>4. ASSUME NEW d \in DEVICE, requestPermission(d) PROVE Simple'
  BY <1>4, MonitorAssumption DEF Simple, Plugged, requestPermission, MainFree,
       processCancel, processConnect, async, count
<1>5. ASSUME register PROVE Simple'
  BY <1>5, MonitorAssumption DEF Simple, Plugged, register, MainFree, bus,
       async
<1>6. ASSUME unregister PROVE Simple'
  BY <1>6, MonitorAssumption DEF Simple, Plugged, unregister, MainFree,
       stop_monitoring, bus, async
<1>7. ASSUME receive_permission PROVE Simple'
  <2>1. PICK d \in DEVICE : Permits(d)
    BY <1>7, Permission
  <2> QED BY <1>7, <2>1 DEF Simple, Permits, Queued, Received, INTENTS,
       MainFree, receive_permission, bus, main, async, count
<1>8. ASSUME receive_detached PROVE Simple'
  <2>1. PICK d \in DEVICE : Detaches(d)
    BY <1>8, Detached
  <2> QED BY <1>8, <2>1, MonitorAssumption DEF Simple, Detaches, MainFree,
       receive_detached, bus, main, async, count
<1>9. ASSUME report_detached PROVE Simple'
  BY <1>9, MonitorAssumption DEF Simple, Plugged, report_detached, NONE, bus,
       async
<1>10. ASSUME destroy PROVE Simple'
  BY <1>10, MonitorAssumption DEF Simple, Plugged, destroy, MainFree,
       stop_monitoring, bus, async
<1>11. ASSUME destroy_ends PROVE Simple'
  BY <1>11, MonitorAssumption DEF Simple, Plugged, destroy_ends, NONE, bus,
       async, count
<1>12. ASSUME run_connect PROVE Simple'
  <2>1. PICK d \in DEVICE : Runs(d)
    BY <1>12, RunConnect
  <2> QED BY <1>12, <2>1, MonitorAssumption DEF Simple, AsyncFree, Runs, Grown,
       AsyncFree, run_connect, bus, main, async, count
<1>13. ASSUME put_block PROVE Simple'
  BY <1>13, MonitorAssumption DEF Simple, Plugged, put_block, bus, main, count
<1>14. ASSUME onConnect PROVE Simple'
  BY <1>14, MonitorAssumption DEF Simple, Plugged, onConnect, NONE, bus, main,
       count
<1>15. ASSUME check_list PROVE Simple'
  BY <1>15, MonitorAssumption DEF Simple, Plugged, check_list, AsyncFree, bus,
       main, count
<1>16. ASSUME check_report PROVE Simple'
  BY <1>16, MonitorAssumption DEF Simple, Plugged, check_report, more_devices,
       bus, main, count
<1>17. ASSUME (\E d \in DEVICE : destroy_next(d)) \/ (\E t \in CLOSER :
            close_connection(t)) \/ (\E t \in CLOSER : close_ends(t)) \/ (\E t
            \in CLOSER : close_nothing(t)) \/ (\E c \in CAMERA : open(c)) \/
            (\E c \in CAMERA : close(c))
      PROVE  Simple'
  <2>1. UNCHANGED <<device, granted, asked, mHasPermissions, listed, posted,
       counted, outdated, registered, destroyed, timer, calls, mainPc, asyncPc>>
    BY <1>17 DEF destroy_next, close_connection, close_ends, close_nothing,
       open, connect, close, release, bus, main, async, count
  <2> QED BY <2>1 DEF Simple
<1> QED BY <1>1, <1>2, <1>3, <1>4, <1>5, <1>6, <1>7, <1>8, <1>9, <1>10, <1>11,
       <1>12, <1>13, <1>14, <1>15, <1>16, <1>17 DEF Next, MonitorNext

(* Queues is kept: broadcasts and tasks are sent and taken.                 *)
LEMMA QueuesStep ==
    ASSUME IInv, Next
    PROVE  Queues'
<1> USE DEF IInv
<1>1. ASSUME NEW d \in DEVICE, unplug(d) PROVE Queues'
  <2>1. Sent("detached", d)
    BY <1>1, Broadcast DEF unplug, INTENT
  <2> QED BY <1>1, <2>1 DEF Queues, INTENT, INTENTS, Sent, Simple, unplug,
       bus, main, async, count
<1>2. ASSUME NEW d \in DEVICE, NEW what \in {"granted", "denied"}, answer(d, what) PROVE Queues'
  <2>1. Sent(what, d)
    BY <1>2, Broadcast DEF answer, INTENT
  <2> QED BY <1>2, <2>1 DEF Queues, INTENT, INTENTS, Sent, Simple, answer,
       bus, main, async, count
<1>3. ASSUME NEW d \in DEVICE, requestPermission(d) PROVE Queues'
  BY <1>3 DEF Queues, INTENT, requestPermission, MainFree, Plugged,
       processCancel, processConnect, async, count
<1>4. ASSUME unregister PROVE Queues'
  BY <1>4 DEF Queues, INTENT, unregister, MainFree, stop_monitoring, bus, async
<1>5. ASSUME receive_permission PROVE Queues'
  <2>1. PICK d \in DEVICE : Permits(d)
    BY <1>5, Permission
  <2> QED BY <1>5, <2>1 DEF Queues, INTENT, INTENTS, Permits, Queued,
       Received, INTENTS, MainFree, receive_permission, bus, main, async, count
<1>6. ASSUME receive_detached PROVE Queues'
  BY <1>6 DEF Queues, INTENT, receive_detached, MainFree, NONE, bus, async,
       count
<1>7. ASSUME report_detached PROVE Queues'
  <2>1. Received
    BY <1>7, FirstIntent DEF report_detached, Queues
  <2> QED BY <1>7, <2>1 DEF Queues, INTENT, INTENTS, Received,
       report_detached, bus, main, async, count
<1>8. ASSUME destroy PROVE Queues'
  BY <1>8 DEF Queues, INTENT, destroy, MainFree, stop_monitoring, bus, async
<1>9. ASSUME destroy_ends PROVE Queues'
  BY <1>9 DEF Queues, INTENT, destroy_ends, NONE, bus, async, count
<1>10. ASSUME run_connect PROVE Queues'
  <2>1. PICK d \in DEVICE : Runs(d)
    BY <1>10, RunConnect
  <2> QED BY <1>10, <2>1, MonitorAssumption DEF Queues, INTENT, INTENTS, Runs,
       Grown, AsyncFree, run_connect, bus, main, async, count
<1>11. ASSUME (\E d \in DEVICE : plug(d)) \/ (\E d \in DEVICE :
            destroy_next(d)) \/ register \/ (\E t \in CLOSER :
            close_connection(t)) \/ (\E t \in CLOSER : close_ends(t)) \/ (\E t
            \in CLOSER : close_nothing(t)) \/ put_block \/ onConnect \/
            check_list \/ check_report \/ (\E c \in CAMERA : open(c)) \/ (\E c
            \in CAMERA : close(c))
      PROVE  Queues'
  <2>1. UNCHANGED <<intents, tasks, mainPc>>
    BY <1>11 DEF plug, destroy_next, register, close_connection, close_ends,
       close_nothing, put_block, onConnect, check_list, check_report, open,
       connect, close, release, bus, main, async, count
  <2> QED BY <2>1 DEF Queues, INTENT
<1> QED BY <1>1, <1>2, <1>3, <1>4, <1>5, <1>6, <1>7, <1>8, <1>9, <1>10, <1>11
       DEF Next, MonitorNext

(* Blocks is kept: blocks are only added, and closed.                       *)
LEMMA BlocksStep ==
    ASSUME IInv, Next
    PROVE  Blocks'
<1> USE DEF IInv
<1>1. ASSUME NEW d \in DEVICE, destroy_next(d) PROVE Blocks'
  BY <1>1 DEF Blocks, BlockOrNone, destroy_next, NONE, bus, main, async, count
<1>2. ASSUME receive_detached PROVE Blocks'
  <2>1. PICK d \in DEVICE : Detaches(d)
    BY <1>2, Detached
  <2> QED BY <1>2, <2>1, MonitorAssumption DEF Blocks, BlockOrNone, NONE,
       Detaches, MainFree, receive_detached, bus, main, async, count
<1>3. ASSUME destroy_ends PROVE Blocks'
  BY <1>3 DEF Blocks, BlockOrNone, destroy_ends, NONE, bus, async, count
<1>4. ASSUME NEW t \in CLOSER, close_connection(t) PROVE Blocks'
  BY <1>4, ClosedBlock DEF RECORD, Blocks, BlockOrNone, close_connection,
       NONE, bus, main, async, count
<1>5. ASSUME NEW t \in CLOSER, close_ends(t) PROVE Blocks'
  BY <1>5 DEF Blocks, BlockOrNone, close_ends, NONE, bus, main, async, count
<1>6. ASSUME NEW t \in CLOSER, close_nothing(t) PROVE Blocks'
  BY <1>6 DEF Blocks, BlockOrNone, close_nothing, NONE, bus, main, async, count
<1>7. ASSUME run_connect PROVE Blocks'
  <2>1. PICK d \in DEVICE : Runs(d)
    BY <1>7, RunConnect
  <2> QED BY <1>7, <2>1, MonitorAssumption DEF Blocks, BlockOrNone, RECORD,
       NONE, Runs, Grown, AsyncFree, run_connect, bus, main, async, count
<1>8. ASSUME put_block PROVE Blocks'
  BY <1>8 DEF Fresh, RECORD, Blocks, Queues, Simple, INTENT, BlockOrNone,
       NONE, put_block, bus, main, count
<1>9. ASSUME onConnect PROVE Blocks'
  BY <1>9 DEF Fresh, RECORD, Blocks, Queues, Simple, INTENT, BlockOrNone,
       NONE, onConnect, bus, main, count
<1>10. ASSUME NEW c \in CAMERA, open(c) PROVE Blocks'
  <2>1. PICK d \in DEVICE : Opens(c, d)
    BY <1>10, OpenCamera
  <2> QED BY <1>10, <2>1, MonitorAssumption DEF Blocks, BlockOrNone, RECORD,
       Simple, NONE, Opens, Grown, bus, main, async, count
<1>11. ASSUME NEW c \in CAMERA, close(c) PROVE Blocks'
  <2>1. Shuts(c)
    BY <1>11, CloseCamera
  <2> QED BY <1>11, <2>1 DEF Blocks, BlockOrNone, RECORD, NONE, Shuts, bus,
       main, async, count
<1>12. ASSUME (\E d \in DEVICE : plug(d)) \/ (\E d \in DEVICE : unplug(d)) \/
            (\E d \in DEVICE : \E what \in {"granted", "denied"} : answer(d,
            what)) \/ (\E d \in DEVICE : requestPermission(d)) \/ register \/
            unregister \/ receive_permission \/ report_detached \/ destroy \/
            check_list \/ check_report
      PROVE  Blocks'
  <2>1. UNCHANGED <<block, mCtrlBlocks, closing, asyncBlk, offered, late>>
    BY <1>12 DEF plug, unplug, answer, requestPermission, processCancel,
       register, unregister, receive_permission, report_detached, destroy,
       check_list, check_report, bus, main, async, count
  <2> QED BY <2>1 DEF Blocks, BlockOrNone
<1> QED BY <1>1, <1>2, <1>3, <1>4, <1>5, <1>6, <1>7, <1>8, <1>9, <1>10, <1>11,
       <1>12 DEF Next, MonitorNext

(* Permitted is kept: a permission goes only with its device.               *)
LEMMA PermittedStep ==
    ASSUME IInv, Next
    PROVE  Permitted'
<1> USE DEF IInv
<1>1. ASSUME NEW d \in DEVICE, plug(d) PROVE Permitted'
  BY <1>1 DEF Permitted, plug, main, async, count
<1>2. ASSUME NEW d \in DEVICE, unplug(d) PROVE Permitted'
  <2>1. Sent("detached", d)
    BY <1>2, Broadcast DEF unplug, INTENT
  <2> QED BY <1>2, <2>1 DEF Permitted, Queues, Sent, Simple, unplug, bus,
       main, async, count
<1>3. ASSUME NEW d \in DEVICE, NEW what \in {"granted", "denied"}, answer(d, what) PROVE Permitted'
  <2>1. Sent(what, d)
    BY <1>3, Broadcast DEF answer, INTENT
  <2> QED BY <1>3, <2>1 DEF Permitted, Queues, Sent, Simple, answer, bus,
       main, async, count
<1>4. ASSUME NEW d \in DEVICE, requestPermission(d) PROVE Permitted'
  BY <1>4 DEF Permitted, requestPermission, MainFree, Plugged, processCancel,
       processConnect, async, count
<1>5. ASSUME unregister PROVE Permitted'
  BY <1>5 DEF Permitted, unregister, MainFree, stop_monitoring, bus, async
<1>6. ASSUME receive_permission PROVE Permitted'
  <2>1. PICK d \in DEVICE : Permits(d)
    BY <1>6, Permission
  <2> QED BY <1>6, <2>1 DEF Permitted, Queues, Permits, Queued, Received,
       INTENTS, MainFree, receive_permission, bus, main, async, count
<1>7. ASSUME report_detached PROVE Permitted'
  <2>1. Received
    BY <1>7, FirstIntent DEF report_detached, Queues
  <2> QED BY <1>7, <2>1 DEF Permitted, Queues, Received, report_detached, bus,
       main, async, count
<1>8. ASSUME destroy PROVE Permitted'
  BY <1>8 DEF Permitted, destroy, MainFree, stop_monitoring, bus, async
<1>9. ASSUME destroy_ends PROVE Permitted'
  BY <1>9 DEF Permitted, destroy_ends, NONE, bus, async, count
<1>10. ASSUME run_connect PROVE Permitted'
  <2>1. PICK d \in DEVICE : Runs(d)
    BY <1>10, RunConnect
  <2> QED BY <1>10, <2>1, MonitorAssumption DEF Permitted, Queues, Runs, Grown,
       AsyncFree, run_connect, bus, main, async, count
<1>11. ASSUME (\E d \in DEVICE : destroy_next(d)) \/ register \/
            receive_detached \/ (\E t \in CLOSER : close_connection(t)) \/ (\E
            t \in CLOSER : close_ends(t)) \/ (\E t \in CLOSER :
            close_nothing(t)) \/ put_block \/ onConnect \/ check_list \/
            check_report \/ (\E c \in CAMERA : open(c)) \/ (\E c \in CAMERA :
            close(c))
      PROVE  Permitted'
  <2>1. UNCHANGED <<device, granted, asked, intents, tasks>>
    BY <1>11 DEF destroy_next, register, receive_detached, close_connection,
       close_ends, close_nothing, put_block, onConnect, check_list,
       check_report, open, connect, close, release, bus, main, async, count
  <2> QED BY <2>1 DEF Permitted
<1> QED BY <1>1, <1>2, <1>3, <1>4, <1>5, <1>6, <1>7, <1>8, <1>9, <1>10, <1>11
       DEF Next, MonitorNext

(* Clones is kept.                                                          *)
LEMMA ClonesStep ==
    ASSUME IInv, Next
    PROVE  Clones'
<1> USE DEF IInv
<1>1. ASSUME NEW d \in DEVICE, destroy_next(d) PROVE Clones'
  BY <1>1 DEF Clones, destroy_next, NONE, bus, main, async, count
<1>2. ASSUME receive_detached PROVE Clones'
  <2>1. PICK d \in DEVICE : Detaches(d)
    BY <1>2, Detached
  <2> QED BY <1>2, <2>1, MonitorAssumption DEF Clones, Blocks, BlockOrNone,
       NONE, Detaches, MainFree, receive_detached, bus, main, async, count
<1>3. ASSUME destroy_ends PROVE Clones'
  BY <1>3 DEF Clones, destroy_ends, NONE, bus, async, count
<1>4. ASSUME NEW t \in CLOSER, close_connection(t) PROVE Clones'
  BY <1>4, ClosedBlock DEF Clones, close_connection, NONE, bus, main, async,
       count
<1>5. ASSUME NEW t \in CLOSER, close_ends(t) PROVE Clones'
  BY <1>5 DEF Clones, close_ends, NONE, bus, main, async, count
<1>6. ASSUME NEW t \in CLOSER, close_nothing(t) PROVE Clones'
  BY <1>6 DEF Clones, close_nothing, NONE, bus, main, async, count
<1>7. ASSUME run_connect PROVE Clones'
  <2>1. PICK d \in DEVICE : Runs(d)
    BY <1>7, RunConnect
  <2> QED BY <1>7, <2>1, MonitorAssumption DEF Clones, Blocks, BlockOrNone,
       NONE, RECORD, Runs, Grown, AsyncFree, run_connect, bus, main, async,
       count
<1>8. ASSUME put_block PROVE Clones'
  BY <1>8 DEF Clones, put_block, bus, main, count
<1>9. ASSUME onConnect PROVE Clones'
  BY <1>9 DEF Clones, onConnect, NONE, bus, main, count
<1>10. ASSUME NEW c \in CAMERA, open(c) PROVE Clones'
  <2>1. PICK d \in DEVICE : Opens(c, d)
    BY <1>10, OpenCamera
  <2> QED BY <1>10, <2>1, MonitorAssumption DEF Clones, Blocks, BlockOrNone,
       RECORD, Simple, NONE, Opens, Grown, bus, main, async, count
<1>11. ASSUME NEW c \in CAMERA, close(c) PROVE Clones'
  <2>1. Shuts(c)
    BY <1>11, CloseCamera
  <2> QED BY <1>11, <2>1 DEF Clones, Blocks, BlockOrNone, NONE, Shuts, bus,
       main, async, count
<1>12. ASSUME (\E d \in DEVICE : plug(d)) \/ (\E d \in DEVICE : unplug(d)) \/
            (\E d \in DEVICE : \E what \in {"granted", "denied"} : answer(d,
            what)) \/ (\E d \in DEVICE : requestPermission(d)) \/ register \/
            unregister \/ receive_permission \/ report_detached \/ destroy \/
            check_list \/ check_report
      PROVE  Clones'
  <2>1. UNCHANGED <<block, mCtrlBlocks, closing, asyncBlk>>
    BY <1>12 DEF plug, unplug, answer, requestPermission, processCancel,
       register, unregister, receive_permission, report_detached, destroy,
       check_list, check_report, bus, main, async, count
  <2> QED BY <2>1 DEF Clones
<1> QED BY <1>1, <1>2, <1>3, <1>4, <1>5, <1>6, <1>7, <1>8, <1>9, <1>10, <1>11,
       <1>12 DEF Next, MonitorNext

(* Closes is kept.                                                          *)
LEMMA ClosesStep ==
    ASSUME IInv, Next
    PROVE  Closes'
<1> USE DEF IInv
<1>1. ASSUME NEW d \in DEVICE, plug(d) PROVE Closes'
  BY <1>1 DEF Closes, plug, main, async, count
<1>2. ASSUME NEW d \in DEVICE, unplug(d) PROVE Closes'
  BY <1>2 DEF Closes, unplug, broadcast, main, async, count
<1>3. ASSUME NEW d \in DEVICE, destroy_next(d) PROVE Closes'
  BY <1>3 DEF Closes, destroy_next, NONE, bus, main, async, count
<1>4. ASSUME receive_detached PROVE Closes'
  <2>1. PICK d \in DEVICE : Detaches(d)
    BY <1>4, Detached
  <2> QED BY <1>4, <2>1, MonitorAssumption DEF Closes, Clones, Blocks,
       BlockOrNone, Simple, NONE, Detaches, MainFree, receive_detached, bus,
       main, async, count
<1>5. ASSUME report_detached PROVE Closes'
  BY <1>5 DEF Closes, report_detached, NONE, bus, async
<1>6. ASSUME destroy PROVE Closes'
  BY <1>6 DEF Closes, destroy, MainFree, stop_monitoring, bus, async
<1>7. ASSUME destroy_ends PROVE Closes'
  BY <1>7 DEF Closes, destroy_ends, NONE, bus, async, count
<1>8. ASSUME NEW t \in CLOSER, close_connection(t) PROVE Closes'
  BY <1>8, ClosedBlock DEF Closes, close_connection, NONE, bus, main, async,
       count
<1>9. ASSUME NEW t \in CLOSER, close_ends(t) PROVE Closes'
  BY <1>9 DEF Closes, close_ends, NONE, bus, main, async, count
<1>10. ASSUME NEW t \in CLOSER, close_nothing(t) PROVE Closes'
  BY <1>10 DEF Closes, close_nothing, NONE, bus, main, async, count
<1>11. ASSUME run_connect PROVE Closes'
  <2>1. PICK d \in DEVICE : Runs(d)
    BY <1>11, RunConnect
  <2> QED BY <1>11, <2>1, MonitorAssumption DEF Closes, Blocks, BlockOrNone,
       Simple, NONE, Runs, Grown, AsyncFree, run_connect, bus, main, async,
       count
<1>12. ASSUME NEW c \in CAMERA, open(c) PROVE Closes'
  <2>1. PICK d \in DEVICE : Opens(c, d)
    BY <1>12, OpenCamera
  <2> QED BY <1>12, <2>1, MonitorAssumption DEF Closes, Simple, Blocks,
       BlockOrNone, NONE, Opens, Grown, bus, main, async, count
<1>13. ASSUME NEW c \in CAMERA, close(c) PROVE Closes'
  <2>1. Shuts(c)
    BY <1>13, CloseCamera
  <2> QED BY <1>13, <2>1 DEF Closes, Simple, Blocks, BlockOrNone, NONE, Shuts,
       bus, main, async, count
<1>14. ASSUME (\E d \in DEVICE : \E what \in {"granted", "denied"} : answer(d,
            what)) \/ (\E d \in DEVICE : requestPermission(d)) \/ register \/
            unregister \/ receive_permission \/ put_block \/ onConnect \/
            check_list \/ check_report
      PROVE  Closes'
  <2>1. UNCHANGED <<mainPc, destroyed, closing, device, block>>
    BY <1>14 DEF answer, requestPermission, processCancel, register,
       unregister, receive_permission, put_block, onConnect, check_list,
       check_report, bus, main, async, count
  <2> QED BY <2>1 DEF Closes
<1> QED BY <1>1, <1>2, <1>3, <1>4, <1>5, <1>6, <1>7, <1>8, <1>9, <1>10, <1>11,
       <1>12, <1>13, <1>14 DEF Next, MonitorNext

(* Fresh is kept: nobody knows a block before it is put.                    *)
LEMMA FreshStep ==
    ASSUME IInv, Next
    PROVE  Fresh'
<1> USE DEF IInv
<1>1. ASSUME NEW d \in DEVICE, destroy_next(d) PROVE Fresh'
  BY <1>1 DEF Queues, Clones, Blocks, Simple, Fresh, BlockOrNone,
       destroy_next, NONE, bus, main, async, count
<1>2. ASSUME receive_detached PROVE Fresh'
  <2>1. PICK d \in DEVICE : Detaches(d)
    BY <1>2, Detached
  <2> QED BY <1>2, <2>1, MonitorAssumption DEF Fresh, Blocks, BlockOrNone,
       Simple, NONE, Clones, Detaches, MainFree, receive_detached, bus, main,
       async, count
<1>3. ASSUME destroy_ends PROVE Fresh'
  <2>1. \A b \in DOMAIN block :
           /\ b # NONE /\ block[b].dev \in DEVICE
           /\ block[b].conn \in {"open", "null", "closed"}
    BY BlockTypes
  <2> QED BY <1>3, <2>1 DEF Fresh, Blocks, BlockOrNone, destroy_ends, bus,
       main, async, count
<1>4. ASSUME NEW t \in CLOSER, close_connection(t) PROVE Fresh'
  BY <1>4, ClosedBlock DEF Fresh, close_connection, NONE, bus, main, async,
       count
<1>5. ASSUME NEW t \in CLOSER, close_ends(t) PROVE Fresh'
  BY <1>5 DEF Fresh, close_ends, NONE, bus, main, async, count
<1>6. ASSUME NEW t \in CLOSER, close_nothing(t) PROVE Fresh'
  BY <1>6 DEF Fresh, close_nothing, NONE, bus, main, async, count
<1>7. ASSUME run_connect PROVE Fresh'
  <2>1. PICK d \in DEVICE : Runs(d)
    BY <1>7, RunConnect
  <2> QED BY <1>7, <2>1, MonitorAssumption DEF Fresh, Clones, Closes, Blocks,
       BlockOrNone, Simple, NONE, InTable, Nulls, Runs, Grown, AsyncFree,
       run_connect, bus, main, async, count
<1>8. ASSUME put_block PROVE Fresh'
  BY <1>8 DEF Fresh, put_block, bus, main, count
<1>9. ASSUME onConnect PROVE Fresh'
  BY <1>9 DEF Fresh, onConnect, NONE, bus, main, count
<1>10. ASSUME check_list PROVE Fresh'
  BY <1>10 DEF Fresh, check_list, AsyncFree, Plugged, bus, main, count
<1>11. ASSUME check_report PROVE Fresh'
  BY <1>11 DEF Fresh, check_report, more_devices, bus, main, count
<1>12. ASSUME NEW c \in CAMERA, open(c) PROVE Fresh'
  <2>1. PICK d \in DEVICE : Opens(c, d)
    BY <1>12, OpenCamera
  <2> QED BY <1>12, <2>1, MonitorAssumption DEF Fresh, Simple, Blocks,
       BlockOrNone, NONE, Opens, Grown, bus, main, async, count
<1>13. ASSUME NEW c \in CAMERA, close(c) PROVE Fresh'
  <2>1. Shuts(c)
    BY <1>13, CloseCamera
  <2> QED BY <1>13, <2>1 DEF Fresh, Simple, Blocks, BlockOrNone, NONE, Clones,
       Shuts, bus, main, async, count
<1>14. ASSUME (\E d \in DEVICE : plug(d)) \/ (\E d \in DEVICE : unplug(d)) \/
            (\E d \in DEVICE : \E what \in {"granted", "denied"} : answer(d,
            what)) \/ (\E d \in DEVICE : requestPermission(d)) \/ register \/
            unregister \/ receive_permission \/ report_detached \/ destroy
      PROVE  Fresh'
  <2>1. UNCHANGED <<asyncPc, asyncBlk, mCtrlBlocks, closing, block>>
    BY <1>14 DEF plug, unplug, answer, requestPermission, processCancel,
       register, unregister, receive_permission, report_detached, destroy,
       bus, main, async, count
  <2> QED BY <2>1 DEF Fresh
<1> QED BY <1>1, <1>2, <1>3, <1>4, <1>5, <1>6, <1>7, <1>8, <1>9, <1>10, <1>11,
       <1>12, <1>13, <1>14 DEF Next, MonitorNext

(* InTable is kept: an entry goes before its block is closed.               *)
LEMMA InTableStep ==
    ASSUME IInv, Next
    PROVE  InTable'
<1> USE DEF IInv
<1>1. ASSUME NEW d \in DEVICE, destroy_next(d) PROVE InTable'
  BY <1>1 DEF Closes, CameraClones, Clones, Blocks, InTable, BlockOrNone,
       destroy_next, NONE, bus, main, async, count
<1>2. ASSUME receive_detached PROVE InTable'
  <2>1. PICK d \in DEVICE : Detaches(d)
    BY <1>2, Detached
  <2> QED BY <1>2, <2>1, MonitorAssumption DEF InTable, Blocks, BlockOrNone,
       Clones, NONE, Detaches, MainFree, receive_detached, bus, main, async,
       count
<1>3. ASSUME destroy_ends PROVE InTable'
  BY <1>3 DEF InTable, destroy_ends, NONE, bus, async, count
<1>4. ASSUME NEW t \in CLOSER, close_connection(t) PROVE InTable'
  BY <1>4, ClosedBlock DEF InTable, close_connection, NONE, bus, main, async,
       count
<1>5. ASSUME NEW t \in CLOSER, close_ends(t) PROVE InTable'
  BY <1>5 DEF InTable, close_ends, NONE, bus, main, async, count
<1>6. ASSUME NEW t \in CLOSER, close_nothing(t) PROVE InTable'
  BY <1>6 DEF InTable, close_nothing, NONE, bus, main, async, count
<1>7. ASSUME run_connect PROVE InTable'
  <2>1. PICK d \in DEVICE : Runs(d)
    BY <1>7, RunConnect
  <2> QED BY <1>7, <2>1, MonitorAssumption DEF InTable, Blocks, BlockOrNone,
       NONE, Runs, Grown, AsyncFree, run_connect, bus, main, async, count
<1>8. ASSUME put_block PROVE InTable'
  BY <1>8 DEF Queues, Fresh, Closes, CameraClones, Clones, Blocks, InTable,
       BlockOrNone, INTENT, put_block, bus, main, count
<1>9. ASSUME NEW c \in CAMERA, open(c) PROVE InTable'
  <2>1. PICK d \in DEVICE : Opens(c, d)
    BY <1>9, OpenCamera
  <2> QED BY <1>9, <2>1, MonitorAssumption DEF InTable, Blocks, BlockOrNone,
       NONE, Opens, Grown, bus, main, async, count
<1>10. ASSUME NEW c \in CAMERA, close(c) PROVE InTable'
  <2>1. Shuts(c)
    BY <1>10, CloseCamera
  <2> QED BY <1>10, <2>1 DEF InTable, Clones, Blocks, BlockOrNone, NONE, Shuts,
       bus, main, async, count
<1>11. ASSUME (\E d \in DEVICE : plug(d)) \/ (\E d \in DEVICE : unplug(d)) \/
            (\E d \in DEVICE : \E what \in {"granted", "denied"} : answer(d,
            what)) \/ (\E d \in DEVICE : requestPermission(d)) \/ register \/
            unregister \/ receive_permission \/ report_detached \/ destroy \/
            onConnect \/ check_list \/ check_report
      PROVE  InTable'
  <2>1. UNCHANGED <<mCtrlBlocks, closing, block>>
    BY <1>11 DEF plug, unplug, answer, requestPermission, processCancel,
       register, unregister, receive_permission, report_detached, destroy,
       onConnect, check_list, check_report, bus, main, async, count
  <2> QED BY <2>1 DEF InTable
<1> QED BY <1>1, <1>2, <1>3, <1>4, <1>5, <1>6, <1>7, <1>8, <1>9, <1>10, <1>11
       DEF Next, MonitorNext

(* Nulls is kept: a device that has gone stays away.                        *)
LEMMA NullsStep ==
    ASSUME IInv, Next
    PROVE  Nulls'
<1> USE DEF IInv
<1>1. ASSUME NEW d \in DEVICE, plug(d) PROVE Nulls'
  BY <1>1 DEF Nulls, plug, main, async, count
<1>2. ASSUME NEW d \in DEVICE, unplug(d) PROVE Nulls'
  BY <1>2 DEF Nulls, unplug, broadcast, main, async, count
<1>3. ASSUME NEW t \in CLOSER, close_connection(t) PROVE Nulls'
  BY <1>3, ClosedBlock DEF Nulls, close_connection, NONE, bus, main, async,
       count
<1>4. ASSUME run_connect PROVE Nulls'
  <2>1. PICK d \in DEVICE : Runs(d)
    BY <1>4, RunConnect
  <2>2. UNCHANGED device /\ device[d] # "unplugged"
    BY <1>4, <2>1 DEF run_connect, bus, Runs, Permitted, Simple
  <2>3. CASE Grown(d, FALSE)
    <3>1. connection(d) = "null" => device[d] = "gone"
      BY <2>1, <2>3 DEF Grown, Runs, Permitted
    <3> QED BY <2>2, <2>3, <3>1 DEF Nulls, Grown
  <2>4. CASE block' = block
    BY <2>2, <2>4 DEF Nulls
  <2> QED BY <2>1, <2>3, <2>4 DEF Runs
<1>5. ASSUME NEW c \in CAMERA, open(c) PROVE Nulls'
  <2>1. PICK d \in DEVICE : Opens(c, d)
    BY <1>5, OpenCamera
  <2> QED BY <1>5, <2>1, MonitorAssumption DEF Nulls, Blocks, BlockOrNone,
       Simple, Opens, Grown, bus, main, async, count
<1>6. ASSUME (\E d \in DEVICE : \E what \in {"granted", "denied"} : answer(d,
            what)) \/ (\E d \in DEVICE : requestPermission(d)) \/ (\E d \in
            DEVICE : destroy_next(d)) \/ register \/ unregister \/
            receive_permission \/ receive_detached \/ report_detached \/
            destroy \/ destroy_ends \/ (\E t \in CLOSER : close_ends(t)) \/
            (\E t \in CLOSER : close_nothing(t)) \/ put_block \/ onConnect \/
            check_list \/ check_report \/ (\E c \in CAMERA : close(c))
      PROVE  Nulls'
  <2>1. UNCHANGED <<block, device>>
    BY <1>6 DEF answer, requestPermission, processCancel, destroy_next,
       register, unregister, receive_permission, receive_detached,
       report_detached, destroy, destroy_ends, close_ends, close_nothing,
       put_block, onConnect, check_list, check_report, close, release, bus,
       main, async, count
  <2> QED BY <2>1 DEF Nulls
<1> QED BY <1>1, <1>2, <1>3, <1>4, <1>5, <1>6 DEF Next, MonitorNext

(* Counts is kept.                                                          *)
LEMMA CountsStep ==
    ASSUME IInv, Next
    PROVE  Counts'
<1> USE DEF IInv
<1>1. ASSUME NEW d \in DEVICE, plug(d) PROVE Counts'
  BY <1>1, FS_EmptySet DEF Counts, plug, main, async, count
<1>2. ASSUME NEW d \in DEVICE, unplug(d) PROVE Counts'
  BY <1>2, FS_EmptySet DEF Counts, unplug, broadcast, main, async, count
<1>3. ASSUME register PROVE Counts'
  BY <1>3, FS_EmptySet DEF Counts, register, MainFree, bus, async
<1>4. ASSUME unregister PROVE Counts'
  BY <1>4, FS_EmptySet DEF Counts, unregister, MainFree, stop_monitoring, bus,
       async
<1>5. ASSUME report_detached PROVE Counts'
  BY <1>5, FS_EmptySet DEF Counts, report_detached, NONE, bus, async
<1>6. ASSUME destroy PROVE Counts'
  BY <1>6, FS_EmptySet DEF Counts, destroy, MainFree, stop_monitoring, bus,
       async
<1>7. ASSUME run_connect PROVE Counts'
  <2>1. PICK d \in DEVICE : Runs(d)
    BY <1>7, RunConnect
  <2> QED BY <1>7, <2>1, MonitorAssumption DEF Counts, Simple, Runs, Grown,
       AsyncFree, run_connect, bus, main, async, count
<1>8. ASSUME put_block PROVE Counts'
  BY <1>8, FS_EmptySet DEF Counts, put_block, bus, main, count
<1>9. ASSUME onConnect PROVE Counts'
  BY <1>9, FS_EmptySet DEF Counts, onConnect, NONE, bus, main, count
<1>10. ASSUME check_list PROVE Counts'
  BY <1>10, FS_EmptySet DEF Simple, Counts, check_list, AsyncFree, Plugged,
       bus, main, count
<1>11. ASSUME check_report PROVE Counts'
  BY <1>11, FS_EmptySet DEF Counts, check_report, more_devices, bus, main,
       count
<1>12. ASSUME (\E d \in DEVICE : \E what \in {"granted", "denied"} : answer(d,
            what)) \/ (\E d \in DEVICE : requestPermission(d)) \/ (\E d \in
            DEVICE : destroy_next(d)) \/ receive_permission \/
            receive_detached \/ destroy_ends \/ (\E t \in CLOSER :
            close_connection(t)) \/ (\E t \in CLOSER : close_ends(t)) \/ (\E t
            \in CLOSER : close_nothing(t)) \/ (\E c \in CAMERA : open(c)) \/
            (\E c \in CAMERA : close(c))
      PROVE  Counts'
  <2>1. UNCHANGED <<mDeviceCounts, counted, posted, device, listed, asyncPc>>
    BY <1>12 DEF answer, requestPermission, processCancel, destroy_next,
       receive_permission, receive_detached, destroy_ends, close_connection,
       close_ends, close_nothing, open, connect, close, release, bus, main,
       async, count
  <2> QED BY <2>1 DEF Counts
<1> QED BY <1>1, <1>2, <1>3, <1>4, <1>5, <1>6, <1>7, <1>8, <1>9, <1>10, <1>11,
       <1>12 DEF Next, MonitorNext

(* A broadcast that a device was removed stays until it was handled.        *)
LEMMA BroadcastStays ==
    ASSUME IInv, Next, registered, registered', ~report_detached,
           NEW d \in DEVICE, detaching(d)
    PROVE  detaching(d)'
<1> USE DEF IInv
<1>1. intents \in Seq(INTENTS)
  BY DEF Queues, INTENTS
<1>2. PICK j \in DOMAIN intents : intents[j] = [what |-> "detached", dev |-> d]
  BY DEF detaching
<1>3. ASSUME NEW e \in DEVICE, NEW what \in INTENT, broadcast(what, e)
      PROVE  detaching(d)'
  <2> DEFINE new == [what |-> what, dev |-> e]
  <2>1. new \in INTENTS /\ intents' = Append(intents, new)
    BY <1>3 DEF broadcast, INTENTS
  <2> HIDE DEF new
  <2>2. j \in DOMAIN intents' /\ intents'[j] = intents[j]
    BY <1>1, <1>2, <2>1, Appended
  <2> QED BY <1>2, <2>2 DEF detaching
<1>4. CASE receive_permission
  <2>1. intents' = Tail(intents) /\ intents # <<>> /\ Head(intents).what # "detached"
    BY <1>4 DEF receive_permission
  <2>2. intents[j] # Head(intents)
    BY <1>2, <2>1
  <2>3. \E i \in DOMAIN intents' : intents'[i] = intents[j]
    BY <1>1, <1>2, <2>1, <2>2, Taken
  <2> QED BY <1>2, <2>3 DEF detaching
<1>5. CASE intents' = intents
  BY <1>5 DEF detaching
<1>6. \/ receive_permission \/ intents' = intents
      \/ \E e \in DEVICE : \E what \in INTENT : broadcast(what, e)
  <2>1. ASSUME NEW e \in DEVICE,
               unplug(e) \/ answer(e, "granted") \/ answer(e, "denied")
        PROVE  \E what \in INTENT : broadcast(what, e)
    BY <2>1 DEF unplug, answer, INTENT
  <2>2. ~unregister /\ ~destroy
    BY DEF unregister, destroy, stop_monitoring
  <2> QED BY <2>1, <2>2 DEF Next, MonitorNext, plug, requestPermission,
       destroy_next, register, receive_detached, destroy_ends,
       close_connection, close_ends, close_nothing, run_connect, put_block,
       onConnect, check_list, check_report, open, close
<1> QED BY <1>3, <1>4, <1>5, <1>6

(* Departed is kept.                                                        *)
LEMMA DepartedStep ==
    ASSUME IInv, Next
    PROVE  Departed'
<1> USE DEF IInv
<1> SUFFICES ASSUME registered', NEW d \in counted', device'[d] = "gone"
             PROVE  detaching(d)' \/ d \in outdated'
  BY DEF Departed
<1>1. CASE check_report
  <2>1. UNCHANGED <<intents, device, registered>>
    BY <1>1 DEF check_report, bus, main
  <2>2. CASE more_devices
    BY <1>1, <2>1, <2>2 DEF check_report, detaching
  <2>3. CASE ~more_devices
    BY <1>1, <2>1, <2>3 DEF check_report, count, Departed, detaching
  <2> QED BY <2>2, <2>3
<1>2. CASE report_detached \/ register \/ unregister \/ destroy
  BY <1>2 DEF report_detached, register, unregister, destroy, stop_monitoring
<1>3. CASE ~(check_report \/ report_detached \/ register \/ unregister \/ destroy)
  <2>1. registered /\ d \in counted /\ outdated' = outdated
    BY <1>3 DEF Next, MonitorNext, plug, unplug, answer, requestPermission,
       destroy_next, receive_permission, receive_detached, destroy_ends,
       close_connection, close_ends, close_nothing, run_connect, put_block,
       onConnect, check_list, open, close, main, count
  <2>2. d \in DEVICE
    BY <2>1 DEF Simple
  <2>3. CASE device[d] = "gone"
    <3>1. detaching(d) \/ d \in outdated
      BY <2>1, <2>3 DEF Departed
    <3> QED BY <1>3, <2>1, <2>2, <3>1, BroadcastStays
  <2>4. CASE device[d] # "gone"
    <3>1. unplug(d)
      <4>1. PICK e \in DEVICE : plug(e) \/ unplug(e)
        BY <2>4, <1>3 DEF Next, MonitorNext, answer, requestPermission,
           destroy_next, receive_permission, receive_detached, destroy_ends,
           close_connection, close_ends, close_nothing, run_connect, put_block,
           onConnect, check_list, open, close, bus
      <4> QED BY <2>2, <2>4, <4>1 DEF plug, unplug, Simple
    <3> DEFINE new == [what |-> "detached", dev |-> d]
    <3>2. intents \in Seq(INTENTS) /\ new \in INTENTS
      BY <2>2 DEF Queues, INTENTS, INTENT
    <3>3. intents' = Append(intents, new)
      BY <2>1, <3>1 DEF unplug, broadcast
    <3>4. Len(intents) + 1 \in DOMAIN intents' /\ intents'[Len(intents) + 1] = new
      BY <3>2, <3>3, Appended
    <3> QED BY <3>4 DEF detaching
  <2> QED BY <2>3, <2>4
<1> QED BY <1>1, <1>2, <1>3

(* ConnectLive is kept.                                                     *)
LEMMA ConnectLiveStep ==
    ASSUME IInv, Next
    PROVE  ConnectLive'
<1> USE DEF IInv
<1>1. ASSUME NEW d \in DEVICE, plug(d) PROVE ConnectLive'
  <2>1. \A b \in DOMAIN block :
           /\ b # NONE /\ block[b].dev \in DEVICE
           /\ block[b].conn \in {"open", "null", "closed"}
    BY BlockTypes
  <2> QED BY <1>1, <2>1 DEF ConnectLive, Plugged, Nulls, Blocks, BlockOrNone,
       Fresh, plug, Simple, bus, main, async, count
<1>2. ASSUME NEW d \in DEVICE, unplug(d) PROVE ConnectLive'
  BY <1>2 DEF ConnectLive, Plugged, unplug, broadcast, main, async, count
<1>3. ASSUME destroy PROVE ConnectLive'
  BY <1>3 DEF ConnectLive, Plugged, destroy, MainFree, stop_monitoring, bus,
       async
<1>4. ASSUME NEW t \in CLOSER, close_connection(t) PROVE ConnectLive'
  BY <1>4, ClosedBlock DEF Queues, Permitted, InTable, Closes, Clones, Nulls,
       Fresh, Simple, Blocks, ConnectLive, Plugged, BlockOrNone,
       close_connection, NONE, bus, main, async, count
<1>5. ASSUME run_connect PROVE ConnectLive'
  <2>1. PICK d \in DEVICE : Runs(d)
    BY <1>5, RunConnect
  <2>2. CASE asyncPc' = "put"
    BY <2>2 DEF ConnectLive
  <2>3. CASE asyncPc' # "put"
    <3> DEFINE b == mCtrlBlocks[d]
    <3>1. b # NONE /\ asyncBlk' = b /\ UNCHANGED <<block, device>>
      BY <1>5, <2>1, <2>3 DEF Runs, run_connect, bus
    <3>2. b \in DOMAIN block /\ block[b].conn # "closed"
      BY <3>1 DEF Blocks, BlockOrNone, InTable
    <3>3. block[b].conn = "open" \/ device[block[b].dev] = "gone"
      BY <3>2, BlockTypes DEF Nulls
    <3> QED BY <3>1, <3>3 DEF ConnectLive, Plugged
  <2> QED BY <2>2, <2>3
<1>6. ASSUME put_block PROVE ConnectLive'
  <2>1. \A b \in DOMAIN block :
           /\ b # NONE /\ block[b].dev \in DEVICE
           /\ block[b].conn \in {"open", "null", "closed"}
    BY BlockTypes
  <2> QED BY <1>6, <2>1 DEF ConnectLive, Plugged, Nulls, Fresh, Blocks,
       BlockOrNone, put_block, Simple, bus, main, async, count
<1>7. ASSUME onConnect PROVE ConnectLive'
  BY <1>7 DEF ConnectLive, Plugged, onConnect, NONE, bus, main, count
<1>8. ASSUME check_list PROVE ConnectLive'
  BY <1>8 DEF ConnectLive, Plugged, check_list, AsyncFree, bus, main, count
<1>9. ASSUME check_report PROVE ConnectLive'
  BY <1>9 DEF ConnectLive, Plugged, check_report, more_devices, bus, main,
       count
<1>10. ASSUME NEW c \in CAMERA, open(c) PROVE ConnectLive'
  <2>1. PICK d \in DEVICE : Opens(c, d)
    BY <1>10, OpenCamera
  <2> QED BY <1>10, <2>1, MonitorAssumption DEF ConnectLive, Plugged, Blocks,
       BlockOrNone, Fresh, Simple, NONE, Opens, Grown, bus, main, async, count
<1>11. ASSUME (\E d \in DEVICE : \E what \in {"granted", "denied"} : answer(d,
            what)) \/ (\E d \in DEVICE : requestPermission(d)) \/ (\E d \in
            DEVICE : destroy_next(d)) \/ register \/ unregister \/
            receive_permission \/ receive_detached \/ report_detached \/
            destroy_ends \/ (\E t \in CLOSER : close_ends(t)) \/ (\E t \in
            CLOSER : close_nothing(t)) \/ (\E c \in CAMERA : close(c))
      PROVE  ConnectLive'
  <2>1. UNCHANGED <<asyncPc, asyncBlk, block, device, destroyed>>
    BY <1>11 DEF answer, requestPermission, processCancel, destroy_next,
       register, unregister, receive_permission, receive_detached,
       report_detached, destroy_ends, close_ends, close_nothing, close,
       release, bus, main, async, count
  <2> QED BY <2>1 DEF ConnectLive, Plugged
<1> QED BY <1>1, <1>2, <1>3, <1>4, <1>5, <1>6, <1>7, <1>8, <1>9, <1>10, <1>11
       DEF Next, MonitorNext

(* OriginalsInTable is kept.                                                *)
LEMMA OriginalsStep ==
    ASSUME IInv, Next
    PROVE  OriginalsInTable'
<1> USE DEF IInv
<1>1. ASSUME NEW d \in DEVICE, destroy_next(d) PROVE OriginalsInTable'
  <2>1. \A b \in DOMAIN block :
           /\ b # NONE /\ block[b].dev \in DEVICE
           /\ block[b].conn \in {"open", "null", "closed"}
    BY BlockTypes
  <2> QED BY <1>1, <2>1, MonitorAssumption DEF OriginalsInTable, Blocks,
       BlockOrNone, destroy_next, bus, main, async, count
<1>2. ASSUME receive_detached PROVE OriginalsInTable'
  <2>1. PICK d \in DEVICE : Detaches(d)
    BY <1>2, Detached
  <2> QED BY <1>2, <2>1, MonitorAssumption DEF OriginalsInTable, Closes,
       Blocks, BlockOrNone, NONE, Clones, Detaches, MainFree,
       receive_detached, bus, main, async, count
<1>3. ASSUME destroy_ends PROVE OriginalsInTable'
  <2>1. \A b \in DOMAIN block :
           /\ b # NONE /\ block[b].dev \in DEVICE
           /\ block[b].conn \in {"open", "null", "closed"}
    BY BlockTypes
  <2> QED BY <1>3, <2>1 DEF OriginalsInTable, Blocks, BlockOrNone,
       destroy_ends, bus, main, async, count
<1>4. ASSUME NEW t \in CLOSER, close_connection(t) PROVE OriginalsInTable'
  BY <1>4, ClosedBlock DEF OriginalsInTable, close_connection, NONE, bus,
       main, async, count
<1>5. ASSUME NEW t \in CLOSER, close_ends(t) PROVE OriginalsInTable'
  BY <1>5 DEF Blocks, OriginalsInTable, BlockOrNone, close_ends, NONE, bus,
       main, async, count
<1>6. ASSUME NEW t \in CLOSER, close_nothing(t) PROVE OriginalsInTable'
  BY <1>6 DEF OriginalsInTable, close_nothing, NONE, bus, main, async, count
<1>7. ASSUME run_connect PROVE OriginalsInTable'
  <2>1. PICK d \in DEVICE : Runs(d)
    BY <1>7, RunConnect
  <2> QED BY <1>7, <2>1, MonitorAssumption DEF OriginalsInTable, Blocks,
       BlockOrNone, NONE, Fresh, Simple, Runs, Grown, AsyncFree, run_connect,
       bus, main, async, count
<1>8. ASSUME put_block PROVE OriginalsInTable'
  <2>1. \A b \in DOMAIN block :
           /\ b # NONE /\ block[b].dev \in DEVICE
           /\ block[b].conn \in {"open", "null", "closed"}
    BY BlockTypes
  <2> QED BY <1>8, <2>1 DEF OriginalsInTable, Blocks, BlockOrNone, Fresh,
       put_block, bus, main, async, count
<1>9. ASSUME onConnect PROVE OriginalsInTable'
  BY <1>9 DEF OriginalsInTable, onConnect, NONE, bus, main, count
<1>10. ASSUME check_list PROVE OriginalsInTable'
  BY <1>10 DEF OriginalsInTable, check_list, AsyncFree, Plugged, bus, main,
       count
<1>11. ASSUME check_report PROVE OriginalsInTable'
  BY <1>11 DEF OriginalsInTable, check_report, more_devices, bus, main, count
<1>12. ASSUME NEW c \in CAMERA, open(c) PROVE OriginalsInTable'
  <2>1. PICK d \in DEVICE : Opens(c, d)
    BY <1>12, OpenCamera
  <2> QED BY <1>12, <2>1, MonitorAssumption DEF OriginalsInTable, Blocks,
       BlockOrNone, NONE, Fresh, Opens, Grown, bus, main, async, count
<1>13. ASSUME NEW c \in CAMERA, close(c) PROVE OriginalsInTable'
  <2>1. Shuts(c)
    BY <1>13, CloseCamera
  <2> QED BY <1>13, <2>1 DEF OriginalsInTable, Blocks, BlockOrNone, NONE,
       Shuts, bus, main, async, count
<1>14. ASSUME (\E d \in DEVICE : plug(d)) \/ (\E d \in DEVICE : unplug(d)) \/
            (\E d \in DEVICE : \E what \in {"granted", "denied"} : answer(d,
            what)) \/ (\E d \in DEVICE : requestPermission(d)) \/ register \/
            unregister \/ receive_permission \/ report_detached \/ destroy
      PROVE  OriginalsInTable'
  <2>1. UNCHANGED <<block, mCtrlBlocks, closing, asyncPc, asyncBlk, late>>
    BY <1>14 DEF plug, unplug, answer, requestPermission, processCancel,
       register, unregister, receive_permission, report_detached, destroy,
       bus, main, async, count
  <2> QED BY <2>1 DEF OriginalsInTable
<1> QED BY <1>1, <1>2, <1>3, <1>4, <1>5, <1>6, <1>7, <1>8, <1>9, <1>10, <1>11,
       <1>12, <1>13, <1>14 DEF Next, MonitorNext

(* A control block stays, as a clone or not.                                *)
LEMMA BlocksKept ==
    ASSUME IInv, MonitorNext
    PROVE  \A b \in DOMAIN block : b \in DOMAIN block' /\ block'[b].clone = block[b].clone
<1> USE DEF IInv
<1>1. CASE run_connect
  <2>1. PICK d \in DEVICE : Runs(d)
    BY <1>1, RunConnect
  <2> QED BY <2>1 DEF Runs, Grown
<1>2. ASSUME NEW t \in CLOSER, close_connection(t)
      PROVE  \A b \in DOMAIN block : b \in DOMAIN block' /\ block'[b].clone = block[b].clone
  BY <1>2, ClosedBlock
<1>3. CASE UNCHANGED block
  BY <1>3
<1>4. \/ run_connect \/ UNCHANGED block
      \/ \E t \in CLOSER : close_connection(t)
  BY DEF MonitorNext, plug, unplug, answer, requestPermission,
         destroy_next, register, unregister, receive_permission,
         receive_detached, report_detached, destroy, destroy_ends,
         close_ends, close_nothing, put_block, onConnect, check_list, check_report
<1> QED BY <1>1, <1>2, <1>3, <1>4

(* Only open and close change what belongs to the cameras.                  *)
LEMMA CamerasStep ==
    ASSUME IInv, Next
    PROVE  Cameras' /\ Owned' /\ CameraClones'
<1> USE DEF IInv
<1>1. CASE MonitorNext /\ UNCHANGED cvars
  <2>1. UNCHANGED <<mDeviceHandle, mFd, mUsbFs, mCtrlBlock, owner>>
    BY <1>1 DEF cvars
  <2>2. \A b \in DOMAIN block : b \in DOMAIN block' /\ block'[b].clone = block[b].clone
    BY <1>1, BlocksKept
  <2> QED BY <2>1, <2>2 DEF Cameras, Owned, CameraClones, BlockOrNone
<1>2. ASSUME NEW c \in CAMERA, open(c) PROVE Cameras' /\ Owned' /\ CameraClones'
  <2>1. PICK d \in DEVICE : Opens(c, d)
    BY <1>2, OpenCamera
  <2>2. connect(c)
    BY <1>2 DEF open
  <2>3. /\ mDeviceHandle' \in [CAMERA -> BOOLEAN] /\ mUsbFs' \in [CAMERA -> BOOLEAN]
        /\ mFd' \in [CAMERA -> FD] /\ owner' \in [FD -> CAMERA \cup {"free", "process"}]
    <3>1. mDeviceHandle' \in [CAMERA -> BOOLEAN]
      BY <2>2 DEF connect, Cameras
    <3>2. mUsbFs' \in [CAMERA -> BOOLEAN]
      BY <2>2 DEF connect, Cameras
    <3>3. mFd' \in [CAMERA -> FD]
      BY <2>2 DEF connect, Cameras
    <3>4. owner' \in [FD -> CAMERA \cup {"free", "process"}]
      BY <2>2 DEF connect, Cameras
    <3> QED BY <3>1, <3>2, <3>3, <3>4
  <2>4. mCtrlBlock' \in [CAMERA -> BlockOrNone']
    BY <2>1 DEF Opens, Grown, Cameras, BlockOrNone
  <2>5. Owned'
    BY <2>2, CameraAssumption DEF connect, dup, Free, Owned, Cameras
  <2>6. CameraClones'
    BY <2>1 DEF Opens, Grown, Cameras, CameraClones, BlockOrNone
  <2> QED BY <2>3, <2>4, <2>5, <2>6 DEF Cameras
<1>3. ASSUME NEW c \in CAMERA, close(c) PROVE Cameras' /\ Owned' /\ CameraClones'
  <2>1. release(c) /\ Shuts(c)
    BY <1>3, CloseCamera DEF close
  <2>2. /\ mDeviceHandle' \in [CAMERA -> BOOLEAN] /\ mUsbFs' \in [CAMERA -> BOOLEAN]
        /\ mFd' \in [CAMERA -> FD] /\ owner' \in [FD -> CAMERA \cup {"free", "process"}]
    <3>1. mDeviceHandle' \in [CAMERA -> BOOLEAN]
      BY <2>1 DEF release, Cameras
    <3>2. mUsbFs' \in [CAMERA -> BOOLEAN]
      BY <2>1 DEF release, Cameras
    <3>3. mFd' \in [CAMERA -> FD]
      BY <2>1, DescriptorAssumption DEF release, Cameras, FD
    <3>4. owner' \in [FD -> CAMERA \cup {"free", "process"}]
      BY <2>1 DEF release, Cameras
    <3> QED BY <3>1, <3>2, <3>3, <3>4
  <2>3. mCtrlBlock' \in [CAMERA -> BlockOrNone']
    BY <2>1 DEF Shuts, Cameras, BlockOrNone
  <2>4. Owned'
    BY <2>1 DEF release, Owned, Cameras
  <2>5. CameraClones'
    BY <2>1 DEF Shuts, Cameras, CameraClones
  <2> QED BY <2>2, <2>3, <2>4, <2>5 DEF Cameras
<1> QED BY <1>1, <1>2, <1>3 DEF Next

(* The connections and the table are as IInv says before anything happened. *)
LEMMA Initially == Init => IInv
<1> SUFFICES ASSUME Init PROVE IInv
  OBVIOUS
<1> USE DEF Init, MonitorInit
<1>1. Simple /\ Queues /\ Blocks
  <2>1. Simple
    <3>1. device \in [DEVICE -> {"unplugged", "plugged", "gone"}]
      OBVIOUS
    <3>2. calls \in 0 .. MAX_CALLS
      BY MonitorAssumption
    <3>3. {registered, destroyed, timer} \subseteq BOOLEAN
      OBVIOUS
    <3>4. {granted, asked, mHasPermissions, listed, posted, counted, outdated} \subseteq SUBSET DEVICE
      OBVIOUS
    <3> QED BY <3>1, <3>2, <3>3, <3>4 DEF Simple
  <2>2. Queues
    BY DEF Queues, INTENT
  <2>3. block \in Seq(RECORD) /\ Len(block) = 0 /\ DOMAIN block = {}
    BY EmptySeq, LenProperties
  <2>4. Blocks
    BY <2>3, MonitorAssumption DEF Blocks, BlockOrNone, NONE, RECORD
  <2> QED BY <2>1, <2>2, <2>4
<1>2. Cameras /\ Owned /\ CameraClones
  BY DescriptorAssumption DEF Cameras, Owned, CameraClones, BlockOrNone, FD, NONE
<1>3. Permitted /\ Clones /\ Closes /\ Fresh /\ InTable /\ Nulls
  BY MonitorAssumption DEF Permitted, Clones, Closes, Fresh, InTable, Nulls, NONE
<1>4. Counts /\ Departed
  BY FS_EmptySet DEF Counts, Departed
<1>5. ConnectLive /\ OriginalsInTable
  BY DEF ConnectLive, OriginalsInTable
<1> QED BY <1>1, <1>2, <1>3, <1>4, <1>5 DEF IInv

LEMMA Inductive == IInv /\ [Next]_vars => IInv'
<1> SUFFICES ASSUME IInv, [Next]_vars PROVE IInv'
  OBVIOUS
<1>1. CASE Next
  BY <1>1, SimpleStep, QueuesStep, BlocksStep, CamerasStep, PermittedStep,
     ClonesStep, ClosesStep, FreshStep, InTableStep, NullsStep, CountsStep,
     DepartedStep, ConnectLiveStep, OriginalsStep DEF IInv
<1>2. CASE UNCHANGED vars
  <2>1. /\ UNCHANGED <<device, granted, asked, intents, registered, destroyed, calls>>
        /\ UNCHANGED <<mainPc, mCtrlBlocks, mHasPermissions, mDeviceCounts, counted, outdated>>
        /\ UNCHANGED <<block, closing, tasks, timer, asyncPc, asyncBlk, listed>>
        /\ UNCHANGED <<offered, posted, late, mDeviceHandle, mFd, mUsbFs>>
        /\ UNCHANGED <<mCtrlBlock, owner>>
    BY <1>2 DEF vars, mvars, cvars, bus, main, async, count
  <2>2. (Simple /\ Queues /\ Blocks /\ Cameras /\ Owned /\ Permitted)'
    BY <2>1 DEF IInv, Simple, Queues, Blocks, Cameras, Owned, Permitted, BlockOrNone
  <2>3. (Clones /\ CameraClones /\ Closes /\ Fresh /\ InTable /\ Nulls /\ Counts)'
    BY <2>1 DEF IInv, Clones, CameraClones, Closes, Fresh, InTable, Nulls, Counts
  <2>4. (Departed /\ ConnectLive /\ OriginalsInTable)'
    BY <2>1 DEF IInv, Departed, detaching, ConnectLive, OriginalsInTable, Plugged
  <2> QED BY <2>2, <2>3, <2>4 DEF IInv
<1> QED BY <1>1, <1>2

\* The inductive invariant holds in every reachable state.
THEOREM Invariance == Spec => []IInv
BY Initially, Inductive, PTL DEF Spec

\* Every variable of the monitor and of the cameras keeps its type (all of
\* USBMonitor.java and UVCCamera.cpp that the model covers).
THEOREM ConnectionTypes == Spec => []TypeOK
<1>1. IInv => TypeOK
  <2> SUFFICES ASSUME IInv PROVE TypeOK
    OBVIOUS
  <2>1. IsFiniteSet(counted)
    BY MonitorAssumption, FS_Subset DEF IInv, Simple
  <2>2. mDeviceCounts \in Nat
    BY <2>1, FS_CardinalityType DEF IInv, Counts
  <2>3. MonitorTypeOK
    BY <2>2 DEF IInv, MonitorTypeOK, Simple, Queues, Blocks
  <2> QED BY <2>3 DEF IInv, TypeOK, Cameras
<1> QED BY Invariance, <1>1, PTL

\* A connected camera is the owner of the descriptor it notes, unless that is
\* descriptor 0 (UVCCamera::connect and release).
THEOREM DescriptorIsOwn == Spec => []OwnDescriptor
<1>1. IInv => OwnDescriptor
  BY DEF IInv, Owned, OwnDescriptor
<1> QED BY Invariance, <1>1, PTL

\* onConnect is called with a block that is connected, whose device has gone, or
\* of a destroyed monitor (processConnect).
THEOREM ConnectedBlockLives == Spec => []ConnectLive
<1>1. IInv => ConnectLive
  BY DEF IInv
<1> QED BY Invariance, <1>1, PTL

\* The monitor finds every open original to close it, except for the two ways
\* the property names (the table mCtrlBlocks).
THEOREM OriginalsKept == Spec => []OriginalsInTable
<1>1. IInv => OriginalsInTable
  BY DEF IInv
<1> QED BY Invariance, <1>1, PTL

\* A device that was counted and has gone without the count having been reset.
Uncounted == \E e \in counted : device[e] = "gone" /\ (detaching(e) \/ e \in outdated)

(* Counting is enough: a set with no more members than one it contains is it. *)
LEMMA CheckReports ==
    ASSUME IInv, Next, asyncPc = "check", asyncPc' = "idle", registered,
           NEW d \in listed
    PROVE  d \in posted' \/ Uncounted
<1> USE DEF IInv
<1>1. check_report
  BY DEF Next, MonitorNext, plug, unplug, answer, requestPermission,
         destroy_next, register, unregister, receive_permission,
         receive_detached, report_detached, destroy, destroy_ends,
         close_connection, close_ends, close_nothing, run_connect, put_block,
         onConnect, check_list, open, close, AsyncFree, async
<1>2. CASE more_devices
  BY <1>1, <1>2 DEF check_report
<1>3. CASE ~more_devices
  <2> SUFFICES ASSUME \A e \in counted : device[e] # "gone"
               PROVE  d \in posted'
    BY DEF Departed, Uncounted
  <2>1. counted \subseteq listed
    BY DEF Counts, Simple
  <2>2. IsFiniteSet(listed) /\ IsFiniteSet(counted)
    BY MonitorAssumption, FS_Subset DEF Simple
  <2>3. /\ Cardinality(listed) \in Nat /\ Cardinality(counted) \in Nat
        /\ Cardinality(listed) <= Cardinality(counted)
    BY <1>3, <2>2, FS_CardinalityType DEF more_devices, Counts
  <2>4. counted = listed
    BY <2>1, <2>2, <2>3, FS_Subset
  <2> QED BY <1>1, <1>3, <2>4 DEF Counts, check_report
<1> QED BY <1>2, <1>3

\* When the periodic check of a registered monitor ends, every device it listed
\* has been reported, unless one that was counted before has gone: its broadcast
\* is still to come, or had come before it was counted (mDeviceCheckRunnable).
THEOREM AttachesReported == Spec => AttachReported
<1>1. IInv /\ [Next]_vars =>
        [asyncPc = "check" /\ asyncPc' = "idle" /\ registered =>
          \A d \in listed : \/ d \in posted'
                            \/ \E e \in counted : /\ device[e] = "gone"
                                                  /\ detaching(e) \/ e \in outdated]_mvars
  BY CheckReports DEF vars, Uncounted
<1> QED BY Invariance, <1>1, PTL DEF Spec, AttachReported
============================================================================

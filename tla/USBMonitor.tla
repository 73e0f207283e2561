----------------------------- MODULE USBMonitor -----------------------------
(***************************************************************************)
(* USBMonitor and its control blocks.  The main thread registers, asks for *)
(* permissions, receives the broadcasts and destroys the monitor; the      *)
(* thread of mAsyncHandler opens the devices, checks periodically which    *)
(* are attached and runs the listener; other threads clone and close       *)
(* control blocks.  A UsbDevice names one stay of a device on the bus, so  *)
(* it is plugged in at most once.  onAttach, onDettach and onCancel run    *)
(* nothing but the application and are not queued here.                    *)
(***************************************************************************)
EXTENDS Naturals, FiniteSetsExt, SequencesExt

CONSTANTS
    DEVICE,         \* UsbDevice objects
    MAX_BLOCKS,     \* bound: control blocks ever made
    MAX_CALLS,      \* bound: calls of register and requestPermission
    CLOSER, Main    \* threads that close control blocks; Main is the main one

ASSUME MonitorAssumption == /\ IsFiniteSet(DEVICE)
                            /\ MAX_BLOCKS \in Nat
                            /\ MAX_CALLS \in Nat
                            /\ Main \in CLOSER

NONE  == 0

VARIABLES
    device, granted, asked,     \* the bus and the permissions of the system
    intents,                    \* broadcasts on their way to the receiver
    registered, destroyed, calls, mainPc,
    mCtrlBlocks, mHasPermissions, mDeviceCounts,
    block,                      \* the control blocks made so far
    closing,                    \* the block whose close() a thread is inside
    tasks, timer,               \* devices to connect on mAsyncHandler; the check
    asyncPc, asyncBlk, listed,
    offered,                    \* blocks the application got by onConnect
    posted, counted, outdated,  \* history: devices reported by a check; the
                                \* list mDeviceCounts was taken from; those
                                \* whose departure had been handled by then
    late                        \* history: blocks put while destroy runs

bus     == <<device, granted, asked>>
main    == <<registered, destroyed, calls, mainPc>>
async   == <<asyncPc, asyncBlk, listed>>
count   == <<mDeviceCounts, counted, outdated>>
mvars == <<bus, intents, main, mCtrlBlocks, mHasPermissions, count, block,
           closing, tasks, timer, async, offered, posted, late>>

INTENT == {"granted", "denied", "detached"}

MonitorInit ==
    /\ device = [d \in DEVICE |-> "unplugged"] /\ granted = {} /\ asked = {}
    /\ intents = <<>>
    /\ registered = FALSE /\ destroyed = FALSE /\ calls = 0 /\ mainPc = "idle"
    /\ mCtrlBlocks = [d \in DEVICE |-> NONE] /\ mHasPermissions = {}
    /\ mDeviceCounts = 0 /\ counted = {} /\ outdated = {}
    /\ block = <<>> /\ closing = [t \in CLOSER |-> NONE]
    /\ tasks = <<>> /\ timer = FALSE
    /\ asyncPc = "idle" /\ asyncBlk = NONE /\ listed = {}
    /\ offered = {} /\ posted = {} /\ late = {}

Plugged == {d \in DEVICE : device[d] = "plugged"}

\* The connection UsbManager.openDevice gives for d.
connection(d) == IF d \in Plugged /\ d \in granted THEN "open" ELSE "null"

\* One more control block, of device d.
new_block(d, clone) ==
    /\ Len(block) < MAX_BLOCKS
    /\ block' = Append(block, [dev |-> d, conn |-> connection(d), clone |-> clone])

broadcast(what, d) ==
    intents' = IF registered THEN Append(intents, [what |-> what, dev |-> d]) ELSE intents

\* The broadcast that d was removed has not been handled yet.
detaching(d) == \E i \in DOMAIN intents : intents[i] = [what |-> "detached", dev |-> d]

-----------------------------------------------------------------------------
(* The system.                                                             *)

plug(d) ==
    /\ device[d] = "unplugged"
    /\ device' = [device EXCEPT ![d] = "plugged"]
    /\ UNCHANGED <<granted, asked, intents, main, mCtrlBlocks, mHasPermissions,
                   count, block, closing, tasks, timer, async, offered, posted, late>>

unplug(d) ==
    /\ device[d] = "plugged"
    /\ device' = [device EXCEPT ![d] = "gone"]
    /\ granted' = granted \ {d} /\ asked' = asked \ {d}
    /\ broadcast("detached", d)
    /\ UNCHANGED <<main, mCtrlBlocks, mHasPermissions, count, block, closing,
                   tasks, timer, async, offered, posted, late>>

answer(d, what) ==
    /\ d \in asked
    /\ asked' = asked \ {d}
    /\ granted' = IF what = "granted" THEN granted \cup {d} ELSE granted
    /\ broadcast(what, d)
    /\ UNCHANGED <<device, main, mCtrlBlocks, mHasPermissions, count, block,
                   closing, tasks, timer, async, offered, posted, late>>

-----------------------------------------------------------------------------
(* The main thread.                                                        *)

MainFree == mainPc = "idle" /\ ~destroyed

register ==
    /\ MainFree /\ ~registered /\ calls < MAX_CALLS
    /\ registered' = TRUE /\ calls' = calls + 1
    /\ mDeviceCounts' = 0 /\ counted' = {} /\ outdated' = {}
    /\ timer' = TRUE
    /\ UNCHANGED <<bus, intents, destroyed, mainPc, mCtrlBlocks,
                   mHasPermissions, block, closing, tasks, async, offered,
                   posted, late>>

\* The pending check is removed, but one that runs posts itself again.
stop_monitoring ==
    /\ registered' = FALSE /\ intents' = <<>>
    /\ mDeviceCounts' = 0 /\ counted' = {} /\ outdated' = {}
    /\ timer' = FALSE

unregister ==
    /\ MainFree /\ registered
    /\ stop_monitoring
    /\ UNCHANGED <<bus, destroyed, calls, mainPc, mCtrlBlocks, mHasPermissions,
                   block, closing, tasks, async, offered, posted, late>>

processConnect(d) ==
    /\ mHasPermissions' = mHasPermissions \cup {d}
    /\ tasks' = IF destroyed THEN tasks ELSE Append(tasks, d)

processCancel(d) == mHasPermissions' = mHasPermissions \ {d} /\ UNCHANGED tasks

\* Asking the user may throw: then, too, the request is cancelled.
requestPermission(d) ==
    /\ MainFree /\ d \in Plugged /\ calls < MAX_CALLS
    /\ calls' = calls + 1
    /\ \/ registered /\ d \in granted /\ processConnect(d) /\ UNCHANGED asked
       \/ registered /\ d \notin granted /\ asked' = asked \cup {d}
          /\ UNCHANGED <<mHasPermissions, tasks>>
       \/ (registered => d \notin granted) /\ processCancel(d) /\ UNCHANGED asked
    /\ UNCHANGED <<device, granted, intents, registered, destroyed, mainPc,
                   mCtrlBlocks, count, block, closing, timer, async, offered,
                   posted, late>>

\* mUsbReceiver with the answer of the permission dialog.
receive_permission ==
    /\ MainFree /\ intents # <<>> /\ Head(intents).what # "detached"
    /\ IF Head(intents).what = "granted" THEN processConnect(Head(intents).dev)
                                         ELSE processCancel(Head(intents).dev)
    /\ intents' = Tail(intents)
    /\ UNCHANGED <<bus, main, mCtrlBlocks, count, block, closing, timer, async,
                   offered, posted, late>>

\* Faulty variant: the block is removed but not closed.
receive_detached_Open ==
    /\ MainFree /\ intents # <<>> /\ Head(intents).what = "detached"
    /\ mCtrlBlocks' = [mCtrlBlocks EXCEPT ![Head(intents).dev] = NONE]
    /\ mainPc' = "detached"
    /\ UNCHANGED <<bus, intents, registered, destroyed, calls, mHasPermissions,
                   count, block, closing, tasks, timer, async, offered, posted, late>>

\* mUsbReceiver when a device was removed: its entry goes, then it is closed.
receive_detached ==
    /\ MainFree /\ intents # <<>> /\ Head(intents).what = "detached"
    /\ LET d == Head(intents).dev
       IN  /\ mCtrlBlocks' = [mCtrlBlocks EXCEPT ![d] = NONE]
           /\ closing' = [closing EXCEPT ![Main] = mCtrlBlocks[d]]
    /\ mainPc' = "detached"
    /\ UNCHANGED <<bus, intents, registered, destroyed, calls, mHasPermissions,
                   count, block, tasks, timer, async, offered, posted, late>>

report_detached ==
    /\ mainPc = "detached" /\ closing[Main] = NONE
    /\ mDeviceCounts' = 0 /\ counted' = {} /\ outdated' = {}
    /\ intents' = Tail(intents) /\ mainPc' = "idle"
    /\ UNCHANGED <<bus, registered, destroyed, calls, mCtrlBlocks,
                   mHasPermissions, block, closing, tasks, timer, async,
                   offered, posted, late>>

destroy ==
    /\ MainFree
    /\ stop_monitoring
    /\ destroyed' = TRUE /\ mainPc' = "destroy"
    /\ UNCHANGED <<bus, calls, mCtrlBlocks, mHasPermissions, block, closing,
                   tasks, async, offered, posted, late>>

destroy_next(d) ==
    /\ mainPc = "destroy" /\ closing[Main] = NONE
    /\ mCtrlBlocks[d] # NONE
    /\ mCtrlBlocks' = [mCtrlBlocks EXCEPT ![d] = NONE]
    /\ closing' = [closing EXCEPT ![Main] = mCtrlBlocks[d]]
    /\ UNCHANGED <<bus, intents, main, mHasPermissions, count, block, tasks,
                   timer, async, offered, posted, late>>

\* The loop may miss what is put meanwhile.  Then the table is cleared and the
\* looper is asked to quit: what is posted never runs.
destroy_ends ==
    /\ mainPc = "destroy" /\ closing[Main] = NONE
    /\ \A d \in DEVICE : mCtrlBlocks[d] \in {NONE} \cup late
    /\ mCtrlBlocks' = [d \in DEVICE |-> NONE]
    /\ tasks' = <<>> /\ timer' = FALSE
    /\ mainPc' = "destroyed"
    /\ UNCHANGED <<bus, intents, registered, destroyed, calls, mHasPermissions,
                   count, block, closing, async, offered, posted, late>>

-----------------------------------------------------------------------------
(* Control blocks.                                                         *)

\* Faulty variant: clones share the connection of the original.
close_connection_Shared(t) ==
    /\ closing[t] # NONE /\ block[closing[t]].conn = "open"
    /\ block' = [b \in DOMAIN block |->
                    IF block[b].dev = block[closing[t]].dev
                    THEN [block[b] EXCEPT !.conn = "closed"] ELSE block[b]]
    /\ UNCHANGED <<bus, intents, main, mCtrlBlocks, mHasPermissions, count,
                   closing, tasks, timer, async, offered, posted, late>>

\* UsbControlBlock.close up to the callback; nothing for a closed one.
close_connection(t) ==
    /\ closing[t] # NONE /\ block[closing[t]].conn = "open"
    /\ block' = [block EXCEPT ![closing[t]].conn = "closed"]
    /\ UNCHANGED <<bus, intents, main, mCtrlBlocks, mHasPermissions, count,
                   closing, tasks, timer, async, offered, posted, late>>

\* The entry of the device goes, whichever block it is.
close_ends(t) ==
    /\ closing[t] # NONE /\ block[closing[t]].conn = "closed"
    /\ mCtrlBlocks' = [mCtrlBlocks EXCEPT ![block[closing[t]].dev] = NONE]
    /\ closing' = [closing EXCEPT ![t] = NONE]
    /\ UNCHANGED <<bus, intents, main, mHasPermissions, count, block, tasks,
                   timer, async, offered, posted, late>>

close_nothing(t) ==
    /\ closing[t] # NONE /\ block[closing[t]].conn = "null"
    /\ closing' = [closing EXCEPT ![t] = NONE]
    /\ UNCHANGED <<bus, intents, main, mCtrlBlocks, mHasPermissions, count,
                   block, tasks, timer, async, offered, posted, late>>

-----------------------------------------------------------------------------
(* The thread of mAsyncHandler.                                            *)

AsyncFree == asyncPc = "idle" /\ mainPc # "destroyed"

run_connect ==
    /\ AsyncFree /\ tasks # <<>>
    /\ LET d == Head(tasks)
       IN  IF mCtrlBlocks[d] = NONE
           THEN /\ new_block(d, FALSE)
                /\ asyncBlk' = Len(block) + 1 /\ asyncPc' = "put"
           ELSE /\ asyncBlk' = mCtrlBlocks[d] /\ asyncPc' = "connect"
                /\ UNCHANGED block
    /\ tasks' = Tail(tasks)
    /\ UNCHANGED <<bus, intents, main, mCtrlBlocks, mHasPermissions, count,
                   closing, timer, listed, offered, posted, late>>

put_block ==
    /\ asyncPc = "put"
    /\ mCtrlBlocks' = [mCtrlBlocks EXCEPT ![block[asyncBlk].dev] = asyncBlk]
    /\ late' = IF mainPc = "destroy" THEN late \cup {asyncBlk} ELSE late
    /\ asyncPc' = "connect"
    /\ UNCHANGED <<bus, intents, main, mHasPermissions, count, block, closing,
                   tasks, timer, asyncBlk, listed, offered, posted>>

\* Faulty variant: the block is looked up again.
onConnect_LookedUp ==
    /\ asyncPc = "connect"
    /\ offered' = offered \cup {mCtrlBlocks[block[asyncBlk].dev]}
    /\ asyncPc' = "idle" /\ asyncBlk' = NONE
    /\ UNCHANGED <<bus, intents, main, mCtrlBlocks, mHasPermissions, count,
                   block, closing, tasks, timer, listed, posted, late>>

onConnect ==
    /\ asyncPc = "connect"
    /\ offered' = offered \cup {asyncBlk}
    /\ asyncPc' = "idle" /\ asyncBlk' = NONE
    /\ UNCHANGED <<bus, intents, main, mCtrlBlocks, mHasPermissions, count,
                   block, closing, tasks, timer, listed, posted, late>>

\* mDeviceCheckRunnable reads the list of devices ...
check_list ==
    /\ AsyncFree /\ timer /\ ~destroyed
    /\ timer' = FALSE
    /\ listed' = Plugged
    /\ asyncPc' = "check"
    /\ UNCHANGED <<bus, intents, main, mCtrlBlocks, mHasPermissions, count,
                   block, closing, tasks, asyncBlk, offered, posted, late>>

\* Faulty variant: only the permissions are compared.
more_devices_Permitted == Cardinality(listed \cap granted) > Cardinality(mHasPermissions)

\* There are more devices, or more permissions, than before.
more_devices == \/ Cardinality(listed) > mDeviceCounts
                \/ Cardinality(listed \cap granted) > Cardinality(mHasPermissions)

\* ... and has all of them reported if there are more.
check_report ==
    /\ asyncPc = "check"
    /\ mHasPermissions' = listed \cap granted
    /\ IF more_devices
       THEN /\ mDeviceCounts' = Cardinality(listed) /\ counted' = listed
            /\ outdated' = {d \in listed : device[d] = "gone" /\ ~detaching(d)}
            /\ posted' = posted \cup listed
       ELSE UNCHANGED <<count, posted>>
    /\ timer' = ~destroyed
    /\ asyncPc' = "idle" /\ listed' = {}
    /\ UNCHANGED <<bus, intents, main, mCtrlBlocks, block, closing, tasks,
                   asyncBlk, offered, late>>

-----------------------------------------------------------------------------
MonitorNext ==
    \/ \E d \in DEVICE : \/ plug(d) \/ unplug(d)
                         \/ answer(d, "granted") \/ answer(d, "denied")
                         \/ requestPermission(d) \/ destroy_next(d)
    \/ register \/ unregister \/ receive_permission \/ receive_detached
    \/ report_detached \/ destroy \/ destroy_ends
    \/ \E t \in CLOSER : close_connection(t) \/ close_ends(t) \/ close_nothing(t)
    \/ run_connect \/ put_block \/ onConnect
    \/ check_list \/ check_report

-----------------------------------------------------------------------------
BlockOrNone == {NONE} \cup DOMAIN block

MonitorTypeOK ==
    /\ device \in [DEVICE -> {"unplugged", "plugged", "gone"}]
    /\ {granted, asked, mHasPermissions, listed, posted, counted, outdated} \subseteq SUBSET DEVICE
    /\ intents \in Seq([what : INTENT, dev : DEVICE])
    /\ {registered, destroyed, timer} \subseteq BOOLEAN
    /\ calls \in 0 .. MAX_CALLS
    /\ mainPc \in {"idle", "detached", "destroy", "destroyed"}
    /\ block \in Seq([dev : DEVICE, conn : {"open", "null", "closed"}, clone : BOOLEAN])
    /\ Len(block) <= MAX_BLOCKS
    /\ mCtrlBlocks \in [DEVICE -> BlockOrNone]
    /\ closing \in [CLOSER -> BlockOrNone]
    /\ mDeviceCounts \in Nat
    /\ tasks \in Seq(DEVICE)
    /\ asyncPc \in {"idle", "put", "connect", "check"}
    /\ asyncBlk \in BlockOrNone
    /\ offered \subseteq DOMAIN block /\ late \subseteq DOMAIN block

\* A control block handed to the application by onConnect is connected, unless
\* the device has gone or the monitor was destroyed in the meantime.
ConnectLive ==
    asyncPc = "connect" =>
        \/ block[asyncBlk].conn = "open"
        \/ block[asyncBlk].dev \notin Plugged
        \/ destroyed

\* An open control block that is not a clone is where the monitor finds it to
\* close it.  It is lost only when the close of another block of the device,
\* such as the clone a camera made of it, took the entry away, or when it was
\* put into the table while destroy was going through it.
OriginalsInTable ==
    \A b \in DOMAIN block :
        block[b].conn = "open" /\ ~block[b].clone =>
            \/ mCtrlBlocks[block[b].dev] = b
            \/ asyncPc = "put" /\ asyncBlk = b
            \/ \E t \in CLOSER : closing[t] = b
            \/ b \in late
            \/ \E c \in DOMAIN block : /\ c # b /\ block[c].dev = block[b].dev
                                       /\ block[c].conn = "closed"

\* The check compares counts only, and while registered still misses no device:
\* when it has run, every device it listed has been reported, unless a device it
\* counted before has gone.  Then the broadcast of that one is still to come and
\* resets the count, or the count was written when it had already come: nothing
\* resets that one before another device leaves.
AttachReported ==
    [][asyncPc = "check" /\ asyncPc' = "idle" /\ registered =>
          \A d \in listed : \/ d \in posted'
                            \/ \E e \in counted : /\ device[e] = "gone"
                                                  /\ detaching(e) \/ e \in outdated]_mvars
=============================================================================

-------------------------- MODULE CameraConnection --------------------------
(***************************************************************************)
(* The UVCCamera objects on top of the monitor: open clones the control    *)
(* block onConnect offered and connects natively on a duplicate of its     *)
(* descriptor, close undoes both.  Each camera has a thread of its own.    *)
(***************************************************************************)
EXTENDS USBMonitor

CONSTANTS
    CAMERA,         \* UVCCamera objects
    MAX_FD          \* bound: descriptors dup can return

ASSUME CameraAssumption == /\ CAMERA \cup {Main} = CLOSER /\ Main \notin CAMERA
                           /\ {"free", "process"} \cap CAMERA = {}
ASSUME DescriptorAssumption == MAX_FD \in Nat

FD == 0 .. MAX_FD

VARIABLES
    mDeviceHandle, mFd, mUsbFs,     \* UVCCamera.cpp
    mCtrlBlock,                     \* UVCCamera.java
    owner                           \* whose each descriptor of the process is

cvars == <<mDeviceHandle, mFd, mUsbFs, mCtrlBlock, owner>>
vars == <<mvars, cvars>>

Init ==
    /\ MonitorInit
    /\ mDeviceHandle = [c \in CAMERA |-> FALSE]
    /\ mFd = [c \in CAMERA |-> 0]
    /\ mUsbFs = [c \in CAMERA |-> FALSE]
    /\ mCtrlBlock = [c \in CAMERA |-> NONE]
    /\ owner = [f \in FD |-> IF f = 0 THEN "process" ELSE "free"]

Free == {f \in FD : owner[f] = "free"}

\* dup returns the lowest descriptor that is free.
dup(fd) == fd \in Free /\ \A other \in Free : fd <= other

\* UVCCamera::connect with a descriptor: on success the camera owns a duplicate
\* of it, on failure the duplicate is closed again and mFd keeps its value.
connect(c) ==
    \/ /\ ~mDeviceHandle[c]
       /\ mUsbFs' = [mUsbFs EXCEPT ![c] = TRUE]
       /\ \E fd \in FD :
            /\ dup(fd)
            /\ mDeviceHandle' = [mDeviceHandle EXCEPT ![c] = TRUE]
            /\ mFd' = [mFd EXCEPT ![c] = fd]
            /\ owner' = [owner EXCEPT ![fd] = c]
    \/ /\ ~mDeviceHandle[c]
       /\ mUsbFs' = [mUsbFs EXCEPT ![c] = TRUE]
       /\ UNCHANGED <<mDeviceHandle, mFd, owner>>
    \/ /\ mDeviceHandle[c]
       /\ UNCHANGED <<mDeviceHandle, mFd, mUsbFs, owner>>

\* UVCCamera.open; the clone fails without device or permission.
open(c) ==
    /\ closing[c] = NONE
    /\ \E b \in offered :
         /\ connection(block[b].dev) = "open"
         /\ new_block(block[b].dev, TRUE)
    /\ mCtrlBlock' = [mCtrlBlock EXCEPT ![c] = Len(block) + 1]
    /\ connect(c)
    /\ UNCHANGED <<bus, intents, main, mCtrlBlocks, mHasPermissions, count,
                   closing, tasks, timer, async, offered, posted, late>>

\* Faulty variant: the descriptor stays noted after its close.
release_KeepsFd(c) ==
    /\ mDeviceHandle' = [mDeviceHandle EXCEPT ![c] = FALSE]
    /\ owner' = IF mUsbFs[c] THEN [owner EXCEPT ![mFd[c]] = "free"] ELSE owner
    /\ UNCHANGED <<mFd, mUsbFs>>

\* UVCCamera::release closes mFd whenever a connect has set mUsbFs.
release(c) ==
    /\ mDeviceHandle' = [mDeviceHandle EXCEPT ![c] = FALSE]
    /\ mUsbFs' = [mUsbFs EXCEPT ![c] = FALSE]
    /\ IF mUsbFs[c] THEN /\ owner' = [owner EXCEPT ![mFd[c]] = "free"]
                         /\ mFd' = [mFd EXCEPT ![c] = 0]
                    ELSE UNCHANGED <<owner, mFd>>

\* UVCCamera.close: the native release, then the close of the clone.
close(c) ==
    /\ closing[c] = NONE
    /\ release(c)
    /\ closing' = [closing EXCEPT ![c] = mCtrlBlock[c]]
    /\ mCtrlBlock' = [mCtrlBlock EXCEPT ![c] = NONE]
    /\ UNCHANGED <<bus, intents, main, mCtrlBlocks, mHasPermissions, count,
                   block, tasks, timer, async, offered, posted, late>>

Next == \/ MonitorNext /\ UNCHANGED cvars
        \/ \E c \in CAMERA : open(c) \/ close(c)

Spec == Init /\ [][Next]_vars

-----------------------------------------------------------------------------
TypeOK ==
    /\ MonitorTypeOK
    /\ mDeviceHandle \in [CAMERA -> BOOLEAN] /\ mUsbFs \in [CAMERA -> BOOLEAN]
    /\ mFd \in [CAMERA -> FD]
    /\ mCtrlBlock \in [CAMERA -> BlockOrNone]
    /\ owner \in [FD -> CAMERA \cup {"free", "process"}]

\* The descriptor of a connected camera is its own and stays open.  Descriptor 0
\* is the exception: a camera whose connect failed closes it on release.
OwnDescriptor ==
    \A c \in CAMERA : mDeviceHandle[c] /\ mFd[c] # 0 => owner[mFd[c]] = c
=============================================================================

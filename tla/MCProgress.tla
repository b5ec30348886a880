----------------------------- MODULE MCProgress ------------------------------
(***************************************************************************)
(* What must happen in the end, for TLC: pipes, system calls, NVMe,        *)
(* virtio, xHCI and the USB HID driver under the fairness each of them     *)
(* has. The parts share no state and every property is about one of them,  *)
(* so a behaviour moves one part and leaves the others where they begin.   *)
(***************************************************************************)
EXTENDS Integers, Sequences, TLC

CONSTANTS
    Parts,      \* the parts to be run
    MayStop,    \* the parts that may come to an end
    ta, tb, rd, wr, MinusOne, Null, NoThread

VARIABLES
    part,
    pipe_lock, buffer, capacity, event, reference_count, poll_status, freed, pipe_pc, size,
    delivered,
    process, live, kind, data, sys_pc, op, arg, calls, given, table, tableLock, installed,
    frames, ranges, fork,
    nvme_pc, boot, queue, current, answer, failed, enabled, ready, fatal, device,
    status, next, flags, owner, freeList, freeCount, virtio_lock, avail, availIndex, used,
    usedIndex, lastUsed, taken, devIndex, isr, events_read, virtio_pc, head, tail, i,
    answered, virtio_irq,
    trbs, enqueue, events, stage, xhci_pc, index, first, notified, controls, dequeue,
    running, ring, enq, ccs, eventRing, eint, ehb, xhci_irq,
    todo, call, at, usbDrivers, usbDevices, work, assigned, hidDevices, hid_lock, hidThread,
    place, sleep, polled, frame

pipeVars == <<pipe_lock, buffer, capacity, event, reference_count, poll_status, freed,
    pipe_pc, size, delivered>>
sysVars == <<process, live, kind, data, sys_pc, op, arg, calls, given, table, tableLock,
    installed, frames, ranges, fork>>
nvmeVars == <<nvme_pc, boot, queue, current, answer, failed, enabled, ready, fatal, device>>
virtioVars == <<status, next, flags, owner, freeList, freeCount, virtio_lock, avail,
    availIndex, used, usedIndex, lastUsed, taken, devIndex, isr, events_read, virtio_pc,
    head, tail, i, answered, virtio_irq>>
xhciVars == <<trbs, enqueue, events, stage, xhci_pc, index, first, notified, controls,
    dequeue, running, ring, enq, ccs, eventRing, eint, ehb, xhci_irq>>
hidVars == <<todo, call, at, usbDrivers, usbDevices, work, assigned, hidDevices, hid_lock,
    hidThread, place, sleep, polled, frame>>
vars == <<part, pipeVars, sysVars, nvmeVars, virtioVars, xhciVars, hidVars>>

(* One reader that wants all its bytes, and one that takes the first *)
Whole == INSTANCE Pipe WITH
    lock <- pipe_lock, pc <- pipe_pc, Readers <- {rd}, Writers <- {wr}, Bytes <- {1, 2},
    Garbage <- 0, Messages <- {<<1>>, <<2, 1>>}, PIPE_BUFFER_STEP <- 2, MaxSize <- 3,
    EventModulus <- 8, Nobody <- NoThread, ReadSizes <- {1, 2}, readFirstData <- FALSE

FirstData == INSTANCE Pipe WITH
    lock <- pipe_lock, pc <- pipe_pc, Readers <- {rd}, Writers <- {wr}, Bytes <- {1, 2},
    Garbage <- 0, Messages <- {<<1>>, <<2, 1>>}, PIPE_BUFFER_STEP <- 2, MaxSize <- 3,
    EventModulus <- 8, Nobody <- NoThread, ReadSizes <- {2}, readFirstData <- TRUE

OneProcess == ta :> 1 @@ tb :> 1
FileCalls == [t \in {ta, tb} |-> {"open", "close", "read", "write", "seek"}]
PipeCalls == ta :> {"open", "read"} @@ tb :> {"write"}

(* Two threads of a process that share its files; a reader and a writer of *)
(* a pipe                                                                  *)
Calls == INSTANCE Syscalls WITH
    pc <- sys_pc, Threads <- {ta, tb}, Home <- OneProcess, MAX_FILE_HANDLES <- 2,
    MAX_MODULE_SYSCALLS <- 2, Pids <- {1, 2}, Frames <- {}, Requests <- {}, UserPages <- 4,
    PAGE_SIZE <- 2, BASE_ALLOC_ADDRESS <- 1, MaxCalls <- 2, Free <- MinusOne,
    Nobody <- NoThread, Ops <- FileCalls, Kinds <- {"file"}, MaxNodes <- 3

PipeUsers == INSTANCE Syscalls WITH
    pc <- sys_pc, Threads <- {ta, tb}, Home <- OneProcess, MAX_FILE_HANDLES <- 2,
    MAX_MODULE_SYSCALLS <- 2, Pids <- {1, 2}, Frames <- {}, Requests <- {}, UserPages <- 4,
    PAGE_SIZE <- 2, BASE_ALLOC_ADDRESS <- 1, MaxCalls <- 2, Free <- MinusOne,
    Nobody <- NoThread, Ops <- PipeCalls, Kinds <- {"pipe"}, MaxNodes <- 1

(* Rings of three entries, which wrap during boot *)
Controller == INSTANCE Nvme WITH
    pc <- nvme_pc, Slots <- 3, Errors <- {6}, MaxCommands <- 8

(* A sender to the cursor queue beside the control queue, with rings of    *)
(* four                                                                    *)
Queue == INSTANCE Virtio WITH
    lock <- virtio_lock, pc <- virtio_pc, irq <- virtio_irq, Threads <- {ta},
    numQueues <- 2, QueueOf <- (ta :> 1), queueSize <- 4, IndexRange <- 8

(* A device is brought up with two control transfers and polled for ever. *)
Usb == INSTANCE Xhci WITH
    pc <- xhci_pc, irq <- xhci_irq, Size <- 8, EventSize <- 4,
    Prompt <- {"command", "bulk"}, MaxControls <- 1

(* A composite keyboard, a tablet and a device that HID does not take;     *)
(* drivers before and after HID                                            *)
Protocols == ("keyboard" :> <<1, 0>> @@ "tablet" :> <<0>> @@ "disk" :> <<80>>)
Ticks == ("keyboard" :> 2 @@ "tablet" :> 3 @@ "disk" :> 0)

Hid == INSTANCE UsbHid WITH
    lock <- hid_lock, Devices <- <<"keyboard", "tablet", "disk">>, Interfaces <- Protocols,
    Interval <- Ticks, Drivers <- <<"storage", "hid", "net">>

-----------------------------------------------------------------------------
ASSUME
    /\ Whole!PipeConstants
    /\ FirstData!PipeConstants
    /\ Calls!SyscallsConstants
    /\ PipeUsers!SyscallsConstants
    /\ Controller!NvmeConstants
    /\ Queue!VirtioConstants
    /\ Usb!XhciConstants
    /\ Hid!UsbHidConstants

Init ==
    /\ part \in Parts
    /\ CASE part = "pipe" -> Whole!Init
         [] OTHER -> FirstData!Init
    /\ CASE part = "syscalls" -> Calls!Init
         [] OTHER -> PipeUsers!Init
    /\ IF part = "nvme" THEN Controller!Init ELSE Controller!InitOn(FALSE)
    /\ Queue!Init
    /\ Usb!Init
    /\ Hid!Init

Next ==
    \/ /\ UNCHANGED part
       /\ CASE part = "pipe" -> Whole!Next
            [] part = "pipe first data" -> FirstData!Next
            [] OTHER -> UNCHANGED pipeVars
       /\ CASE part = "syscalls" -> Calls!Next
            [] part = "syscalls pipe" -> PipeUsers!Next
            [] OTHER -> UNCHANGED sysVars
       /\ IF part = "nvme" THEN Controller!Next ELSE UNCHANGED nvmeVars
       /\ IF part = "virtio" THEN Queue!Next ELSE UNCHANGED virtioVars
       /\ IF part = "xhci" THEN Usb!Next ELSE UNCHANGED xhciVars
       /\ IF part = "hid" THEN Hid!Next ELSE UNCHANGED hidVars
    \/ part \in MayStop /\ UNCHANGED vars

Spec == Init /\ [][Next]_vars

(* The fairness of each part, for the behaviours that move it: that of     *)
(* Pipe, Syscalls, Nvme, Virtio, Xhci and UsbHid.                          *)
PipeFair ==
    /\ WF_pipeVars(\/ part = "pipe" /\ Whole!ReadStep(rd)
                   \/ part = "pipe first data" /\ FirstData!ReadStep(rd))
    /\ SF_pipeVars(\/ part = "pipe" /\ Whole!LockRead(rd)
                   \/ part = "pipe first data" /\ FirstData!LockRead(rd))
    /\ SF_pipeVars(\/ part = "pipe" /\ Whole!Relock(rd)
                   \/ part = "pipe first data" /\ FirstData!Relock(rd))
    /\ WF_pipeVars(\/ part = "pipe" /\ Whole!Notify(wr)
                   \/ part = "pipe first data" /\ FirstData!Notify(wr))

SysFair ==
    \A t \in {ta, tb} :
        WF_sysVars(\/ part = "syscalls" /\ Calls!Step(t)
                   \/ part = "syscalls pipe" /\ PipeUsers!Step(t))

NvmeFair ==
    /\ WF_nvmeVars(part = "nvme" /\ Controller!Driver)
    /\ WF_nvmeVars(part = "nvme" /\ Controller!Power)
    /\ \A q \in {0, 1} : WF_nvmeVars(part = "nvme" /\ \E s \in {0, 6} : Controller!Execute(q, s))

VirtioFair ==
    /\ WF_virtioVars(part = "virtio" /\ Queue!Send(ta))
    /\ \A q \in {0, 1} : WF_virtioVars(part = "virtio" /\ Queue!DeviceTake(q))
    /\ \A q \in {0, 1}, d \in 0 .. 3 : WF_virtioVars(part = "virtio" /\ Queue!DeviceAnswer(q, d))
    /\ WF_virtioVars(part = "virtio" /\ Queue!Handler)

XhciFair ==
    /\ WF_xhciVars(part = "xhci" /\ Usb!InitThread) /\ WF_xhciVars(part = "xhci" /\ Usb!HidThread)
    /\ WF_xhciVars(part = "xhci" /\ Usb!Handler)
    /\ \A s \in {"command", "control", "bulk"} :
          WF_xhciVars(part = "xhci" /\ (Usb!Execute(s) \/ Usb!Stop(s)))

HidFair ==
    /\ SF_hidVars(part = "hid" /\ Hid!Loader) /\ WF_hidVars(part = "hid" /\ Hid!Poller)
    /\ WF_hidVars(part = "hid" /\ Hid!Tick)

FairSpec == Spec /\ PipeFair /\ SysFair /\ NvmeFair /\ VirtioFair /\ XhciFair /\ HidFair

-----------------------------------------------------------------------------
(* pipe_read, event_reset: a reader whose bytes have come, or whose peer   *)
(* is gone, returns, and its waits and resets never take the count of      *)
(* notifications below 0.                                                  *)
ReaderReturns == Whole!ReaderReturns /\ Whole!NoEventUnderflow

(* syscalls.c: a call that waits for a spinlock gets it. *)
LockedEventually == Calls!LockedEventually

(* nvme_send_command_and_wait: a command is answered or its caller gives   *)
(* up, and until a command has failed the status is that of the command    *)
(* itself, however often the ring wraps; nvme_init mounts a device only    *)
(* when its queues exist on a controller that runs.                        *)
NvmeAnswers ==
    /\ Controller!CommandReturns /\ Controller!StatusIsOwn
    /\ [](part = "nvme" => Controller!MountedMeansUsable)

(* virtio_irq_handler: a command that was begun is answered and its thread *)
(* goes on, and a change of the configuration is acknowledged.             *)
VirtioAnswers == Queue!CommandsReturn /\ Queue!EventsAcknowledged

(* xhci_send_command, xhci_send_control, xhci_send_bulk: every request is  *)
(* answered and its thread goes on; the controller never begins a control  *)
(* transfer that is not there up to its status stage, and xhci_irq_handler *)
(* never runs in vain.                                                     *)
UsbAnswers ==
    /\ Usb!RequestsReturn /\ Usb!TransfersWhole
    /\ [](part = "xhci" => Usb!DequeueValid)

(* usb_add_device, hid_probe, hid_thread: every device with a HID          *)
(* interface is taken once and polled for ever, no device in use is on the *)
(* stack of a call that has returned, and the loading thread gets through  *)
(* although the poller waits with the list locked.                         *)
HidPolls ==
    /\ part = "hid" => Hid!PolledForEver /\ Hid!LoadingEnds
    /\ [](part = "hid" => Hid!TakenOnce /\ Hid!PointersLive)
=============================================================================

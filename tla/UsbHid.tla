------------------------------- MODULE UsbHid -------------------------------
(***************************************************************************)
(* The USB core (modules/usb) and the HID driver (modules/usbhid): devices  *)
(* that the controller driver adds, drivers that register, the match of the *)
(* two in whichever order they come, and the thread that polls the devices  *)
(* the HID driver has taken.  Transfers are those of Xhci: a request is     *)
(* answered while its thread waits.  Time counts down: waitUntilTick minus  *)
(* TimerCounter is what a device still has to wait.                         *)
(***************************************************************************)
EXTENDS Integers, Sequences, SequencesExt, FiniteSets

CONSTANTS
    Devices,           \* devices, in the order the controller finds them
    Interfaces,        \* the protocols of the HID interfaces of a device
    Drivers,           \* HID and drivers that refuse what they are offered
    Interval           \* ticks between two polls of a device

UsbHidConstants ==
    /\ IsInjective(Devices) /\ Interfaces \in [ToSet(Devices) -> Seq(Nat)]
    /\ Interval \in [ToSet(Devices) -> Nat] /\ "hid" \in ToSet(Drivers)

VARIABLES
    todo,              \* modules and devices yet to come
    call, at,          \* the call the loading thread is in, its place in usbDevices
    usbDrivers, usbDevices,
    work,              \* what is left of the loops of probe_drivers
    assigned,          \* whether the probe under way has succeeded
    hidDevices, lock,  \* the list, its spinlock: its holder
    hidThread,         \* where the polling thread is; "none" before it exists
    place, sleep,      \* its place in the list, the ticks it will sleep
    polled,            \* the device it has polled in this step
    frame              \* the device whose usb_add_device has not returned

hid == <<hidThread, place, sleep, polled>>
core == <<todo, call, at, usbDrivers, usbDevices, work, assigned, frame>>
vars == <<core, hid, hidDevices, lock>>

Nobody == "nobody"
Forever == 1000000     \* timeToSleep of -1: no device has asked to be polled

Coming(kind, names) == [k \in DOMAIN names |-> [kind |-> kind, name |-> names[k]]]

(* kentry_threaded loads usb and xhci, then the drivers (these lines are    *)
(* commented out at present).                                               *)
LoadOrder == Coming("device", Devices) \o Coming("driver", Drivers)

Init ==
    /\ todo = LoadOrder /\ call = "idle" /\ at = 1
    /\ usbDrivers = <<>> /\ usbDevices = <<>>
    /\ work = <<>> /\ assigned = FALSE
    /\ hidDevices = <<>> /\ lock = Nobody
    /\ hidThread = "none" /\ place = 1 /\ sleep = 0 /\ polled = Nobody
    /\ frame = Nobody

-----------------------------------------------------------------------------
(* probe_drivers(device): every interface with every driver, unless the     *)
(* device is assigned.                                                      *)
Tasks(pointer) ==
    FlattenSeq([i \in DOMAIN Interfaces[pointer.dev] |->
        [d \in DOMAIN usbDrivers' |->
            [pointer |-> pointer, protocol |-> Interfaces[pointer.dev][i],
             driver |-> usbDrivers'[d]]]])

(* usb_add_device reads the descriptors into a copy on its stack and has it *)
(* probed there.                                                            *)
AddDevice ==
    /\ call = "idle" /\ todo # <<>> /\ Head(todo).kind = "device"
    /\ call' = "add" /\ frame' = Head(todo).name
    /\ assigned' = FALSE
    /\ UNCHANGED usbDrivers
    /\ work' = Tasks([dev |-> Head(todo).name, copy |-> "stack"])
    /\ todo' = Tail(todo)
    /\ UNCHANGED <<at, usbDevices, hid, hidDevices, lock>>

(* Then the copy on the list is made, and the call returns. *)
AddReturns ==
    /\ call = "add" /\ work = <<>>
    /\ usbDevices' = Append(usbDevices, [dev |-> frame, assigned |-> assigned])
    /\ frame' = Nobody /\ call' = "idle"
    /\ UNCHANGED <<todo, at, usbDrivers, work, assigned, hid, hidDevices, lock>>

(* usb_register_driver: the driver is put on the list and every device is   *)
(* probed.                                                                  *)
RegisterDriver ==
    /\ call = "idle" /\ todo # <<>> /\ Head(todo).kind = "driver"
    /\ usbDrivers' = Append(usbDrivers, Head(todo).name)
    /\ todo' = Tail(todo)
    /\ call' = "register" /\ at' = 1
    /\ UNCHANGED <<usbDevices, work, assigned, frame, hid, hidDevices, lock>>

(* Mutant: the loop stays at a device that is assigned. *)
StaysAtAssigned ==
    /\ call = "register" /\ at \in DOMAIN usbDevices /\ ~usbDevices[at].assigned
    /\ UNCHANGED <<usbDrivers, usbDevices>>
    /\ assigned' = FALSE
    /\ call' = "probe" /\ UNCHANGED at
    /\ work' = Tasks([dev |-> usbDevices[at].dev, copy |-> "heap"])
    /\ UNCHANGED <<todo, frame, hid, hidDevices, lock>>

(* Its loop comes to the next device. *)
RegisterNext ==
    /\ call = "register" /\ at \in DOMAIN usbDevices
    /\ UNCHANGED <<usbDrivers, usbDevices>>
    /\ assigned' = FALSE
    /\ IF usbDevices[at].assigned
       THEN at' = at + 1 /\ UNCHANGED <<call, work>>
       ELSE /\ call' = "probe" /\ UNCHANGED at
            /\ work' = Tasks([dev |-> usbDevices[at].dev, copy |-> "heap"])
    /\ UNCHANGED <<todo, frame, hid, hidDevices, lock>>

(* The probe of this device is over. *)
RegisterAssigns ==
    /\ call = "probe" /\ work = <<>>
    /\ usbDevices' = [usbDevices EXCEPT ![at].assigned = assigned]
    /\ call' = "register" /\ at' = at + 1
    /\ UNCHANGED <<todo, usbDrivers, work, assigned, frame, hid, hidDevices, lock>>

RegisterReturns ==
    /\ call = "register" /\ at \notin DOMAIN usbDevices
    /\ call' = "idle"
    /\ UNCHANGED <<todo, at, usbDrivers, usbDevices, work, assigned, frame, hid, hidDevices, lock>>

-----------------------------------------------------------------------------
(* One driver is tried with one interface: endpoints are set up, the        *)
(* configuration is chosen and the driver's probe is called.                *)

(* A driver other than HID, or an interface that is neither keyboard nor    *)
(* tablet: the probe says no.                                               *)
ProbeRefuses ==
    /\ work # <<>>
    /\ Head(work).driver # "hid" \/ Head(work).protocol \notin {0, 1}
    /\ work' = Tail(work)
    /\ UNCHANGED <<todo, call, at, usbDrivers, usbDevices, assigned, frame, hid, hidDevices, lock>>

(* test_hid_probe: the device is put on the list, under the list's lock,    *)
(* and the first one starts the thread.                                     *)
test_hid_probe ==
    LET w == Head(work) IN
    /\ work # <<>> /\ w.driver = "hid" /\ w.protocol \in {0, 1}
    /\ lock = Nobody
    /\ hidDevices' = Append(hidDevices,
           [usb |-> w.pointer, protocol |-> w.protocol, wait |-> 0, fresh |-> TRUE])
    /\ hidThread' = IF hidThread = "none" THEN "lock" ELSE hidThread
    /\ assigned' = TRUE
    /\ work' = Tail(work)
    /\ UNCHANGED <<todo, call, at, usbDrivers, usbDevices, frame, place, sleep, polled, lock>>

-----------------------------------------------------------------------------
(* hid_thread_handler *)

Lock ==
    /\ hidThread = "lock" /\ lock = Nobody
    /\ lock' = "hid" /\ hidThread' = "scan"
    /\ place' = 1 /\ sleep' = Forever /\ polled' = Nobody
    /\ UNCHANGED <<core, hidDevices>>

Lower(n) == IF n < sleep THEN n ELSE sleep

(* A device that is not due only bounds the sleep. *)
NotDue ==
    /\ hidThread = "scan" /\ place \in DOMAIN hidDevices
    /\ ~hidDevices[place].fresh /\ hidDevices[place].wait > 0
    /\ sleep' = Lower(hidDevices[place].wait)
    /\ place' = place + 1 /\ polled' = Nobody
    /\ UNCHANGED <<core, hidThread, hidDevices, lock>>

(* A report is fetched through device->usb with the lock held; the next is  *)
(* due one interval later.                                                  *)
Poll ==
    LET h == hidDevices[place]  n == Interval[h.usb.dev] IN
    /\ hidThread = "scan" /\ place \in DOMAIN hidDevices
    /\ h.fresh \/ h.wait = 0
    /\ polled' = h.usb.dev
    /\ hidDevices' = [hidDevices EXCEPT ![place].wait = n, ![place].fresh = (n = 0)]
    /\ sleep' = Lower(n)
    /\ place' = place + 1
    /\ UNCHANGED <<core, hidThread, lock>>

(* The end of the list: thread_sleep, unless there is nothing to wait for. *)
Unlock ==
    /\ hidThread = "scan" /\ place \notin DOMAIN hidDevices
    /\ lock' = Nobody /\ polled' = Nobody
    /\ hidThread' = IF sleep \in {0, Forever} THEN "lock" ELSE "sleep"
    /\ UNCHANGED <<core, place, sleep, hidDevices>>

Wake ==
    /\ hidThread = "sleep" /\ sleep = 0
    /\ hidThread' = "lock"
    /\ UNCHANGED <<core, place, sleep, polled, hidDevices, lock>>

(* The timer *)
Tick ==
    /\ \/ hidThread = "sleep" /\ sleep > 0
       \/ \E k \in DOMAIN hidDevices : hidDevices[k].wait > 0
    /\ sleep' = IF hidThread = "sleep" /\ sleep > 0 THEN sleep - 1 ELSE sleep
    /\ hidDevices' = [k \in DOMAIN hidDevices |->
           [hidDevices[k] EXCEPT !.wait = IF @ > 0 THEN @ - 1 ELSE 0]]
    /\ polled' = Nobody
    /\ UNCHANGED <<core, hidThread, place, lock>>

Loader ==
    \/ AddDevice \/ AddReturns \/ RegisterDriver \/ RegisterNext \/ RegisterAssigns
    \/ RegisterReturns \/ ProbeRefuses \/ test_hid_probe

Poller == Lock \/ NotDue \/ Poll \/ Unlock \/ Wake

Next == Loader \/ Poller \/ Tick

Spec == Init /\ [][Next]_vars

(* The threads and the timer run.  The loading thread spins for the list's  *)
(* lock, which is free whenever the poller sleeps.                          *)
FairSpec == Spec /\ SF_vars(Loader) /\ WF_vars(Poller) /\ WF_vars(Tick)

-----------------------------------------------------------------------------
(* Properties *)

(* In the order of LoadOrder, devices first, an interface is taken by the   *)
(* HID driver once, and not again when another driver registers.            *)
TakenOnce ==
    \A k, l \in DOMAIN hidDevices :
        hidDevices[k].usb.dev = hidDevices[l].usb.dev
          /\ hidDevices[k].protocol = hidDevices[l].protocol => k = l

(* A device that the polling thread may use is not on the stack of a call   *)
(* that has returned: devices are added before drivers are installed.       *)
PointersLive ==
    \A k \in DOMAIN hidDevices :
        hidDevices[k].usb.copy = "heap" \/ hidDevices[k].usb.dev = frame

(* Every device that has a HID interface is found, and once taken it is     *)
(* polled for ever.                                                         *)
PolledForEver ==
    \A d \in ToSet(Devices) :
        {0, 1} \cap ToSet(Interfaces[d]) # {} => []<>(polled = d)

(* The loading thread gets through, although the poller waits for transfers *)
(* with the list locked.                                                    *)
LoadingEnds == <>(todo = <<>> /\ call = "idle")
=============================================================================

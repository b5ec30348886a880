-------------------------------- MODULE Xhci --------------------------------
(***************************************************************************)
(* The xHCI driver of modules/xhci with one device: the thread that brings  *)
(* the device up sends commands and control transfers, then the HID thread  *)
(* polls its endpoint.  Requests go to the controller in rings of transfer  *)
(* request blocks (TRBs) whose cycle bit says who owns them; the controller *)
(* answers in the event ring, from which the interrupt handler wakes the    *)
(* thread that registered itself under the TRB's index.                     *)
(***************************************************************************)
EXTENDS Integers, Sequences, FiniteSets

CONSTANTS
    Size,              \* TRBs of a ring, the link included: 256
    EventSize,         \* TRBs of the event ring: 256
    Prompt,            \* rings on which the controller has stopped before more is sent
    MaxControls        \* bound: control transfers before the probe

XhciConstants ==
    /\ Size \in Nat \ 0 .. 3 /\ EventSize \in Nat \ {0, 1}
    /\ Prompt \subseteq {"command", "control", "bulk"} /\ MaxControls \in Nat

VARIABLES
    trbs,              \* cycle bit and kind of the TRBs of each ring
    enqueue,           \* segment->enqueue, as an index
    events,            \* segment->events: the thread registered, or Nobody
    stage,             \* how far xhci_init_device has come
    pc, index, first,  \* locals of the threads
    notified,          \* each thread's event.event
    controls,          \* control transfers sent
    dequeue, running,  \* the controller: its place in each ring, doorbell seen
    ring,              \* the event ring: cycle bit, ring and index
    enq, ccs,          \* the controller's place and cycle state in it
    eventRing,         \* the driver's: dequeue and cycle_state
    eint, ehb,         \* usbStatus bit 3; event handler busy
    irq                \* locals of xhci_irq_handler

segment == <<trbs, enqueue, events>>
threads == <<stage, pc, index, first, notified, controls>>
controller == <<dequeue, running, ring, enq, ccs, eint, ehb>>
vars == <<segment, threads, controller, eventRing, irq>>

Threads == {"init", "hid"}
Rings == {"command", "control", "bulk"}
Nobody == "nobody"
Positions == 0 .. Size - 1

(* xhci_init_segment: the last TRB is a link to the first; it belongs to    *)
(* the controller and does not toggle its cycle state.                      *)
xhci_init_segment ==
    [p \in Positions |-> [cycle |-> IF p = Size - 1 THEN 1 ELSE 0,
                          kind |-> IF p = Size - 1 THEN "link" ELSE "none"]]

IrqIdle == [pc |-> "idle", ring |-> "command", index |-> 0,
            told |-> FALSE, any |-> FALSE]

Init ==
    /\ trbs = [r \in Rings |-> xhci_init_segment]
    /\ enqueue = [r \in Rings |-> 0]
    /\ events = [r \in Rings |-> [p \in Positions |-> Nobody]]
    /\ stage = "enable"
    /\ pc = [t \in Threads |-> "idle"]
    /\ index = [t \in Threads |-> 0] /\ first = [p |-> 0, cycle |-> 0]
    /\ notified = [t \in Threads |-> 0] /\ controls = 0
    /\ dequeue = [r \in Rings |-> 0] /\ running = [r \in Rings |-> FALSE]
    /\ ring = [p \in 0 .. EventSize - 1 |-> [cycle |-> 0, ring |-> "command", index |-> 0]]
    /\ enq = 0 /\ ccs = 1
    /\ eventRing = [dequeue |-> 0, cycle_state |-> 1]
    /\ eint = FALSE /\ ehb = FALSE
    /\ irq = IrqIdle

Go(t, l) == pc' = [pc EXCEPT ![t] = l]

-----------------------------------------------------------------------------
(* Rings *)

(* xhci_get_trb: the place after p; the one before the link is the last. *)
NextPlace(p) == IF p + 1 = Size - 1 THEN 0 ELSE p + 1

(* xhci_fill_trb: the cycle bit is turned over, or left 0 for the first TRB *)
(* of a transfer.                                                           *)
Turned(r, p) == 1 - trbs[r][p].cycle

xhci_fill_trb(r, p, kind, isFirst) ==
    trbs' = [trbs EXCEPT ![r][p] =
                 [cycle |-> IF isFirst THEN 0 ELSE Turned(r, p), kind |-> kind]]

(* xhci_get_trb and xhci_fill_trb *)
Enqueue(r, kind, isFirst) ==
    /\ r \in Prompt => ~running[r]
    /\ xhci_fill_trb(r, enqueue[r], kind, isFirst)
    /\ enqueue' = [enqueue EXCEPT ![r] = NextPlace(@)]

Register(t, r, p) ==
    /\ events' = [events EXCEPT ![r][p] = t]
    /\ notified' = [notified EXCEPT ![t] = 0]

Bell(r) == running' = [running EXCEPT ![r] = TRUE]

Untouched == UNCHANGED <<dequeue, ring, enq, ccs, eint, ehb, eventRing, irq>>

-----------------------------------------------------------------------------
(* xhci_send_command: the TRB, the event, the doorbell *)

(* The commands of xhci_init_device and xhci_setup_endpoint *)
Command ==
    /\ pc["init"] = "idle" /\ stage \in {"enable", "address", "configure", "endpoint"}
    /\ index' = [index EXCEPT !["init"] = enqueue["command"]]
    /\ Enqueue("command", "command", FALSE)
    /\ Go("init", "command")
    /\ Untouched /\ UNCHANGED <<events, stage, first, notified, controls, running>>

CommandRegister ==
    /\ pc["init"] = "command"
    /\ Register("init", "command", index["init"])
    /\ Go("init", "bell")
    /\ Untouched /\ UNCHANGED <<trbs, enqueue, stage, index, first, controls, running>>

CommandBell ==
    /\ pc["init"] = "bell"
    /\ Bell("command") /\ Go("init", "await")
    /\ Untouched /\ UNCHANGED <<segment, stage, index, first, notified, controls>>

(* event_await returns: the stage ends.  xhci_enable_slot may have failed,  *)
(* or the port be one whose speed is not supported; the other results are   *)
(* not looked at.  The probe of the HID driver sets the endpoint up and     *)
(* sends a control transfer before it polls.                                *)
Await ==
    /\ pc["init"] = "await" /\ notified["init"] > 0
    /\ \/ stage = "enable" /\ stage' \in {"address", "failed"}
       \/ stage = "address" /\ stage' = "configure"
       \/ stage = "configure" /\ stage' = "device"
       \/ stage = "device" /\ stage' = IF controls < MaxControls THEN "device" ELSE "endpoint"
       \/ stage = "endpoint" /\ stage' = "probe"
       \/ stage = "probe" /\ stage' = "polled"
    /\ Go("init", "idle")
    /\ Untouched
    /\ UNCHANGED <<segment, index, first, notified, controls, running>>

-----------------------------------------------------------------------------
(* xhci_send_control, for usb_add_device and the probe of a driver *)

(* Mutant: the first TRB is given to the controller before the others are   *)
(* written.                                                                 *)
SetupGivenAway ==
    /\ pc["init"] = "idle" /\ stage \in {"device", "probe"}
    /\ first' = [p |-> enqueue["control"], cycle |-> Turned("control", enqueue["control"])]
    /\ Enqueue("control", "setup", FALSE)
    /\ controls' = controls + 1
    /\ Go("init", "setup")
    /\ Untouched /\ UNCHANGED <<events, stage, index, notified, running>>

SetupStage ==
    /\ pc["init"] = "idle" /\ stage \in {"device", "probe"}
    /\ first' = [p |-> enqueue["control"], cycle |-> Turned("control", enqueue["control"])]
    /\ Enqueue("control", "setup", TRUE)
    /\ controls' = controls + 1
    /\ Go("init", "setup")
    /\ Untouched /\ UNCHANGED <<events, stage, index, notified, running>>

(* Only when the request has a length. *)
DataStage ==
    /\ pc["init"] = "setup"
    /\ Enqueue("control", "data", FALSE)
    /\ Go("init", "data")
    /\ Untouched /\ UNCHANGED <<events, stage, index, first, notified, controls, running>>

StatusStage ==
    /\ pc["init"] \in {"setup", "data"}
    /\ Enqueue("control", "status", FALSE)
    /\ Go("init", "status")
    /\ Untouched /\ UNCHANGED <<events, stage, index, first, notified, controls, running>>

(* The event is registered behind the last TRB. *)
ControlRegister ==
    /\ pc["init"] = "status"
    /\ Register("init", "control", enqueue["control"])
    /\ Go("init", "first")
    /\ Untouched /\ UNCHANGED <<trbs, enqueue, stage, index, first, controls, running>>

(* The first TRB is given to the controller last. *)
ControlFirst ==
    /\ pc["init"] = "first"
    /\ trbs' = [trbs EXCEPT !["control"][first.p].cycle = IF first.cycle = 1 THEN 1 ELSE @]
    /\ Go("init", "ring")
    /\ Untouched
    /\ UNCHANGED <<enqueue, events, stage, index, first, notified, controls, running>>

ControlBell ==
    /\ pc["init"] = "ring"
    /\ Bell("control") /\ Go("init", "await")
    /\ Untouched /\ UNCHANGED <<segment, stage, index, first, notified, controls>>

-----------------------------------------------------------------------------
(* xhci_send_bulk once the endpoint is set up, by the probe and then by the *)
(* HID thread it has started; it holds segment->lock throughout.            *)

Bulk ==
    /\ pc["hid"] = "idle" /\ stage = "polled"
    /\ index' = [index EXCEPT !["hid"] = enqueue["bulk"]]
    /\ Enqueue("bulk", "normal", FALSE)
    /\ Go("hid", "filled")
    /\ Untouched /\ UNCHANGED <<events, stage, first, notified, controls, running>>

BulkRegister ==
    /\ pc["hid"] = "filled"
    /\ Register("hid", "bulk", enqueue["bulk"])
    /\ Go("hid", "bell")
    /\ Untouched /\ UNCHANGED <<trbs, enqueue, stage, index, first, controls, running>>

BulkBell ==
    /\ pc["hid"] = "bell"
    /\ Bell("bulk") /\ Go("hid", "await")
    /\ Untouched /\ UNCHANGED <<segment, stage, index, first, notified, controls>>

(* event_await returns; the TRB is cleared, its cycle bit with it. *)
BulkDone ==
    /\ pc["hid"] = "await" /\ notified["hid"] > 0
    /\ trbs' = [trbs EXCEPT !["bulk"][index["hid"]] = [cycle |-> 0, kind |-> "none"]]
    /\ Go("hid", "idle")
    /\ Untouched
    /\ UNCHANGED <<enqueue, events, stage, index, first, notified, controls, running>>

-----------------------------------------------------------------------------
(* The controller (external).  After a doorbell it works on a ring until it *)
(* meets a TRB it does not own; every TRB asks for an event.  An event sets *)
(* EINT unless the handler is busy, and then when the handler is done.      *)

Room == (enq + 1) % EventSize # eventRing.dequeue

Post(r, p) ==
    /\ ring' = [ring EXCEPT ![enq] = [cycle |-> ccs, ring |-> r, index |-> p]]
    /\ enq' = (enq + 1) % EventSize
    /\ ccs' = IF enq + 1 = EventSize THEN 1 - ccs ELSE ccs
    /\ eint' = (eint \/ ~ehb) /\ ehb' = TRUE

Execute(r) ==
    LET p == dequeue[r] IN
    /\ running[r] /\ trbs[r][p].cycle = 1
    /\ IF trbs[r][p].kind = "link"
       THEN dequeue' = [dequeue EXCEPT ![r] = 0] /\ UNCHANGED <<ring, enq, ccs, eint, ehb>>
       ELSE Room /\ Post(r, p) /\ dequeue' = [dequeue EXCEPT ![r] = p + 1]
    /\ UNCHANGED <<segment, threads, running, eventRing, irq>>

Stop(r) ==
    /\ running[r] /\ trbs[r][dequeue[r]].cycle = 0
    /\ running' = [running EXCEPT ![r] = FALSE]
    /\ UNCHANGED <<segment, threads, dequeue, ring, enq, ccs, eint, ehb, eventRing, irq>>

-----------------------------------------------------------------------------
(* xhci_irq_handler *)

IrqEnter ==
    /\ irq.pc = "idle" /\ eint
    /\ irq' = [IrqIdle EXCEPT !.pc = "event"]
    /\ UNCHANGED <<segment, threads, controller, eventRing>>

(* A command is registered under its own index, a transfer under the next. *)
EventIndex(e) ==
    IF e.ring = "command" THEN e.index
    ELSE IF e.index = Size - 2 THEN 0 ELSE e.index + 1

(* The next event, if it is the driver's: whoever is registered is told, *)
IrqEvent ==
    LET e == ring[eventRing.dequeue] IN
    /\ irq.pc = "event" /\ e.cycle = eventRing.cycle_state
    /\ LET t == events[e.ring][EventIndex(e)] IN
       /\ notified' = IF t = Nobody THEN notified ELSE [notified EXCEPT ![t] = @ + 1]
       /\ irq' = [pc |-> "clear", ring |-> e.ring, index |-> EventIndex(e),
                  told |-> t # Nobody, any |-> TRUE]
    /\ UNCHANGED <<segment, stage, pc, index, first, controls, controller, eventRing>>

(* and taken off the list; the handler goes on to the next place. *)
IrqClear ==
    /\ irq.pc = "clear"
    /\ events' = IF irq.told THEN [events EXCEPT ![irq.ring][irq.index] = Nobody] ELSE events
    /\ eventRing' = IF eventRing.dequeue + 1 = EventSize
                    THEN [dequeue |-> 0, cycle_state |-> 1 - eventRing.cycle_state]
                    ELSE [eventRing EXCEPT !.dequeue = @ + 1]
    /\ irq' = [irq EXCEPT !.pc = "event"]
    /\ UNCHANGED <<trbs, enqueue, threads, controller>>

(* No more events: EINT is acknowledged, *)
IrqStatus ==
    /\ irq.pc = "event" /\ ring[eventRing.dequeue].cycle # eventRing.cycle_state
    /\ eint' = FALSE
    /\ irq' = [irq EXCEPT !.pc = "dequeue"]
    /\ UNCHANGED <<segment, threads, dequeue, running, ring, enq, ccs, ehb, eventRing>>

(* then the dequeue pointer is written and the busy bit cleared; at events  *)
(* that have come since, the controller interrupts again.                   *)
IrqDequeue ==
    /\ irq.pc = "dequeue"
    /\ ehb' = (enq # eventRing.dequeue)
    /\ eint' = (eint \/ enq # eventRing.dequeue)
    /\ irq' = IrqIdle
    /\ UNCHANGED <<segment, threads, dequeue, running, ring, enq, ccs, eventRing>>

-----------------------------------------------------------------------------
InitThread ==
    \/ Command \/ CommandRegister \/ CommandBell \/ Await \/ SetupStage \/ DataStage
    \/ StatusStage \/ ControlRegister \/ ControlFirst \/ ControlBell

HidThread == Bulk \/ BulkRegister \/ BulkBell \/ BulkDone

Handler == IrqEnter \/ IrqEvent \/ IrqClear \/ IrqStatus \/ IrqDequeue

Next ==
    \/ InitThread \/ HidThread \/ Handler
    \/ \E r \in Rings : Execute(r) \/ Stop(r)
    \/ stage = "failed" /\ UNCHANGED vars

Spec == Init /\ [][Next]_vars

(* Threads are scheduled, the controller works on the rings it was told of, *)
(* and the handler runs when EINT is set.                                   *)
FairSpec ==
    /\ Spec /\ WF_vars(InitThread) /\ WF_vars(HidThread) /\ WF_vars(Handler)
    /\ \A r \in Rings : WF_vars(Execute(r) \/ Stop(r))

-----------------------------------------------------------------------------
(* Properties *)

(* When the controller comes to the first TRB of a control transfer the     *)
(* transfer is there up to its status stage, although it may have looked at *)
(* the ring while xhci_send_control was filling it.                         *)
TransfersWhole ==
    [][\A r \in Rings :
        LET p == dequeue[r] IN
        dequeue'[r] # p /\ trbs[r][p].kind = "setup" =>
            LET q == NextPlace(p) IN
            /\ trbs[r][q].cycle = 1
            /\ trbs[r][q].kind = "status" \/
                 (trbs[r][q].kind = "data" /\ trbs[r][NextPlace(q)].cycle = 1
                    /\ trbs[r][NextPlace(q)].kind = "status")]_vars

(* The handler never runs in vain: it would write 0 as the dequeue pointer. *)
DequeueValid == irq.pc = "dequeue" => irq.any

(* Every request is answered and its thread goes on, across the wraps of    *)
(* the event ring and of the endpoint's ring, which is polled for ever.     *)
RequestsReturn ==
    /\ \A t \in Threads : pc[t] # "idle" ~> pc[t] = "idle"
    /\ stage = "polled" ~> pc["hid"] = "await"
=============================================================================

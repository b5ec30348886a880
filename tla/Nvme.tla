-------------------------------- MODULE Nvme --------------------------------
(***************************************************************************)
(* The NVMe driver of kernel/devices/nvme.c down to its rings: bringing a  *)
(* controller up, then one read or write command after the other, each     *)
(* sent and waited for by polling.  The controller is a process of its     *)
(* own; it may refuse commands.  Queue 0 is for administration, queue 1    *)
(* for reads and writes.                                                   *)
(***************************************************************************)
EXTENDS Integers, Sequences

CONSTANTS
    Slots,         \* queue->size
    Errors,        \* status codes of refused commands
    MaxCommands    \* bound: commands on queue 1

NvmeConstants ==
    /\ Slots \in Nat \ {0, 1} /\ MaxCommands \in Nat
    /\ Errors \subseteq Nat \ {0}

Queues == {0, 1}
Entries == 0 .. Slots - 1

(* What nvme_init sends to queue 0, in its order *)
BootCommands == <<"identify", "namespace", "queue count", "create cq", "create sq">>

VARIABLES
    pc, boot,                       \* where the driver is; boot commands sent
    queue,                          \* the nvme_queue_t of both queues
    current,                        \* the command being waited for
    answer,                         \* the completion that was taken for it
    failed,                         \* queues on which a command has failed
    enabled, ready, fatal, device   \* the controller

driver == <<pc, boot, queue, current, answer, failed>>
controller == <<enabled, ready, fatal, device>>
vars == <<driver, controller>>

Completion(id, status, phase) == [id |-> id, status |-> status, phase |-> phase]

(* nvme_initialize_queue: the memory of both rings is zero. *)
nvme_initialize_queue ==
    [command |-> [i \in Entries |-> -1],
     result |-> [i \in Entries |-> Completion(-1, 0, 0)],
     sq_tail |-> 0, cq_head |-> 0, cq_phase |-> 1, command_id |-> 0, db |-> 0]

Fresh == [sq_head |-> 0, cq_tail |-> 0, phase |-> 1, exists |-> FALSE, completion |-> FALSE]

(* The firmware may have left the controller running. *)
InitOn(e) ==
    /\ pc = "disable" /\ boot = 0
    /\ queue = [q \in Queues |-> nvme_initialize_queue]
    /\ current = [q |-> 0, id |-> -1]
    /\ answer = Completion(-1, 0, 0)
    /\ failed = {}
    /\ enabled = e /\ ready = e /\ fatal = FALSE
    /\ device = [q \in Queues |-> Fresh]

Init == \E e \in BOOLEAN : InitOn(e)

Goto(l) == pc' = l

-----------------------------------------------------------------------------
(* nvme_init *)
Disable ==
    /\ pc = "disable"
    /\ enabled' = FALSE
    /\ Goto("wait down")
    /\ UNCHANGED <<boot, queue, current, answer, failed, ready, fatal, device>>

Enable ==
    /\ pc = "wait down" /\ ~ready
    /\ enabled' = TRUE
    /\ device' = [device EXCEPT ![0] = [Fresh EXCEPT !.exists = TRUE, !.completion = TRUE]]
    /\ Goto("wait up")
    /\ UNCHANGED <<boot, queue, current, answer, failed, ready, fatal>>

WaitReady ==
    /\ pc = "wait up"
    /\ \/ ready /\ Goto("boot")
       \/ ~ready /\ fatal /\ Goto("gave up")
    /\ UNCHANGED <<boot, queue, current, answer, failed, controller>>

-----------------------------------------------------------------------------
After(i) == IF i + 1 = Slots THEN 0 ELSE i + 1

(* nvme_send_command, with the id that nvme_send_command_and_wait gives *)
nvme_send_command(q) ==
    /\ current' = [q |-> q, id |-> queue[q].command_id]
    /\ queue' = [queue EXCEPT ![q].command[queue[q].sq_tail] = queue[q].command_id,
                              ![q].command_id = @ + 1,
                              ![q].db = After(queue[q].sq_tail),
                              ![q].sq_tail = After(@)]

SendBoot ==
    /\ pc = "boot" /\ boot < Len(BootCommands)
    /\ boot' = boot + 1
    /\ nvme_send_command(0)
    /\ Goto("wait")
    /\ UNCHANGED <<answer, failed, controller>>

(* devfs_mount: the device is there for everybody. *)
Mount ==
    /\ pc = "boot" /\ boot = Len(BootCommands)
    /\ Goto("mounted")
    /\ UNCHANGED <<boot, queue, current, answer, failed, controller>>

(* nvme_execute_read_write *)
SendReadWrite ==
    /\ pc = "mounted" /\ queue[1].command_id < MaxCommands
    /\ nvme_send_command(1)
    /\ Goto("wait")
    /\ UNCHANGED <<boot, answer, failed, controller>>

Polled == queue[current.q].result[queue[current.q].cq_head]

(* Mutant: the phase stays when the head wraps. *)
AdvanceKeepsPhase(q) ==
    queue' = [queue EXCEPT ![q].cq_head = After(@)]

(* The completion is consumed. *)
Advance(q) ==
    queue' = [queue EXCEPT ![q].cq_head = After(@),
                           ![q].cq_phase = IF After(queue[q].cq_head) = 0 THEN 1 - @ ELSE @]

(* What the callers do with the status *)
Returns(status) ==
    Goto(IF current.q = 1 THEN "mounted" ELSE IF status = 0 THEN "boot" ELSE "gave up")

(* nvme_send_command_and_wait: the poll that finds the expected phase.     *)
(* After an error the function returns before it advances.                 *)
Wait ==
    /\ pc = "wait" /\ Polled.phase = queue[current.q].cq_phase
    /\ answer' = Polled
    /\ \/ /\ Polled.status # 0
          /\ failed' = failed \cup {current.q} /\ UNCHANGED queue
       \/ /\ Polled.status = 0
          /\ Advance(current.q) /\ UNCHANGED failed
    /\ Returns(Polled.status)
    /\ UNCHANGED <<boot, current, controller>>

-----------------------------------------------------------------------------
(* The controller *)
Power ==
    /\ ready # enabled /\ ~fatal
    /\ \/ ready' = enabled /\ UNCHANGED fatal
       \/ enabled /\ fatal' = TRUE /\ UNCHANGED ready
    /\ UNCHANGED <<driver, enabled, device>>

Usable(q) == device[q].exists /\ device[q].completion /\ ready

(* It takes the next command, executes it and posts the completion, if     *)
(* the completion ring has room: result_db always equals cq_head.          *)
Execute(q, status) ==
    /\ Usable(q) /\ device[q].sq_head # queue[q].db
    /\ After(device[q].cq_tail) # queue[q].cq_head
    /\ LET c == device[q].cq_tail
           id == queue[q].command[device[q].sq_head]
           creates(what) == q = 0 /\ status = 0 /\ BootCommands[id + 1] = what
       IN  /\ queue' = [queue EXCEPT ![q].result[c] = Completion(id, status, device[q].phase)]
           /\ device' = [device EXCEPT
                 ![q].sq_head = After(@),
                 ![q].cq_tail = After(@),
                 ![q].phase = IF After(c) = 0 THEN 1 - @ ELSE @,
                 ![1].exists = @ \/ creates("create sq"),
                 ![1].completion = @ \/ creates("create cq")]
    /\ UNCHANGED <<pc, boot, current, answer, failed, enabled, ready, fatal>>

Driver == Disable \/ Enable \/ WaitReady \/ SendBoot \/ Mount \/ SendReadWrite \/ Wait
Controller == Power \/ \E q \in Queues, status \in Errors \cup {0} : Execute(q, status)
Next == Driver \/ Controller

(* The driver polls with interrupts on but is scheduled again and again,   *)
(* and the controller works through what it is given.                      *)
Fairness == WF_vars(Driver) /\ WF_vars(Power) /\
            \A q \in Queues : WF_vars(\E status \in Errors \cup {0} : Execute(q, status))
Spec == Init /\ [][Next]_vars
FairSpec == Spec /\ Fairness

-----------------------------------------------------------------------------
(* The status nvme_send_command_and_wait returns is that of the command    *)
(* it has sent, however often the ring wraps, as long as no command failed *)
(* before on the queue.                                                    *)
StatusIsOwn ==
    [][pc = "wait" /\ pc' # "wait" /\ current.q \notin failed => answer'.id = current.id]_vars

(* A device is only mounted when every step of nvme_init worked: the       *)
(* controller runs and both rings of queue 1 exist, so no read or write    *)
(* waits for a queue the controller does not know.                         *)
MountedMeansUsable ==
    pc = "mounted" \/ (pc = "wait" /\ current.q = 1) => Usable(1)

(* Every command returns: the poll sees the completion of the command, or  *)
(* that of an earlier failed one.                                          *)
CommandReturns == (pc = "wait") ~> (pc # "wait")
=============================================================================

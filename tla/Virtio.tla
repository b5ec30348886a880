------------------------------- MODULE Virtio -------------------------------
(***************************************************************************)
(* The split virtqueues of modules/virtio: threads of the GPU driver send   *)
(* commands of two descriptors (request, then response), the device takes   *)
(* them from the available ring and answers in the used ring, and the       *)
(* interrupt handler gives descriptors back.  Nothing is locked: a thread,  *)
(* the handler and the device interleave at every access to the shared      *)
(* fields.  A descriptor has a spinlock that is taken in advance, so that   *)
(* taking it again waits until the handler releases it.                     *)
(***************************************************************************)
EXTENDS Integers, Sequences, FiniteSets

CONSTANTS
    Threads,           \* threads that send commands
    numQueues,
    QueueOf,           \* the queue a thread sends to
    queueSize,
    IndexRange         \* 2^16 in the rings: where their indices wrap

VirtioConstants ==
    /\ numQueues \in Nat \ {0} /\ QueueOf \in [Threads -> 0 .. numQueues - 1]
    /\ queueSize \in Nat \ {0, 1} /\ IndexRange % queueSize = 0
    /\ queueSize < IndexRange

VARIABLES
    status,            \* deviceStatus, as the driver left it
    next, flags,       \* of each descriptor of each queue; NEXT is TRUE
    owner,             \* the thread whose command a descriptor's address names
    freeList, freeCount,
    lock,              \* descriptorsLock: 1 is free, 0 is taken
    avail, availIndex, \* available->rings, available->index
    used, usedIndex,   \* used->rings, used->index
    lastUsed,
    taken, devIndex,   \* the device: chains it works on, its place in avail
    isr,               \* isr_status: bits 0 and 1
    events_read,       \* a change in the device's configuration
    pc, head, tail, i, \* locals of the threads
    answered,          \* the device has written the response
    irq                \* locals of virtio_irq_handler

list == <<next, flags, freeList, freeCount>>
rings == <<avail, availIndex, used, usedIndex>>
device == <<taken, devIndex>>
locals == <<pc, head, tail, i>>
vars == <<status, list, owner, lock, rings, lastUsed, device, isr, events_read,
          locals, answered, irq>>

Queues == 0 .. numQueues - 1
Descriptors == 0 .. queueSize - 1
Nobody == "nobody"

(* queueMask is queueSize - 1: queueSize is a power of two. *)
Masked(n) == n % queueSize

Idle == [pc |-> "idle", q |-> 0, cur |-> 0, i |-> 0, j |-> 0, next |-> -1]

Init ==
    /\ status = "reset"
    /\ next = [q \in Queues |-> [d \in Descriptors |-> 0]]
    /\ flags = [q \in Queues |-> [d \in Descriptors |-> FALSE]]
    /\ owner = [q \in Queues |-> [d \in Descriptors |-> Nobody]]
    /\ freeList = [q \in Queues |-> 0] /\ freeCount = [q \in Queues |-> 0]
    /\ lock = [q \in Queues |-> [d \in Descriptors |-> 0]]
    /\ avail = [q \in Queues |-> [d \in Descriptors |-> 0]]
    /\ availIndex = [q \in Queues |-> 0]
    /\ used = [q \in Queues |-> [d \in Descriptors |-> 0]]
    /\ usedIndex = [q \in Queues |-> 0]
    /\ lastUsed = [q \in Queues |-> 0]
    /\ taken = [q \in Queues |-> {}] /\ devIndex = [q \in Queues |-> 0]
    /\ isr = {} /\ events_read = FALSE
    /\ pc = [t \in Threads |-> "start"]
    /\ head = [t \in Threads |-> 0] /\ tail = [t \in Threads |-> -1]
    /\ i = [t \in Threads |-> 0]
    /\ answered = [t \in Threads |-> FALSE]
    /\ irq = Idle

Go(t, l) == pc' = [pc EXCEPT ![t] = l]

-----------------------------------------------------------------------------
(* Set-up, before any command *)

(* virtio_init_device: the device is reset, told of a driver, given the     *)
(* features the driver asks for, and made ready if it accepts them.         *)
virtio_init_device ==
    /\ status = "reset"
    /\ \E accepted \in BOOLEAN : status' = IF accepted THEN "ready" ELSE "refused"
    /\ UNCHANGED <<list, owner, lock, rings, lastUsed, device, isr, events_read,
                   locals, answered, irq>>

(* The descriptor that follows d when each is put in front of the list. *)
Chained(d) == IF d = 0 THEN 0 ELSE d - 1

(* Mutant: the locks are left free. *)
LeftFree == 1

(* Every lock is taken in advance. *)
InitialLock == 0

(* virtio_setup_queue, for every queue: each descriptor is put in front of  *)
(* the free list, and its lock is taken.  (A refused device has no          *)
(* virtual_queues to put them in.)                                          *)
virtio_setup_queue ==
    /\ status = "ready"
    /\ status' = "enabled"
    /\ next' = [q \in Queues |-> [d \in Descriptors |-> Chained(d)]]
    /\ freeList' = [q \in Queues |-> queueSize - 1]
    /\ freeCount' = [q \in Queues |-> queueSize]
    /\ lock' = [q \in Queues |-> [d \in Descriptors |-> InitialLock]]
    /\ pc' = [t \in Threads |-> "idle"]
    /\ UNCHANGED <<flags, owner, rings, lastUsed, device, isr, events_read,
                   head, tail, i, answered, irq>>

-----------------------------------------------------------------------------
(* A thread sends a command and waits for its response. *)

(* virtio_allocate_descriptors(queue, 2); its callers do not look for NULL. *)
AllocCheck(t) ==
    LET q == QueueOf[t] IN
    /\ pc[t] = "idle"
    /\ Go(t, IF freeCount[q] < 2 THEN "fault" ELSE "read")
    /\ tail' = [tail EXCEPT ![t] = -1]
    /\ answered' = [answered EXCEPT ![t] = FALSE]
    /\ UNCHANGED <<status, list, owner, lock, rings, lastUsed, device, isr,
                   events_read, head, i, irq>>

(* One iteration of its loop: the head of the list is read, *)
AllocRead(t) ==
    /\ pc[t] = "read"
    /\ i' = [i EXCEPT ![t] = freeList[QueueOf[t]]]
    /\ Go(t, "pop")
    /\ UNCHANGED <<status, list, owner, lock, rings, lastUsed, device, isr,
                   events_read, head, tail, answered, irq>>

(* and taken off.  The first becomes the tail of the chain, the second, in  *)
(* front of it, its head.                                                   *)
AllocPop(t) ==
    LET q == QueueOf[t]  d == i[t]  first == tail[t] = -1 IN
    /\ pc[t] = "pop"
    /\ freeList' = [freeList EXCEPT ![q] = next[q][d]]
    /\ freeCount' = [freeCount EXCEPT ![q] = @ - 1]
    /\ flags' = [flags EXCEPT ![q][d] = ~first]
    /\ next' = [next EXCEPT ![q][d] = IF first THEN 0 ELSE tail[t]]
    /\ IF first
       THEN tail' = [tail EXCEPT ![t] = d] /\ Go(t, "read") /\ UNCHANGED head
       ELSE head' = [head EXCEPT ![t] = d] /\ Go(t, "fill") /\ UNCHANGED tail
    /\ UNCHANGED <<status, owner, lock, rings, lastUsed, device, isr,
                   events_read, i, answered, irq>>

(* send_command_response: the addresses of the request and of the response. *)
(* The tail is found again through next.                                    *)
Fill(t) ==
    LET q == QueueOf[t] IN
    /\ pc[t] = "fill"
    /\ flags' = [flags EXCEPT ![q][head[t]] = TRUE]
    /\ tail' = [tail EXCEPT ![t] = next[q][head[t]]]
    /\ owner' = [owner EXCEPT ![q] = [@ EXCEPT ![head[t]] = t, ![tail'[t]] = t]]
    /\ Go(t, "ring")
    /\ UNCHANGED <<status, next, freeList, freeCount, lock, rings, lastUsed,
                   device, isr, events_read, head, i, answered, irq>>

(* virtio_submit_chain: the slot, *)
SubmitRing(t) ==
    LET q == QueueOf[t] IN
    /\ pc[t] = "ring"
    /\ avail' = [avail EXCEPT ![q][Masked(availIndex[q])] = head[t]]
    /\ Go(t, "index")
    /\ UNCHANGED <<status, list, owner, lock, availIndex, used, usedIndex,
                   lastUsed, device, isr, events_read, head, tail, i, answered, irq>>

(* then the index; virtio_kick_queue tells the device to look. *)
SubmitIndex(t) ==
    LET q == QueueOf[t] IN
    /\ pc[t] = "index"
    /\ availIndex' = [availIndex EXCEPT ![q] = (@ + 1) % IndexRange]
    /\ Go(t, "wait")
    /\ UNCHANGED <<status, list, owner, lock, avail, used, usedIndex, lastUsed,
                   device, isr, events_read, head, tail, i, answered, irq>>

(* virtio_submit_descriptor takes the lock of the tail. *)
Wait(t) ==
    LET q == QueueOf[t] IN
    /\ pc[t] = "wait" /\ lock[q][tail[t]] = 1
    /\ lock' = [lock EXCEPT ![q][tail[t]] = 0]
    /\ Go(t, "link")
    /\ UNCHANGED <<status, list, owner, rings, lastUsed, device, isr,
                   events_read, head, tail, i, answered, irq>>

(* virtio_free_descriptor of the tail, in two accesses to the list *)
FreeLink(t) ==
    LET q == QueueOf[t] IN
    /\ pc[t] = "link"
    /\ next' = [next EXCEPT ![q][tail[t]] = freeList[q]]
    /\ Go(t, "push")
    /\ UNCHANGED <<status, flags, freeList, freeCount, owner, lock, rings, lastUsed,
                   device, isr, events_read, head, tail, i, answered, irq>>

FreePush(t) ==
    LET q == QueueOf[t] IN
    /\ pc[t] = "push"
    /\ freeList' = [freeList EXCEPT ![q] = tail[t]]
    /\ freeCount' = [freeCount EXCEPT ![q] = @ + 1]
    /\ Go(t, "idle")
    /\ UNCHANGED <<status, next, flags, owner, lock, rings, lastUsed, device, isr,
                   events_read, head, tail, i, answered, irq>>

-----------------------------------------------------------------------------
(* The device (external): it takes chains in the order of the ring, answers *)
(* them in any order and changes its configuration when it likes.           *)

DeviceTake(q) ==
    /\ status = "enabled" /\ devIndex[q] # availIndex[q]
    /\ taken' = [taken EXCEPT ![q] = @ \cup {avail[q][Masked(devIndex[q])]}]
    /\ devIndex' = [devIndex EXCEPT ![q] = (@ + 1) % IndexRange]
    /\ UNCHANGED <<status, list, owner, lock, rings, lastUsed, isr, events_read,
                   locals, answered, irq>>

DeviceAnswer(q, d) ==
    /\ d \in taken[q]
    /\ taken' = [taken EXCEPT ![q] = @ \ {d}]
    /\ answered' = IF owner[q][next[q][d]] = Nobody THEN answered
                   ELSE [answered EXCEPT ![owner[q][next[q][d]]] = TRUE]
    /\ used' = [used EXCEPT ![q][Masked(usedIndex[q])] = d]
    /\ usedIndex' = [usedIndex EXCEPT ![q] = (@ + 1) % IndexRange]
    /\ isr' = isr \cup {"queue"}
    /\ UNCHANGED <<status, list, owner, lock, avail, availIndex, lastUsed, devIndex,
                   events_read, locals, irq>>

DeviceConfig ==
    /\ status = "enabled" /\ ~events_read
    /\ events_read' = TRUE /\ isr' = isr \cup {"config"}
    /\ UNCHANGED <<status, list, owner, lock, rings, lastUsed, device, locals,
                   answered, irq>>

-----------------------------------------------------------------------------
(* virtio_irq_handler *)

(* virtiogpu_event_handler: with no queue or no descriptor it acknowledges  *)
(* a change of the configuration.                                           *)
virtiogpu_event_handler(queue, descriptor) ==
    events_read' = (events_read /\ ~(queue = -1 \/ descriptor = -1))

(* startIndex is an unsigned -1, which is never less than 1: it stays -1. *)
startIndex == -1

(* Reading isr_status clears it. *)
IrqEnter ==
    /\ irq.pc = "idle" /\ isr # {}
    /\ isr' = {}
    /\ IF "queue" \in isr
       THEN irq' = [Idle EXCEPT !.pc = "index"] /\ UNCHANGED events_read
       ELSE UNCHANGED irq /\ virtiogpu_event_handler(-1, -1)
    /\ UNCHANGED <<status, list, owner, lock, rings, lastUsed, device, locals, answered>>

(* The next queue: how far has the device come? *)
IrqIndex ==
    /\ irq.pc = "index"
    /\ irq' = [irq EXCEPT !.pc = "element", !.cur = Masked(usedIndex[irq.q]),
                          !.i = lastUsed[irq.q], !.j = 0]
    /\ UNCHANGED <<status, list, owner, lock, rings, lastUsed, device, isr,
                   events_read, locals, answered>>

(* An element of the used ring is the head of a chain; behind the last one  *)
(* the driver's event handler is called.                                    *)
IrqElement ==
    /\ irq.pc = "element"
    /\ IF irq.i # irq.cur
       THEN /\ irq' = [irq EXCEPT !.pc = "lock", !.j = used[irq.q][irq.i]]
            /\ UNCHANGED events_read
       ELSE /\ irq' = IF irq.q + 1 < numQueues
                      THEN [irq EXCEPT !.pc = "index", !.q = @ + 1] ELSE Idle
            /\ virtiogpu_event_handler(irq.q, startIndex)
    /\ UNCHANGED <<status, list, owner, lock, rings, lastUsed, device, isr,
                   locals, answered>>

(* A chain ends. *)
NextElement ==
    /\ lastUsed' = [lastUsed EXCEPT ![irq.q] = Masked(@ + 1)]
    /\ irq' = [irq EXCEPT !.pc = "element", !.i = Masked(@ + 1)]

(* Mutant: the last descriptor of a chain is not released. *)
NeverUnlocksTail ==
    LET q == irq.q  j == irq.j  n == IF flags[q][j] THEN next[q][j] ELSE -1 IN
    /\ irq.pc = "lock"
    /\ IF lock[q][j] = 0 /\ n < 0
       THEN NextElement /\ UNCHANGED lock
       ELSE /\ irq' = [irq EXCEPT !.pc = "link", !.next = n]
            /\ UNCHANGED <<lastUsed, lock>>
    /\ UNCHANGED <<status, list, owner, rings, device, isr, events_read, locals, answered>>

(* A descriptor of the chain.  One whose lock is taken is released, and if  *)
(* it is the last of its chain it is left to the thread that waits for it.  *)
IrqLock ==
    LET q == irq.q  j == irq.j  n == IF flags[q][j] THEN next[q][j] ELSE -1 IN
    /\ irq.pc = "lock"
    /\ lock' = [lock EXCEPT ![q][j] = 1]
    /\ IF lock[q][j] = 0 /\ n < 0
       THEN NextElement
       ELSE irq' = [irq EXCEPT !.pc = "link", !.next = n] /\ UNCHANGED lastUsed
    /\ UNCHANGED <<status, list, owner, rings, device, isr, events_read, locals, answered>>

(* The others go back to the free list, *)
IrqLink ==
    /\ irq.pc = "link"
    /\ next' = [next EXCEPT ![irq.q][irq.j] = freeList[irq.q]]
    /\ irq' = [irq EXCEPT !.pc = "push"]
    /\ UNCHANGED <<status, flags, freeList, freeCount, owner, lock, rings, lastUsed,
                   device, isr, events_read, locals, answered>>

(* in two accesses to it. *)
IrqPush ==
    /\ irq.pc = "push"
    /\ freeList' = [freeList EXCEPT ![irq.q] = irq.j]
    /\ freeCount' = [freeCount EXCEPT ![irq.q] = @ + 1]
    /\ IF irq.next < 0
       THEN NextElement
       ELSE irq' = [irq EXCEPT !.pc = "lock", !.j = irq.next] /\ UNCHANGED lastUsed
    /\ UNCHANGED <<status, next, flags, owner, lock, rings, device, isr, events_read,
                   locals, answered>>

Handler == IrqEnter \/ IrqIndex \/ IrqElement \/ IrqLock \/ IrqLink \/ IrqPush

Device == \E q \in Queues : DeviceTake(q) \/ \E d \in Descriptors : DeviceAnswer(q, d)

Send(t) ==
    \/ AllocRead(t) \/ AllocPop(t) \/ Fill(t) \/ SubmitRing(t) \/ SubmitIndex(t)
    \/ Wait(t) \/ FreeLink(t) \/ FreePush(t)

Next ==
    \/ virtio_init_device \/ virtio_setup_queue
    \/ \E t \in Threads : AllocCheck(t) \/ Send(t)
    \/ Device \/ DeviceConfig
    \/ Handler
    \/ status = "refused" /\ UNCHANGED vars

Spec == Init /\ [][Next]_vars

(* A thread in the driver keeps running and the device answers; the handler *)
(* runs when isr_status says so, on a CPU whose interrupts are on.          *)
FairSpec ==
    /\ Spec
    /\ \A t \in Threads : WF_vars(Send(t))
    /\ \A q \in Queues : WF_vars(DeviceTake(q))
    /\ \A q \in Queues, d \in Descriptors : WF_vars(DeviceAnswer(q, d))
    /\ WF_vars(Handler)

-----------------------------------------------------------------------------
(* Properties *)

(* "Lock the descriptor, so when locking again we need to wait until the    *)
(* response is received" (virtio_setup_queue): a thread that has come past  *)
(* virtio_submit_descriptor finds its response written.                     *)
WaitsForResponse ==
    \A t \in Threads : pc[t] \in {"link", "push"} => answered[t]

(* The descriptors on the free list of q: the first freeCount of them. *)
FreeSeq(q) ==
    LET f[k \in 1 .. queueSize] == IF k = 1 THEN freeList[q] ELSE next[q][f[k - 1]]
    IN  [k \in 1 .. freeCount[q] |-> f[k]]

(* The descriptors that a thread or the device still uses. *)
InUse(q) ==
    UNION {IF pc[t] \in {"fill", "ring", "index"} THEN {head[t], tail[t]}
           ELSE IF pc[t] \in {"wait", "link", "push"} \/ (pc[t] = "read" /\ tail[t] # -1)
                THEN {tail[t]} ELSE {} : t \in {u \in Threads : QueueOf[u] = q}}

(* Nobody is between two accesses to the free list of q. *)
ListAtRest(q) ==
    /\ \A t \in Threads : QueueOf[t] = q => pc[t] \notin {"pop", "push"}
    /\ ~(irq.q = q /\ irq.pc \in {"link", "push"})

(* The heads the handler has yet to free: sent, and not yet come to. *)
InFlight(q) ==
    {head[t] : t \in {u \in Threads : QueueOf[u] = q /\ pc[u] = "wait"
                                        /\ head[u] \notin {FreeSeq(q)[k] : k \in DOMAIN FreeSeq(q)}}}

(* With one sender to a queue no descriptor is lost or given out twice,     *)
(* although the thread and the handler give the two ends of a chain back    *)
(* without a lock: between two accesses to the free list every descriptor   *)
(* is either on it once or in a chain on its way.                           *)
DescriptorsConserved ==
    status = "enabled" =>
        \A q \in Queues : ListAtRest(q) =>
            LET free == {FreeSeq(q)[k] : k \in DOMAIN FreeSeq(q)} IN
            /\ freeCount[q] \in 0 .. queueSize
            /\ Cardinality(free) = freeCount[q]
            /\ free \cap InUse(q) = {}
            /\ free \cup InUse(q) \cup InFlight(q) = Descriptors

(* A command that was begun is answered and its thread goes on: no used     *)
(* element is overlooked, across all wraps of the rings.                    *)
CommandsReturn == \A t \in Threads : pc[t] = "read" ~> pc[t] = "idle"

(* A change of the configuration is acknowledged, also when it is reported  *)
(* together with used buffers.                                              *)
EventsAcknowledged == events_read ~> ~events_read
=============================================================================

------------------------------ MODULE VirtioGpu ------------------------------
(***************************************************************************)
(* The driver of modules/virtiogpu above its queues: threads open the node  *)
(* /dev/gpu, create resources on the device, attach their memory to them,   *)
(* show them on a scanout and flush what they draw.  To send a command, to  *)
(* execute it and to look at the response are three steps.  Once two        *)
(* threads had a command on the control queue at the same time, a command   *)
(* may come back before it is answered (Virtio, SharedWaits).  A picture is *)
(* the number of times its thread has drawn.                                *)
(***************************************************************************)
EXTENDS Integers, Sequences, SequencesExt, FiniteSets

CONSTANTS
    Threads,
    Nothing,           \* NULL
    FirstId,           \* where resourceAllocator begins: 15
    CursorId,          \* the resource _init makes: 2
    MaxId,             \* bound: the largest id an allocator gives out
    MaxResources,      \* bound: resources of each thread
    MaxDraws           \* bound: pictures each thread draws

GpuConstants ==
    /\ FirstId \in Nat /\ MaxId \in Nat /\ CursorId \in 1 .. FirstId - 1
    /\ MaxResources \in [Threads -> Nat] /\ MaxDraws \in [Threads -> Nat] /\ Nothing \notin Threads

VARIABLES
    boot,              \* how far _init has come
    reference,         \* each thread's virtgpu_node_reference_t, or Nothing
    resource,          \* the device: its resources by id
    scanout,           \* the device: the resource it shows, and the picture
    cursor,            \* the device: the resource of the cursor
    memory,            \* the picture in each thread's memory
    pc,
    cmd,               \* the command each thread waits for, and its answer
    due,               \* the picture and resource of each thread's last flush
    mixed,             \* two threads had commands on the queue at a time
    early,             \* a command came back before its answer
    late               \* that command, which the device still executes

device == <<resource, scanout>>
queue == <<mixed, early, late>>
vars == <<boot, reference, device, cursor, memory, pc, cmd, due, queue>>

Init ==
    /\ boot = "create"
    /\ reference = [t \in Threads |-> Nothing]
    /\ resource = [id \in {} |-> [backing |-> Nothing, host |-> 0]]
    /\ scanout = [id |-> 0, picture |-> 0] /\ cursor = 0
    /\ memory = [t \in Threads |-> 0]
    /\ pc = [t \in Threads |-> "idle"] /\ cmd = [t \in Threads |-> Nothing]
    /\ mixed = FALSE /\ early = FALSE /\ late = Nothing
    /\ due = [t \in Threads |-> [id |-> 0, picture |-> 0]]

-----------------------------------------------------------------------------
(* What the device does with a command (external).  It may refuse to make a *)
(* resource; it refuses an id that is in use or 0, a second backing, and a  *)
(* transfer from nowhere.                                                   *)

Exists(id) == id \in DOMAIN resource

With(id, r) == [x \in DOMAIN resource \cup {id} |-> IF x = id THEN r ELSE resource[x]]

Created(id) == ~Exists(id) /\ id # 0 /\ resource' = With(id, [backing |-> Nothing, host |-> 0])

Attachable(id) == Exists(id) /\ resource[id].backing = Nothing

Pixels(b) == IF b \in Threads THEN memory[b] ELSE 0

Transferable(id) == Exists(id) /\ resource[id].backing # Nothing

Transferred(id) == With(id, [resource[id] EXCEPT !.host = Pixels(resource[id].backing)])

Scanned(id) == [id |-> id, picture |-> resource[id].host]

Flushed(id) == IF scanout.id = id THEN Scanned(id) ELSE scanout

-----------------------------------------------------------------------------
(* _init shows a resource of its own before anybody can open the node, the  *)
(* only sender; it looks at no response.                                    *)

BootCreate ==
    /\ boot = "create" /\ boot' = "attach"
    /\ Created(CursorId) \/ UNCHANGED resource
    /\ UNCHANGED <<reference, scanout, cursor, memory, pc, cmd, due, queue>>

BootAttach ==
    /\ boot = "attach" /\ boot' = "scanout"
    /\ resource' = IF Attachable(CursorId)
                   THEN With(CursorId, [resource[CursorId] EXCEPT !.backing = "cframebuffer"])
                   ELSE resource
    /\ UNCHANGED <<reference, scanout, cursor, memory, pc, cmd, due, queue>>

BootScanout ==
    /\ boot = "scanout" /\ boot' = "transfer"
    /\ scanout' = IF Exists(CursorId) THEN Scanned(CursorId) ELSE scanout
    /\ UNCHANGED <<reference, resource, cursor, memory, pc, cmd, due, queue>>

BootTransfer ==
    /\ boot = "transfer" /\ boot' = "flush"
    /\ resource' = IF Transferable(CursorId) THEN Transferred(CursorId) ELSE resource
    /\ UNCHANGED <<reference, scanout, cursor, memory, pc, cmd, due, queue>>

BootFlush ==
    /\ boot = "flush" /\ boot' = "mount"
    /\ scanout' = IF Exists(CursorId) THEN Flushed(CursorId) ELSE scanout
    /\ UNCHANGED <<reference, resource, cursor, memory, pc, cmd, due, queue>>

(* The node appears in devfs. *)
BootMount ==
    /\ boot = "mount" /\ boot' = "mounted"
    /\ UNCHANGED <<reference, device, cursor, memory, pc, cmd, due, queue>>

-----------------------------------------------------------------------------
(* A context has an id and a resourceAllocator.  currentCtx is 0, the       *)
(* default context, or k, the memory of the k-th resource, whose word       *)
(* behind the structure is then the allocator.                              *)

(* gpu_open; a second one finds the thread's reference and fails. *)
gpu_open(t) ==
    /\ boot = "mounted" /\ reference[t] = Nothing /\ ~early
    /\ reference' = [reference EXCEPT ![t] =
           [resources |-> <<>>, currentResource |-> 0, currentCtx |-> 0,
            resourceAllocator |-> FirstId]]
    /\ UNCHANGED <<boot, device, cursor, memory, pc, cmd, due, queue>>

(* gpu_ioctl of a thread whose gpu_get_reference is r. *)
(* Bound: a command that came back early is the last call, for nothing is   *)
(* claimed of what follows.                                                 *)
Calls(t) == pc[t] = "idle" /\ cmd[t] = Nothing /\ reference[t] # Nothing /\ ~early

Resources(t) == reference[t].resources
Current(t) == Resources(t)[reference[t].currentResource]
HasCurrent(t) == reference[t].currentResource # 0

Allocator(t) ==
    LET c == reference[t].currentCtx IN
    IF c = 0 THEN reference[t].resourceAllocator ELSE Resources(t)[c].allocator

(* resourceAllocator++, whatever becomes of the command *)
Advanced(t) ==
    LET c == reference[t].currentCtx IN
    IF c = 0 THEN [reference[t] EXCEPT !.resourceAllocator = @ + 1]
    ELSE [reference[t] EXCEPT !.resources[c].allocator = @ + 1]

NewResource(id) == [id |-> id, backing |-> Nothing, allocator |-> 0]

(* send_command_response *)
Send(t, c) ==
    /\ cmd' = [cmd EXCEPT ![t] = c]
    /\ mixed' = (mixed \/ \E u \in Threads \ {t} : cmd[u] # Nothing)
    /\ UNCHANGED <<early, late>>

Command(op, id, b) == [op |-> op, id |-> id, backing |-> b, answer |-> "none"]

CREATE_RESOURCE_2D(t) ==
    /\ Calls(t) /\ Allocator(t) <= MaxId /\ Len(Resources(t)) < MaxResources[t]
    /\ reference' = [reference EXCEPT ![t] = Advanced(t)]
    /\ Send(t, Command("create", Allocator(t), Nothing))
    /\ UNCHANGED <<boot, device, cursor, memory, pc, due>>

(* The memory is the thread's picture, or other memory of its process. *)
RESOURCE_ATTACH_BACKING(t) ==
    /\ Calls(t) /\ HasCurrent(t)
    /\ \E b \in {t, <<t, "second">>} : Send(t, Command("attach", Current(t).id, b))
    /\ UNCHANGED <<boot, reference, device, cursor, memory, pc, due>>

SET_SCANOUT(t) ==
    /\ Calls(t) /\ HasCurrent(t)
    /\ Send(t, Command("scanout", Current(t).id, Nothing))
    /\ UNCHANGED <<boot, reference, device, cursor, memory, pc, due>>

(* list_get_indexed on the thread's resources; resources count from 0. *)
Indexed(t, index) == index + 1 \in DOMAIN Resources(t)

SetResource(t, index) ==
    IF Indexed(t, index)
    THEN reference' = [reference EXCEPT ![t].currentResource = index + 1]
    ELSE UNCHANGED reference

(* The end of an ioctl that has flushed the picture p. *)
Returns(t, id, p) ==
    /\ pc' = [pc EXCEPT ![t] = "idle"]
    /\ due' = [due EXCEPT ![t] = [id |-> id, picture |-> p]]

(* TRANSFER_AND_FLUSH: first the transfer, unless the caller does not want  *)
(* it,                                                                      *)
TRANSFER(t, notTransfer) ==
    LET id == Current(t).id IN
    /\ Calls(t) /\ HasCurrent(t)
    /\ IF notTransfer THEN UNCHANGED <<cmd, queue>> ELSE Send(t, Command("transfer", id, Nothing))
    /\ pc' = [pc EXCEPT ![t] = IF notTransfer THEN "flush" ELSE "transferred"]
    /\ due' = [due EXCEPT ![t] =
           [id |-> 0, picture |-> IF Exists(id) THEN Pixels(resource[id].backing) ELSE 0]]
    /\ UNCHANGED <<boot, reference, device, cursor, memory>>


(* then the flush, *)
FLUSH(t) ==
    /\ pc[t] \in {"transferred", "flush"} /\ cmd[t] = Nothing
    /\ Send(t, Command("flush", Current(t).id, Nothing))
    /\ UNCHANGED <<boot, reference, device, cursor, memory, pc, due>>

(* or, when the caller does not want that, the case behind it in the        *)
(* switch: the width of the picture is the index of a resource.             *)
NOT_FLUSH(t, width) ==
    /\ pc[t] \in {"transferred", "flush"} /\ cmd[t] = Nothing
    /\ SetResource(t, width)
    /\ Returns(t, 0, 0)
    /\ UNCHANGED <<boot, device, cursor, memory, cmd, queue>>

SET_RESOURCE_ID(t, index) ==
    /\ Calls(t)
    /\ SetResource(t, index)
    /\ UNCHANGED <<boot, device, cursor, memory, pc, cmd, due, queue>>

(* The context is looked for among the resources. *)
SET_CONTEXT_ID(t, index) ==
    /\ Calls(t) /\ Indexed(t, index)
    /\ reference' = [reference EXCEPT ![t].currentCtx = index + 1]
    /\ UNCHANGED <<boot, device, cursor, memory, pc, cmd, due, queue>>

(* A command of the cursor's queue; nobody looks at its response. *)
UPDATE_CURSOR(t, index) ==
    /\ Calls(t) /\ HasCurrent(t) /\ Indexed(t, index)
    /\ cursor' = Resources(t)[index + 1].id
    /\ UNCHANGED <<boot, reference, device, memory, pc, cmd, due, queue>>

-----------------------------------------------------------------------------
(* What becomes of a command *)

Accepts(c) ==
    CASE c.op = "create" -> ~Exists(c.id) /\ c.id # 0
      [] c.op = "attach" -> Attachable(c.id)
      [] c.op = "transfer" -> Transferable(c.id)
      [] OTHER -> Exists(c.id)

Effect(c) ==
    /\ resource' = CASE c.op = "create" -> With(c.id, [backing |-> Nothing, host |-> 0])
                     [] c.op = "attach" -> With(c.id, [resource[c.id] EXCEPT !.backing = c.backing])
                     [] c.op = "transfer" -> Transferred(c.id)
                     [] OTHER -> resource
    /\ scanout' = CASE c.op = "scanout" -> Scanned(c.id)
                    [] c.op = "flush" -> Flushed(c.id)
                    [] OTHER -> scanout

(* The device executes the command of t and answers it (external). *)
Execute(t) ==
    /\ cmd[t] # Nothing /\ cmd[t].answer = "none"
    /\ \/ Accepts(cmd[t]) /\ Effect(cmd[t]) /\ cmd' = [cmd EXCEPT ![t].answer = "ok"]
       \/ /\ ~Accepts(cmd[t]) \/ cmd[t].op = "create"
          /\ cmd' = [cmd EXCEPT ![t].answer = "error"] /\ UNCHANGED device
    /\ UNCHANGED <<boot, reference, cursor, memory, pc, due, queue>>

ExecuteLate ==
    /\ late # Nothing /\ late' = Nothing
    /\ IF Accepts(late) THEN Effect(late) ELSE UNCHANGED device
    /\ UNCHANGED <<boot, reference, cursor, memory, pc, cmd, due, mixed, early>>

(* What gpu_ioctl does once send_command_response is back, `ok` if it finds *)
(* VIRTIO_GPU_RESP_OK_NODATA in the response *)
After(t, ok) ==
    LET c == cmd[t]
        r == reference[t].currentResource
    IN  /\ cmd' = [cmd EXCEPT ![t] = Nothing]
        /\ reference' =
              CASE ok /\ c.op = "create" ->
                      [reference EXCEPT ![t].resources = Append(@, NewResource(c.id))]
                [] ok /\ c.op = "attach" ->
                      [reference EXCEPT ![t].resources[r].backing = c.backing]
                [] OTHER -> reference
        /\ CASE ok /\ c.op = "flush" /\ pc[t] = "transferred" -> Returns(t, c.id, due[t].picture)
             [] ok /\ c.op # "flush" -> UNCHANGED <<pc, due>>
             [] OTHER -> Returns(t, 0, 0)
        /\ UNCHANGED <<boot, device, cursor, memory, mixed>>

Receive(t) ==
    /\ cmd[t] # Nothing /\ cmd[t].answer # "none"
    /\ After(t, cmd[t].answer = "ok")
    /\ UNCHANGED <<early, late>>

(* The response is not written, or the memory it lies in has another's. *)
ReceiveEarly(t) ==
    /\ mixed /\ ~early /\ cmd[t] # Nothing /\ cmd[t].answer = "none"
    /\ \E ok \in BOOLEAN : After(t, ok)
    /\ early' = TRUE /\ late' = cmd[t]

(* The program draws in its memory. *)
Draw(t) ==
    /\ memory[t] < MaxDraws[t] /\ ~early
    /\ memory' = [memory EXCEPT ![t] = @ + 1]
    /\ UNCHANGED <<boot, reference, device, cursor, pc, cmd, due, queue>>

Next ==
    \/ BootCreate \/ BootAttach \/ BootScanout \/ BootTransfer \/ BootFlush \/ BootMount
    \/ \E t \in Threads :
        \/ gpu_open(t) \/ CREATE_RESOURCE_2D(t) \/ RESOURCE_ATTACH_BACKING(t)
        \/ SET_SCANOUT(t) \/ FLUSH(t) \/ Draw(t)
        \/ Execute(t) \/ Receive(t) \/ ReceiveEarly(t)
        \/ \E b \in BOOLEAN : TRANSFER(t, b)
        \/ \E n \in 0 .. MaxResources[t] :
            \/ NOT_FLUSH(t, n) \/ SET_RESOURCE_ID(t, n) \/ SET_CONTEXT_ID(t, n)
            \/ UPDATE_CURSOR(t, n)
    \/ ExecuteLate

Spec == Init /\ [][Next]_vars

-----------------------------------------------------------------------------
(* Properties *)

References == {t \in Threads : reference[t] # Nothing}

(* Although every opener's ids begin at the same number, and a resource may *)
(* have been made the context ids are taken from, no two resources of any   *)
(* openers are the same resource of the device, unless a command came back  *)
(* before its answer.                                                       *)
ResourcesApart ==
    ~early =>
        \A t, u \in References : \A k \in DOMAIN Resources(t), l \in DOMAIN Resources(u) :
            Resources(t)[k].id = Resources(u)[l].id => t = u /\ k = l

(* attachedBacking is what the device has: a refused ATTACH_BACKING leaves  *)
(* both alone.  It is so outside the ioctl, unless a command came back      *)
(* before its answer.                                                       *)
BackingAgrees ==
    ~early =>
        \A t \in References : cmd[t] = Nothing =>
            \A k \in DOMAIN Resources(t) :
                Resources(t)[k].backing = resource[Resources(t)[k].id].backing

(* After a TRANSFER_AND_FLUSH that returned 0 the scanout, while it shows   *)
(* that resource, shows what was drawn before the call or later drawings,   *)
(* whatever other openers did between the commands, unless one came back    *)
(* before its answer.                                                       *)
FlushShows ==
    ~early =>
        \A t \in Threads :
            pc[t] = "idle" /\ due[t].id # 0 /\ scanout.id = due[t].id
                => scanout.picture >= due[t].picture
=============================================================================

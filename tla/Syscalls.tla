------------------------------ MODULE Syscalls ------------------------------
(***************************************************************************)
(* The system calls of kernel/tasking/syscalls.c that work on a process:   *)
(* descriptors, memory, fork and the calls that modules install, made by   *)
(* threads that run at the same time.  A node is a file or the end of the  *)
(* one pipe there is; a read of the pipe waits, as in Pipe, with the       *)
(* process's file_handles_lock held.                                       *)
(***************************************************************************)
EXTENDS Integers, Sequences

CONSTANTS
    Threads, Pids,
    Home,               \* the process of each thread
    Ops,                \* [Threads -> the calls it makes]
    MAX_FILE_HANDLES,
    MAX_MODULE_SYSCALLS,
    Kinds,              \* kinds of nodes that kopen gives
    Frames,             \* physical frames for syscall_alloc
    Requests,           \* addresses that syscall_alloc is asked for, in pages
    UserPages,          \* bit 47 of an address, in pages
    PAGE_SIZE, BASE_ALLOC_ADDRESS,
    MaxNodes, MaxCalls, \* bounds: nodes opened; calls of each thread
    Free, Null,         \* (void *)-1 and NULL in a slot
    Nobody

Slots == 0 .. MAX_FILE_HANDLES - 1

(* process_t *)
Processes ==
    [handles : [Slots -> Nat \cup {Free, Null}], lock : Threads \cup {Nobody},
     alloc : Nat, allocLock : Threads \cup {Nobody}]

SyscallsConstants ==
    /\ Home \in [Threads -> Pids] /\ Pids \subseteq Nat /\ Nobody \notin Threads
    /\ MAX_FILE_HANDLES \in Nat \ {0} /\ MAX_MODULE_SYSCALLS \in Nat \ {0}
    /\ Free \notin Nat /\ Null \notin Nat /\ Free # Null
    /\ Null \notin Threads /\ Null \notin Processes
    /\ Requests \subseteq Nat \ {0} /\ UserPages \in Nat \ {0} /\ PAGE_SIZE \in Nat
    /\ BASE_ALLOC_ADDRESS \in Nat

VARIABLES
    process,            \* SchedulerProcesses; Null where there is none
    live, kind,         \* nodes that are allocated; kind of every node opened
    data,               \* bytes in the pipe
    pc, op, arg, calls, \* of each thread
    given,              \* history: <<pid, descriptor, node>> that open returned
    table, tableLock,   \* syscall_module_functions, syscall_function_lock
    installed,          \* history: installs that returned true
    frames,             \* frames that are free
    ranges,             \* history: <<thread, call, address, frame>> of allocations
    fork                \* of each thread: the new pid, the loop's i, the table at the start

files == <<live, kind, data, given>>
modules == <<table, tableLock, installed>>
memory == <<frames, ranges>>
vars == <<process, files, pc, op, arg, calls, modules, memory, fork>>

(* process_create *)
NewProcess == [handles |-> [f \in Slots |-> Free], lock |-> Nobody,
               alloc |-> BASE_ALLOC_ADDRESS, allocLock |-> Nobody]
NoFork == [pid |-> 0, i |-> 0, start |-> [f \in Slots |-> Free]]

Init ==
    /\ process = [p \in Pids |-> IF \E t \in Threads : Home[t] = p THEN NewProcess ELSE Null]
    /\ live = {} /\ kind = <<>> /\ data = 0 /\ given = {}
    /\ pc = [t \in Threads |-> "user"] /\ op = [t \in Threads |-> "none"]
    /\ arg = [t \in Threads |-> 0] /\ calls = [t \in Threads |-> 0]
    /\ table = [i \in 0 .. MAX_MODULE_SYSCALLS - 1 |-> Null] /\ tableLock = Nobody
    /\ installed = {}
    /\ frames = Frames /\ ranges = {}
    /\ fork = [t \in Threads |-> NoFork]

P(t) == process[Home[t]]
At(t, l) == pc[t] = l
Go(t, l) == pc' = [pc EXCEPT ![t] = l]
Handle(t) == P(t).handles[arg[t]]
Unlocked(t) == [process EXCEPT ![Home[t]].lock = Nobody]

-----------------------------------------------------------------------------
(* A thread enters the kernel; a descriptor out of range returns at once.  *)
FileOps == {"read", "write", "seek", "ioctl", "load_module", "close", "open"}
Enter(t, o, a) ==
    /\ At(t, "user") /\ calls[t] < MaxCalls /\ o \in Ops[t]
    /\ (o \in FileOps) => (a \in Slots)
    /\ (o = "alloc_at") => (a \in Requests)
    /\ (o \in {"alloc", "fork"}) => (a = 0)
    /\ op' = [op EXCEPT ![t] = o] /\ arg' = [arg EXCEPT ![t] = a]
    /\ calls' = [calls EXCEPT ![t] = @ + 1]
    /\ Go(t, CASE o \in FileOps -> "lock" [] OTHER -> o)
    /\ UNCHANGED <<process, files, modules, memory, fork>>

LockHandles(t) ==
    /\ At(t, "lock") /\ P(t).lock = Nobody
    /\ process' = [process EXCEPT ![Home[t]].lock = t]
    /\ Go(t, IF op[t] = "open" THEN "slot" ELSE "handle")
    /\ UNCHANGED <<files, op, arg, calls, modules, memory, fork>>

(* Mutant: the return with -1 keeps the lock. *)
TakeHandleKeeps(t) ==
    /\ At(t, "handle")
    /\ Go(t, IF Handle(t) \in {Free, Null} THEN "user"
             ELSE IF op[t] = "close" THEN "close" ELSE "inside")
    /\ UNCHANGED <<process, files, op, arg, calls, modules, memory, fork>>

(* The node of the descriptor, or the return with -1 *)
TakeHandle(t) ==
    /\ At(t, "handle")
    /\ IF Handle(t) \in {Free, Null}
       THEN process' = Unlocked(t) /\ Go(t, "user")
       ELSE UNCHANGED process /\ Go(t, IF op[t] = "close" THEN "close" ELSE "inside")
    /\ UNCHANGED <<files, op, arg, calls, modules, memory, fork>>

(* The call into the VFS and the unlock behind it *)
Works(t, o) ==
    /\ At(t, "inside") /\ op[t] = o
    /\ process' = Unlocked(t) /\ Go(t, "user")
    /\ UNCHANGED <<live, kind, given, op, arg, calls, modules, memory, fork>>

IsPipe(t) == Handle(t) \in live /\ kind[Handle(t)] = "pipe"

(* One turn of the loop: vfs_read is given the whole length.  The read of  *)
(* an empty pipe waits.                                                    *)
syscall_read(t) ==
    /\ Works(t, "read")
    /\ IF IsPipe(t) THEN data > 0 /\ data' = data - 1 ELSE UNCHANGED data
syscall_write(t) ==
    /\ Works(t, "write")
    /\ data' = IF IsPipe(t) THEN data + 1 ELSE data
syscall_seek(t) == Works(t, "seek") /\ UNCHANGED data
syscall_ioctl(t) == Works(t, "ioctl") /\ UNCHANGED data
syscall_load_module(t) == Works(t, "load_module") /\ UNCHANGED data

(* syscall_open: the first slot that holds -1, then kopen *)
FreeSlots(t) == {f \in Slots : P(t).handles[f] = Free}
Fails(t) == process' = Unlocked(t) /\ Go(t, "user") /\ UNCHANGED files
syscall_open(t, k) ==
    LET n == Len(kind) + 1 IN
    /\ At(t, "slot")
    /\ \/ FreeSlots(t) = {} /\ Fails(t)
       \/ k = Null /\ Fails(t)
       \/ \E f \in FreeSlots(t) :
             /\ \A g \in FreeSlots(t) : f <= g
             /\ k # Null /\ n <= MaxNodes
             /\ live' = live \cup {n} /\ kind' = Append(kind, k)
             /\ process' = [process EXCEPT ![Home[t]].handles[f] = n, ![Home[t]].lock = Nobody]
             /\ given' = given \cup {<<Home[t], f, n>>}
             /\ Go(t, "user") /\ UNCHANGED data
    /\ UNCHANGED <<op, arg, calls, modules, memory, fork>>

(* What close leaves in the slot; mutants: -1 again, or the pointer. *)
LeavesFree(t) == Free
LeavesPointer(t) == Handle(t)

Closed(t) == Null

(* syscall_close: vfs_close, kfree, and the slot is NULL from now on. *)
syscall_close(t) ==
    /\ At(t, "close")
    /\ live' = live \ {Handle(t)}
    /\ process' = [process EXCEPT ![Home[t]].handles[arg[t]] = Closed(t), ![Home[t]].lock = Nobody]
    /\ Go(t, "user")
    /\ UNCHANGED <<kind, data, given, op, arg, calls, modules, memory, fork>>

-----------------------------------------------------------------------------
(* syscall_alloc of one page: "alloc" of any address, "alloc_at" of the    *)
(* requested one; then the frame and its mapping, each of which may fail.  *)

(* syscall_privilege_check in pages: bit 47 of the first address or of the *)
(* one behind the last                                                     *)
Privileged(base, size) ==
    \E a \in {base, base + size} : a % (2 * UserPages) >= UserPages

(* The size that is checked is the address times PAGE_SIZE.                *)
RequestAddress(t) ==
    /\ At(t, "alloc_at")
    /\ Go(t, IF Privileged(arg[t], arg[t] * PAGE_SIZE) THEN "user" ELSE "frame")
    /\ UNCHANGED <<process, files, op, arg, calls, modules, memory, fork>>

TakeAddress(t) ==
    /\ At(t, "alloc") /\ P(t).allocLock = Nobody
    /\ arg' = [arg EXCEPT ![t] = P(t).alloc] /\ Go(t, "bump")
    /\ process' = [process EXCEPT ![Home[t]].allocLock = t]
    /\ UNCHANGED <<files, op, calls, modules, memory, fork>>

BumpAddress(t) ==
    /\ At(t, "bump")
    /\ \/ /\ Privileged(arg[t], 1) /\ Go(t, "user")
          /\ process' = [process EXCEPT ![Home[t]].allocLock = Nobody]
       \/ /\ ~Privileged(arg[t], 1) /\ Go(t, "frame")
          /\ process' = [process EXCEPT ![Home[t]].alloc = arg[t] + 1, ![Home[t]].allocLock = Nobody]
    /\ UNCHANGED <<files, op, arg, calls, modules, memory, fork>>

MapFrame(t) ==
    /\ At(t, "frame") /\ Go(t, "user")
    /\ \/ \E r \in frames : /\ frames' = frames \ {r}
                            /\ ranges' = ranges \cup {<<t, op[t], arg[t], r>>}
       \/ UNCHANGED memory
    /\ UNCHANGED <<process, files, op, arg, calls, modules, fork>>

-----------------------------------------------------------------------------
(* syscall_fork *)

(* process_create: the search for a pid ... *)
FindPid(t) ==
    /\ At(t, "fork")
    /\ \E p \in {q \in Pids : process[q] = Null} :
          /\ \A q \in Pids : process[q] = Null => p <= q
          /\ fork' = [fork EXCEPT ![t] = [pid |-> p, i |-> 0, start |-> P(t).handles]]
    /\ Go(t, "publish")
    /\ UNCHANGED <<process, files, op, arg, calls, modules, memory>>

(* ... and the assignment of the new process to it; then fork sets the     *)
(* child's current_alloc_address.                                          *)
PublishProcess(t) ==
    /\ At(t, "publish") /\ Go(t, "copy")
    /\ process' = [process EXCEPT ![fork[t].pid] = [NewProcess EXCEPT !.alloc = P(t).alloc]]
    /\ UNCHANGED <<files, op, arg, calls, modules, memory, fork>>

(* Mutant: the loop leaves out the last slot. *)
CopyBelowLast(i) == i < MAX_FILE_HANDLES - 1

CopyMore(i) == i < MAX_FILE_HANDLES

(* One iteration of the copy of file_handles, which takes no lock *)
CopyHandle(t) ==
    LET f == fork[t] IN
    /\ At(t, "copy")
    /\ IF CopyMore(f.i)
       THEN /\ process' = [process EXCEPT ![f.pid].handles[f.i] = P(t).handles[f.i]]
            /\ fork' = [fork EXCEPT ![t].i = @ + 1] /\ UNCHANGED pc
       ELSE Go(t, "forked") /\ UNCHANGED <<process, fork>>
    /\ UNCHANGED <<files, op, arg, calls, modules, memory>>

(* The child's thread is made and given to the scheduler. *)
AddChild(t) ==
    /\ At(t, "forked") /\ Go(t, "user")
    /\ fork' = [fork EXCEPT ![t] = NoFork]
    /\ UNCHANGED <<process, files, op, arg, calls, modules, memory>>

-----------------------------------------------------------------------------
(* syscall_install by a module, and the call of what it installed *)
LockTable(t) ==
    /\ \/ At(t, "install")
       \/ At(t, "module") /\ arg[t] < MAX_MODULE_SYSCALLS
    /\ tableLock = Nobody /\ tableLock' = t
    /\ Go(t, IF At(t, "install") THEN "put" ELSE "get")
    /\ UNCHANGED <<process, files, op, arg, calls, table, installed, memory, fork>>

(* Mutant: an entry is replaced. *)
NeverTaken(i) == FALSE

Taken(i) == table[i] # Null

(* An index out of range returns before the unlock. *)
PutFunction(t) ==
    /\ At(t, "put") /\ Go(t, "user")
    /\ \/ arg[t] >= MAX_MODULE_SYSCALLS /\ UNCHANGED modules
       \/ /\ arg[t] < MAX_MODULE_SYSCALLS /\ Taken(arg[t])
          /\ tableLock' = Nobody /\ UNCHANGED <<table, installed>>
       \/ /\ arg[t] < MAX_MODULE_SYSCALLS /\ ~Taken(arg[t])
          /\ table' = [table EXCEPT ![arg[t]] = t] /\ installed' = installed \cup {<<t, arg[t]>>}
          /\ tableLock' = Nobody
    /\ UNCHANGED <<process, files, op, arg, calls, memory, fork>>

GetFunction(t) ==
    /\ At(t, "get") /\ Go(t, "user") /\ tableLock' = Nobody
    /\ UNCHANGED <<process, files, op, arg, calls, table, installed, memory, fork>>

InvalidFunction(t) ==
    /\ At(t, "module") /\ arg[t] >= MAX_MODULE_SYSCALLS /\ Go(t, "user")
    /\ UNCHANGED <<process, files, op, arg, calls, modules, memory, fork>>

-----------------------------------------------------------------------------
Step(t) ==
    \/ LockHandles(t) \/ TakeHandle(t) \/ syscall_close(t)
    \/ syscall_read(t) \/ syscall_write(t) \/ syscall_seek(t) \/ syscall_ioctl(t) \/ syscall_load_module(t)
    \/ \E k \in Kinds \cup {Null} : syscall_open(t, k)
    \/ RequestAddress(t) \/ TakeAddress(t) \/ BumpAddress(t) \/ MapFrame(t)
    \/ FindPid(t) \/ PublishProcess(t) \/ CopyHandle(t) \/ AddChild(t)
    \/ LockTable(t) \/ PutFunction(t) \/ GetFunction(t) \/ InvalidFunction(t)

AllOps == FileOps \cup {"alloc", "alloc_at", "fork", "install", "module"}
Next ==
    \E t \in Threads :
        \/ \E o \in AllOps, a \in Slots \cup 0 .. MAX_MODULE_SYSCALLS \cup Requests : Enter(t, o, a)
        \/ Step(t)

(* Every thread inside the kernel runs on: it is scheduled again, or, when *)
(* it waits for the pipe, woken.  Nothing makes a spinlock fair; a thread  *)
(* gets it when the others' calls (at most MaxCalls) are over.             *)
Fairness == \A t \in Threads : WF_vars(Step(t))
Spec == Init /\ [][Next]_vars
FairSpec == Spec /\ Fairness

-----------------------------------------------------------------------------
(* Properties *)

(* A thread inside vfs_read, vfs_write, vfs_lseek, vfs_ioctl or vfs_close  *)
(* works on a node that no other thread of its process has freed: the      *)
(* lookup and the use are under one hold of file_handles_lock.             *)
UsedIsLive ==
    \A t \in Threads : pc[t] \in {"inside", "close"} => Handle(t) \in live

(* A descriptor never comes to name a second file: one that is closed is   *)
(* not given out again, since close leaves NULL and open looks for -1.     *)
DescriptorNamesOneFile ==
    \A x, y \in given : x[1] = y[1] /\ x[2] = y[2] => x = y

(* Two allocations of a process share an address only if the process asked *)
(* for it: current_alloc_address never gives one twice, whatever the calls *)
(* interleave to.                                                          *)
AllocDisjoint ==
    \A x, y \in ranges :
        Home[x[1]] = Home[y[1]] /\ x[3] = y[3] /\ x # y => "alloc_at" \in {x[2], y[2]}

(* When fork hands its child to the scheduler, the child has every         *)
(* descriptor that the parent had at the start of the fork and has still.  *)
ChildInherits ==
    \A t \in Threads : At(t, "forked") =>
        \A f \in Slots : P(t).handles[f] = fork[t].start[f]
                            => process[fork[t].pid].handles[f] = fork[t].start[f]

(* Of the installs of one index one at most is told that it succeeded, and *)
(* it is the one whose function stays.                                     *)
InstallOnce ==
    \A x \in installed : table[x[2]] = x[1]

(* A call that waits for a spinlock gets it: what deadlock_detect in       *)
(* spinlock.h reports does not happen.                                     *)
LockedEventually ==
    \A t \in Threads : (pc[t] \in {"lock", "install", "module"}) ~> (pc[t] \notin {"lock", "install", "module"})
=============================================================================

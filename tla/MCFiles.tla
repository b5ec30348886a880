------------------------------- MODULE MCFiles -------------------------------
(***************************************************************************)
(* Lists and maps, the virtual file system, pipes and the system calls for *)
(* TLC. The parts share no state and every property is about one of them,  *)
(* so a behaviour moves one part and leaves the others where they begin.   *)
(***************************************************************************)
EXTENDS Integers, Sequences, TLC

CONSTANTS
    Parts,      \* the parts to be run
    MayStop,    \* the parts that may come to an end
    ta, tb, tc, t1, t2, Nodes4, Nodes3, NULL, MinusOne, Null, Nobody, fat, ext2, pmgr,
    again, devfs, Readers, Writers

VARIABLES
    part,
    owner_list, owner_pc, owner_victim,
    shared_list, shared_pc, shared_victim,
    hashmap, map_result,
    tree, files, vfs_pc, at, rest, start, path, creat, opens, vfs_result, seen,
    lock, buffer, capacity, event, reference_count, poll_status, freed, pipe_pc, size,
    delivered,
    process, live, kind, data, sys_pc, op, arg, calls, given, table, tableLock, installed,
    frames, ranges, fork

ownerVars == <<owner_list, owner_pc, owner_victim>>
sharedVars == <<shared_list, shared_pc, shared_victim>>
mapVars == <<hashmap, map_result>>
vfsVars == <<tree, files, vfs_pc, at, rest, start, path, creat, opens, vfs_result, seen>>
pipeVars == <<lock, buffer, capacity, event, reference_count, poll_status, freed, pipe_pc,
    size, delivered>>
sysVars == <<process, live, kind, data, sys_pc, op, arg, calls, given, table, tableLock,
    installed, frames, ranges, fork>>
vars == <<part, ownerVars, sharedVars, mapVars, vfsVars, pipeVars, sysVars>>

(* A list with one user, and one that two threads share *)
Owner == INSTANCE ListUsers WITH
    list <- owner_list, pc <- owner_pc, victim <- owner_victim, Nodes <- Nodes4,
    Values <- {1, 2}, Threads <- {t1}

Shared == INSTANCE ListUsers WITH
    list <- shared_list, pc <- shared_pc, victim <- shared_victim, Nodes <- Nodes3,
    Values <- {1, 2}, Threads <- {t1, t2}

(* Three of the keys share a chain. *)
Parity(k) == k % 2

Map == INSTANCE HashMap WITH
    result <- map_result, Keys <- {1, 2, 3, 5}, Values <- {10, 20}, HashSize <- 2,
    Hash <- Parity

(* fat is mounted on "/", ext2 on "/ext2test" and pmgr on "/dev/pmgr" by   *)
(* the thread that boots; again is the mount of a module loaded twice.     *)
Mounts == (fat :> <<>>) @@ (ext2 :> <<"ext2test">>) @@ (pmgr :> <<"dev", "pmgr">>)
          @@ (again :> <<"dev", "pmgr">>)
Order == (fat :> NULL) @@ (ext2 :> fat) @@ (pmgr :> ext2) @@ (again :> pmgr)
Files ==
    (fat :> {<<"ext2test", "f">>, <<"dev", "log">>}) @@ (ext2 :> {<<"f">>}) @@ (pmgr :> {})
    @@ (again :> {})

VFS == INSTANCE Vfs WITH
    pc <- vfs_pc, result <- vfs_result, Mounters <- {fat, ext2, pmgr, again},
    Mount <- Mounts, After <- Order, DevFS <- devfs, Devices <- {"log"}, Openers <- {t1},
    Opens <- {<<"ext2test", "f">>, <<"dev", "log">>, <<"dev", "pmgr", "f">>},
    Creating <- {pmgr}, Stored <- Files, MaxOpens <- 2

(* A pipe with two readers and two writers *)
SharedPipe == INSTANCE Pipe WITH
    pc <- pipe_pc, Bytes <- {1, 2}, Garbage <- 0, Messages <- {<<1>>, <<2, 1>>},
    ReadSizes <- {1, 2}, readFirstData <- FALSE, PIPE_BUFFER_STEP <- 2, MaxSize <- 3,
    EventModulus <- 4

(* Threads ta and tb of process 1, thread tc of process 2 *)
Two == ta :> 1 @@ tb :> 1
FileCalls == [t \in {ta, tb} |-> {"open", "close", "read", "write", "seek"}]
ForkCalls == ta :> {"fork", "open"} @@ tb :> {"open", "close", "ioctl", "load_module"}
AllocCalls == ta :> {"alloc"} @@ tb :> {"alloc", "alloc_at"}
TableCalls == ta :> {"install"} @@ tb :> {"module"} @@ tc :> {"install"}

(* Descriptors; fork among them; addresses; the calls of modules *)
Calls == INSTANCE Syscalls WITH
    pc <- sys_pc, MAX_FILE_HANDLES <- 2, MAX_MODULE_SYSCALLS <- 2, Pids <- {1, 2},
    MaxNodes <- 3, Free <- MinusOne, Threads <- {ta, tb}, Home <- Two, Ops <- FileCalls,
    Kinds <- {"file", "pipe"}, Frames <- {}, Requests <- {}, UserPages <- 4, PAGE_SIZE <- 2,
    BASE_ALLOC_ADDRESS <- 1, MaxCalls <- 3

Forks == INSTANCE Syscalls WITH
    pc <- sys_pc, MAX_FILE_HANDLES <- 2, MAX_MODULE_SYSCALLS <- 2, Pids <- {1, 2},
    MaxNodes <- 3, Free <- MinusOne, Threads <- {ta, tb}, Home <- Two, Ops <- ForkCalls,
    Kinds <- {"file"}, Frames <- {}, Requests <- {}, UserPages <- 4, PAGE_SIZE <- 2,
    BASE_ALLOC_ADDRESS <- 1, MaxCalls <- 4

Memory == INSTANCE Syscalls WITH
    pc <- sys_pc, MAX_FILE_HANDLES <- 1, MAX_MODULE_SYSCALLS <- 1, Pids <- {1, 2},
    MaxNodes <- 3, Free <- MinusOne, Threads <- {ta, tb}, Home <- Two, Ops <- AllocCalls,
    Kinds <- {"file"}, Frames <- {1, 2, 3}, Requests <- {1, 2}, UserPages <- 4,
    PAGE_SIZE <- 2, BASE_ALLOC_ADDRESS <- 1, MaxCalls <- 3

Tables == INSTANCE Syscalls WITH
    pc <- sys_pc, MAX_FILE_HANDLES <- 1, MAX_MODULE_SYSCALLS <- 1, Pids <- {1, 2},
    MaxNodes <- 3, Free <- MinusOne, Threads <- {ta, tb, tc}, Home <- Two @@ tc :> 2,
    Ops <- TableCalls, Kinds <- {"file"}, Frames <- {}, Requests <- {}, UserPages <- 4,
    PAGE_SIZE <- 2, BASE_ALLOC_ADDRESS <- 1, MaxCalls <- 2

-----------------------------------------------------------------------------
ASSUME
    /\ Owner!ListConstants
    /\ Shared!ListConstants
    /\ Map!HashMapConstants
    /\ VFS!VfsConstants
    /\ SharedPipe!PipeConstants
    /\ Calls!SyscallsConstants
    /\ Forks!SyscallsConstants
    /\ Memory!SyscallsConstants
    /\ Tables!SyscallsConstants

Init ==
    /\ part \in Parts
    /\ Owner!Init
    /\ Shared!Init
    /\ Map!Init
    /\ VFS!Init
    /\ SharedPipe!Init
    /\ CASE part = "files" -> Calls!Init
         [] part = "fork" -> Forks!Init
         [] part = "memory" -> Memory!Init
         [] OTHER -> Tables!Init

Next ==
    \/ /\ UNCHANGED part
       /\ IF part = "list owner" THEN Owner!Next ELSE UNCHANGED ownerVars
       /\ IF part = "list shared" THEN Shared!Next ELSE UNCHANGED sharedVars
       /\ IF part = "hashmap" THEN Map!Next ELSE UNCHANGED mapVars
       /\ IF part = "vfs" THEN VFS!Next ELSE UNCHANGED vfsVars
       /\ IF part = "pipe" THEN SharedPipe!Next ELSE UNCHANGED pipeVars
       /\ CASE part = "files" -> Calls!Next
            [] part = "fork" -> Forks!Next
            [] part = "memory" -> Memory!Next
            [] part = "tables" -> Tables!Next
            [] OTHER -> UNCHANGED sysVars
    \/ part \in MayStop /\ UNCHANGED vars

Spec == Init /\ [][Next]_vars

-----------------------------------------------------------------------------
(* Through foreach a list that two threads share is a sequence: a step of  *)
(* lists.c inserts one value or takes one away, and both walks see the     *)
(* same nodes. list_remove by an only user takes away the node it was      *)
(* given, although it gives up the lock in the middle.                     *)
ListsBehave ==
    /\ [](part = "list owner" => Owner!WellLinked)
    /\ [](part = "list shared" => Shared!WellLinked)
    /\ Owner!RemovesItsNode /\ Shared!IsSequence

(* hashmap_set, hashmap_remove: a key has one entry at most, in its own    *)
(* chain, and a step changes what hashmap_get gives for its own key only.  *)
Dictionary == Map!Dictionary /\ [](part = "hashmap" => Map!ListedOnce)

(* kopen returns what was the right answer at some moment of the call,     *)
(* although vfs_get_mountpoint drops the lock at each branch and mounts go *)
(* on meanwhile. Mounts only add branches, with different names, and keep  *)
(* what is mounted.                                                        *)
OpenIsAtomic ==
    /\ VFS!OpenIsAtomic /\ VFS!MountsStay
    /\ [](part = "vfs" => VFS!BranchesDiffer)

(* pipe_read, pipe_write: several readers and writers see one stream of    *)
(* bytes; the buffer is never smaller than the data, and POLLIN is set     *)
(* exactly while there is data.                                            *)
StreamOfBytes ==
    /\ SharedPipe!StreamOfBytes
    /\ [](part = "pipe" =>
            SharedPipe!TypeOK /\ SharedPipe!BufferFits /\ SharedPipe!PollShowsData)

(* syscall_read, syscall_write, syscall_seek, syscall_close: the node in   *)
(* use is one that no thread of the process has freed, and a descriptor    *)
(* never comes to name a second file.                                      *)
DescriptorsSound ==
    part = "files" => Calls!UsedIsLive /\ Calls!DescriptorNamesOneFile

(* syscall_fork: the child has every descriptor the parent had at the      *)
(* start of the fork and has still.                                        *)
ChildInherits == part = "fork" => Forks!ChildInherits

(* syscall_alloc: two allocations of a process share an address only if    *)
(* the process asked for it.                                               *)
(* syscall_install: of the installs of one index one at most succeeds, and *)
(* its function stays.                                                     *)
TablesSound ==
    /\ part = "memory" => Memory!AllocDisjoint
    /\ part = "tables" => Tables!InstallOnce
=============================================================================

------------------------------ MODULE MCModules ------------------------------
(***************************************************************************)
(* The module loader and the modules packetfs, shm, virtio and virtiogpu   *)
(* for TLC. The parts share no state and every property is about one of    *)
(* them, so a behaviour moves one part and leaves the others where they    *)
(* begin.                                                                  *)
(***************************************************************************)
EXTENDS Integers, Sequences, TLC

CONSTANTS
    Parts,      \* the parts to be run
    MayStop,    \* the parts that may come to an end
    ta, tb, tc, td, s1, s2, k1, k2, All, Procs, c1, c2, m1, m2, m3, NULL, Nothing

VARIABLES
    part,
    KernelSymbols, heap, load_pc, section, local, load_i, patched, linked, load_node, result,
    exists, new, clients, pmgr_node, pmgr_pc, server_pipe, pipe, temp, inbox, sent, target,
    pmgr_cursor, joined,
    node_chunk, chunk, shm_map, shm_alloc, page_table, halted,
    status, next, flags, owner, freeList, freeCount, lock, avail, availIndex, used,
    usedIndex, lastUsed, taken, devIndex, isr, events_read, virtio_pc, head, tail, virtio_i,
    answered, irq,
    boot, reference, resource, scanout, gpu_cursor, memory, gpu_pc, cmd, due, mixed, early, late

loadVars == <<KernelSymbols, heap, load_pc, section, local, load_i, patched, linked,
    load_node, result>>
pmgrVars == <<exists, new, clients, pmgr_node, pmgr_pc, server_pipe, pipe, temp, inbox,
    sent, target, pmgr_cursor, joined>>
shmVars == <<node_chunk, chunk, shm_map, shm_alloc, page_table, halted>>
virtioVars == <<status, next, flags, owner, freeList, freeCount, lock, avail, availIndex,
    used, usedIndex, lastUsed, taken, devIndex, isr, events_read, virtio_pc, head, tail,
    virtio_i, answered, irq>>
gpuVars == <<boot, reference, resource, scanout, gpu_cursor, memory, gpu_pc, cmd, due,
    mixed, early, late>>
vars == <<part, loadVars, pmgrVars, shmVars, virtioVars, gpuVars>>

(* Words have 8 and 4 bits; the kernel lies in the last 4-bit page, so     *)
(* that 32S reaches it and 32 does not.  Module tb needs a symbol of       *)
(* module ta, calls a kernel function that PC32 may not reach and has a    *)
(* relocation of a type that the loader does not know; tc redefines a      *)
(* symbol and has no module_info_; td is no ELF file.                      *)
Sym(n, v) == [name |-> n, value |-> v]
Rel(n, t, x, p) == [name |-> n, type |-> t, addend |-> x, at |-> p]

KernelTable == "printf" :> 252 @@ "low" :> 9
SomeFiles ==
    ta :> [valid |-> TRUE, symbols |-> <<Sym("module_info_", 0), Sym("register", 2)>>,
          relocs |-> <<Rel("printf", "64", 1, 0), Rel("printf", "32S", 0, 1), Rel("section", "PC32", 3, 2),
                     Rel("register", "32S", 0, 3)>>] @@
    tb :> [valid |-> TRUE, symbols |-> <<Sym("module_info_", 1)>>,
          relocs |-> <<Rel("register", "64", 0, 0), Rel("low", "32", 1, 2), Rel("module_info_", "PC32", 2, 3),
                     Rel("printf", "PC32", 0, 1), Rel("low", "PLT32", 0, 0)>>] @@
    tc :> [valid |-> TRUE, symbols |-> <<Sym("register", 3)>>,
          relocs |-> <<Rel("register", "32S", 0, 0)>>] @@
    td :> [valid |-> FALSE, symbols |-> <<>>, relocs |-> <<>>]

Loader == INSTANCE ModuleLoader WITH
    pc <- load_pc, i <- load_i, node <- load_node, Loaders <- {ta, tb, tc, td},
    Files <- SomeFiles, Kernel <- KernelTable, Heap <- {12, 80, 248}, SectionSize <- 4,
    W64 <- 256, W32 <- 16

(* A server and two clients: packets to the server, and to the clients;    *)
(* two threads that create the name at the same time, and a client         *)
ToServer == INSTANCE PacketFs WITH
    node <- pmgr_node, pc <- pmgr_pc, cursor <- pmgr_cursor, Creators <- {s1},
    Clients <- {k1, k2}, Sizes <- {0, 1}, MAX_PACKET_SIZE <- 1, MaxSends <- 2, MaxAnswers <- 1

ToClients == INSTANCE PacketFs WITH
    node <- pmgr_node, pc <- pmgr_pc, cursor <- pmgr_cursor, Creators <- {s1},
    Clients <- {k1, k2}, Sizes <- {0, 1}, MAX_PACKET_SIZE <- 1, MaxSends <- 1, MaxAnswers <- 2

TwoCreators == INSTANCE PacketFs WITH
    node <- pmgr_node, pc <- pmgr_pc, cursor <- pmgr_cursor, Creators <- {s1, s2},
    Clients <- {k1}, Sizes <- {0, 1}, MAX_PACKET_SIZE <- 1, MaxSends <- 2, MaxAnswers <- 2

(* Two processes, the names "a" and "a.b" *)
SharedMemory == INSTANCE Shm WITH
    Paths <- {<<"a">>, <<"a", "b">>}, Chunks <- {c1, c2}, Mappings <- {m1, m2, m3},
    Frames <- 3, Pages <- 2, Sizes <- {1, 2}

(* A queue of four descriptors with one sender; the control and the cursor *)
(* queue with a sender each; two senders to one queue                      *)
OwnQueue == INSTANCE Virtio WITH
    pc <- virtio_pc, i <- virtio_i, Threads <- {ta}, numQueues <- 1, QueueOf <- (ta :> 0),
    queueSize <- 4, IndexRange <- 8

TwoQueues == INSTANCE Virtio WITH
    pc <- virtio_pc, i <- virtio_i, Threads <- {ta, tb}, numQueues <- 2,
    QueueOf <- (ta :> 0 @@ tb :> 1), queueSize <- 2, IndexRange <- 4

OneQueue == INSTANCE Virtio WITH
    pc <- virtio_pc, i <- virtio_i, Threads <- {ta, tb}, numQueues <- 1,
    QueueOf <- (ta :> 0 @@ tb :> 0), queueSize <- 4, IndexRange <- 8

(* Two openers with a resource or two each *)
Gpu == INSTANCE VirtioGpu WITH
    cursor <- gpu_cursor, pc <- gpu_pc, Threads <- {ta, tb}, FirstId <- 2, CursorId <- 1,
    MaxId <- 2, MaxResources <- (ta :> 2 @@ tb :> 1), MaxDraws <- (ta :> 1 @@ tb :> 0)

-----------------------------------------------------------------------------
ASSUME
    /\ Loader!ModuleLoaderConstants
    /\ ToServer!PacketFsConstants
    /\ ToClients!PacketFsConstants
    /\ TwoCreators!PacketFsConstants
    /\ SharedMemory!ShmConstants
    /\ OwnQueue!VirtioConstants
    /\ TwoQueues!VirtioConstants
    /\ OneQueue!VirtioConstants
    /\ Gpu!GpuConstants

Init ==
    /\ part \in Parts
    /\ Loader!Init
    /\ CASE part = "packets to server" -> ToServer!Init
         [] part = "packets of two" -> TwoCreators!Init
         [] OTHER -> ToClients!Init
    /\ SharedMemory!Init
    /\ CASE part = "virtio" -> OwnQueue!Init
         [] part = "virtio queues" -> TwoQueues!Init
         [] OTHER -> OneQueue!Init
    /\ Gpu!Init

Next ==
    \/ /\ UNCHANGED part
       /\ IF part = "loader" THEN Loader!Next ELSE UNCHANGED loadVars
       /\ CASE part = "packets to server" -> ToServer!Next
            [] part = "packets to clients" -> ToClients!Next
            [] part = "packets of two" -> TwoCreators!Next
            [] OTHER -> UNCHANGED pmgrVars
       /\ IF part = "shm" THEN SharedMemory!Next ELSE UNCHANGED shmVars
       /\ CASE part = "virtio" -> OwnQueue!Next
            [] part = "virtio queues" -> TwoQueues!Next
            [] part = "virtio shared" -> OneQueue!Next
            [] OTHER -> UNCHANGED virtioVars
       /\ IF part = "gpu" THEN Gpu!Next ELSE UNCHANGED gpuVars
    \/ (part \in MayStop \/ (part = "gpu" /\ early)) /\ UNCHANGED vars

Spec == Init /\ [][Next]_vars

-----------------------------------------------------------------------------
(* module_load: when the init of a module is called, every place with a    *)
(* relocation of a known type, within reach, means its symbol plus the     *)
(* addend, its own symbol where it has one, and the table of symbols never *)
(* leads into freed memory, also after a load that failed.                 *)
ModulesLinked ==
    part = "loader" =>
        Loader!RelocationsExact /\ Loader!OwnSymbolsFirst /\ Loader!SymbolsLive

(* packetfs_receive_packet, packetfs_server_write: as long as one thread   *)
(* became the server, packets arrive whole and once, the server gets those *)
(* of every client in order, and a client those that were sent to it after *)
(* it joined.                                                              *)
PacketsArrive ==
    /\ part = "packets to server" => ToServer!PacketsIntact /\ ToServer!ServerSeesAll
    /\ part = "packets to clients" => ToClients!ClientSeesAll
    /\ part = "packets of two" =>
          TwoCreators!PacketsIntact /\ TwoCreators!ServerSeesAll /\ TwoCreators!ClientSeesAll

(* shm_obtain, shm_release: ref_count is the number of mappings, and a     *)
(* process translates a page of the window only while a mapping of it is   *)
(* listed.                                                                 *)
SharedFramesKept ==
    part = "shm" => SharedMemory!ReferencesCounted /\ SharedMemory!NoStaleTranslation

(* virtio_submit_descriptor, virtio_irq_handler: a thread that has come    *)
(* past the wait finds its response written, and no descriptor is lost or  *)
(* given out twice.                                                        *)
QueuesSound ==
    /\ part = "virtio" => OwnQueue!WaitsForResponse /\ OwnQueue!DescriptorsConserved
    /\ part = "virtio queues" =>
          TwoQueues!WaitsForResponse /\ TwoQueues!DescriptorsConserved

(* virtio_submit_descriptor with two senders to one queue: a thread that   *)
(* has come past it finds its response written.                            *)
SharedWaits == part = "virtio shared" => OneQueue!WaitsForResponse

=============================================================================

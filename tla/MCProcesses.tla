----------------------------- MODULE MCProcesses -----------------------------
(***************************************************************************)
(* Memory, programs and processes for TLC. The parts share no state and    *)
(* every property is about one of them, so a behaviour moves one part and  *)
(* leaves the others where they begin.                                     *)
(***************************************************************************)
EXTENDS Integers, Sequences, TLC

CONSTANTS
    Parts,      \* the parts to be run
    MayStop,    \* the parts that may come to an end
    Owners, NoOwner, kernel, pa, pb, c1, c2, Nil, Nobody

VARIABLES
    part,
    bitmap, PmmFreePages, mem, km_pc, req, ptr, new, count,
    kernel_live, kernel_pd, kernel_pt, kernel_used, kernel_content, kernel_call,
    kernel_locked, kernel_dropped, kernel_starved,
    fork_live, fork_pd, fork_pt, fork_used, fork_content, fork_call, fork_locked,
    fork_dropped, fork_starved,
    ActiveTasks, TotalActiveTasks, thread, page_table, exec_made, freed, cpu, SchedulerLock,
    threads, lock, mapped, frames, th_pc, tid, th_made,
    table, base, wantLd, elf_pc, i, map, memory, phdr, ldPath

kmVars == <<bitmap, PmmFreePages, mem, km_pc, req, ptr, new, count>>
kernelVars == <<kernel_live, kernel_pd, kernel_pt, kernel_used, kernel_content, kernel_call,
    kernel_locked, kernel_dropped, kernel_starved>>
forkVars == <<fork_live, fork_pd, fork_pt, fork_used, fork_content, fork_call, fork_locked,
    fork_dropped, fork_starved>>
execVars == <<ActiveTasks, TotalActiveTasks, thread, page_table, exec_made, freed, cpu,
    SchedulerLock>>
thVars == <<threads, lock, mapped, frames, th_pc, tid, th_made>>
elfVars == <<table, base, wantLd, elf_pc, i, map, memory, phdr, ldPath>>
vars == <<part, kmVars, kernelVars, forkVars, execVars, thVars, elfVars>>

(* Frames of two bytes.  Frames 1 to 3 and 5 to 10 are usable: the bitmap  *)
(* takes frame 5, frames 3 and 6 to 10 are free, and pmm_init also frees   *)
(* frame 11, behind the last region.                                       *)
Entry(first, n) == [base |-> 2 * first, length |-> 2 * n, usable |-> TRUE]
SmallMap == {Entry(1, 3), [Entry(4, 1) EXCEPT !.usable = FALSE], Entry(5, 6)}

Heap == INSTANCE Kmalloc WITH
    pc <- km_pc, MemMap <- SmallMap, PAGE_SIZE <- 2, MaxRequest <- 3, WordModulus <- 16,
    Sizes <- {2, 3}, Nums <- {0, 2}, ItemSizes <- {1, 9}, FrameCounts <- {1, 2}

(* The kernel's page table beside one of a process, with a large page *)
KernelSpace == INSTANCE Vmm WITH
    live <- kernel_live, pd <- kernel_pd, pt <- kernel_pt, used <- kernel_used,
    content <- kernel_content, call <- kernel_call, locked <- kernel_locked,
    dropped <- kernel_dropped, starved <- kernel_starved,
    Kernel <- kernel, PoolSize <- 2, Contents <- {<<1, 1, 1>>}, NULL <- Nil, Tables <- {kernel, pa},
    Small <- {kernel, pa}, DirEntries <- 2, PtEntries <- 2, HugeEntries <- {1},
    NumFrames <- 6, Maps <- {3}, Unmaps <- {3}, MaxDropped <- 6,
    Registers <- {<<0, 2>>}

(* Page tables that fork copies and the end of a process frees *)
ForkedSpace == INSTANCE Vmm WITH
    live <- fork_live, pd <- fork_pd, pt <- fork_pt, used <- fork_used,
    content <- fork_content, call <- fork_call, locked <- fork_locked,
    dropped <- fork_dropped, starved <- fork_starved, Kernel <- kernel,
    PoolSize <- 2, Contents <- {<<1, 2, 3>>}, NULL <- Nil, Tables <- {kernel, pa, pb}, Small <- {pa},
    DirEntries <- 1, PtEntries <- 3, HugeEntries <- {}, NumFrames <- 9, Maps <- {3},
    Unmaps <- {2}, MaxDropped <- 0, Registers <- {}

(* execve and fork on two CPUs, and on one *)
ExecTwo == INSTANCE Exec WITH
    made <- exec_made, MAX_PROCESSES <- 4, MaxTasks <- 5, MaxPrograms <- 2, NULL <- Nil,
    CPUs <- {c1, c2}

ExecOne == INSTANCE Exec WITH
    made <- exec_made, MAX_PROCESSES <- 4, MaxTasks <- 5, MaxPrograms <- 2, NULL <- Nil,
    CPUs <- {c1}

(* Strings of lengths around the 16 bytes of the alignment, empty ones too *)
SomeArgvs == {<<7>>, <<15>>, <<16>>, <<0, 6>>, <<3, 11>>}
SomeEnvps == {<<>>, <<0>>, <<2, 12>>}

Stacks == INSTANCE Threads WITH
    pc <- th_pc, made <- th_made, Callers <- {c1, c2}, MAX_THREADS <- 2, MaxCreates <- 2,
    Argvs <- SomeArgvs, Envps <- SomeEnvps, NULL <- Nil

(* Program header tables in the order that ELF prescribes (PT_PHDR and     *)
(* PT_INTERP first, PT_LOAD by address): text of n bytes from address v    *)
(* on, data of f bytes in a later page with b bytes of bss; addresses and  *)
(* offsets agree modulo the page.                                          *)
S(t, o, v, f, m) == [type |-> t, offset |-> o, vaddr |-> v, filesz |-> f, memsz |-> m]
Program(v, n, f, b1, head) ==
    (IF head THEN <<S("phdr", (v % 4) + 1, v + 1, 1, 1), S("interp", (v % 4) + 2, v + 2, 1, 1)>> ELSE <<>>) \o
    <<S("load", v % 4, v, n, n), S("load", (v % 4) + n, v + n + 4, f, f + b1), S("note", 0, 0, 1, 1)>>
SomeTables ==
    {Program(v, n, f, b1, head) : v \in 4 .. 7, n \in 3 .. 6, f \in 0 .. 2, b1 \in 1 .. 5, head \in BOOLEAN}

Elf == INSTANCE ElfLoad WITH
    pc <- elf_pc, PAGE_SIZE <- 4, Tables <- SomeTables, Bases <- {0, 40}, Frames <- 7

-----------------------------------------------------------------------------
ASSUME
    /\ Heap!PmmConstants
    /\ Heap!KmallocConstants
    /\ Heap!BitmapFits
    /\ KernelSpace!VmmConstants
    /\ ForkedSpace!VmmConstants
    /\ ExecTwo!ExecConstants
    /\ ExecOne!ExecConstants
    /\ Stacks!ThreadsConstants
    /\ Elf!ElfLoadConstants

Init ==
    /\ part \in Parts
    /\ IF part = "kmalloc" THEN Heap!Init ELSE Heap!PmmInitOn({}) /\ Heap!NoBlocks
    /\ KernelSpace!Init
    /\ ForkedSpace!Init
    /\ CASE part = "exec" -> ExecTwo!Init
         [] OTHER -> ExecOne!Init
    /\ Stacks!Init
    /\ IF part = "elf" THEN Elf!Init ELSE Elf!InitOn(<<>>, 0, FALSE)

Next ==
    \/ /\ UNCHANGED part
       /\ IF part = "kmalloc" THEN Heap!Next ELSE UNCHANGED kmVars
       /\ IF part = "vmm kernel" THEN KernelSpace!Next ELSE UNCHANGED kernelVars
       /\ IF part = "vmm fork" THEN ForkedSpace!Next ELSE UNCHANGED forkVars
       /\ CASE part = "exec" -> ExecTwo!Next
            [] part = "exec one cpu" -> ExecOne!Next
            [] OTHER -> UNCHANGED execVars
       /\ IF part = "threads" THEN Stacks!Next ELSE UNCHANGED thVars
       /\ IF part = "elf" THEN Elf!Next ELSE UNCHANGED elfVars
    \/ part \in MayStop /\ UNCHANGED vars

Spec == Init /\ [][Next]_vars

-----------------------------------------------------------------------------
(* pmm_alloc, kmalloc, krealloc, kfree: no frame has two owners, and none  *)
(* in use is marked free.                                                  *)
FramesHaveOneOwner == part = "kmalloc" => Heap!FramesHaveOneOwner

(* kmalloc, kcalloc, krealloc, kfree: kfree finds the header and the owner *)
(* its data, unless a pmm_alloc that failed cleared the block at address   *)
(* 0; a block has room for what was asked for, and none has a frame that   *)
(* pmm_init keeps for the bitmap or the trampoline.                        *)
BlocksSound ==
    part = "kmalloc" =>
        Heap!CleanBlocksIntact /\ Heap!NoShortBlock /\ Heap!ReservedFramesKept

(* vmm_map, vmm_unmap, vmm_map_huge, vmm_map_if_not_mapped: no call        *)
(* changes what another page or another table translates to.               *)
IsAddressSpace == KernelSpace!IsAddressSpace

(* vmm_copy_pml4: as long as it gets its frames, a copy has the pages of   *)
(* the original with what they hold; it and vmm_free_pml4 neither leak a   *)
(* frame nor share one.                                                    *)
ForkCopies == ForkedSpace!CopyIsEqual /\ [](part = "vmm fork" => ForkedSpace!FramesAccounted)

(* syscall_execve, thread_recreate, scheduler_schedule: a thread is the    *)
(* task of one CPU, its old program is never saved over the new one, and   *)
(* the hole in ActiveTasks is closed before another CPU looks for a task.  *)
(* On one CPU a thread never runs on a page table that execve has freed.   *)
ExecSound ==
    /\ ExecTwo!NewProgramOnly
    /\ [](part = "exec" => ExecTwo!OneCpuEach /\ ExecTwo!NoHole)
    /\ [](part = "exec one cpu" => ExecOne!OwnPageTable)

(* thread_create: a program starts with the stack that the System V ABI    *)
(* promises; each thread has a slot of its own and a stack of its own      *)
(* frames above a page that is not mapped.                                 *)
ThreadStacks ==
    part = "threads" => Stacks!StackIsAbi /\ Stacks!SlotsOnce /\ Stacks!StacksGuarded

(* elf_load: every byte of every PT_LOAD segment is where its header says, *)
(* and the program headers are where the auxiliary vector says.            *)
ProgramLoaded == part = "elf" => Elf!LoadedWhole /\ Elf!HeadersFound
=============================================================================

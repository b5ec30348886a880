-------------------------------- MODULE Exec --------------------------------
(***************************************************************************)
(* exec, execve and fork on top of the scheduler: programs of one thread   *)
(* each and the kernel's thread on several CPUs, with what a CPU holds of  *)
(* a thread (currentTaskID, currentPid, CR3) and what the tables say.      *)
(* Threads that sleep or wait are in Scheduler; here all can run.  A       *)
(* context is <<pid, n>>, n counting the programs the thread has run.      *)
(***************************************************************************)
EXTENDS Integers

CONSTANTS
    CPUs,
    MAX_PROCESSES,
    MaxTasks,           \* MAX_THREADS * 2
    MaxPrograms,        \* bound: programs a thread runs one after the other
    Nobody, NULL

ExecConstants ==
    MAX_PROCESSES \in Nat /\ MaxTasks > MAX_PROCESSES /\ MaxPrograms \in Nat

Pids == 0 .. MAX_PROCESSES - 1

VARIABLES
    ActiveTasks, TotalActiveTasks,
    thread,             \* by pid: taskID, lock, saved context, kernel step and its
                        \* locals (fork's child, execve's oldPagemap); or NULL
    page_table,         \* by pid
    made,               \* page tables made so far
    freed,              \* page tables given to vmm_free_pml4
    cpu,                \* currentPid, currentTaskID, cr3, context that runs there
    SchedulerLock       \* the CPU that holds it across steps

vars == <<ActiveTasks, TotalActiveTasks, thread, page_table, made, freed, cpu, SchedulerLock>>

NewThread(p) == [taskID |-> -1, lock |-> FALSE, saved |-> <<p, 0>>, pc |-> "user", child |-> NULL, old |-> NULL]
Idle == [pid |-> -1, task |-> -1, cr3 |-> 0, runs |-> NULL]

(* kentry_threaded has made process 1 and called exec for it: thread 1 is  *)
(* a task.  The page table of the kernel is number 0.                      *)
Init ==
    /\ ActiveTasks = [i \in 0 .. MaxTasks - 1 |-> IF i < 2 THEN i ELSE NULL]
    /\ TotalActiveTasks = 2
    /\ thread = [p \in Pids |-> IF p < 2 THEN [NewThread(p) EXCEPT !.taskID = p] ELSE NULL]
    /\ page_table = [p \in Pids |-> IF p < 2 THEN p ELSE NULL] /\ made = 1 /\ freed = {}
    /\ cpu = [c \in CPUs |-> Idle]
    /\ SchedulerLock = Nobody

-----------------------------------------------------------------------------
(* scheduler_get_next_task: NULL ends the table, a thread whose lock is    *)
(* held is passed over.                                                    *)
RECURSIVE Scan(_, _, _)
Scan(threads, at, i) ==
    LET k == IF at < MaxTasks /\ ActiveTasks[at] # NULL THEN at ELSE 0
        p == ActiveTasks[k]
    IN  IF i >= TotalActiveTasks \/ p = NULL THEN NULL
        ELSE IF ~threads[p].lock THEN p
        ELSE Scan(threads, IF k + 1 = MaxTasks THEN 0 ELSE k + 1, i + 1)

(* The thread that leaves the CPU keeps its context and loses its lock. *)
Saved(c) ==
    LET p == IF cpu[c].task = -1 THEN NULL ELSE ActiveTasks[cpu[c].task]
    IN  IF p = NULL THEN thread
        ELSE [thread EXCEPT ![p].saved = cpu[c].runs, ![p].lock = FALSE]

(* scheduler_switch_task is given NULL when the page tables of the two     *)
(* processes are the same, and leaves CR3.                                 *)
Cr3(c, p) ==
    IF cpu[c].pid = -1 \/ page_table[p] # page_table[cpu[c].pid] THEN page_table[p] ELSE cpu[c].cr3

(* scheduler_schedule, from the timer, the IPI or force_reschedule; all    *)
(* three locks are held until the switch.                                  *)
scheduler_schedule(c) ==
    LET threads == Saved(c)
        next == Scan(threads, cpu[c].task + 1, 0)
    IN  /\ SchedulerLock = Nobody
        /\ IF next = NULL
           THEN cpu' = [cpu EXCEPT ![c] = Idle] /\ thread' = threads
           ELSE /\ cpu' = [cpu EXCEPT ![c] = [pid |-> next, task |-> threads[next].taskID,
                                              cr3 |-> Cr3(c, next), runs |-> threads[next].saved]]
                /\ thread' = [threads EXCEPT ![next].lock = TRUE]
        /\ UNCHANGED <<ActiveTasks, TotalActiveTasks, page_table, made, freed, SchedulerLock>>

(* Mutant: a task is put behind all others, holes or not. *)
SlotBehind ==
    CHOOSE i \in DOMAIN ActiveTasks :
        /\ \A j \in DOMAIN ActiveTasks : j >= i => ActiveTasks[j] = NULL
        /\ i > 0 => TotalActiveTasks >= i

(* scheduler_add_task, under ReSchedulerLock *)
FreeSlot ==
    CHOOSE i \in DOMAIN ActiveTasks :
        ActiveTasks[i] = NULL /\ \A j \in DOMAIN ActiveTasks : j < i => ActiveTasks[j] # NULL
scheduler_add_task(p, threads) ==
    /\ ActiveTasks' = [ActiveTasks EXCEPT ![FreeSlot] = p]
    /\ TotalActiveTasks' = TotalActiveTasks + 1
    /\ thread' = [threads EXCEPT ![p].taskID = FreeSlot]

-----------------------------------------------------------------------------
(* The thread of process p, which runs on c, is at step l of the kernel. *)
Runs(c, p, l) == cpu[c].task # -1 /\ cpu[c].pid = p /\ thread[p].pc = l
Go(p, l) == [thread EXCEPT ![p].pc = l]

(* syscall_fork: the page table is copied, the process made ... *)
Fork(c, p, q) ==
    /\ Runs(c, p, "user") /\ p # 0 /\ SchedulerLock = Nobody
    /\ thread[q] = NULL /\ \A r \in Pids : r < q => thread[r] # NULL
    /\ thread' = [Go(p, "fork") EXCEPT ![q] = NewThread(q), ![p].child = q]
    /\ made' = made + 1 /\ page_table' = [page_table EXCEPT ![q] = made']
    /\ UNCHANGED <<ActiveTasks, TotalActiveTasks, freed, cpu, SchedulerLock>>
(* ... and its thread handed to the scheduler, without SchedulerLock *)
ForkAdd(c, p) ==
    /\ Runs(c, p, "fork")
    /\ scheduler_add_task(thread[p].child, [Go(p, "user") EXCEPT ![p].child = NULL])
    /\ UNCHANGED <<page_table, made, freed, cpu, SchedulerLock>>

(* syscall_execve takes SchedulerLock for the whole of execve. *)
syscall_execve(c, p) ==
    /\ Runs(c, p, "user") /\ p # 0 /\ SchedulerLock = Nobody
    /\ cpu[c].runs[2] < MaxPrograms
    /\ SchedulerLock' = c /\ thread' = Go(p, "execve")
    /\ UNCHANGED <<ActiveTasks, TotalActiveTasks, page_table, made, freed, cpu>>

(* There is no such program *)
ExecveFails(c, p) ==
    /\ Runs(c, p, "execve")
    /\ SchedulerLock' = Nobody /\ thread' = Go(p, "user")
    /\ UNCHANGED <<ActiveTasks, TotalActiveTasks, page_table, made, freed, cpu>>

(* The program is loaded in a new page table, the thread taken from the    *)
(* task table and the page table made the one of the process.              *)
ExecveLoads(c, p) ==
    /\ Runs(c, p, "execve")
    /\ made' = made + 1 /\ page_table' = [page_table EXCEPT ![p] = made']
    /\ ActiveTasks' = [ActiveTasks EXCEPT ![thread[p].taskID] = NULL]
    /\ thread' = [Go(p, "recreate") EXCEPT ![p].taskID = -1, ![p].old = page_table[p]]
    /\ UNCHANGED <<TotalActiveTasks, freed, cpu, SchedulerLock>>

(* thread_recreate: the lock is free, the context that of the new program. *)
thread_recreate(c, p) ==
    /\ Runs(c, p, "recreate")
    /\ thread' = [Go(p, "add") EXCEPT ![p].lock = FALSE, ![p].taskID = -1,
                                      ![p].saved = <<p, cpu[c].runs[2] + 1>>]
    /\ UNCHANGED <<ActiveTasks, TotalActiveTasks, page_table, made, freed, cpu, SchedulerLock>>

ExecveAdds(c, p) ==
    /\ Runs(c, p, "add")
    /\ scheduler_add_task(p, Go(p, "leave"))
    /\ UNCHANGED <<page_table, made, freed, cpu, SchedulerLock>>

NoTask(c) == [cpu EXCEPT ![c].task = -1]

(* The old page table, on which this CPU still runs, is freed, and the     *)
(* thread is no longer the task of this CPU.                               *)
ExecveLeaves(c, p) ==
    /\ Runs(c, p, "leave")
    /\ freed' = freed \cup {thread[p].old}
    /\ cpu' = NoTask(c) /\ thread' = [Go(p, "user") EXCEPT ![p].old = NULL]
    /\ UNCHANGED <<ActiveTasks, TotalActiveTasks, page_table, made, SchedulerLock>>

(* force_reschedule releases SchedulerLock on the kernel stack of the      *)
(* thread (runs), which it leaves in scheduler_schedule only.              *)
force_reschedule(c) ==
    /\ SchedulerLock = c /\ cpu[c].task = -1
    /\ SchedulerLock' = Nobody
    /\ UNCHANGED <<ActiveTasks, TotalActiveTasks, thread, page_table, made, freed, cpu>>

Next ==
    \E c \in CPUs :
        \/ scheduler_schedule(c) \/ force_reschedule(c)
        \/ \E p \in Pids :
            \/ \E q \in Pids : Fork(c, p, q)
            \/ ForkAdd(c, p) \/ syscall_execve(c, p) \/ ExecveFails(c, p) \/ ExecveLoads(c, p)
            \/ thread_recreate(c, p) \/ ExecveAdds(c, p) \/ ExecveLeaves(c, p)

Spec == Init /\ [][Next]_vars

-----------------------------------------------------------------------------
(* Properties *)

(* A thread is the task of one CPU: although thread_recreate frees the     *)
(* lock of a thread that is running, no other CPU picks it before this CPU *)
(* has given it up as its task (its kernel stack it leaves later).         *)
OneCpuEach ==
    \A c, d \in CPUs : cpu[c].task # -1 /\ cpu[c].task = cpu[d].task => c = d

(* "Don't save current context to the regenerated thread" (thread.c): once *)
(* thread_recreate has set the context of the new program, the old program *)
(* is never saved over it and never runs again.                            *)
NewProgramOnly ==
    [][\A p \in Pids : (thread[p] # NULL) => (thread'[p].saved[2] >= thread[p].saved[2])]_vars

(* Every task lies before the first NULL, where scheduler_get_next_task    *)
(* turns back, whenever some CPU can look for one: execve's hole is closed *)
(* before it releases SchedulerLock, also when a fork takes it first.      *)
NoHole ==
    SchedulerLock = Nobody =>
        \A i, j \in DOMAIN ActiveTasks : i < j /\ ActiveTasks[j] # NULL => ActiveTasks[i] # NULL

(* A CPU that runs a thread has loaded the page table of its process, which *)
(* scheduler_switch_task leaves alone when it takes it to be loaded, and   *)
(* which is not one that execve has freed.                                 *)
OwnPageTable ==
    \A c \in CPUs : cpu[c].task # -1 /\ thread[cpu[c].pid].pc = "user"
                        => cpu[c].cr3 = page_table[cpu[c].pid] /\ cpu[c].cr3 \notin freed
=============================================================================

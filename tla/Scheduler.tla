----------------------------- MODULE Scheduler -----------------------------
(***************************************************************************)
(* The SMP round-robin scheduler: kernel/tasking/scheduler.c, event.c, the *)
(* context switch of kernel/cpu/cpu.asm, the timer interrupt of            *)
(* kernel/devices/timer.c and the spinlocks of kernel/utils/spinlock.h.    *)
(*                                                                         *)
(* Every CPU executes one context at a time.  pc[c] is the place CPU c     *)
(* executes, ctx[c] the context whose stack and registers it executes on:  *)
(* a thread, or Idle (the CPU's own stack: the hlt loop of                 *)
(* scheduler_idle_halt, or the boot code before the first interrupt).      *)
(* Places in ThreadPCs and "halt" run with interrupts enabled; all others  *)
(* belong to scheduler_schedule and its callees, which run with interrupts *)
(* disabled (interrupt gates, and the cli of force_reschedule).            *)
(***************************************************************************)
EXTENDS Integers, FiniteSets

CONSTANTS
    CPUs,           \* the processors
    BSP,            \* CPU 0: the only one the timer and device IRQs reach
    Threads,        \* the thread_t objects, already made by thread_create
    Events,         \* event_t counters
    Pid,            \* [Threads -> process identifiers], thread->pid
    KernelPid,      \* process 0, whose page table is KernelPml4
    NoPid,          \* currentPid == -1
    WaitsOn,        \* [Threads -> SUBSET Events] the events a thread awaits
    FirstTasks,     \* number of the threads already in ActiveTasks
    FirstTask,      \* [0..FirstTasks-1 -> Threads] those threads
    Spawned,        \* the threads scheduler_add_task is called for
    Ops,            \* [Threads -> names of the calls a thread makes]
    Idle, NULL,
    MaxTasks,       \* MAX_THREADS * 2
    MaxSleep,       \* bound: ticks a thread_sleep or a timeout asks for
    MaxTicks,       \* bound: TimerCounter stops counting here
    MaxCount,       \* bound: event_notify is called while count < MaxCount
    EventModulus,   \* 2^16: locked_inc and locked_dec are incw and decw
    TimerModulus    \* 2^32: yield targets are computed in a uint32_t

ASSUME SchedulerConstants ==
    /\ BSP \in CPUs
    /\ Idle \notin Threads /\ NULL \notin Threads /\ NULL \notin Events
    /\ Pid \in [Threads -> Int] /\ KernelPid \in Int /\ NoPid \in Int
    /\ \A t \in Threads : Pid[t] # NoPid
    /\ Spawned \subseteq Threads
    /\ WaitsOn \in [Threads -> SUBSET Events]
    /\ MaxTasks \in Nat /\ FirstTasks \in 1 .. MaxTasks
    /\ FirstTask \in [0 .. FirstTasks - 1 -> Threads]
    /\ \A i, j \in 0 .. FirstTasks - 1 : FirstTask[i] = FirstTask[j] => i = j
    /\ MaxSleep \in Nat /\ MaxTicks \in Nat /\ MaxCount \in Nat
    /\ EventModulus \in Nat /\ MaxCount < EventModulus
    /\ TimerModulus \in Nat /\ 0 < TimerModulus

(* With all slots of ActiveTasks in use scheduler_get_next_task, which does *)
(* not wrap its first increment, would read past the end of the array; the  *)
(* model keeps to tables with a free slot, where it never does.             *)
ASSUME TaskTableNotFull ==
    IsFiniteSet(Threads) /\ Cardinality(Threads) < MaxTasks

VARIABLES
    ReSchedulerLock, SchedulerLock, SecondSchedulerLock,  \* lock words
    TimerCounter,
    ActiveTasks, TotalActiveTasks,
    taskID, lock, saved_regs,                  \* fields of thread_t ...
    yield_target, event_pointer, event_timeout,
    process_lock,                              \* process_t.lock, by pid
    event,                                     \* the event_t counters
    currentTaskID, currentPid,                 \* fields of CPULocals[c]
    cr3,                                       \* page table loaded, by pid
    ctx, pc,                                   \* what a CPU executes
    frame, forced,                             \* the irq_regs_t *regs
    scan, nextTask,                            \* locals of the scheduler
    arg,                                       \* argument of a thread's call
    ipi                                        \* pending RESCHED_IPI_IRQ

locks == <<ReSchedulerLock, SchedulerLock, SecondSchedulerLock>>
table == <<ActiveTasks, TotalActiveTasks, taskID, process_lock>>
waits == <<yield_target, event_pointer, event_timeout>>
cpuLocal == <<currentTaskID, currentPid, cr3, ctx>>
regs == <<frame, forced>>
pick == <<scan, nextTask>>
vars == <<locks, TimerCounter, table, lock, saved_regs, waits, event,
          cpuLocal, pc, regs, pick, arg, ipi>>

Slots == 0 .. MaxTasks - 1
Pids == {Pid[t] : t \in Threads} \cup {KernelPid}

(***************************************************************************)
(* Spinlocks.  Bit 0 of the word is 1 when the lock is free.  btr takes    *)
(* it, bts frees it; scheduler_switch_task and force_reschedule free it    *)
(* with inc instead, which is right only if the lock is held (word 0).     *)
(***************************************************************************)
Free(w) == w % 2 = 1
Btr(w) == IF Free(w) THEN w - 1 ELSE w
Bts(w) == IF Free(w) THEN w ELSE w + 1
Inc(w) == w + 1

(***************************************************************************)
(* Places.  A thread inside yield, thread_sleep, events_await, ... is at   *)
(* the named step of that call; "run" is everything else it does.          *)
(***************************************************************************)
HoldsSchedPCs == {"force", "gpunlock", "aunlock", "tunlock"}
HoldsReSchedPCs == {"reunlock"}
ThreadPCs == {"run", "ylock", "slock", "gplock", "aread", "adec", "alock",
              "aptr", "tlock", "rread", "rdec", "plock", "relock", "punlock"}
             \cup HoldsSchedPCs \cup HoldsReSchedPCs
SchedulePCs == {"lockRe", "trySched", "trySecond", "save", "pick", "pickDec",
                "switch", "idle", "rel2", "rel1", "rel0", "unwind"}

Places == ThreadPCs \cup SchedulePCs \cup {"halt"}

NoArg == [ev |-> NULL, val |-> 0, thr |-> NULL]

InterruptsOn(c) == pc[c] \in ThreadPCs \cup {"halt"}

Go(c, l) == pc' = [pc EXCEPT ![c] = l]

Init ==
    /\ ReSchedulerLock = 1 /\ SchedulerLock = 1 /\ SecondSchedulerLock = 1
    /\ TimerCounter = 0
    /\ ActiveTasks = [s \in Slots |-> IF s < FirstTasks THEN FirstTask[s] ELSE NULL]
    /\ TotalActiveTasks = FirstTasks
    /\ taskID = [t \in Threads |->
                    IF \E s \in 0 .. FirstTasks - 1 : FirstTask[s] = t
                    THEN CHOOSE s \in 0 .. FirstTasks - 1 : FirstTask[s] = t
                    ELSE -1]
    /\ lock = [t \in Threads |-> 1]
    /\ saved_regs = [t \in Threads |-> "run"]
    /\ yield_target = [t \in Threads |-> 0]
    /\ event_pointer = [t \in Threads |-> NULL]
    /\ event_timeout = [t \in Threads |-> 0]
    /\ process_lock = [p \in Pids |-> 1]
    /\ event = [e \in Events |-> 0]
    /\ currentTaskID = [c \in CPUs |-> -1]
    /\ currentPid = [c \in CPUs |-> NoPid]
    /\ cr3 = [c \in CPUs |-> KernelPid]
    /\ ctx = [c \in CPUs |-> Idle]
    /\ pc = [c \in CPUs |-> "halt"]
    /\ frame = [c \in CPUs |-> "halt"]
    /\ forced = [c \in CPUs |-> FALSE]
    /\ scan = [c \in CPUs |-> [task |-> 0, i |-> 0]]
    /\ nextTask = [c \in CPUs |-> NULL]
    /\ arg = [t \in Threads |-> NoArg]
    /\ ipi = [c \in CPUs |-> FALSE]

(***************************************************************************)
(* Interrupts.  timer_handler counts the tick and reschedules every CPU:   *)
(* scheduler_schedule_smp sends RESCHED_IPI_IRQ to all CPUs but CPU 0 (the *)
(* sender included) and then runs scheduler_schedule on its own.           *)
(***************************************************************************)
SendIPIs == ipi' = [c \in CPUs |-> ipi[c] \/ c # BSP]

EnterSchedule(c) ==
    /\ frame' = [frame EXCEPT ![c] = pc[c]]
    /\ forced' = [forced EXCEPT ![c] = FALSE]
    /\ Go(c, "lockRe")

TimerInterrupt(c) ==
    /\ c = BSP /\ InterruptsOn(c)
    /\ TimerCounter' = IF TimerCounter < MaxTicks THEN TimerCounter + 1 ELSE TimerCounter
    /\ SendIPIs
    /\ EnterSchedule(c)
    /\ UNCHANGED <<locks, table, lock, saved_regs, waits, event, cpuLocal, pick, arg>>

ReschedInterrupt(c) ==
    /\ ipi[c] /\ InterruptsOn(c)
    /\ ipi' = [ipi EXCEPT ![c] = FALSE]
    /\ EnterSchedule(c)
    /\ UNCHANGED <<locks, TimerCounter, table, lock, saved_regs, waits, event,
                   cpuLocal, pick, arg>>

(* A device interrupt whose handler calls event_notify. *)
DeviceInterrupt(c) ==
    /\ c = BSP /\ InterruptsOn(c)
    /\ \E e \in Events :
          /\ event[e] < MaxCount
          /\ event' = [event EXCEPT ![e] = (@ + 1) % EventModulus]
    /\ UNCHANGED <<locks, TimerCounter, table, lock, saved_regs, waits, cpuLocal,
                   pc, regs, pick, arg, ipi>>

(***************************************************************************)
(* scheduler_schedule.                                                     *)
(***************************************************************************)
LockReScheduler(c) ==
    /\ pc[c] = "lockRe" /\ Free(ReSchedulerLock)
    /\ ReSchedulerLock' = Btr(ReSchedulerLock)
    /\ Go(c, "trySched")
    /\ UNCHANGED <<SchedulerLock, SecondSchedulerLock, TimerCounter, table, lock,
                   saved_regs, waits, event, cpuLocal, regs, pick, arg, ipi>>

(* Mutant: the result of the try is ignored. *)
TrySchedulerIgnored(c) ==
    /\ pc[c] = "trySched"
    /\ SchedulerLock' = Btr(SchedulerLock)
    /\ Go(c, "trySecond")
    /\ UNCHANGED <<ReSchedulerLock, SecondSchedulerLock, TimerCounter, table, lock,
                   saved_regs, waits, event, cpuLocal, regs, pick, arg, ipi>>

TryScheduler(c) ==
    /\ pc[c] = "trySched"
    /\ SchedulerLock' = Btr(SchedulerLock)
    /\ Go(c, IF Free(SchedulerLock) THEN "trySecond" ELSE "unwind")
    /\ UNCHANGED <<ReSchedulerLock, SecondSchedulerLock, TimerCounter, table, lock,
                   saved_regs, waits, event, cpuLocal, regs, pick, arg, ipi>>

(* The failing branch also frees SchedulerLock (lines 131-135). *)
TrySecond(c) ==
    /\ pc[c] = "trySecond"
    /\ SecondSchedulerLock' = Btr(SecondSchedulerLock)
    /\ SchedulerLock' = IF Free(SecondSchedulerLock) THEN SchedulerLock ELSE Bts(SchedulerLock)
    /\ Go(c, IF Free(SecondSchedulerLock) THEN "save" ELSE "unwind")
    /\ UNCHANGED <<ReSchedulerLock, TimerCounter, table, lock,
                   saved_regs, waits, event, cpuLocal, regs, pick, arg, ipi>>

(* Early return: an interrupt resumes what it interrupted, the .retry loop *)
(* of force_reschedule calls scheduler_schedule_smp again.                 *)
Unwind(c) ==
    /\ pc[c] = "unwind"
    /\ ReSchedulerLock' = Bts(ReSchedulerLock)
    /\ IF forced[c]
       THEN SendIPIs /\ Go(c, "lockRe") /\ UNCHANGED regs
       ELSE /\ Go(c, frame[c])
            /\ frame' = [frame EXCEPT ![c] = "halt"]
            /\ UNCHANGED <<forced, ipi>>
    /\ UNCHANGED <<SchedulerLock, SecondSchedulerLock, TimerCounter, table, lock,
                   saved_regs, waits, event, cpuLocal, pick, arg>>

(* Mutant: the lock of the thread that is left stays taken. *)
SaveCurrentKeepsLock(c) ==
    /\ pc[c] = "save"
    /\ IF currentTaskID[c] # -1 /\ ActiveTasks[currentTaskID[c]] # NULL
       THEN saved_regs' = [saved_regs EXCEPT ![ActiveTasks[currentTaskID[c]]] = frame[c]]
       ELSE UNCHANGED saved_regs
    /\ scan' = [scan EXCEPT ![c] = [task |-> currentTaskID[c] + 1, i |-> 0]]
    /\ Go(c, "pick")
    /\ UNCHANGED <<locks, TimerCounter, table, lock, waits, event, cpuLocal, regs,
                   nextTask, arg, ipi>>

(* The thread the CPU leaves is saved and its lock freed, while the CPU    *)
(* still executes on its stack.                                            *)
SaveCurrent(c) ==
    /\ pc[c] = "save"
    /\ IF currentTaskID[c] # -1 /\ ActiveTasks[currentTaskID[c]] # NULL
       THEN LET t == ActiveTasks[currentTaskID[c]] IN
            /\ saved_regs' = [saved_regs EXCEPT ![t] = frame[c]]
            /\ lock' = [lock EXCEPT ![t] = Bts(@)]
       ELSE UNCHANGED <<saved_regs, lock>>
    /\ scan' = [scan EXCEPT ![c] = [task |-> currentTaskID[c] + 1, i |-> 0]]
    /\ Go(c, "pick")
    /\ UNCHANGED <<locks, TimerCounter, table, waits, event, cpuLocal, regs,
                   nextTask, arg, ipi>>

(***************************************************************************)
(* scheduler_get_next_task: one step per candidate.                        *)
(***************************************************************************)
TaskAt(s) == IF s \in Slots THEN ActiveTasks[s] ELSE NULL
Candidate(c) == IF TaskAt(scan[c].task) = NULL THEN 0 ELSE scan[c].task

(* Mutant: one tick too early. *)
AsleepOneLess(t) == yield_target[t] > TimerCounter + 1
Asleep(t) == yield_target[t] > TimerCounter
Expired(t) == event_timeout[t] # 0 /\ event_timeout[t] <= TimerCounter

Examines(c, t) ==
    /\ pc[c] = "pick" /\ scan[c].i < TotalActiveTasks
    /\ TaskAt(Candidate(c)) = t /\ t # NULL

(* Mutant: the thread's lock is not tried. *)
TakesUntried(c, t) ==
    /\ Examines(c, t) /\ ~Asleep(t)
    /\ lock' = [lock EXCEPT ![t] = Btr(@)]
    /\ nextTask' = [nextTask EXCEPT ![c] = t]

Takes(c, t) ==
    /\ Examines(c, t) /\ ~Asleep(t) /\ Free(lock[t])
    /\ lock' = [lock EXCEPT ![t] = Btr(@)]
    /\ nextTask' = [nextTask EXCEPT ![c] = t]

(* Mutant: a thread found waiting keeps the lock its examination took. *)
PickSkipKeepsLock(c) ==
    /\ \E t \in Threads :
          /\ Examines(c, t)
          /\ \/ (Asleep(t) \/ ~Free(lock[t])) /\ UNCHANGED lock
             \/ /\ event_pointer[t] # NULL /\ event[event_pointer[t]] = 0 /\ ~Expired(t)
                /\ lock' = [lock EXCEPT ![t] = Btr(@)]
    /\ scan' = [scan EXCEPT ![c] = [task |-> (Candidate(c) + 1) % MaxTasks,
                                     i |-> scan[c].i + 1]]
    /\ UNCHANGED <<locks, TimerCounter, table, saved_regs, waits, event,
                   cpuLocal, pc, regs, nextTask, arg, ipi>>

PickSkip(c) ==
    /\ \E t \in Threads :
          /\ Examines(c, t)
          /\ \/ Asleep(t)
             \/ ~Free(lock[t])
             \/ event_pointer[t] # NULL /\ event[event_pointer[t]] = 0 /\ ~Expired(t)
    /\ scan' = [scan EXCEPT ![c] = [task |-> (Candidate(c) + 1) % MaxTasks,
                                     i |-> scan[c].i + 1]]
    /\ UNCHANGED <<locks, TimerCounter, table, lock, saved_regs, waits, event,
                   cpuLocal, pc, regs, nextTask, arg, ipi>>

PickReady(c) ==
    /\ \E t \in Threads : Takes(c, t) /\ event_pointer[t] = NULL
    /\ Go(c, "switch")
    /\ UNCHANGED <<locks, TimerCounter, table, saved_regs, waits, event, cpuLocal,
                   regs, scan, arg, ipi>>

(* locked_read of the awaited event is not 0; locked_dec is a later step.  *)
PickNotified(c) ==
    /\ \E t \in Threads :
          Takes(c, t) /\ event_pointer[t] # NULL /\ event[event_pointer[t]] # 0
    /\ Go(c, "pickDec")
    /\ UNCHANGED <<locks, TimerCounter, table, saved_regs, waits, event, cpuLocal,
                   regs, scan, arg, ipi>>

PickDec(c) ==
    /\ pc[c] = "pickDec"
    /\ LET t == nextTask[c] IN
       /\ event' = [event EXCEPT ![event_pointer[t]] = (@ - 1) % EventModulus]
       /\ event_pointer' = [event_pointer EXCEPT ![t] = NULL]
    /\ Go(c, "switch")
    /\ UNCHANGED <<locks, TimerCounter, table, lock, saved_regs, yield_target,
                   event_timeout, cpuLocal, regs, pick, arg, ipi>>

PickExpired(c) ==
    /\ \E t \in Threads :
          /\ Takes(c, t) /\ event_pointer[t] # NULL
          /\ event[event_pointer[t]] = 0 /\ Expired(t)
          /\ event_pointer' = [event_pointer EXCEPT ![t] = NULL]
          /\ event_timeout' = [event_timeout EXCEPT ![t] = 0]
    /\ Go(c, "switch")
    /\ UNCHANGED <<locks, TimerCounter, table, saved_regs, yield_target, event,
                   cpuLocal, regs, scan, arg, ipi>>

PickNone(c) ==
    /\ pc[c] = "pick"
    /\ scan[c].i >= TotalActiveTasks \/ TaskAt(Candidate(c)) = NULL
    /\ Go(c, "idle")
    /\ UNCHANGED <<locks, TimerCounter, table, lock, saved_regs, waits, event,
                   cpuLocal, regs, pick, arg, ipi>>

(***************************************************************************)
(* The switch.  scheduler_idle leaves the old stack for the CPU's own one, *)
(* scheduler_switch_task leaves it for the registers of the next thread;   *)
(* both free the three locks only after that, in the same order.           *)
(***************************************************************************)
(* Mutant: scheduler_idle_halt does not reset currentTaskID. *)
GoIdleKeepsTask(c) ==
    /\ pc[c] = "idle"
    /\ cr3' = [cr3 EXCEPT ![c] = KernelPid]
    /\ ctx' = [ctx EXCEPT ![c] = Idle]
    /\ currentPid' = [currentPid EXCEPT ![c] = NoPid]
    /\ frame' = [frame EXCEPT ![c] = "halt"]
    /\ Go(c, "rel2")
    /\ UNCHANGED <<locks, TimerCounter, table, lock, saved_regs, waits, event,
                   currentTaskID, forced, pick, arg, ipi>>

GoIdle(c) ==
    /\ pc[c] = "idle"
    /\ cr3' = [cr3 EXCEPT ![c] = KernelPid]
    /\ ctx' = [ctx EXCEPT ![c] = Idle]
    /\ currentTaskID' = [currentTaskID EXCEPT ![c] = -1]
    /\ currentPid' = [currentPid EXCEPT ![c] = NoPid]
    /\ frame' = [frame EXCEPT ![c] = "halt"]
    /\ Go(c, "rel2")
    /\ UNCHANGED <<locks, TimerCounter, table, lock, saved_regs, waits, event,
                   forced, pick, arg, ipi>>

(* Mutant: only a CPU that was idle loads cr3. *)
LoadsFromIdle(c, t) == currentPid[c] = NoPid

(* Whether scheduler_switch_task gets a page table to load, or NULL. *)
LoadsPageTable(c, t) == currentPid[c] = NoPid \/ Pid[t] # currentPid[c]

SwitchTask(c) ==
    /\ pc[c] = "switch"
    /\ LET t == nextTask[c] IN
       /\ currentPid' = [currentPid EXCEPT ![c] = Pid[t]]
       /\ currentTaskID' = [currentTaskID EXCEPT ![c] = taskID[t]]
       /\ cr3' = IF LoadsPageTable(c, t) THEN [cr3 EXCEPT ![c] = Pid[t]] ELSE cr3
       /\ ctx' = [ctx EXCEPT ![c] = t]
       /\ frame' = [frame EXCEPT ![c] = saved_regs[t]]
    /\ Go(c, "rel2")
    /\ UNCHANGED <<locks, TimerCounter, table, lock, saved_regs, waits, event,
                   forced, pick, arg, ipi>>

Release(c, w) == IF ctx[c] = Idle THEN Bts(w) ELSE Inc(w)

ReleaseSecond(c) ==
    /\ pc[c] = "rel2"
    /\ SecondSchedulerLock' = Release(c, SecondSchedulerLock)
    /\ Go(c, "rel1")
    /\ UNCHANGED <<ReSchedulerLock, SchedulerLock, TimerCounter, table, lock,
                   saved_regs, waits, event, cpuLocal, regs, pick, arg, ipi>>

ReleaseScheduler(c) ==
    /\ pc[c] = "rel1"
    /\ SchedulerLock' = Release(c, SchedulerLock)
    /\ Go(c, "rel0")
    /\ UNCHANGED <<ReSchedulerLock, SecondSchedulerLock, TimerCounter, table, lock,
                   saved_regs, waits, event, cpuLocal, regs, pick, arg, ipi>>

(* ... and iretq, or sti and hlt: the scheduler's locals are gone. *)
Resume(c) ==
    /\ pc[c] = "rel0"
    /\ ReSchedulerLock' = Release(c, ReSchedulerLock)
    /\ Go(c, frame[c])
    /\ frame' = [frame EXCEPT ![c] = "halt"]
    /\ forced' = [forced EXCEPT ![c] = FALSE]
    /\ scan' = [scan EXCEPT ![c] = [task |-> 0, i |-> 0]]
    /\ nextTask' = [nextTask EXCEPT ![c] = NULL]
    /\ UNCHANGED <<SchedulerLock, SecondSchedulerLock, TimerCounter, table, lock,
                   saved_regs, waits, event, cpuLocal, arg, ipi>>

(***************************************************************************)
(* Calls a running thread makes.  Current(c) is how the code finds its own *)
(* thread_t; Self(c) is the context really executing.                      *)
(***************************************************************************)
Self(c) == ctx[c]
Current(c) == ActiveTasks[currentTaskID[c]]

Call(c, op, l, a) ==
    /\ pc[c] = "run" /\ op \in Ops[Self(c)]
    /\ Go(c, l)
    /\ arg' = [arg EXCEPT ![Self(c)] = a]
    /\ UNCHANGED <<locks, TimerCounter, table, lock, saved_regs, waits, event,
                   cpuLocal, regs, pick, ipi>>

CallYield(c) == Call(c, "yield", "ylock", NoArg)
CallSleep(c) == Call(c, "sleep", "slock", NoArg)
CallGetPid(c) == Call(c, "getpid", "gplock", NoArg)
CallAwait(c) ==
    /\ pc[c] = "run"
    /\ \E e \in WaitsOn[Self(c)] : Call(c, "await", "aread", [NoArg EXCEPT !.ev = e])
(* event_array_await_timeout computes its target before taking the lock. *)
CallAwaitTimeout(c) ==
    /\ pc[c] = "run"
    /\ \E e \in WaitsOn[Self(c)], d \in 0 .. MaxSleep :
          /\ TimerCounter + d + 1 <= MaxTicks
          /\ Call(c, "awaitTimeout", "tlock",
                  [NoArg EXCEPT !.ev = e, !.val = TimerCounter + d + 1])
CallReset(c) ==
    /\ pc[c] = "run"
    /\ \E e \in WaitsOn[Self(c)] : Call(c, "reset", "rread", [NoArg EXCEPT !.ev = e])
CallAddTask(c) ==
    \E t \in Spawned : Call(c, "add", "plock", [NoArg EXCEPT !.thr = t])

(* spinlock_lock(&SchedulerLock) by a thread, with interrupts enabled. *)
TakeScheduler(c, from, to) ==
    /\ pc[c] = from /\ Free(SchedulerLock)
    /\ SchedulerLock' = Btr(SchedulerLock)
    /\ Go(c, to)
    /\ UNCHANGED <<ReSchedulerLock, SecondSchedulerLock, TimerCounter, table, lock,
                   saved_regs, event, cpuLocal, regs, pick, ipi>>

DropScheduler(c, from, to) ==
    /\ pc[c] = from
    /\ SchedulerLock' = Bts(SchedulerLock)
    /\ Go(c, to)
    /\ UNCHANGED <<ReSchedulerLock, SecondSchedulerLock, TimerCounter, table, lock,
                   saved_regs, waits, event, cpuLocal, regs, pick, arg, ipi>>

(* Mutant: force_reschedule called without SchedulerLock. *)
YieldUnlocked(c) ==
    /\ pc[c] = "ylock" /\ Go(c, "force")
    /\ UNCHANGED <<locks, TimerCounter, table, lock, saved_regs, waits, event,
                   cpuLocal, regs, pick, arg, ipi>>

YieldLock(c) == TakeScheduler(c, "ylock", "force") /\ UNCHANGED <<waits, arg>>

SleepLock(c) ==
    /\ TakeScheduler(c, "slock", "force")
    /\ \E d \in 0 .. MaxSleep :
          /\ TimerCounter + d <= MaxTicks
          /\ yield_target' = [yield_target EXCEPT ![Current(c)] =
                                  (TimerCounter + d) % TimerModulus]
    /\ UNCHANGED <<event_pointer, event_timeout, arg>>

GetPidLock(c) == TakeScheduler(c, "gplock", "gpunlock") /\ UNCHANGED <<waits, arg>>
GetPidUnlock(c) == DropScheduler(c, "gpunlock", "run")

(* cli, a frame that resumes at .done, and the inc that frees the lock. *)
ForceReschedule(c) ==
    /\ pc[c] = "force"
    /\ SchedulerLock' = Inc(SchedulerLock)
    /\ frame' = [frame EXCEPT ![c] = "run"]
    /\ forced' = [forced EXCEPT ![c] = TRUE]
    /\ SendIPIs
    /\ Go(c, "lockRe")
    /\ UNCHANGED <<ReSchedulerLock, SecondSchedulerLock, TimerCounter, table, lock,
                   saved_regs, waits, event, cpuLocal, pick, arg>>

(***************************************************************************)
(* event.c.  Every caller awaits one event, so event_pointer[t] is that    *)
(* event.  Nothing sets event_abort, so events_await returns true.         *)
(***************************************************************************)
EventStep(c, from, to, e, v) ==
    /\ pc[c] = from
    /\ event' = [event EXCEPT ![e] = v % EventModulus]
    /\ Go(c, to)
    /\ arg' = IF to = "run" THEN [arg EXCEPT ![Self(c)] = NoArg] ELSE arg
    /\ UNCHANGED <<locks, TimerCounter, table, lock, saved_regs, waits, cpuLocal,
                   regs, pick, ipi>>

Argument(c) == arg[Self(c)]

EventNotify(c) ==
    /\ pc[c] = "run" /\ "notify" \in Ops[Self(c)]
    /\ \E e \in Events :
          event[e] < MaxCount /\ EventStep(c, "run", "run", e, event[e] + 1)

(* Mutant: the count is not looked at. *)
AwaitUnread(c) ==
    LET e == Argument(c).ev IN EventStep(c, "aread", "adec", e, event[e])

(* locked_read, then locked_dec: the fast path of events_await ... *)
AwaitRead(c) ==
    LET e == Argument(c).ev IN
    EventStep(c, "aread", IF event[e] # 0 THEN "adec" ELSE "alock", e, event[e])
AwaitDec(c) ==
    LET e == Argument(c).ev IN EventStep(c, "adec", "run", e, event[e] - 1)

(* ... and event_reset, until the count reads 0. *)
ResetRead(c) ==
    LET e == Argument(c).ev IN
    EventStep(c, "rread", IF event[e] # 0 THEN "rdec" ELSE "run", e, event[e])
ResetDec(c) ==
    LET e == Argument(c).ev IN EventStep(c, "rdec", "rread", e, event[e] - 1)

(* currentThread is found under SchedulerLock and used after it is freed. *)
AwaitLock(c) ==
    /\ TakeScheduler(c, "alock", "aunlock")
    /\ arg' = [arg EXCEPT ![Self(c)].thr = Current(c)]
    /\ UNCHANGED waits
AwaitUnlock(c) == DropScheduler(c, "aunlock", "aptr")
AwaitPublish(c) ==
    /\ pc[c] = "aptr"
    /\ event_pointer' = [event_pointer EXCEPT ![Argument(c).thr] = Argument(c).ev]
    /\ arg' = [arg EXCEPT ![Self(c)] = NoArg]
    /\ Go(c, "ylock")
    /\ UNCHANGED <<locks, TimerCounter, table, lock, saved_regs, yield_target,
                   event_timeout, event, cpuLocal, regs, pick, ipi>>

TimeoutLock(c) ==
    /\ TakeScheduler(c, "tlock", "tunlock")
    /\ event_timeout' = [event_timeout EXCEPT ![Current(c)] = Argument(c).val]
    /\ UNCHANGED <<yield_target, event_pointer, arg>>
TimeoutUnlock(c) == DropScheduler(c, "tunlock", "aread")

(***************************************************************************)
(* scheduler_add_task: process->lock, then ReSchedulerLock, both with      *)
(* interrupts enabled; the thread goes to the first free slot.             *)
(***************************************************************************)
ProcessOf(c) == Pid[Argument(c).thr]

(* Mutant: the thread's taskID is not looked at. *)
AddUnchecked(c) ==
    /\ pc[c] = "plock" /\ Free(process_lock[ProcessOf(c)])
    /\ process_lock' = [process_lock EXCEPT ![ProcessOf(c)] = Btr(@)]
    /\ Go(c, "relock")
    /\ UNCHANGED <<locks, TimerCounter, ActiveTasks, TotalActiveTasks, taskID, lock,
                   saved_regs, waits, event, cpuLocal, regs, pick, arg, ipi>>

AddLockProcess(c) ==
    /\ pc[c] = "plock" /\ Free(process_lock[ProcessOf(c)])
    /\ process_lock' = [process_lock EXCEPT ![ProcessOf(c)] = Btr(@)]
    /\ Go(c, IF taskID[Argument(c).thr] = -1 THEN "relock" ELSE "punlock")
    /\ UNCHANGED <<locks, TimerCounter, ActiveTasks, TotalActiveTasks, taskID, lock,
                   saved_regs, waits, event, cpuLocal, regs, pick, arg, ipi>>

AddInsert(c) ==
    /\ pc[c] = "relock" /\ Free(ReSchedulerLock)
    /\ ReSchedulerLock' = Btr(ReSchedulerLock)
    /\ \E s \in Slots :
          /\ ActiveTasks[s] = NULL /\ \A r \in 0 .. s - 1 : ActiveTasks[r] # NULL
          /\ taskID' = [taskID EXCEPT ![Argument(c).thr] = s]
          /\ ActiveTasks' = [ActiveTasks EXCEPT ![s] = Argument(c).thr]
    /\ TotalActiveTasks' = TotalActiveTasks + 1
    /\ Go(c, "reunlock")
    /\ UNCHANGED <<SchedulerLock, SecondSchedulerLock, TimerCounter, process_lock,
                   lock, saved_regs, waits, event, cpuLocal, regs, pick, arg, ipi>>

AddUnlockRe(c) ==
    /\ pc[c] = "reunlock"
    /\ ReSchedulerLock' = Bts(ReSchedulerLock)
    /\ Go(c, "punlock")
    /\ UNCHANGED <<SchedulerLock, SecondSchedulerLock, TimerCounter, table, lock,
                   saved_regs, waits, event, cpuLocal, regs, pick, arg, ipi>>

AddUnlockProcess(c) ==
    /\ pc[c] = "punlock"
    /\ process_lock' = [process_lock EXCEPT ![ProcessOf(c)] = Bts(@)]
    /\ arg' = [arg EXCEPT ![Self(c)] = NoArg]
    /\ Go(c, "run")
    /\ UNCHANGED <<locks, TimerCounter, ActiveTasks, TotalActiveTasks, taskID, lock,
                   saved_regs, waits, event, cpuLocal, regs, pick, ipi>>

Interrupt(c) == TimerInterrupt(c) \/ ReschedInterrupt(c) \/ DeviceInterrupt(c)

Pick(c) == \/ PickSkip(c) \/ PickReady(c) \/ PickNotified(c) \/ PickDec(c)
           \/ PickExpired(c) \/ PickNone(c)

Schedule(c) == \/ LockReScheduler(c) \/ TryScheduler(c) \/ TrySecond(c)
               \/ Unwind(c) \/ SaveCurrent(c) \/ Pick(c)
               \/ GoIdle(c) \/ SwitchTask(c)
               \/ ReleaseSecond(c) \/ ReleaseScheduler(c) \/ Resume(c)

StartCall(c) == \/ CallYield(c) \/ CallSleep(c) \/ CallGetPid(c) \/ CallAwait(c)
                \/ CallAwaitTimeout(c) \/ CallReset(c) \/ CallAddTask(c)
                \/ EventNotify(c)

InCall(c) == \/ YieldLock(c) \/ SleepLock(c) \/ GetPidLock(c) \/ GetPidUnlock(c)
             \/ ForceReschedule(c)
             \/ AwaitRead(c) \/ AwaitDec(c) \/ ResetRead(c) \/ ResetDec(c)
             \/ AwaitLock(c) \/ AwaitUnlock(c) \/ AwaitPublish(c)
             \/ TimeoutLock(c) \/ TimeoutUnlock(c)
             \/ AddLockProcess(c) \/ AddInsert(c) \/ AddUnlockRe(c)
             \/ AddUnlockProcess(c)

Next == \E c \in CPUs : Interrupt(c) \/ Schedule(c) \/ StartCall(c) \/ InCall(c)

Spec == Init /\ [][Next]_vars

(***************************************************************************)
(* Fairness.  Scheduler code runs with interrupts off to its end; a tick   *)
(* or IPI that stays possible is delivered; every CPU that keeps spinning  *)
(* on ReSchedulerLock wins it some time; a time slice is long enough for   *)
(* the next step of the call its thread is in.                             *)
(***************************************************************************)
Fairness ==
    /\ WF_vars(TimerInterrupt(BSP))
    /\ \A c \in CPUs : /\ WF_vars(ReschedInterrupt(c)) /\ WF_vars(Schedule(c))
                       /\ SF_vars(LockReScheduler(c))
    /\ \A t \in Threads : SF_vars(\E c \in CPUs : ctx[c] = t /\ InCall(c))

FairSpec == Spec /\ Fairness

-----------------------------------------------------------------------------
(* Properties *)

LockType ==
    ReSchedulerLock \in Nat /\ SchedulerLock \in Nat /\ SecondSchedulerLock \in Nat
TableType ==
    /\ ActiveTasks \in [Slots -> Threads \cup {NULL}]
    /\ TotalActiveTasks \in Nat
    /\ taskID \in [Threads -> Slots \cup {-1}]
    /\ process_lock \in [Pids -> Nat]
ThreadType ==
    lock \in [Threads -> Nat] /\ saved_regs \in [Threads -> ThreadPCs]
WaitType ==
    /\ yield_target \in [Threads -> Nat] /\ event_timeout \in [Threads -> Nat]
    /\ event_pointer \in [Threads -> Events \cup {NULL}]
EventType == event \in [Events -> 0 .. EventModulus - 1]
CPUType ==
    /\ currentTaskID \in [CPUs -> Slots \cup {-1}]
    /\ currentPid \in [CPUs -> Pids \cup {NoPid}] /\ cr3 \in [CPUs -> Pids]
    /\ ctx \in [CPUs -> Threads \cup {Idle}]
PcType ==
    /\ pc \in [CPUs -> Places]
    /\ frame \in [CPUs -> ThreadPCs \cup {"halt"}] /\ forced \in [CPUs -> BOOLEAN]
PickType ==
    /\ scan \in [CPUs -> [task : 0 .. MaxTasks, i : Nat]]
    /\ nextTask \in [CPUs -> Threads \cup {NULL}]
ArgType ==
    arg \in [Threads -> [ev : Events \cup {NULL}, val : Nat, thr : Threads \cup {NULL}]]

(* Every variable keeps the range its C type and the code's values give it. *)
TypeOK ==
    /\ LockType /\ TableType /\ ThreadType /\ WaitType /\ EventType /\ CPUType
    /\ PcType /\ PickType /\ ArgType
    /\ TimerCounter \in 0 .. MaxTicks /\ ipi \in [CPUs -> BOOLEAN]

(* No two CPUs ever execute on the stack and registers of one thread, even *)
(* between the moment scheduler_schedule frees the lock of the thread it   *)
(* leaves and the moment the CPU really leaves that thread's stack.        *)
ThreadOnOneCPU ==
    \A c, d \in CPUs : c # d /\ ctx[c] = ctx[d] => ctx[c] = Idle

(* A running thread finds itself in CPULocals, in ActiveTasks and in cr3:  *)
(* what syscalls, thread_sleep and events_await take from                  *)
(* ActiveTasks[CPULocals[CurrentCPU].currentTaskID], and what              *)
(* scheduler_schedule relies on when it skips reloading cr3.               *)
RunsAsItself ==
    \A c \in CPUs : pc[c] \in ThreadPCs =>
        /\ currentTaskID[c] # -1 /\ Current(c) = Self(c)
        /\ currentPid[c] = Pid[Self(c)] /\ cr3[c] = Pid[Self(c)]

(* A thread is never switched out while it holds SchedulerLock or          *)
(* ReSchedulerLock, although it holds both with interrupts enabled.        *)
NoPreemptionInside ==
    \A t \in Threads : (\A c \in CPUs : ctx[c] # t) =>
        saved_regs[t] \notin HoldsSchedPCs \cup HoldsReSchedPCs

(* No lock is freed twice: a word is 0 or 1, so an inc never turns a free  *)
(* lock into one that nobody can take (scheduler_switch_task,              *)
(* force_reschedule).                                                      *)
NoDoubleRelease ==
    /\ {ReSchedulerLock, SchedulerLock, SecondSchedulerLock} \subseteq {0, 1}
    /\ \A t \in Threads : lock[t] \in {0, 1}

(* thread_sleep does not return before its target. *)
SleepsUntilTarget ==
    \A c \in CPUs : pc[c] = "run" => yield_target[Self(c)] <= TimerCounter

(* A thread is in at most one slot of ActiveTasks, and knows which: two    *)
(* scheduler_add_task calls for one thread do not both insert it.          *)
OneSlotPerThread ==
    \A s \in Slots : ActiveTasks[s] # NULL => taskID[ActiveTasks[s]] = s

(* locked_read and locked_dec of an event are two steps in events_await,   *)
(* event_reset and scheduler_get_next_task; with one waiting thread per    *)
(* event no decrement ever takes the 16-bit count below 0.                 *)
NoEventUnderflow == \A e \in Events : event[e] <= MaxCount

Runs(t) == \E c \in CPUs : ctx[c] = t /\ pc[c] \in ThreadPCs

(* No lost wakeup: a thread published as waiting for an event that was     *)
(* notified returns from event_await, wherever in events_await, yield or   *)
(* force_reschedule the notification found it.                             *)
NotifiedThreadReturns ==
    \A t \in Threads :
        event_pointer[t] # NULL /\ event[event_pointer[t]] # 0
            ~> \E c \in CPUs : ctx[c] = t /\ pc[c] = "run"

(* No starvation: a thread in ActiveTasks runs again, unless it waits for  *)
(* an event nobody notifies.  In particular every sleeper wakes up.        *)
NoStarvation ==
    \A t \in Threads :
        taskID[t] # -1 ~> Runs(t) \/ event_pointer[t] # NULL

(* Every spinlock_lock(&ReSchedulerLock) of scheduler_schedule returns: no *)
(* CPU spins for ever, the "possible deadlock" of deadlock_detect.         *)
SpinlockReturns == \A c \in CPUs : pc[c] = "lockRe" ~> pc[c] # "lockRe"

-----------------------------------------------------------------------------
(* The inductive invariant behind the safety properties. *)

(* The contexts that hold each lock, by what they execute or by what the   *)
(* scheduler's interrupt frame will return to.                             *)
LeftPCs == {"pick", "pickDec", "switch", "idle"}
HasRe(c) == \/ pc[c] \in (SchedulePCs \ {"lockRe"}) \cup HoldsReSchedPCs
            \/ frame[c] \in HoldsReSchedPCs
HasScheduler(c) == \/ pc[c] \in {"trySecond", "save", "rel2", "rel1"}
                                \cup LeftPCs \cup HoldsSchedPCs
                   \/ frame[c] \in HoldsSchedPCs
HasSecond(c) == pc[c] \in {"save", "rel2"} \cup LeftPCs
Owns(c, t) == \/ pc[c] \notin LeftPCs /\ ctx[c] = t
              \/ pc[c] \in {"pickDec", "switch"} /\ nextTask[c] = t

LockInv ==
    /\ ReSchedulerLock \in {0, 1} /\ SchedulerLock \in {0, 1}
    /\ SecondSchedulerLock \in {0, 1}
    /\ \A c \in CPUs : /\ HasRe(c) => ReSchedulerLock = 0
                       /\ HasScheduler(c) => SchedulerLock = 0
                       /\ HasSecond(c) => SecondSchedulerLock = 0
    /\ \A c, d \in CPUs : /\ HasRe(c) /\ HasRe(d) => c = d
                          /\ HasScheduler(c) /\ HasScheduler(d) => c = d
                          /\ HasSecond(c) /\ HasSecond(d) => c = d

OwnerInv ==
    /\ \A t \in Threads : lock[t] \in {0, 1}
    /\ \A c \in CPUs, t \in Threads : Owns(c, t) => lock[t] = 0
    /\ \A c, d \in CPUs, t \in Threads : Owns(c, t) /\ Owns(d, t) => c = d
    /\ ThreadOnOneCPU

FrameAt(c) ==
    /\ pc[c] \notin SchedulePCs => frame[c] = "halt"
    /\ pc[c] \in ThreadPCs => ctx[c] \in Threads
    /\ pc[c] = "halt" => ctx[c] = Idle
    /\ pc[c] \in SchedulePCs => (ctx[c] = Idle <=> frame[c] = "halt")
    /\ frame[c] \in HoldsSchedPCs => pc[c] \in {"lockRe", "trySched", "unwind"}
    /\ frame[c] \in HoldsReSchedPCs => pc[c] = "lockRe"

FrameInv ==
    /\ \A c \in CPUs : FrameAt(c)
    /\ \A t \in Threads : saved_regs[t] \notin HoldsSchedPCs \cup HoldsReSchedPCs

LocalAt(c) ==
    /\ ctx[c] = Idle => currentTaskID[c] = -1 /\ currentPid[c] = NoPid
    /\ ctx[c] \in Threads =>
          /\ currentTaskID[c] # -1 /\ ActiveTasks[currentTaskID[c]] = ctx[c]
          /\ currentPid[c] = Pid[ctx[c]] /\ cr3[c] = Pid[ctx[c]]
    /\ pc[c] \in {"pickDec", "switch"} =>
          nextTask[c] \in Threads /\ taskID[nextTask[c]] # -1

LocalInv ==
    /\ \A c \in CPUs : LocalAt(c)
    /\ \A t \in Threads : taskID[t] # -1 => ActiveTasks[taskID[t]] = t
    /\ \A s \in Slots : ActiveTasks[s] # NULL => taskID[ActiveTasks[s]] # -1

(* What every step of the scheduler keeps: the word of each lock agrees     *)
(* with the one context that holds it, the lock of a thread with the CPU    *)
(* that runs or has picked it, the frames scheduler_schedule interrupts and *)
(* saves with the locks they hold, and CPULocals with the context.          *)
IInv == TypeOK /\ LockInv /\ OwnerInv /\ FrameInv /\ LocalInv

=============================================================================

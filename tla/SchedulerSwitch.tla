-------------------------- MODULE SchedulerSwitch --------------------------
(*****************************************************************************)
(* The actions of the scheduler that choose the next thread, that switch to  *)
(* it and that add a thread keep the lock, owner, frame and CPU-local        *)
(* conjuncts of IInv; hence every action does.                               *)
(*****************************************************************************)
EXTENDS SchedulerLocks

USE DEF locks, table, cpuLocal, regs, pick

(* The current thread is saved and its lock freed. *)
LEMMA SaveCurrentStep ==
    ASSUME IInv, NEW c \in CPUs, SaveCurrent(c)
    PROVE  Others'
<1>1. Away(c)
  BY DEF IInv, TypeOK, PcType, PickType, CPUType, Away, Go, SaveCurrent
<1>2. /\ pc[c] = "save" /\ pc'[c] = "pick"
      /\ UNCHANGED <<frame, ctx, locks, cpuLocal, ActiveTasks, taskID, nextTask>>
  BY DEF IInv, TypeOK, PcType, Go, SaveCurrent
<1>3. FrameAt(c)'
  BY <1>2, AtC, FramePlaces
     DEF FrameAt, ThreadPCs, SchedulePCs, HoldsSchedPCs, HoldsReSchedPCs
<1>4. LockInv'
  <2>1. /\ HasRe(c)' <=> HasRe(c)
        /\ HasScheduler(c)' <=> HasScheduler(c)
        /\ HasSecond(c)' <=> HasSecond(c)
    BY <1>2 DEF HasRe, HasScheduler, HasSecond, SchedulePCs, LeftPCs
  <2> QED BY <1>1, <1>2, <2>1, LocksKept DEF IInv, Kept
<1>5. LocalInv'
  <2>1. LocalAt(c)'
    BY <1>2, AtC DEF LocalAt
  <2> QED BY <1>1, <1>2, <2>1, LocalsKept DEF IInv
<1>6. \A t \in Threads : ~Owns(c, t)'
  BY <1>2 DEF Owns, LeftPCs
<1>7. CASE currentTaskID[c] # -1 /\ ActiveTasks[currentTaskID[c]] # NULL
  <2> DEFINE t == ActiveTasks[currentTaskID[c]]
  <2>1. ctx[c] \in Threads
    BY <1>7, AtC DEF IInv, TypeOK, CPUType, LocalAt
  <2>2. t = ctx[c] /\ t \in Threads
    BY <2>1, AtC DEF LocalAt
  <2>3. Owns(c, t)
    BY <1>2, <2>2 DEF Owns, LeftPCs
  <2>4. lock[t] = 0 /\ lock \in [Threads -> Nat] /\ saved_regs \in [Threads -> ThreadPCs]
    BY <2>2, <2>3 DEF IInv, OwnerInv, TypeOK, ThreadType
  <2>5. /\ saved_regs' = [saved_regs EXCEPT ![t] = frame[c]]
        /\ lock' = [lock EXCEPT ![t] = 1]
    BY <1>7, <2>4, Words DEF SaveCurrent
  <2>6. frame[c] \notin HoldsSchedPCs \cup HoldsReSchedPCs
    BY <1>2, AtC DEF FrameAt
  <2> HIDE DEF t
  <2>7. OwnerInv'
    BY <1>1, <1>2, <1>6, <2>2, <2>3, <2>4, <2>5, OwnersFree, Zenon DEF IInv
  <2>8. FrameInv'
    BY <1>1, <1>3, <2>4, <2>5, <2>6, FramesKept DEF IInv
  <2> QED BY <1>4, <1>5, <2>7, <2>8 DEF Others
<1>8. CASE ~(currentTaskID[c] # -1 /\ ActiveTasks[currentTaskID[c]] # NULL)
  <2>1. UNCHANGED <<saved_regs, lock>>
    BY <1>8 DEF SaveCurrent
  <2>2. OwnerInv'
    BY <1>1, <1>2, <1>6, <2>1, OwnersSame DEF IInv
  <2>3. FrameInv'
    BY <1>1, <1>3, <2>1, FramesKept DEF IInv
  <2> QED BY <1>4, <1>5, <2>2, <2>3 DEF Others
<1> QED BY <1>7, <1>8

(* A candidate is passed over. *)
LEMMA PickSkipStep ==
    ASSUME IInv, NEW c \in CPUs, PickSkip(c)
    PROVE  Others'
<1>1. UNCHANGED <<locks, ActiveTasks, taskID, lock, saved_regs, cpuLocal, pc, frame, nextTask>>
  BY DEF PickSkip
<1> QED BY <1>1, Unmoved

(* A candidate is chosen. *)
LEMMA TakesStep ==
    ASSUME IInv, NEW c \in CPUs, NEW t \in Threads, Takes(c, t),
           NEW l \in {"pickDec", "switch"}, Go(c, l),
           UNCHANGED <<locks, ActiveTasks, taskID, saved_regs, cpuLocal, frame>>
    PROVE  Others'
<1>1. Away(c)
  BY DEF IInv, TypeOK, PcType, PickType, CPUType, Away, Go, Takes
<1>2. pc[c] = "pick" /\ pc'[c] = l /\ nextTask'[c] = t /\ TaskAt(Candidate(c)) = t
  BY DEF IInv, TypeOK, PcType, PickType, Go, Takes, Examines
<1>3. FrameAt(c)'
  BY <1>2, AtC, FramePlaces
     DEF FrameAt, ThreadPCs, SchedulePCs, HoldsSchedPCs, HoldsReSchedPCs
<1>4. LockInv'
  <2>1. /\ HasRe(c)' <=> HasRe(c)
        /\ HasScheduler(c)' <=> HasScheduler(c)
        /\ HasSecond(c)' <=> HasSecond(c)
    BY <1>2 DEF HasRe, HasScheduler, HasSecond, SchedulePCs, LeftPCs
  <2> QED BY <1>1, <2>1, LocksKept DEF IInv, Kept
<1>5. LocalInv'
  <2>1. taskID[t] # -1
    <3>1. Candidate(c) \in Slots /\ ActiveTasks[Candidate(c)] = t
      BY <1>2, SchedulerConstants DEF TaskAt
    <3> QED BY <3>1, SchedulerConstants DEF IInv, LocalInv
  <2>2. LocalAt(c)'
    BY <1>2, <2>1, AtC DEF LocalAt
  <2> QED BY <1>1, <2>2, LocalsKept DEF IInv
<1>6. FrameInv'
  BY <1>1, <1>3, FramesKept DEF IInv
<1>7. OwnerInv'
  <2>1. lock \in [Threads -> Nat] /\ lock[t] \in {0, 1}
    BY DEF IInv, TypeOK, ThreadType, OwnerInv
  <2>2. lock[t] = 1 /\ lock' = [lock EXCEPT ![t] = 0]
    BY <2>1, Words, Zenon DEF Takes
  <2>3. \A u \in Threads : Owns(c, u)' => u = t
    BY <1>2 DEF Owns, LeftPCs
  <2> QED BY <1>1, <2>1, <2>2, <2>3, OwnersTake, Zenon DEF IInv
<1> QED BY <1>4, <1>5, <1>6, <1>7 DEF Others

(* The CPU leaves for its own stack. *)
LEMMA GoIdleStep ==
    ASSUME IInv, NEW c \in CPUs, GoIdle(c)
    PROVE  Others'
<1>1. Away(c)
  BY DEF IInv, TypeOK, PcType, PickType, CPUType, Away, Go, GoIdle
<1>2. /\ pc[c] = "idle" /\ pc'[c] = "rel2" /\ ctx'[c] = Idle /\ frame'[c] = "halt"
      /\ currentTaskID'[c] = -1 /\ currentPid'[c] = NoPid
      /\ UNCHANGED <<locks, ActiveTasks, taskID, lock, saved_regs, nextTask>>
  BY DEF IInv, TypeOK, PcType, CPUType, Go, GoIdle
<1>3. FrameAt(c)'
  BY <1>2, AtC, FramePlaces
     DEF FrameAt, ThreadPCs, SchedulePCs, HoldsSchedPCs, HoldsReSchedPCs
<1>4. LockInv'
  <2>1. HasRe(c) /\ HasScheduler(c) /\ HasSecond(c)
    BY <1>2 DEF HasRe, HasScheduler, HasSecond, SchedulePCs, LeftPCs
  <2> QED BY <1>1, <1>2, <2>1, LocksKept DEF IInv, Kept
<1>5. LocalInv'
  <2>1. LocalAt(c)'
    BY <1>2, SchedulerConstants DEF LocalAt
  <2> QED BY <1>1, <1>2, <2>1, LocalsKept DEF IInv
<1>6. FrameInv'
  BY <1>1, <1>2, <1>3, FramesKept DEF IInv
<1>7. OwnerInv'
  <2>1. \A u \in Threads : ~Owns(c, u)'
    BY <1>2, SchedulerConstants DEF Owns
  <2> QED BY <1>1, <1>2, <2>1, OwnersSame DEF IInv
<1> QED BY <1>4, <1>5, <1>6, <1>7 DEF Others

(* The CPU leaves for the chosen thread. *)
LEMMA SwitchTaskStep ==
    ASSUME IInv, NEW c \in CPUs, SwitchTask(c)
    PROVE  Others'
<1> DEFINE t == nextTask[c]
<1>1. Away(c)
  BY DEF IInv, TypeOK, PcType, PickType, CPUType, Away, Go, SwitchTask
<1>2. /\ pc[c] = "switch" /\ pc'[c] = "rel2" /\ ctx'[c] = t /\ frame'[c] = saved_regs[t]
      /\ currentTaskID'[c] = taskID[t] /\ currentPid'[c] = Pid[t]
      /\ cr3'[c] = IF LoadsPageTable(c, t) THEN Pid[t] ELSE cr3[c]
      /\ UNCHANGED <<locks, ActiveTasks, taskID, lock, saved_regs, nextTask>>
  BY DEF IInv, TypeOK, PcType, CPUType, Go, SwitchTask
<1>3. t \in Threads /\ taskID[t] # -1 /\ t # Idle
  BY <1>2, AtC, SchedulerConstants DEF LocalAt
<1>4. saved_regs[t] \in PlainPCs
  BY <1>3 DEF IInv, TypeOK, ThreadType, FrameInv, PlainPCs
<1> HIDE DEF t
<1>5. FrameAt(c)'
  BY <1>2, <1>3, <1>4, AtC, FramePlaces, Zenon
     DEF FrameAt, ThreadPCs, SchedulePCs, HoldsSchedPCs, HoldsReSchedPCs, PlainPCs
<1>6. LockInv'
  <2>1. HasRe(c) /\ HasScheduler(c) /\ HasSecond(c)
    BY <1>2, Zenon DEF HasRe, HasScheduler, HasSecond, SchedulePCs, LeftPCs
  <2> QED BY <1>1, <1>2, <2>1, LocksKept, Zenon DEF IInv, Kept
<1>7. LocalInv'
  <2>1. ctx[c] \in Threads => currentPid[c] = Pid[ctx[c]] /\ cr3[c] = Pid[ctx[c]]
    BY AtC DEF LocalAt
  <2>2. ctx[c] \notin Threads => currentPid[c] = NoPid
    BY AtC DEF LocalAt, IInv, TypeOK, CPUType
  <2>3. cr3'[c] = Pid[t]
    BY <1>2, <2>1, <2>2 DEF LoadsPageTable
  <2>4. ActiveTasks[taskID[t]] = t
    BY <1>3 DEF IInv, LocalInv
  <2>5. LocalAt(c)'
    BY <1>2, <1>3, <2>3, <2>4 DEF LocalAt
  <2> QED BY <1>1, <1>2, <2>5, LocalsKept DEF IInv
<1>8. FrameInv'
  BY <1>1, <1>2, <1>5, FramesKept DEF IInv
<1>9. OwnerInv'
  <2>1. \A u \in Threads : Owns(c, u)' => Owns(c, u)
    BY <1>2 DEF Owns, LeftPCs, t
  <2>2. Owns(c, t) /\ HasRe(c)
    BY <1>2 DEF Owns, HasRe, SchedulePCs, t
  <2>3. ASSUME NEW d \in CPUs \ {c} PROVE ctx[d] # t
    <3>1. pc[d] \in LeftPCs => HasRe(d)
      BY DEF HasRe, SchedulePCs, LeftPCs
    <3>2. pc[d] \notin LeftPCs
      BY <2>2, <3>1 DEF IInv, LockInv
    <3> QED BY <1>3, <2>2, <3>2 DEF IInv, OwnerInv, Owns
  <2> QED BY <1>1, <1>2, <2>1, <2>3, OwnersSame DEF IInv
<1> QED BY <1>6, <1>7, <1>8, <1>9 DEF Others

(* A thread is inserted into a free slot. *)
LEMMA AddInsertStep ==
    ASSUME IInv, NEW c \in CPUs, AddInsert(c)
    PROVE  Others'
<1> DEFINE u == Argument(c).thr
<1>1. Away(c)
  BY DEF IInv, TypeOK, PcType, PickType, CPUType, Away, Go, AddInsert
<1>2. /\ pc[c] = "relock" /\ pc'[c] = "reunlock" /\ ReSchedulerLock = 1 /\ ReSchedulerLock' = 0
      /\ UNCHANGED <<SchedulerLock, SecondSchedulerLock, lock, saved_regs, cpuLocal, frame, nextTask>>
  BY AtC, Words DEF IInv, TypeOK, PcType, Go, AddInsert
<1>3. u \in Threads \cup {NULL}
  BY <1>2, AtC DEF FrameAt, ThreadPCs, IInv, TypeOK, ArgType, Argument, Self
<1>4. PICK s \in Slots : /\ ActiveTasks[s] = NULL
                         /\ taskID' = [taskID EXCEPT ![u] = s]
                         /\ ActiveTasks' = [ActiveTasks EXCEPT ![s] = u]
  BY Zenon DEF AddInsert
<1> HIDE DEF u
<1>5. /\ ActiveTasks \in [Slots -> Threads \cup {NULL}]
      /\ taskID \in [Threads -> Slots \cup {-1}] /\ s # -1
  BY SchedulerConstants DEF IInv, TypeOK, TableType, Slots
<1>6. FrameAt(c)'
  BY <1>2, AtC, FramePlaces
     DEF FrameAt, ThreadPCs, SchedulePCs, HoldsSchedPCs, HoldsReSchedPCs
<1>7. LockInv'
  <2>1. /\ HasScheduler(c)' <=> HasScheduler(c)
        /\ HasSecond(c)' <=> HasSecond(c)
    BY <1>2 DEF HasScheduler, HasSecond, LeftPCs, HoldsSchedPCs
  <2> QED BY <1>1, <1>2, <2>1, LocksKept DEF IInv, Kept
<1>8. FrameInv'
  BY <1>1, <1>2, <1>6, FramesKept DEF IInv
<1>9. OwnerInv'
  <2>1. \A t \in Threads : Owns(c, t)' => Owns(c, t)
    BY <1>2 DEF Owns, LeftPCs
  <2> QED BY <1>1, <1>2, <2>1, OwnersSame DEF IInv
<1>10. LocalInv'
  <2>1. \A r \in Slots : ActiveTasks'[r] = IF r = s THEN u ELSE ActiveTasks[r]
    BY <1>4, <1>5
  <2>2. \A t \in Threads : taskID'[t] = IF t = u THEN s ELSE taskID[t]
    BY <1>4, <1>5
  <2>3. \A t \in Threads : taskID[t] # -1 => taskID[t] # s /\ taskID[t] \in Slots
    BY <1>4, <1>5, SchedulerConstants DEF IInv, LocalInv
  <2>4. \A t \in Threads : taskID'[t] # -1 => ActiveTasks'[taskID'[t]] = t
    BY <2>1, <2>2, <2>3 DEF IInv, LocalInv
  <2>5. \A r \in Slots : ActiveTasks'[r] # NULL => taskID'[ActiveTasks'[r]] # -1
    <3> SUFFICES ASSUME NEW r \in Slots, ActiveTasks'[r] # NULL
                 PROVE  taskID'[ActiveTasks'[r]] # -1
      OBVIOUS
    <3>1. CASE r = s
      BY <1>3, <1>5, <2>1, <2>2, <3>1
    <3>2. CASE r # s
      <4>1. ActiveTasks'[r] = ActiveTasks[r] /\ ActiveTasks[r] \in Threads
        BY <2>1, <3>2, <1>5
      <4>2. taskID[ActiveTasks[r]] # -1
        BY <4>1, SchedulerConstants DEF IInv, LocalInv
      <4> QED BY <1>5, <2>2, <4>1, <4>2
    <3> QED BY <3>1, <3>2
  <2>6. ASSUME NEW d \in CPUs PROVE LocalAt(d)'
    <3>1. LocalAt(d) /\ currentTaskID[d] \in Slots \cup {-1}
      BY AtC DEF IInv, TypeOK, CPUType
    <3>2. UNCHANGED <<cpuLocal, nextTask>>
      BY <1>2
    <3>3. pc'[d] \in {"pickDec", "switch"} => pc'[d] = pc[d]
      BY <1>1, <1>2 DEF Away
    <3>4. ctx[d] \in Threads => ActiveTasks'[currentTaskID[d]] = ctx[d]
      BY <1>4, <2>1, <3>1, SchedulerConstants DEF LocalAt
    <3>5. \A t \in Threads : taskID[t] # -1 => taskID'[t] # -1
      BY <1>5, <2>2
    <3> QED BY <3>1, <3>2, <3>3, <3>4, <3>5 DEF LocalAt
  <2> QED BY <2>4, <2>5, <2>6 DEF LocalInv
<1> QED BY <1>7, <1>8, <1>9, <1>10 DEF Others

(* The places of a thread outside and inside its critical sections. *)
LEMMA PlainNames ==
    /\ "run" \in PlainPCs /\ "ylock" \in PlainPCs /\ "slock" \in PlainPCs
    /\ "gplock" \in PlainPCs /\ "aread" \in PlainPCs /\ "adec" \in PlainPCs
    /\ "alock" \in PlainPCs /\ "aptr" \in PlainPCs /\ "tlock" \in PlainPCs
    /\ "rread" \in PlainPCs /\ "rdec" \in PlainPCs /\ "plock" \in PlainPCs
    /\ "relock" \in PlainPCs /\ "punlock" \in PlainPCs
    /\ "force" \in HoldsSchedPCs /\ "gpunlock" \in HoldsSchedPCs
    /\ "aunlock" \in HoldsSchedPCs /\ "tunlock" \in HoldsSchedPCs
BY DEF PlainPCs, ThreadPCs, HoldsSchedPCs, HoldsReSchedPCs

(* Every action keeps the lock, owner, frame and CPU-local invariants. *)
LEMMA OthersStep ==
    ASSUME IInv, NEW c \in CPUs,
           Interrupt(c) \/ Schedule(c) \/ StartCall(c) \/ InCall(c)
    PROVE  Others'
<1>1. CASE Interrupt(c)
  <2>1. CASE TimerInterrupt(c) \/ ReschedInterrupt(c)
    BY <2>1, EnterStep DEF TimerInterrupt, ReschedInterrupt
  <2>2. CASE DeviceInterrupt(c)
    BY <2>2, Unmoved DEF DeviceInterrupt
  <2> QED BY <1>1, <2>1, <2>2 DEF Interrupt
<1>2. CASE Schedule(c)
  <2>1. CASE PickReady(c) \/ PickNotified(c) \/ PickExpired(c)
    BY <2>1, TakesStep, Zenon DEF PickReady, PickNotified, PickExpired
  <2> QED BY <1>2, <2>1, LockReSchedulerStep, TrySchedulerStep, TrySecondStep, UnwindStep,
             SaveCurrentStep, PickSkipStep, PickNoneStep, PickDecStep, GoIdleStep,
             SwitchTaskStep, ReleaseSecondStep, ReleaseSchedulerStep, ResumeStep
          DEF Schedule, Pick
<1>3. CASE StartCall(c)
  <2> USE DEF Go
  <2>1. CASE CallYield(c) \/ CallSleep(c) \/ CallGetPid(c)
    BY <2>1, PlainStep, PlainNames DEF CallYield, CallSleep, CallGetPid, Call
  <2>2. CASE CallAwait(c)
    BY <2>2, PlainStep, PlainNames, Zenon DEF CallAwait, Call
  <2>3. CASE CallAwaitTimeout(c)
    BY <2>3, PlainStep, PlainNames, Zenon DEF CallAwaitTimeout, Call
  <2>4. CASE CallReset(c)
    BY <2>4, PlainStep, PlainNames, Zenon DEF CallReset, Call
  <2>5. CASE CallAddTask(c)
    BY <2>5, PlainStep, PlainNames, Zenon DEF CallAddTask, Call
  <2>6. CASE EventNotify(c)
    <3>1. PICK e \in Events : EventStep(c, "run", "run", e, event[e] + 1)
      BY <2>6, Zenon DEF EventNotify
    <3> QED BY <3>1, PlainStep, PlainNames, Zenon DEF EventStep
  <2> QED BY <1>3, <2>1, <2>2, <2>3, <2>4, <2>5, <2>6 DEF StartCall
<1>4. CASE InCall(c)
  <2> USE DEF Go
  <2>1. CASE YieldLock(c) \/ SleepLock(c) \/ GetPidLock(c) \/ AwaitLock(c) \/ TimeoutLock(c)
    BY <2>1, TakeStep, PlainNames DEF YieldLock, SleepLock, GetPidLock, AwaitLock, TimeoutLock
  <2>2. CASE GetPidUnlock(c) \/ AwaitUnlock(c) \/ TimeoutUnlock(c)
    BY <2>2, DropStep, PlainNames DEF GetPidUnlock, AwaitUnlock, TimeoutUnlock
  <2>3. CASE AwaitRead(c)
    BY <2>3, PlainStep, PlainNames, Zenon DEF AwaitRead, EventStep
  <2>4. CASE ResetRead(c)
    BY <2>4, PlainStep, PlainNames, Zenon DEF ResetRead, EventStep
  <2>5. CASE AwaitDec(c) \/ ResetDec(c)
    BY <2>5, PlainStep, PlainNames DEF AwaitDec, ResetDec, EventStep
  <2>6. CASE AwaitPublish(c)
    BY <2>6, PlainStep, PlainNames, Zenon DEF AwaitPublish
  <2>7. CASE AddLockProcess(c)
    BY <2>7, PlainStep, PlainNames, Zenon DEF AddLockProcess
  <2>8. CASE AddUnlockProcess(c)
    BY <2>8, PlainStep, PlainNames, Zenon DEF AddUnlockProcess
  <2> QED BY <1>4, <2>1, <2>2, <2>3, <2>4, <2>5, <2>6, <2>7, <2>8, ForceRescheduleStep,
             AddInsertStep, AddUnlockReStep DEF InCall
<1> QED BY <1>1, <1>2, <1>3, <1>4

=============================================================================

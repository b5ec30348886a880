-------------------------- MODULE SchedulerProofs --------------------------
(*****************************************************************************)
(* The scheduler is type correct, a thread is executed by at most one CPU,   *)
(* a running thread finds itself in CPULocals, ActiveTasks and cr3, no       *)
(* thread is switched out inside the scheduler's critical sections and no    *)
(* lock is freed twice, for any number of CPUs, threads, events and slots.   *)
(*****************************************************************************)
EXTENDS SchedulerTypes, SchedulerSwitch

USE DEF locks, table, cpuLocal, regs, pick

(* The kernel after scheduler_init satisfies the invariant. *)
LEMMA InitIInv == Init => IInv
<1> SUFFICES ASSUME Init PROVE IInv
  OBVIOUS
<1>1. ASSUME NEW t \in Threads
      PROVE  \/ taskID[t] = -1 /\ \A s \in 0 .. FirstTasks - 1 : FirstTask[s] # t
             \/ /\ taskID[t] \in 0 .. FirstTasks - 1
                /\ FirstTask[taskID[t]] = t
  <2>1. CASE \E s \in 0 .. FirstTasks - 1 : FirstTask[s] = t
    <3> DEFINE k == CHOOSE s \in 0 .. FirstTasks - 1 : FirstTask[s] = t
    <3>1. k \in 0 .. FirstTasks - 1 /\ FirstTask[k] = t
      BY <2>1
    <3>2. taskID[t] = k
      BY <2>1 DEF Init
    <3> HIDE DEF k
    <3> QED BY <3>1, <3>2
  <2>2. CASE ~ \E s \in 0 .. FirstTasks - 1 : FirstTask[s] = t
    BY <2>2 DEF Init
  <2> QED BY <2>1, <2>2
<1>2. \A r \in 0 .. FirstTasks - 1 : taskID[FirstTask[r]] \in 0 .. FirstTasks - 1
  <2> SUFFICES ASSUME NEW r \in 0 .. FirstTasks - 1
               PROVE  taskID[FirstTask[r]] \in 0 .. FirstTasks - 1
    OBVIOUS
  <2>1. FirstTask[r] \in Threads
    BY SchedulerConstants
  <2> QED BY <2>1, <1>1
<1>3. ActiveTasks \in [Slots -> Threads \cup {NULL}]
  BY SchedulerConstants DEF Init, Slots
<1>4. taskID \in [Threads -> Slots \cup {-1}]
  <2>1. \A t \in Threads : taskID[t] \in Slots \cup {-1}
    BY <1>1, SchedulerConstants DEF Slots
  <2>2. taskID = [t \in Threads |-> taskID[t]]
    BY DEF Init
  <2> QED BY <2>1, <2>2
<1>5. TypeOK
  <2>1. LockType
    BY DEF Init, LockType
  <2>2. "run" \in ThreadPCs /\ "halt" \in Places
    BY DEF ThreadPCs, Places
  <2>3. ThreadType
    BY <2>2 DEF Init, ThreadType
  <2>4. WaitType
    BY DEF Init, WaitType
  <2>5. EventType
    BY SchedulerConstants DEF Init, EventType
  <2>6. TotalActiveTasks \in Nat /\ process_lock \in [Pids -> Nat]
    BY SchedulerConstants DEF Init
  <2>7. TableType
    BY <1>3, <1>4, <2>6 DEF TableType
  <2>8. KernelPid \in Pids
    BY DEF Pids
  <2>9. CPUType
    BY <2>8 DEF Init, CPUType
  <2>10. PcType
    BY <2>2 DEF Init, PcType
  <2>11. 0 \in 0 .. MaxTasks /\ 0 \in 0 .. MaxTicks
    BY SchedulerConstants
  <2>12. PickType
    BY <2>11 DEF Init, PickType
  <2>13. ArgType
    BY NoArgType DEF Init, ArgType
  <2>14. TimerCounter \in 0 .. MaxTicks /\ ipi \in [CPUs -> BOOLEAN]
    BY <2>11 DEF Init
  <2> QED BY <2>1, <2>3, <2>4, <2>5, <2>7, <2>9, <2>10, <2>12, <2>13, <2>14 DEF TypeOK
<1>6. /\ \A c \in CPUs : /\ pc[c] = "halt" /\ frame[c] = "halt" /\ ctx[c] = Idle
                        /\ currentTaskID[c] = -1 /\ currentPid[c] = NoPid
      /\ \A t \in Threads : lock[t] = 1 /\ saved_regs[t] = "run"
      /\ ReSchedulerLock = 1 /\ SchedulerLock = 1 /\ SecondSchedulerLock = 1
  BY DEF Init
<1>7. LockInv
  <2>1. "halt" \notin SchedulePCs \cup LeftPCs \cup HoldsSchedPCs \cup HoldsReSchedPCs
    BY DEF SchedulePCs, LeftPCs, HoldsSchedPCs, HoldsReSchedPCs
  <2>2. \A c \in CPUs : ~HasRe(c) /\ ~HasScheduler(c) /\ ~HasSecond(c)
    BY <1>6, <2>1 DEF HasRe, HasScheduler, HasSecond
  <2> QED BY <1>6, <2>2 DEF LockInv
<1>8. OwnerInv
  <2>1. \A c \in CPUs, t \in Threads : ~Owns(c, t)
    BY <1>6, SchedulerConstants DEF Owns
  <2> QED BY <1>6, <2>1 DEF OwnerInv, ThreadOnOneCPU
<1>9. FrameInv
  <2>1. /\ "halt" \notin ThreadPCs \cup SchedulePCs \cup HoldsSchedPCs \cup HoldsReSchedPCs
        /\ "run" \notin HoldsSchedPCs \cup HoldsReSchedPCs
    BY DEF ThreadPCs, SchedulePCs, HoldsSchedPCs, HoldsReSchedPCs
  <2>2. \A c \in CPUs : FrameAt(c)
    BY <1>6, <2>1 DEF FrameAt
  <2> QED BY <1>6, <2>1, <2>2 DEF FrameInv
<1>10. LocalInv
  <2>1. \A s \in Slots : ActiveTasks[s] = IF s < FirstTasks THEN FirstTask[s] ELSE NULL
    BY DEF Init
  <2>2. 0 .. FirstTasks - 1 \subseteq Slots
    BY SchedulerConstants DEF Slots
  <2>3. \A t \in Threads : taskID[t] # -1 => ActiveTasks[taskID[t]] = t
    BY <1>1, <2>1, <2>2, SchedulerConstants
  <2>4. ASSUME NEW s \in Slots, ActiveTasks[s] # NULL
        PROVE  taskID[ActiveTasks[s]] # -1
    <3>1. s < FirstTasks /\ ActiveTasks[s] = FirstTask[s]
      BY <2>1, <2>4
    <3>2. s \in 0 .. FirstTasks - 1
      BY <3>1, SchedulerConstants DEF Slots
    <3>3. taskID[ActiveTasks[s]] \in 0 .. FirstTasks - 1
      BY <3>1, <3>2, <1>2
    <3> HIDE DEF Init
    <3>4. \A k \in 0 .. FirstTasks - 1 : k # -1
      BY SchedulerConstants
    <3> QED BY <3>3, <3>4
  <2>5. \A c \in CPUs : LocalAt(c)
    BY <1>6, SchedulerConstants DEF LocalAt
  <2> QED BY <2>3, <2>4, <2>5 DEF LocalInv
<1> QED BY <1>5, <1>7, <1>8, <1>9, <1>10 DEF IInv

(* IInv is inductive. *)
THEOREM Invariance == Spec => []IInv
<1>1. IInv /\ [Next]_vars => IInv'
  <2> SUFFICES ASSUME IInv, [Next]_vars PROVE IInv'
    OBVIOUS
  <2>1. CASE UNCHANGED vars
    <3>1. Others'
      BY <2>1, Unmoved DEF vars
    <3>2. TypeOK'
      <4>1. PcType'
        BY <2>1, SameTypes DEF vars, IInv, TypeOK
      <4> QED BY <2>1, <3>1, <4>1, Combine DEF vars, Others
    <3> QED BY <3>1, <3>2 DEF IInv, Others
  <2>2. ASSUME NEW c \in CPUs, Interrupt(c) \/ Schedule(c) \/ StartCall(c) \/ InCall(c)
        PROVE  IInv'
    BY <2>2, OthersStep, TypeStep DEF IInv, Others
  <2> QED BY <2>1, <2>2 DEF Next
<1> QED BY <1>1, InitIInv, PTL DEF Spec

(* Type correctness, for any number of CPUs, threads, events and slots. *)
THEOREM TypeCorrect == Spec => []TypeOK
<1>1. IInv => TypeOK
  BY DEF IInv
<1> QED BY <1>1, Invariance, PTL

(* The scheduler never lets two CPUs execute one thread: the context of a  *)
(* thread is left for good before another CPU can pick it.                 *)
THEOREM OneCPUPerThread == Spec => []ThreadOnOneCPU
<1>1. IInv => ThreadOnOneCPU
  BY DEF IInv, OwnerInv
<1> QED BY <1>1, Invariance, PTL

(* CPULocals, ActiveTasks and cr3 name the thread that really runs. *)
THEOREM ThreadFindsItself == Spec => []RunsAsItself
<1>1. IInv => RunsAsItself
  <2> SUFFICES ASSUME IInv, NEW c \in CPUs, pc[c] \in ThreadPCs
               PROVE  /\ currentTaskID[c] # -1 /\ Current(c) = Self(c)
                      /\ currentPid[c] = Pid[Self(c)] /\ cr3[c] = Pid[Self(c)]
    BY DEF RunsAsItself
  <2>1. ctx[c] \in Threads
    BY AtC DEF FrameAt
  <2> QED BY <2>1, AtC DEF LocalAt, Current, Self
<1> QED BY <1>1, Invariance, PTL

(* SchedulerLock and ReSchedulerLock are never held by a thread that is    *)
(* switched out.                                                           *)
THEOREM CriticalSectionsRunThrough == Spec => []NoPreemptionInside
<1>1. IInv => NoPreemptionInside
  BY DEF IInv, FrameInv, NoPreemptionInside
<1> QED BY <1>1, Invariance, PTL

(* The inc of scheduler_switch_task and force_reschedule always finds the  *)
(* lock held.                                                              *)
THEOREM LocksFreedOnce == Spec => []NoDoubleRelease
<1>1. IInv => NoDoubleRelease
  BY DEF IInv, LockInv, OwnerInv, NoDoubleRelease
<1> QED BY <1>1, Invariance, PTL

=============================================================================

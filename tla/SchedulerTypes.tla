--------------------------- MODULE SchedulerTypes ---------------------------
(*****************************************************************************)
(* Type correctness of the scheduler: every action keeps every variable in   *)
(* its range, given what the other conjuncts of IInv say of the locks.       *)
(*****************************************************************************)
EXTENDS Scheduler, TLAPS

USE DEF locks, table, cpuLocal, regs, pick

(* What the invariant says of one CPU. *)
LEMMA CPUFacts ==
    ASSUME IInv, NEW c \in CPUs
    PROVE  FrameAt(c) /\ LocalAt(c)
BY DEF IInv, FrameInv, LocalInv

(* What a step leaves alone keeps its type. *)
LEMMA SameTypes ==
    /\ TableType /\ UNCHANGED table => TableType'
    /\ ThreadType /\ UNCHANGED <<lock, saved_regs>> => ThreadType'
    /\ WaitType /\ UNCHANGED waits => WaitType'
    /\ EventType /\ UNCHANGED event => EventType'
    /\ CPUType /\ UNCHANGED cpuLocal => CPUType'
    /\ PcType /\ UNCHANGED <<pc, regs>> => PcType'
    /\ PickType /\ UNCHANGED pick => PickType'
    /\ ArgType /\ UNCHANGED arg => ArgType'
BY DEF TableType, ThreadType, WaitType, EventType, CPUType, PcType, PickType, ArgType, waits

(* The lock words are numbers because they are 0 or 1. *)
LEMMA WordTypes == LockInv' => LockType'
BY DEF LockInv, LockType

(* The places the actions lead to. *)
LEMMA PlaceNames ==
    /\ "run" \in Places /\ "ylock" \in Places /\ "slock" \in Places /\ "gplock" \in Places
    /\ "aread" \in Places /\ "adec" \in Places /\ "alock" \in Places /\ "aptr" \in Places
    /\ "tlock" \in Places /\ "rread" \in Places /\ "rdec" \in Places /\ "plock" \in Places
    /\ "relock" \in Places /\ "punlock" \in Places /\ "force" \in Places
    /\ "gpunlock" \in Places /\ "aunlock" \in Places /\ "tunlock" \in Places
    /\ "reunlock" \in Places /\ "lockRe" \in Places /\ "trySched" \in Places
    /\ "trySecond" \in Places /\ "save" \in Places /\ "pick" \in Places
    /\ "pickDec" \in Places /\ "switch" \in Places /\ "idle" \in Places /\ "rel2" \in Places
    /\ "rel1" \in Places /\ "rel0" \in Places /\ "unwind" \in Places
BY DEF Places, ThreadPCs, SchedulePCs, HoldsSchedPCs, HoldsReSchedPCs

(* A CPU that goes to one of them, with or without a new frame. *)
LEMMA PcMove ==
    ASSUME PcType, NEW c \in CPUs, NEW l \in Places, pc' = [pc EXCEPT ![c] = l],
           UNCHANGED regs
    PROVE  PcType'
BY DEF PcType

LEMMA FrameMove ==
    ASSUME PcType, NEW c \in CPUs, NEW l \in Places, pc' = [pc EXCEPT ![c] = l],
           NEW f \in ThreadPCs \cup {"halt"}, frame' = [frame EXCEPT ![c] = f],
           NEW b \in BOOLEAN, forced' = [forced EXCEPT ![c] = b] \/ forced' = forced
    PROVE  PcType'
BY DEF PcType

(* The counts of the events are numbers. *)
LEMMA EventNumbers ==
    EventType => \A e \in Events : event[e] \in Int /\ event[e] + 1 \in Int /\ event[e] - 1 \in Int
BY SchedulerConstants DEF EventType

(* A 16-bit update of an event. *)
LEMMA EventUpdateType ==
    ASSUME EventType, NEW e, NEW v, e \in Events => v \in Int,
           event' = [event EXCEPT ![e] = v % EventModulus]
    PROVE  EventType'
<1>1. CASE e \in Events
  <2>1. v % EventModulus \in 0 .. EventModulus - 1
    BY <1>1, SchedulerConstants
  <2> QED BY <1>1, <2>1 DEF EventType
<1>2. CASE e \notin Events
  BY <1>2, Zenon DEF EventType
<1> QED BY <1>1, <1>2

(* The arguments of a thread's call. *)
LEMMA NoArgType ==
    NoArg \in [ev : Events \cup {NULL}, val : Nat, thr : Threads \cup {NULL}]
BY DEF NoArg

LEMMA ArgUpdateType ==
    ASSUME ArgType, NEW t, NEW a,
           t \in Threads => a \in [ev : Events \cup {NULL}, val : Nat, thr : Threads \cup {NULL}],
           arg' = [arg EXCEPT ![t] = a]
    PROVE  ArgType'
BY Zenon DEF ArgType

LEMMA ArgumentType ==
    ASSUME IInv, NEW c \in CPUs, pc[c] \in ThreadPCs
    PROVE  /\ Self(c) \in Threads
           /\ Argument(c).ev \in Events \cup {NULL}
           /\ Argument(c).val \in Nat
           /\ Argument(c).thr \in Threads \cup {NULL}
<1>1. ctx[c] \in Threads
  BY CPUFacts DEF FrameAt
<1> QED BY <1>1 DEF IInv, TypeOK, ArgType, Argument, Self

LEMMA InThreadPCs ==
    /\ "run" \in ThreadPCs /\ "aptr" \in ThreadPCs /\ "relock" \in ThreadPCs
    /\ "tlock" \in ThreadPCs /\ "alock" \in ThreadPCs
BY DEF ThreadPCs

(* Taking or freeing the lock of a process. *)
LEMMA ProcessLockType ==
    ASSUME TableType, NEW p,
           \/ process_lock' = [process_lock EXCEPT ![p] = Btr(@)]
           \/ process_lock' = [process_lock EXCEPT ![p] = Bts(@)],
           UNCHANGED <<ActiveTasks, TotalActiveTasks, taskID>>
    PROVE  TableType'
<1>1. ASSUME NEW w \in Nat PROVE Btr(w) \in Nat /\ Bts(w) \in Nat
  BY DEF Btr, Bts, Free
<1>2. process_lock \in [Pids -> Nat]
  BY DEF TableType
<1>3. process_lock' \in [Pids -> Nat]
  <2>1. CASE p \in Pids
    <3>1. Btr(process_lock[p]) \in Nat /\ Bts(process_lock[p]) \in Nat
      BY <1>1, <1>2, <2>1
    <3> QED BY <1>2, <2>1, <3>1
  <2>2. CASE p \notin Pids
    BY <1>2, <2>2
  <2> QED BY <2>1, <2>2
<1> QED BY <1>3 DEF TableType

(* Everything a step leaves alone, but for the place of one CPU. *)
LEMMA Combine ==
    ASSUME IInv, LockInv', PcType',
           TableType' \/ UNCHANGED table,
           ThreadType' \/ UNCHANGED <<lock, saved_regs>>,
           WaitType' \/ UNCHANGED waits,
           EventType' \/ UNCHANGED event,
           CPUType' \/ UNCHANGED cpuLocal,
           PickType' \/ UNCHANGED pick,
           ArgType' \/ UNCHANGED arg,
           TimerCounter' \in 0 .. MaxTicks \/ UNCHANGED TimerCounter,
           ipi' \in [CPUs -> BOOLEAN] \/ UNCHANGED ipi
    PROVE  TypeOK'
BY SameTypes, WordTypes DEF IInv, TypeOK

(* Every action keeps every variable in its range. *)
LEMMA TypeStep ==
    ASSUME IInv, LockInv', OwnerInv', NEW c \in CPUs,
           Interrupt(c) \/ Schedule(c) \/ StartCall(c) \/ InCall(c)
    PROVE  TypeOK'
<1>t. /\ LockType /\ TableType /\ ThreadType /\ WaitType /\ EventType /\ CPUType
      /\ PcType /\ PickType /\ ArgType
      /\ TimerCounter \in 0 .. MaxTicks /\ ipi \in [CPUs -> BOOLEAN]
  BY DEF IInv, TypeOK
<1>i. SendIPIs => ipi' \in [CPUs -> BOOLEAN]
  BY <1>t DEF SendIPIs
<1> USE DEF waits, Go
<1>1. CASE TimerInterrupt(c)
  <2>1. ipi' \in [CPUs -> BOOLEAN]
    BY <1>1, <1>i DEF TimerInterrupt
  <2>2. TimerCounter' \in 0 .. MaxTicks
    BY <1>1, <1>t, SchedulerConstants DEF TimerInterrupt
  <2>3. pc[c] \in ThreadPCs \cup {"halt"}
    BY <1>1 DEF TimerInterrupt, InterruptsOn
  <2>4. PcType'
    BY <1>1, <1>t, <2>3, FrameMove, PlaceNames, Zenon DEF TimerInterrupt, EnterSchedule
  <2> QED BY <1>1, <2>1, <2>2, <2>3, <2>4, Combine, Zenon DEF TimerInterrupt, EnterSchedule
<1>2. CASE ReschedInterrupt(c)
  <2>1. ipi' \in [CPUs -> BOOLEAN]
    BY <1>2, <1>t DEF ReschedInterrupt
  <2>2. pc[c] \in ThreadPCs \cup {"halt"}
    BY <1>2 DEF ReschedInterrupt, InterruptsOn
  <2>3. PcType'
    BY <1>2, <1>t, <2>2, FrameMove, PlaceNames, Zenon DEF ReschedInterrupt, EnterSchedule
  <2> QED BY <1>2, <2>1, <2>2, <2>3, Combine, Zenon DEF ReschedInterrupt, EnterSchedule
<1>3. CASE DeviceInterrupt(c)
  <2>1. PICK e \in Events : event' = [event EXCEPT ![e] = (event[e] + 1) % EventModulus]
    BY <1>3, Zenon DEF DeviceInterrupt
  <2>2. event[e] + 1 \in Int
    BY <1>t, EventNumbers
  <2>3. EventType'
    BY <1>t, <2>1, <2>2, EventUpdateType, Zenon
  <2>4. PcType'
    BY <1>3, <1>t, SameTypes DEF DeviceInterrupt
  <2> QED BY <1>3, <2>1, <2>2, <2>3, <2>4, Combine, Zenon DEF DeviceInterrupt
<1>4. CASE LockReScheduler(c)
  <2>1. PcType'
    BY <1>4, <1>t, PcMove, PlaceNames, Zenon DEF LockReScheduler
  <2> QED BY <1>4, <2>1, Combine, Zenon DEF LockReScheduler
<1>5. CASE TryScheduler(c)
  <2>1. PcType'
    BY <1>5, <1>t, PcMove, PlaceNames, Zenon DEF TryScheduler
  <2> QED BY <1>5, <2>1, Combine, Zenon DEF TryScheduler
<1>6. CASE TrySecond(c)
  <2>1. PcType'
    BY <1>6, <1>t, PcMove, PlaceNames, Zenon DEF TrySecond
  <2> QED BY <1>6, <2>1, Combine, Zenon DEF TrySecond
<1>7. CASE Unwind(c)
  <2>1. ipi' \in [CPUs -> BOOLEAN] \/ UNCHANGED ipi
    BY <1>7, <1>i DEF Unwind
  <2>2. frame[c] \in Places /\ "halt" \in ThreadPCs \cup {"halt"}
    BY <1>t DEF PcType, Places
  <2>3. PcType'
    <3>1. CASE forced[c]
      BY <1>7, <3>1, <1>t, PcMove, PlaceNames DEF Unwind
    <3>2. CASE ~forced[c]
      BY <1>7, <3>2, <1>t, <2>2, FrameMove DEF Unwind
    <3> QED BY <3>1, <3>2
  <2> QED BY <1>7, <2>1, <2>2, <2>3, Combine, Zenon DEF Unwind
<1>8. CASE SaveCurrent(c)
  <2>1. ThreadType'
    <3>1. CASE currentTaskID[c] # -1 /\ ActiveTasks[currentTaskID[c]] # NULL
      <4> DEFINE t == ActiveTasks[currentTaskID[c]]
      <4>1. t \in Threads
        BY <1>t, <3>1 DEF CPUType, TableType
      <4>2. ctx[c] # Idle /\ pc[c] = "save"
        BY <1>8, <3>1, CPUFacts, Zenon DEF SaveCurrent, LocalAt
      <4>3. frame[c] \in ThreadPCs
        BY <1>t, <4>2, CPUFacts DEF FrameAt, PcType, SchedulePCs
      <4>4. /\ saved_regs' = [saved_regs EXCEPT ![t] = frame[c]]
            /\ lock' = [lock EXCEPT ![t] = Bts(@)]
        BY <1>8, <3>1, Zenon DEF SaveCurrent
      <4> HIDE DEF t
      <4>5. \A u \in Threads : lock'[u] \in Nat
        BY DEF OwnerInv
      <4> QED BY <1>t, <4>1, <4>3, <4>4, <4>5 DEF ThreadType
    <3>2. CASE ~(currentTaskID[c] # -1 /\ ActiveTasks[currentTaskID[c]] # NULL)
      BY <1>8, <3>2, <1>t, SameTypes, Zenon DEF SaveCurrent
    <3> QED BY <3>1, <3>2
  <2>2. currentTaskID[c] + 1 \in 0 .. MaxTasks
    <3>1. currentTaskID[c] \in Slots \cup {-1}
      BY <1>t DEF CPUType
    <3> QED BY <3>1, SchedulerConstants DEF Slots
  <2>3. PickType'
    BY <1>8, <1>t, <2>2 DEF SaveCurrent, PickType
  <2>4. PcType'
    BY <1>8, <1>t, PcMove, PlaceNames, Zenon DEF SaveCurrent
  <2> QED BY <1>8, <2>1, <2>2, <2>3, <2>4, Combine, Zenon DEF SaveCurrent
<1>9. CASE PickSkip(c)
  <2>1. Candidate(c) \in 0 .. MaxTasks
    BY <1>t, SchedulerConstants DEF Candidate, PickType
  <2>2. 0 < MaxTasks /\ MaxTasks \in Nat
    BY SchedulerConstants
  <2>3. (Candidate(c) + 1) % MaxTasks \in 0 .. MaxTasks
    BY <2>1, <2>2
  <2>4. PickType'
    BY <1>9, <1>t, <2>3 DEF PickSkip, PickType
  <2>5. PcType'
    BY <1>9, <1>t, SameTypes, Zenon DEF PickSkip
  <2> QED BY <1>9, <2>1, <2>2, <2>3, <2>4, <2>5, Combine, Zenon DEF PickSkip
<1>10. CASE PickReady(c)
  <2>1. PICK t \in Threads : Takes(c, t)
    BY <1>10 DEF PickReady
  <2>2. \A u \in Threads : lock'[u] \in Nat
    BY DEF OwnerInv
  <2>3. ThreadType'
    BY <1>10, <1>t, <2>1, <2>2, Zenon DEF PickReady, Takes, ThreadType
  <2>4. PickType'
    BY <1>10, <1>t, <2>1, Zenon DEF PickReady, Takes, PickType
  <2>5. PcType'
    BY <1>10, <1>t, PcMove, PlaceNames, Zenon DEF PickReady
  <2> QED BY <1>10, <2>1, <2>2, <2>3, <2>4, <2>5, Combine, Zenon DEF PickReady
<1>11. CASE PickNotified(c)
  <2>1. PICK t \in Threads : Takes(c, t)
    BY <1>11, Zenon DEF PickNotified
  <2>2. \A u \in Threads : lock'[u] \in Nat
    BY DEF OwnerInv
  <2>3. ThreadType'
    BY <1>11, <1>t, <2>1, <2>2, Zenon DEF PickNotified, Takes, ThreadType
  <2>4. PickType'
    BY <1>11, <1>t, <2>1, Zenon DEF PickNotified, Takes, PickType
  <2>5. PcType'
    BY <1>11, <1>t, PcMove, PlaceNames, Zenon DEF PickNotified
  <2> QED BY <1>11, <2>1, <2>2, <2>3, <2>4, <2>5, Combine, Zenon DEF PickNotified
<1>12. CASE PickDec(c)
  <2>1. event_pointer[nextTask[c]] \in Events => event[event_pointer[nextTask[c]]] - 1 \in Int
    BY <1>t, EventNumbers
  <2>2. EventType'
    BY <1>12, <1>t, <2>1, EventUpdateType, Zenon DEF PickDec
  <2>3. WaitType'
    BY <1>12, <1>t, Zenon DEF PickDec, WaitType
  <2>4. PcType'
    BY <1>12, <1>t, PcMove, PlaceNames, Zenon DEF PickDec
  <2> QED BY <1>12, <2>1, <2>2, <2>3, <2>4, Combine, Zenon DEF PickDec
<1>13. CASE PickExpired(c)
  <2>1. PICK t \in Threads : Takes(c, t)
    BY <1>13, Zenon DEF PickExpired
  <2>2. \A u \in Threads : lock'[u] \in Nat
    BY DEF OwnerInv
  <2>3. ThreadType'
    BY <1>13, <1>t, <2>1, <2>2, Zenon DEF PickExpired, Takes, ThreadType
  <2>4. PickType'
    BY <1>13, <1>t, <2>1, Zenon DEF PickExpired, Takes, PickType
  <2>5. WaitType'
    <3>1. PICK t2 \in Threads : /\ event_pointer' = [event_pointer EXCEPT ![t2] = NULL]
                                /\ event_timeout' = [event_timeout EXCEPT ![t2] = 0]
      BY <1>13, Zenon DEF PickExpired
    <3> QED BY <1>13, <1>t, <3>1, Zenon DEF PickExpired, WaitType
  <2>6. PcType'
    BY <1>13, <1>t, PcMove, PlaceNames, Zenon DEF PickExpired
  <2> QED BY <1>13, <2>1, <2>2, <2>3, <2>4, <2>5, <2>6, Combine, Zenon DEF PickExpired
<1>14. CASE PickNone(c)
  <2>1. PcType'
    BY <1>14, <1>t, PcMove, PlaceNames, Zenon DEF PickNone
  <2> QED BY <1>14, <2>1, Combine, Zenon DEF PickNone
<1>15. CASE GoIdle(c)
  <2>1. KernelPid \in Pids
    BY DEF Pids
  <2>2. CPUType'
    BY <1>15, <1>t, <2>1 DEF GoIdle, CPUType
  <2>3. "halt" \in ThreadPCs \cup {"halt"} /\ TRUE \in BOOLEAN
    OBVIOUS
  <2>4. PcType'
    BY <1>15, <1>t, <2>3, FrameMove, PlaceNames, Zenon DEF GoIdle
  <2> QED BY <1>15, <2>1, <2>2, <2>3, <2>4, Combine, Zenon DEF GoIdle
<1>16. CASE SwitchTask(c)
  <2>1. nextTask[c] \in Threads
    BY <1>16, CPUFacts, Zenon DEF SwitchTask, LocalAt
  <2>2. /\ Pid[nextTask[c]] \in Pids /\ taskID[nextTask[c]] \in Slots \cup {-1}
        /\ saved_regs[nextTask[c]] \in ThreadPCs \cup {"halt"} /\ TRUE \in BOOLEAN
    BY <1>t, <2>1, Zenon DEF Pids, TableType, ThreadType
  <2>3. CPUType'
    BY <1>16, <1>t, <2>1, <2>2, Zenon DEF SwitchTask, CPUType
  <2>4. PcType'
    BY <1>16, <1>t, <2>2, FrameMove, PlaceNames, Zenon DEF SwitchTask
  <2> QED BY <1>16, <2>1, <2>2, <2>3, <2>4, Combine, Zenon DEF SwitchTask
<1>17. CASE ReleaseSecond(c)
  <2>1. PcType'
    BY <1>17, <1>t, PcMove, PlaceNames, Zenon DEF ReleaseSecond
  <2> QED BY <1>17, <2>1, Combine, Zenon DEF ReleaseSecond
<1>18. CASE ReleaseScheduler(c)
  <2>1. PcType'
    BY <1>18, <1>t, PcMove, PlaceNames, Zenon DEF ReleaseScheduler
  <2> QED BY <1>18, <2>1, Combine, Zenon DEF ReleaseScheduler
<1>19. CASE Resume(c)
  <2>1. PickType'
    BY <1>19, <1>t, SchedulerConstants DEF Resume, PickType
  <2>2. frame[c] \in Places /\ "halt" \in ThreadPCs \cup {"halt"} /\ FALSE \in BOOLEAN
    BY <1>t DEF PcType, Places
  <2>3. PcType'
    BY <1>19, <1>t, <2>2, FrameMove, Zenon DEF Resume
  <2> QED BY <1>19, <2>1, <2>2, <2>3, Combine, Zenon DEF Resume
<1>20. CASE CallYield(c)
  <2>1. ArgType'
    BY <1>20, <1>t, ArgUpdateType, NoArgType, Zenon DEF CallYield, Call
  <2>2. PcType'
    BY <1>20, <1>t, PcMove, PlaceNames, Zenon DEF CallYield, Call
  <2> QED BY <1>20, <2>1, <2>2, Combine, Zenon DEF CallYield, Call
<1>21. CASE CallSleep(c)
  <2>1. ArgType'
    BY <1>21, <1>t, ArgUpdateType, NoArgType, Zenon DEF CallSleep, Call
  <2>2. PcType'
    BY <1>21, <1>t, PcMove, PlaceNames, Zenon DEF CallSleep, Call
  <2> QED BY <1>21, <2>1, <2>2, Combine, Zenon DEF CallSleep, Call
<1>22. CASE CallGetPid(c)
  <2>1. ArgType'
    BY <1>22, <1>t, ArgUpdateType, NoArgType, Zenon DEF CallGetPid, Call
  <2>2. PcType'
    BY <1>22, <1>t, PcMove, PlaceNames, Zenon DEF CallGetPid, Call
  <2> QED BY <1>22, <2>1, <2>2, Combine, Zenon DEF CallGetPid, Call
<1>23. CASE CallAwait(c)
  <2>1. PICK e \in WaitsOn[Self(c)] : Call(c, "await", "aread", [NoArg EXCEPT !.ev = e])
    BY <1>23 DEF CallAwait
  <2>2. Self(c) \in Threads
    BY <2>1, InThreadPCs, ArgumentType DEF Call
  <2>3. e \in Events
    BY <2>1, <2>2, SchedulerConstants
  <2>4. ArgType'
    BY <1>t, <2>1, <2>3, ArgUpdateType, Zenon DEF Call, NoArg
  <2>5. PcType'
    BY <2>1, <1>t, PcMove, PlaceNames, Zenon DEF Call
  <2> QED BY <1>23, <2>1, <2>2, <2>3, <2>4, <2>5, Combine, Zenon DEF CallAwait, Call
<1>24. CASE CallAwaitTimeout(c)
  <2>1. PICK e \in WaitsOn[Self(c)], d \in 0 .. MaxSleep :
            Call(c, "awaitTimeout", "tlock", [NoArg EXCEPT !.ev = e, !.val = TimerCounter + d + 1])
    BY <1>24, Zenon DEF CallAwaitTimeout
  <2>2. Self(c) \in Threads
    BY <2>1, InThreadPCs, ArgumentType DEF Call
  <2>3. e \in Events
    BY <2>1, <2>2, SchedulerConstants
  <2>4. TimerCounter + d + 1 \in Nat
    BY <1>t, SchedulerConstants
  <2>5. ArgType'
    BY <1>t, <2>1, <2>3, <2>4, ArgUpdateType, Zenon DEF Call, NoArg
  <2>6. PcType'
    BY <2>1, <1>t, PcMove, PlaceNames, Zenon DEF Call
  <2> QED BY <1>24, <2>1, <2>2, <2>3, <2>4, <2>5, <2>6, Combine, Zenon DEF CallAwaitTimeout, Call
<1>25. CASE CallReset(c)
  <2>1. PICK e \in WaitsOn[Self(c)] : Call(c, "reset", "rread", [NoArg EXCEPT !.ev = e])
    BY <1>25 DEF CallReset
  <2>2. Self(c) \in Threads
    BY <2>1, InThreadPCs, ArgumentType DEF Call
  <2>3. e \in Events
    BY <2>1, <2>2, SchedulerConstants
  <2>4. ArgType'
    BY <1>t, <2>1, <2>3, ArgUpdateType, Zenon DEF Call, NoArg
  <2>5. PcType'
    BY <2>1, <1>t, PcMove, PlaceNames, Zenon DEF Call
  <2> QED BY <1>25, <2>1, <2>2, <2>3, <2>4, <2>5, Combine, Zenon DEF CallReset, Call
<1>26. CASE CallAddTask(c)
  <2>1. PICK t \in Spawned : Call(c, "add", "plock", [NoArg EXCEPT !.thr = t])
    BY <1>26 DEF CallAddTask
  <2>2. ArgType'
    BY <1>t, <2>1, SchedulerConstants, ArgUpdateType, Zenon DEF Call, NoArg
  <2>3. PcType'
    BY <2>1, <1>t, PcMove, PlaceNames, Zenon DEF Call
  <2> QED BY <1>26, <2>1, <2>2, <2>3, Combine, Zenon DEF CallAddTask, Call
<1>27. CASE EventNotify(c)
  <2>1. PICK e \in Events : EventStep(c, "run", "run", e, event[e] + 1)
    BY <1>27, Zenon DEF EventNotify
  <2>2. event[e] + 1 \in Int
    BY <1>t, EventNumbers
  <2>3. EventType'
    BY <1>t, <2>1, <2>2, EventUpdateType, Zenon DEF EventStep
  <2>4. ArgType'
    BY <1>t, <2>1, ArgUpdateType, NoArgType, Zenon DEF EventStep
  <2>5. PcType'
    BY <2>1, <1>t, PcMove, PlaceNames, Zenon DEF EventStep
  <2> QED BY <1>27, <2>1, <2>2, <2>3, <2>4, <2>5, Combine, Zenon DEF EventNotify, EventStep
<1>28. CASE YieldLock(c)
  <2>1. PcType'
    BY <1>28, <1>t, PcMove, PlaceNames, Zenon DEF YieldLock, TakeScheduler
  <2> QED BY <1>28, <2>1, Combine, Zenon DEF YieldLock, TakeScheduler
<1>29. CASE SleepLock(c)
  <2>1. PICK d \in 0 .. MaxSleep :
            yield_target' = [yield_target EXCEPT ![Current(c)] = (TimerCounter + d) % TimerModulus]
    BY <1>29, Zenon DEF SleepLock
  <2>2. (TimerCounter + d) % TimerModulus \in Nat
    BY <1>t, SchedulerConstants
  <2>3. WaitType'
    BY <1>29, <1>t, <2>1, <2>2, Zenon DEF SleepLock, WaitType
  <2>4. PcType'
    BY <1>29, <1>t, PcMove, PlaceNames, Zenon DEF SleepLock, TakeScheduler
  <2> QED BY <1>29, <2>1, <2>2, <2>3, <2>4, Combine, Zenon DEF SleepLock, TakeScheduler
<1>30. CASE GetPidLock(c)
  <2>1. PcType'
    BY <1>30, <1>t, PcMove, PlaceNames, Zenon DEF GetPidLock, TakeScheduler
  <2> QED BY <1>30, <2>1, Combine, Zenon DEF GetPidLock, TakeScheduler
<1>31. CASE GetPidUnlock(c)
  <2>1. PcType'
    BY <1>31, <1>t, PcMove, PlaceNames, Zenon DEF GetPidUnlock, DropScheduler
  <2> QED BY <1>31, <2>1, Combine, Zenon DEF GetPidUnlock, DropScheduler
<1>32. CASE ForceReschedule(c)
  <2>1. ipi' \in [CPUs -> BOOLEAN]
    BY <1>32, <1>i DEF ForceReschedule
  <2>2. "run" \in ThreadPCs \cup {"halt"} /\ TRUE \in BOOLEAN
    BY DEF ThreadPCs
  <2>3. PcType'
    BY <1>32, <1>t, <2>2, FrameMove, PlaceNames, Zenon DEF ForceReschedule
  <2> QED BY <1>32, <2>1, <2>2, <2>3, Combine, Zenon DEF ForceReschedule
<1>33. CASE AwaitRead(c)
  <2>1. /\ event' = [event EXCEPT ![Argument(c).ev] = (event[Argument(c).ev]) % EventModulus]
        /\ UNCHANGED <<locks, TimerCounter, table, lock, saved_regs, waits, cpuLocal, regs, pick, ipi>>
    BY <1>33 DEF AwaitRead, EventStep
  <2>2. Argument(c).ev \in Events => event[Argument(c).ev] \in Int
    BY <1>t, EventNumbers
  <2>3. EventType'
    BY <1>t, <2>1, <2>2, EventUpdateType, Zenon
  <2>4. ArgType'
    BY <1>33, <1>t, ArgUpdateType, NoArgType, SameTypes DEF AwaitRead, EventStep
  <2>5. PcType'
    BY <1>33, <1>t, PcMove, PlaceNames, Zenon DEF AwaitRead, EventStep
  <2> QED BY <1>33, <2>1, <2>2, <2>3, <2>4, <2>5, Combine, Zenon DEF AwaitRead, EventStep
<1>34. CASE AwaitDec(c)
  <2>1. /\ event' = [event EXCEPT ![Argument(c).ev] = (event[Argument(c).ev] - 1) % EventModulus]
        /\ UNCHANGED <<locks, TimerCounter, table, lock, saved_regs, waits, cpuLocal, regs, pick, ipi>>
    BY <1>34 DEF AwaitDec, EventStep
  <2>2. Argument(c).ev \in Events => event[Argument(c).ev] - 1 \in Int
    BY <1>t, EventNumbers
  <2>3. EventType'
    BY <1>t, <2>1, <2>2, EventUpdateType, Zenon
  <2>4. ArgType'
    BY <1>34, <1>t, ArgUpdateType, NoArgType, SameTypes, Zenon DEF AwaitDec, EventStep
  <2>5. PcType'
    BY <1>34, <1>t, PcMove, PlaceNames, Zenon DEF AwaitDec, EventStep
  <2> QED BY <1>34, <2>1, <2>2, <2>3, <2>4, <2>5, Combine, Zenon DEF AwaitDec, EventStep
<1>35. CASE ResetRead(c)
  <2>1. /\ event' = [event EXCEPT ![Argument(c).ev] = (event[Argument(c).ev]) % EventModulus]
        /\ UNCHANGED <<locks, TimerCounter, table, lock, saved_regs, waits, cpuLocal, regs, pick, ipi>>
    BY <1>35 DEF ResetRead, EventStep
  <2>2. Argument(c).ev \in Events => event[Argument(c).ev] \in Int
    BY <1>t, EventNumbers
  <2>3. EventType'
    BY <1>t, <2>1, <2>2, EventUpdateType, Zenon
  <2>4. ArgType'
    BY <1>35, <1>t, ArgUpdateType, NoArgType, SameTypes, Zenon DEF ResetRead, EventStep
  <2>5. PcType'
    BY <1>35, <1>t, PcMove, PlaceNames, Zenon DEF ResetRead, EventStep
  <2> QED BY <1>35, <2>1, <2>2, <2>3, <2>4, <2>5, Combine, Zenon DEF ResetRead, EventStep
<1>36. CASE ResetDec(c)
  <2>1. /\ event' = [event EXCEPT ![Argument(c).ev] = (event[Argument(c).ev] - 1) % EventModulus]
        /\ UNCHANGED <<locks, TimerCounter, table, lock, saved_regs, waits, cpuLocal, regs, pick, ipi>>
    BY <1>36 DEF ResetDec, EventStep
  <2>2. Argument(c).ev \in Events => event[Argument(c).ev] - 1 \in Int
    BY <1>t, EventNumbers
  <2>3. EventType'
    BY <1>t, <2>1, <2>2, EventUpdateType, Zenon
  <2>4. ArgType'
    BY <1>36, <1>t, ArgUpdateType, NoArgType, SameTypes DEF ResetDec, EventStep
  <2>5. PcType'
    BY <1>36, <1>t, PcMove, PlaceNames, Zenon DEF ResetDec, EventStep
  <2> QED BY <1>36, <2>1, <2>2, <2>3, <2>4, <2>5, Combine, Zenon DEF ResetDec, EventStep
<1>37. CASE AwaitLock(c)
  <2>1. /\ pc[c] = "alock"
        /\ arg' = [arg EXCEPT ![Self(c)].thr = Current(c)]
    BY <1>37 DEF AwaitLock, TakeScheduler
  <2>2. ctx[c] \in Threads
    BY <2>1, InThreadPCs, ArgumentType DEF Self
  <2>3. Current(c) \in Threads
    BY <2>2, CPUFacts, Zenon DEF LocalAt, Current
  <2>4. ArgType'
    BY <1>t, <2>1, <2>3, Zenon DEF ArgType
  <2>5. PcType'
    BY <1>37, <1>t, PcMove, PlaceNames, Zenon DEF AwaitLock, TakeScheduler
  <2> QED BY <1>37, <2>1, <2>2, <2>3, <2>4, <2>5, Combine, Zenon DEF AwaitLock, TakeScheduler
<1>38. CASE AwaitUnlock(c)
  <2>1. PcType'
    BY <1>38, <1>t, PcMove, PlaceNames, Zenon DEF AwaitUnlock, DropScheduler
  <2> QED BY <1>38, <2>1, Combine, Zenon DEF AwaitUnlock, DropScheduler
<1>39. CASE AwaitPublish(c)
  <2>1. Argument(c).ev \in Events \cup {NULL}
    BY <1>39, InThreadPCs, ArgumentType, Zenon DEF AwaitPublish
  <2>2. WaitType'
    BY <1>39, <1>t, <2>1, Zenon DEF AwaitPublish, WaitType
  <2>3. ArgType'
    BY <1>39, <1>t, ArgUpdateType, NoArgType, Zenon DEF AwaitPublish
  <2>4. PcType'
    BY <1>39, <1>t, PcMove, PlaceNames, Zenon DEF AwaitPublish
  <2> QED BY <1>39, <2>1, <2>2, <2>3, <2>4, Combine, Zenon DEF AwaitPublish
<1>40. CASE TimeoutLock(c)
  <2>1. Argument(c).val \in Nat
    BY <1>40, InThreadPCs, ArgumentType, Zenon DEF TimeoutLock, TakeScheduler
  <2>2. WaitType'
    BY <1>40, <1>t, <2>1, Zenon DEF TimeoutLock, WaitType
  <2>3. PcType'
    BY <1>40, <1>t, PcMove, PlaceNames, Zenon DEF TimeoutLock, TakeScheduler
  <2> QED BY <1>40, <2>1, <2>2, <2>3, Combine, Zenon DEF TimeoutLock, TakeScheduler
<1>41. CASE TimeoutUnlock(c)
  <2>1. PcType'
    BY <1>41, <1>t, PcMove, PlaceNames, Zenon DEF TimeoutUnlock, DropScheduler
  <2> QED BY <1>41, <2>1, Combine, Zenon DEF TimeoutUnlock, DropScheduler
<1>42. CASE AddLockProcess(c)
  <2>1. TableType'
    BY <1>42, <1>t, ProcessLockType, Zenon DEF AddLockProcess
  <2>2. PcType'
    BY <1>42, <1>t, PcMove, PlaceNames, Zenon DEF AddLockProcess
  <2> QED BY <1>42, <2>1, <2>2, Combine, Zenon DEF AddLockProcess
<1>43. CASE AddInsert(c)
  <2>1. Argument(c).thr \in Threads \cup {NULL}
    BY <1>43, InThreadPCs, ArgumentType, Zenon DEF AddInsert
  <2>2. PICK s \in Slots : /\ taskID' = [taskID EXCEPT ![Argument(c).thr] = s]
                           /\ ActiveTasks' = [ActiveTasks EXCEPT ![s] = Argument(c).thr]
    BY <1>43, Zenon DEF AddInsert
  <2>3. TotalActiveTasks' \in Nat /\ process_lock' \in [Pids -> Nat]
    BY <1>43, <1>t DEF AddInsert, TableType
  <2>4. ActiveTasks' \in [Slots -> Threads \cup {NULL}]
    BY <1>t, <2>1, <2>2 DEF TableType
  <2>5. taskID' \in [Threads -> Slots \cup {-1}]
    BY <1>t, <2>2, Zenon DEF TableType
  <2>6. TableType'
    BY <2>3, <2>4, <2>5 DEF TableType
  <2>7. PcType'
    BY <1>43, <1>t, PcMove, PlaceNames, Zenon DEF AddInsert
  <2> QED BY <1>43, <2>1, <2>2, <2>3, <2>4, <2>5, <2>6, <2>7, Combine, Zenon DEF AddInsert
<1>44. CASE AddUnlockRe(c)
  <2>1. PcType'
    BY <1>44, <1>t, PcMove, PlaceNames, Zenon DEF AddUnlockRe
  <2> QED BY <1>44, <2>1, Combine, Zenon DEF AddUnlockRe
<1>45. CASE AddUnlockProcess(c)
  <2>1. TableType'
    BY <1>45, <1>t, ProcessLockType, Zenon DEF AddUnlockProcess
  <2>2. ArgType'
    BY <1>45, <1>t, ArgUpdateType, NoArgType, Zenon DEF AddUnlockProcess
  <2>3. PcType'
    BY <1>45, <1>t, PcMove, PlaceNames, Zenon DEF AddUnlockProcess
  <2> QED BY <1>45, <2>1, <2>2, <2>3, Combine, Zenon DEF AddUnlockProcess
<1> QED
  BY <1>1, <1>2, <1>3, <1>4, <1>5, <1>6, <1>7, <1>8, <1>9, <1>10, <1>11, <1>12,
     <1>13, <1>14, <1>15, <1>16, <1>17, <1>18, <1>19, <1>20, <1>21, <1>22, <1>23, <1>24,
     <1>25, <1>26, <1>27, <1>28, <1>29, <1>30, <1>31, <1>32, <1>33, <1>34, <1>35, <1>36,
     <1>37, <1>38, <1>39, <1>40, <1>41, <1>42, <1>43, <1>44, <1>45
     DEF Interrupt, Schedule, Pick, StartCall, InCall

=============================================================================

--------------------------- MODULE SchedulerLocks ---------------------------
(*****************************************************************************)
(* The actions of the scheduler that take or free a lock, or move a thread   *)
(* through the calls it makes, keep the lock, owner, frame and CPU-local     *)
(* conjuncts of IInv.                                                        *)
(*                                                                           *)
(* Every step is a step of one CPU c.  The first lemmas say what is left to  *)
(* show about c alone; then there is one lemma for each action, or for each  *)
(* group of actions of one shape.                                            *)
(*****************************************************************************)
EXTENDS Scheduler, TLAPS

USE DEF locks, table, cpuLocal, regs, pick

PlainPCs == ThreadPCs \ (HoldsSchedPCs \cup HoldsReSchedPCs)
Others == LockInv /\ OwnerInv /\ FrameInv /\ LocalInv

(* What btr, bts and inc do to a lock word that is 0 or 1. *)
LEMMA Words ==
    /\ ~Free(0) /\ Free(1)
    /\ Btr(0) = 0 /\ Btr(1) = 0 /\ Bts(0) = 1 /\ Bts(1) = 1 /\ Inc(0) = 1
BY DEF Free, Btr, Bts, Inc

-----------------------------------------------------------------------------
(* The CPUs other than c are where they were. *)
Away(c) ==
    \A d \in CPUs \ {c} :
        /\ pc'[d] = pc[d] /\ frame'[d] = frame[d] /\ nextTask'[d] = nextTask[d]
        /\ ctx'[d] = ctx[d] /\ cr3'[d] = cr3[d]
        /\ currentTaskID'[d] = currentTaskID[d] /\ currentPid'[d] = currentPid[d]

(* What may happen to a lock of word w and its holder in a step: nothing,  *)
(* a free lock is taken, or its holder frees it.                           *)
Kept(w, v, had, has) ==
    \/ v = w /\ (has => had)
    \/ w = 1 /\ v = 0
    \/ v = 1 /\ had /\ ~has

(* The lock invariant is kept if CPU c treats each lock as it should. *)
LEMMA LocksKept ==
    ASSUME LockInv, NEW c \in CPUs, Away(c),
           Kept(ReSchedulerLock, ReSchedulerLock', HasRe(c), HasRe(c)'),
           Kept(SchedulerLock, SchedulerLock', HasScheduler(c), HasScheduler(c)'),
           Kept(SecondSchedulerLock, SecondSchedulerLock', HasSecond(c), HasSecond(c)')
    PROVE  LockInv'
<1>1. \A d \in CPUs \ {c} : /\ HasRe(d)' <=> HasRe(d)
                            /\ HasScheduler(d)' <=> HasScheduler(d)
                            /\ HasSecond(d)' <=> HasSecond(d)
  BY DEF Away, HasRe, HasScheduler, HasSecond
<1>2. /\ ReSchedulerLock' \in {0, 1}
      /\ \A d \in CPUs : HasRe(d)' => ReSchedulerLock' = 0
      /\ \A d, e \in CPUs : HasRe(d)' /\ HasRe(e)' => d = e
  BY <1>1 DEF LockInv, Kept
<1>3. /\ SchedulerLock' \in {0, 1}
      /\ \A d \in CPUs : HasScheduler(d)' => SchedulerLock' = 0
      /\ \A d, e \in CPUs : HasScheduler(d)' /\ HasScheduler(e)' => d = e
  BY <1>1 DEF LockInv, Kept
<1>4. /\ SecondSchedulerLock' \in {0, 1}
      /\ \A d \in CPUs : HasSecond(d)' => SecondSchedulerLock' = 0
      /\ \A d, e \in CPUs : HasSecond(d)' /\ HasSecond(e)' => d = e
  BY <1>1 DEF LockInv, Kept
<1> QED BY <1>2, <1>3, <1>4 DEF LockInv

(* The owner invariant is kept by a step that changes no thread's lock,    *)
(* when c owns nothing new and executes nothing another CPU executes.      *)
LEMMA OwnersSame ==
    ASSUME OwnerInv, NEW c \in CPUs, Away(c), UNCHANGED lock,
           \A t \in Threads : Owns(c, t)' => Owns(c, t),
           \/ ctx'[c] = ctx[c]
           \/ ctx'[c] = Idle
           \/ \A d \in CPUs \ {c} : ctx[d] # ctx'[c]
    PROVE  OwnerInv'
<1>1. \A d \in CPUs \ {c}, t \in Threads : Owns(d, t)' <=> Owns(d, t)
  BY DEF Away, Owns
<1>2. \A d \in CPUs, t \in Threads : Owns(d, t)' => Owns(d, t)
  BY <1>1
<1>3. ThreadOnOneCPU'
  BY DEF OwnerInv, ThreadOnOneCPU, Away
<1> QED BY <1>2, <1>3 DEF OwnerInv

(* ... by a step that takes the free lock of t ... *)
LEMMA OwnersTake ==
    ASSUME OwnerInv, NEW c \in CPUs, Away(c), NEW t \in Threads,
           lock \in [Threads -> Nat], lock[t] = 1, lock' = [lock EXCEPT ![t] = 0],
           \A u \in Threads : Owns(c, u)' => u = t \/ Owns(c, u),
           ctx'[c] = ctx[c]
    PROVE  OwnerInv'
<1>1. \A d \in CPUs \ {c}, u \in Threads : Owns(d, u)' <=> Owns(d, u)
  BY DEF Away, Owns
<1>2. \A u \in Threads : lock'[u] = IF u = t THEN 0 ELSE lock[u]
  OBVIOUS
<1>3. ThreadOnOneCPU'
  BY DEF OwnerInv, ThreadOnOneCPU, Away
<1>4. \A d \in CPUs : ~Owns(d, t)
  BY DEF OwnerInv
<1>5. \A d \in CPUs, u \in Threads : Owns(d, u)' => Owns(d, u) \/ (d = c /\ u = t)
  BY <1>1
<1>6. \A u \in Threads : lock'[u] \in {0, 1}
  BY <1>2 DEF OwnerInv
<1>7. \A d \in CPUs, u \in Threads : Owns(d, u)' => lock'[u] = 0
  BY <1>2, <1>5 DEF OwnerInv
<1>8. \A d, e \in CPUs, u \in Threads : Owns(d, u)' /\ Owns(e, u)' => d = e
  BY <1>4, <1>5 DEF OwnerInv
<1> QED BY <1>3, <1>6, <1>7, <1>8 DEF OwnerInv

(* ... and by a step that frees the lock of t, which c owns. *)
LEMMA OwnersFree ==
    ASSUME OwnerInv, NEW c \in CPUs, Away(c), NEW t \in Threads,
           lock \in [Threads -> Nat], lock' = [lock EXCEPT ![t] = 1],
           Owns(c, t), \A u \in Threads : ~Owns(c, u)',
           ctx'[c] = ctx[c]
    PROVE  OwnerInv'
<1>1. \A d \in CPUs \ {c}, u \in Threads : Owns(d, u)' <=> Owns(d, u)
  BY DEF Away, Owns
<1>2. \A u \in Threads : lock'[u] = IF u = t THEN 1 ELSE lock[u]
  OBVIOUS
<1>3. ThreadOnOneCPU'
  BY DEF OwnerInv, ThreadOnOneCPU, Away
<1>4. \A d \in CPUs, u \in Threads : Owns(d, u)' => d # c /\ Owns(d, u)
  BY <1>1
<1>5. \A d \in CPUs : Owns(d, t)' => FALSE
  BY <1>4 DEF OwnerInv
<1>6. \A u \in Threads : lock'[u] \in {0, 1}
  BY <1>2 DEF OwnerInv
<1>7. \A d \in CPUs, u \in Threads : Owns(d, u)' => lock'[u] = 0
  BY <1>2, <1>4, <1>5 DEF OwnerInv
<1>8. \A d, e \in CPUs, u \in Threads : Owns(d, u)' /\ Owns(e, u)' => d = e
  BY <1>4 DEF OwnerInv
<1> QED BY <1>3, <1>6, <1>7, <1>8 DEF OwnerInv

(* The frame and CPU-local invariants are kept if they are kept for c. *)
LEMMA FramesKept ==
    ASSUME FrameInv, NEW c \in CPUs, Away(c), FrameAt(c)',
           \A t \in Threads :
               \/ saved_regs'[t] = saved_regs[t]
               \/ saved_regs'[t] \notin HoldsSchedPCs \cup HoldsReSchedPCs
    PROVE  FrameInv'
<1>1. \A d \in CPUs \ {c} : FrameAt(d)'
  BY DEF FrameInv, FrameAt, Away
<1>2. \A d \in CPUs : FrameAt(d)'
  BY <1>1
<1>3. \A t \in Threads : saved_regs'[t] \notin HoldsSchedPCs \cup HoldsReSchedPCs
  BY DEF FrameInv
<1> QED BY <1>2, <1>3 DEF FrameInv

LEMMA LocalsKept ==
    ASSUME LocalInv, NEW c \in CPUs, Away(c), LocalAt(c)', UNCHANGED <<ActiveTasks, taskID>>
    PROVE  LocalInv'
<1>1. \A d \in CPUs \ {c} : LocalAt(d)'
  BY DEF LocalInv, LocalAt, Away
<1>2. \A d \in CPUs : LocalAt(d)'
  BY <1>1
<1> QED BY <1>2 DEF LocalInv

(* The places a frame resumes are not places of scheduler_schedule. *)
LEMMA FramePlaces ==
    /\ \A l \in ThreadPCs \cup {"halt"} : l \notin SchedulePCs /\ l \notin LeftPCs
    /\ \A l \in PlainPCs : l # "halt"
    /\ LeftPCs \subseteq SchedulePCs
    /\ "halt" \notin HoldsSchedPCs \cup HoldsReSchedPCs
    /\ \A l \in HoldsSchedPCs \cup HoldsReSchedPCs : l \in ThreadPCs
    /\ HoldsSchedPCs \cap HoldsReSchedPCs = {}
BY DEF ThreadPCs, SchedulePCs, LeftPCs, PlainPCs, HoldsSchedPCs, HoldsReSchedPCs

(* A step that leaves all that these invariants speak of alone. *)
LEMMA Unmoved ==
    ASSUME IInv,
           UNCHANGED <<locks, ActiveTasks, taskID, lock, saved_regs, cpuLocal, pc, frame, nextTask>>
    PROVE  Others'
<1>1. LockInv'
  BY DEF IInv, LockInv, HasRe, HasScheduler, HasSecond
<1>2. OwnerInv'
  BY DEF IInv, OwnerInv, Owns, ThreadOnOneCPU
<1>3. FrameInv'
  BY DEF IInv, FrameInv, FrameAt
<1>4. LocalInv'
  BY DEF IInv, LocalInv, LocalAt
<1> QED BY <1>1, <1>2, <1>3, <1>4 DEF Others

(* A step of c that changes its place, its frame and the scheduler's locks *)
(* and nothing else these invariants speak of.                             *)
LEMMA Move ==
    ASSUME IInv, NEW c \in CPUs, Away(c),
           Kept(ReSchedulerLock, ReSchedulerLock', HasRe(c), HasRe(c)'),
           Kept(SchedulerLock, SchedulerLock', HasScheduler(c), HasScheduler(c)'),
           Kept(SecondSchedulerLock, SecondSchedulerLock', HasSecond(c), HasSecond(c)'),
           FrameAt(c)',
           pc[c] \in LeftPCs => pc'[c] \in LeftPCs,
           pc'[c] \in {"pickDec", "switch"} =>
               pc[c] \in {"pickDec", "switch"} /\ UNCHANGED nextTask,
           UNCHANGED <<ActiveTasks, taskID, lock, saved_regs, cpuLocal>>
    PROVE  Others'
<1>1. LockInv'
  BY LocksKept DEF IInv
<1>2. \A t \in Threads : Owns(c, t)' => Owns(c, t)
  BY DEF Owns
<1>3. OwnerInv'
  BY <1>2, OwnersSame DEF IInv
<1>4. FrameInv'
  BY FramesKept DEF IInv
<1>5. LocalAt(c)'
  BY DEF IInv, LocalInv, LocalAt
<1>6. LocalInv'
  BY <1>5, LocalsKept DEF IInv
<1> QED BY <1>1, <1>3, <1>4, <1>6 DEF Others

(* What the lock invariant says of c alone, and of a lock that is free. *)
LEMMA AtC ==
    ASSUME IInv, NEW c \in CPUs
    PROVE  /\ FrameAt(c) /\ LocalAt(c)
           /\ ReSchedulerLock \in {0, 1} /\ SchedulerLock \in {0, 1}
           /\ SecondSchedulerLock \in {0, 1}
           /\ HasRe(c) => ReSchedulerLock = 0
           /\ HasScheduler(c) => SchedulerLock = 0
           /\ HasSecond(c) => SecondSchedulerLock = 0
           /\ pc[c] \in Places /\ frame[c] \in ThreadPCs \cup {"halt"}
BY DEF IInv, FrameInv, LocalInv, LockInv, TypeOK, PcType

(* A step of a thread that neither holds nor takes a scheduler lock. *)
LEMMA PlainStep ==
    ASSUME IInv, NEW c \in CPUs, pc[c] \in PlainPCs, NEW l \in PlainPCs,
           pc' = [pc EXCEPT ![c] = l],
           UNCHANGED <<locks, ActiveTasks, taskID, lock, saved_regs, cpuLocal, frame, nextTask>>
    PROVE  Others'
<1>1. Away(c)
  BY DEF IInv, TypeOK, PcType, Away
<1>2. pc'[c] = l
  BY DEF IInv, TypeOK, PcType
<1>3. /\ pc[c] \in ThreadPCs /\ pc[c] \notin HoldsSchedPCs \cup HoldsReSchedPCs
      /\ l \in ThreadPCs /\ l \notin HoldsSchedPCs \cup HoldsReSchedPCs
  BY DEF PlainPCs
<1>4. /\ pc[c] \notin SchedulePCs /\ l \notin SchedulePCs /\ l # "halt" /\ l \notin LeftPCs
      /\ pc[c] \notin LeftPCs
  BY <1>3, FramePlaces
<1>5. FrameAt(c)'
  BY <1>2, <1>3, <1>4, AtC, FramePlaces DEF FrameAt
<1>6. /\ HasRe(c)' => HasRe(c)
      /\ HasScheduler(c)' => HasScheduler(c)
      /\ HasSecond(c)' => HasSecond(c)
  BY <1>2, <1>3, <1>4 DEF HasRe, HasScheduler, HasSecond, SchedulePCs
<1>7. l \notin {"pickDec", "switch"}
  BY <1>4 DEF LeftPCs
<1> QED BY <1>1, <1>2, <1>4, <1>5, <1>6, <1>7, Move DEF Kept

(* An interrupt enters scheduler_schedule. *)
LEMMA EnterStep ==
    ASSUME IInv, NEW c \in CPUs, InterruptsOn(c), EnterSchedule(c),
           UNCHANGED <<locks, ActiveTasks, taskID, lock, saved_regs, cpuLocal, nextTask>>
    PROVE  Others'
<1>1. Away(c)
  BY DEF IInv, TypeOK, PcType, Away, EnterSchedule, Go
<1>2. pc'[c] = "lockRe" /\ frame'[c] = pc[c] /\ pc[c] \in ThreadPCs \cup {"halt"}
  BY DEF IInv, TypeOK, PcType, EnterSchedule, Go, InterruptsOn
<1>3. pc[c] \notin SchedulePCs /\ pc[c] \notin LeftPCs
  BY <1>2, FramePlaces
<1>4. FrameAt(c)'
  BY <1>2, <1>3, AtC, FramePlaces, SchedulerConstants DEF FrameAt, SchedulePCs, ThreadPCs
<1>5. /\ HasRe(c)' => HasRe(c)
      /\ HasScheduler(c)' => HasScheduler(c)
      /\ HasSecond(c)' => HasSecond(c)
  BY <1>2, <1>3, FramePlaces
     DEF HasRe, HasScheduler, HasSecond, LeftPCs, HoldsSchedPCs, HoldsReSchedPCs
<1> QED BY <1>1, <1>2, <1>3, <1>4, <1>5, Move DEF Kept

(* ReSchedulerLock is taken. *)
LEMMA LockReSchedulerStep ==
    ASSUME IInv, NEW c \in CPUs, LockReScheduler(c)
    PROVE  Others'
<1>1. Away(c)
  BY DEF IInv, TypeOK, PcType, PickType, CPUType, Away, Go, LockReScheduler
<1>2. /\ pc[c] = "lockRe" /\ pc'[c] = "trySched" /\ UNCHANGED <<frame, ctx>>
      /\ ReSchedulerLock = 1 /\ ReSchedulerLock' = 0
      /\ UNCHANGED <<SchedulerLock, SecondSchedulerLock>>
  BY AtC, Words DEF IInv, TypeOK, PcType, Go, LockReScheduler
<1>3. FrameAt(c)'
  BY <1>2, AtC, FramePlaces, SchedulerConstants
     DEF FrameAt, ThreadPCs, SchedulePCs, HoldsSchedPCs, HoldsReSchedPCs, HasRe
<1>4. /\ Kept(ReSchedulerLock, ReSchedulerLock', HasRe(c), HasRe(c)')
      /\ Kept(SchedulerLock, SchedulerLock', HasScheduler(c), HasScheduler(c)')
      /\ Kept(SecondSchedulerLock, SecondSchedulerLock', HasSecond(c), HasSecond(c)')
  BY <1>2, AtC, FramePlaces DEF Kept, FrameAt, HasRe, HasScheduler, HasSecond,
     SchedulePCs, LeftPCs, HoldsSchedPCs, HoldsReSchedPCs
<1> QED BY <1>1, <1>2, <1>3, <1>4, FramePlaces, Move DEF LeftPCs, LockReScheduler

(* SchedulerLock is taken, or it is held. *)
LEMMA TrySchedulerStep ==
    ASSUME IInv, NEW c \in CPUs, TryScheduler(c)
    PROVE  Others'
<1>1. Away(c)
  BY DEF IInv, TypeOK, PcType, PickType, CPUType, Away, Go, TryScheduler
<1>2. /\ pc[c] = "trySched" /\ UNCHANGED <<frame, ctx>>
      /\ UNCHANGED <<ReSchedulerLock, SecondSchedulerLock>>
      /\ \/ pc'[c] = "trySecond" /\ SchedulerLock = 1 /\ SchedulerLock' = 0
         \/ pc'[c] = "unwind" /\ SchedulerLock = 0 /\ SchedulerLock' = 0
  BY AtC, Words DEF IInv, TypeOK, PcType, Go, TryScheduler
<1>3. FrameAt(c)'
  BY <1>2, AtC, FramePlaces, SchedulerConstants
     DEF FrameAt, ThreadPCs, SchedulePCs, HoldsSchedPCs, HoldsReSchedPCs, HasScheduler
<1>4. /\ Kept(ReSchedulerLock, ReSchedulerLock', HasRe(c), HasRe(c)')
      /\ Kept(SchedulerLock, SchedulerLock', HasScheduler(c), HasScheduler(c)')
      /\ Kept(SecondSchedulerLock, SecondSchedulerLock', HasSecond(c), HasSecond(c)')
  BY <1>2, AtC, FramePlaces DEF Kept, FrameAt, HasRe, HasScheduler, HasSecond,
     SchedulePCs, LeftPCs, HoldsSchedPCs, HoldsReSchedPCs
<1> QED BY <1>1, <1>2, <1>3, <1>4, FramePlaces, Move DEF LeftPCs, TryScheduler

(* SecondSchedulerLock is taken, or it is held and SchedulerLock freed. *)
LEMMA TrySecondStep ==
    ASSUME IInv, NEW c \in CPUs, TrySecond(c)
    PROVE  Others'
<1>1. Away(c)
  BY DEF IInv, TypeOK, PcType, PickType, CPUType, Away, Go, TrySecond
<1>2. /\ pc[c] = "trySecond" /\ SchedulerLock = 0 /\ UNCHANGED <<frame, ctx, ReSchedulerLock>>
      /\ \/ /\ pc'[c] = "save" /\ SecondSchedulerLock = 1 /\ SecondSchedulerLock' = 0
            /\ SchedulerLock' = 0
         \/ /\ pc'[c] = "unwind" /\ SecondSchedulerLock = 0 /\ SecondSchedulerLock' = 0
            /\ SchedulerLock' = 1
  BY AtC, Words DEF IInv, TypeOK, PcType, Go, TrySecond, HasScheduler
<1>3. FrameAt(c)'
  BY <1>2, AtC, FramePlaces, SchedulerConstants
     DEF FrameAt, ThreadPCs, SchedulePCs, HoldsSchedPCs, HoldsReSchedPCs
<1>4. /\ Kept(ReSchedulerLock, ReSchedulerLock', HasRe(c), HasRe(c)')
      /\ Kept(SchedulerLock, SchedulerLock', HasScheduler(c), HasScheduler(c)')
      /\ Kept(SecondSchedulerLock, SecondSchedulerLock', HasSecond(c), HasSecond(c)')
  BY <1>2, AtC, FramePlaces DEF Kept, FrameAt, HasRe, HasScheduler, HasSecond,
     SchedulePCs, LeftPCs, HoldsSchedPCs, HoldsReSchedPCs
<1> QED BY <1>1, <1>2, <1>3, <1>4, FramePlaces, Move DEF LeftPCs, TrySecond

(* scheduler_schedule returns early. *)
LEMMA UnwindStep ==
    ASSUME IInv, NEW c \in CPUs, Unwind(c)
    PROVE  Others'
<1>1. Away(c)
  BY DEF IInv, TypeOK, PcType, PickType, CPUType, Away, Go, Unwind
<1>2. /\ pc[c] = "unwind" /\ ReSchedulerLock = 0 /\ ReSchedulerLock' = 1 /\ UNCHANGED ctx
      /\ UNCHANGED <<SchedulerLock, SecondSchedulerLock>>
      /\ \/ pc'[c] = "lockRe" /\ frame'[c] = frame[c]
         \/ pc'[c] = frame[c] /\ frame'[c] = "halt"
  BY AtC, Words DEF IInv, TypeOK, PcType, Go, Unwind, HasRe, SchedulePCs
<1>3. FrameAt(c)'
  <2>1. /\ ctx[c] \in Threads \cup {Idle} /\ (ctx[c] = Idle <=> frame[c] = "halt")
        /\ frame[c] \notin SchedulePCs /\ "halt" \notin ThreadPCs
    BY <1>2, AtC, FramePlaces, Zenon DEF IInv, TypeOK, CPUType, FrameAt, SchedulePCs, ThreadPCs
  <2>2. "lockRe" \in SchedulePCs /\ "lockRe" \notin ThreadPCs
    BY DEF SchedulePCs, ThreadPCs, HoldsSchedPCs, HoldsReSchedPCs
  <2> QED BY <1>2, <2>1, <2>2, AtC, FramePlaces, SchedulerConstants DEF FrameAt
<1>4. /\ Kept(ReSchedulerLock, ReSchedulerLock', HasRe(c), HasRe(c)')
      /\ Kept(SchedulerLock, SchedulerLock', HasScheduler(c), HasScheduler(c)')
      /\ Kept(SecondSchedulerLock, SecondSchedulerLock', HasSecond(c), HasSecond(c)')
  BY <1>2, AtC, FramePlaces, Zenon DEF Kept, FrameAt, HasRe, HasScheduler, HasSecond,
     SchedulePCs, LeftPCs, HoldsSchedPCs, HoldsReSchedPCs
<1>5. pc'[c] \notin {"pickDec", "switch"} /\ pc[c] \notin LeftPCs
  BY <1>2, AtC, FramePlaces, Zenon DEF LeftPCs
<1> QED BY <1>1, <1>3, <1>4, <1>5, Move, Zenon DEF Unwind

(* No candidate is left. *)
LEMMA PickNoneStep ==
    ASSUME IInv, NEW c \in CPUs, PickNone(c)
    PROVE  Others'
<1>1. Away(c)
  BY DEF IInv, TypeOK, PcType, PickType, CPUType, Away, Go, PickNone
<1>2. /\ pc[c] = "pick" /\ pc'[c] = "idle" /\ UNCHANGED <<frame, ctx, locks>>
  BY AtC, Words, Zenon DEF IInv, TypeOK, PcType, Go, PickNone
<1>3. FrameAt(c)'
  BY <1>2, AtC, FramePlaces, SchedulerConstants, Zenon
     DEF FrameAt, ThreadPCs, SchedulePCs, HoldsSchedPCs, HoldsReSchedPCs
<1>4. /\ Kept(ReSchedulerLock, ReSchedulerLock', HasRe(c), HasRe(c)')
      /\ Kept(SchedulerLock, SchedulerLock', HasScheduler(c), HasScheduler(c)')
      /\ Kept(SecondSchedulerLock, SecondSchedulerLock', HasSecond(c), HasSecond(c)')
  BY <1>2, AtC, FramePlaces DEF Kept, FrameAt, HasRe, HasScheduler, HasSecond,
     SchedulePCs, LeftPCs, HoldsSchedPCs, HoldsReSchedPCs
<1> QED BY <1>1, <1>2, <1>3, <1>4, FramePlaces, Move, Zenon DEF LeftPCs, PickNone

(* The event of the chosen thread is decremented. *)
LEMMA PickDecStep ==
    ASSUME IInv, NEW c \in CPUs, PickDec(c)
    PROVE  Others'
<1>1. Away(c)
  BY DEF IInv, TypeOK, PcType, PickType, CPUType, Away, Go, PickDec
<1>2. /\ pc[c] = "pickDec" /\ pc'[c] = "switch" /\ UNCHANGED <<frame, ctx, locks>>
  BY AtC, Words DEF IInv, TypeOK, PcType, Go, PickDec
<1>3. FrameAt(c)'
  BY <1>2, AtC, FramePlaces, SchedulerConstants, Zenon
     DEF FrameAt, ThreadPCs, SchedulePCs, HoldsSchedPCs, HoldsReSchedPCs
<1>4. /\ Kept(ReSchedulerLock, ReSchedulerLock', HasRe(c), HasRe(c)')
      /\ Kept(SchedulerLock, SchedulerLock', HasScheduler(c), HasScheduler(c)')
      /\ Kept(SecondSchedulerLock, SecondSchedulerLock', HasSecond(c), HasSecond(c)')
  BY <1>2, AtC, FramePlaces, Zenon DEF Kept, FrameAt, HasRe, HasScheduler, HasSecond,
     SchedulePCs, LeftPCs, HoldsSchedPCs, HoldsReSchedPCs
<1> QED BY <1>1, <1>2, <1>3, <1>4, FramePlaces, Move, Zenon DEF LeftPCs, PickDec

(* SecondSchedulerLock is freed. *)
LEMMA ReleaseSecondStep ==
    ASSUME IInv, NEW c \in CPUs, ReleaseSecond(c)
    PROVE  Others'
<1>1. Away(c)
  BY DEF IInv, TypeOK, PcType, PickType, CPUType, Away, Go, ReleaseSecond, Release
<1>2. /\ pc[c] = "rel2" /\ pc'[c] = "rel1" /\ UNCHANGED <<frame, ctx>>
      /\ SecondSchedulerLock = 0 /\ SecondSchedulerLock' = 1
      /\ UNCHANGED <<ReSchedulerLock, SchedulerLock>>
  BY AtC, Words DEF IInv, TypeOK, PcType, Go, ReleaseSecond, Release, HasSecond
<1>3. FrameAt(c)'
  BY <1>2, AtC, FramePlaces, SchedulerConstants, Zenon
     DEF FrameAt, ThreadPCs, SchedulePCs, HoldsSchedPCs, HoldsReSchedPCs
<1>4. /\ Kept(ReSchedulerLock, ReSchedulerLock', HasRe(c), HasRe(c)')
      /\ Kept(SchedulerLock, SchedulerLock', HasScheduler(c), HasScheduler(c)')
      /\ Kept(SecondSchedulerLock, SecondSchedulerLock', HasSecond(c), HasSecond(c)')
  BY <1>2, AtC, FramePlaces DEF Kept, FrameAt, HasRe, HasScheduler, HasSecond,
     SchedulePCs, LeftPCs, HoldsSchedPCs, HoldsReSchedPCs
<1> QED BY <1>1, <1>2, <1>3, <1>4, FramePlaces, Move, Zenon DEF LeftPCs, ReleaseSecond, Release

(* SchedulerLock is freed. *)
LEMMA ReleaseSchedulerStep ==
    ASSUME IInv, NEW c \in CPUs, ReleaseScheduler(c)
    PROVE  Others'
<1>1. Away(c)
  BY DEF IInv, TypeOK, PcType, PickType, CPUType, Away, Go, ReleaseScheduler, Release
<1>2. /\ pc[c] = "rel1" /\ pc'[c] = "rel0" /\ UNCHANGED <<frame, ctx>>
      /\ SchedulerLock = 0 /\ SchedulerLock' = 1
      /\ UNCHANGED <<ReSchedulerLock, SecondSchedulerLock>>
  BY AtC, Words DEF IInv, TypeOK, PcType, Go, ReleaseScheduler, Release, HasScheduler
<1>3. FrameAt(c)'
  BY <1>2, AtC, FramePlaces, SchedulerConstants, Zenon
     DEF FrameAt, ThreadPCs, SchedulePCs, HoldsSchedPCs, HoldsReSchedPCs
<1>4. /\ Kept(ReSchedulerLock, ReSchedulerLock', HasRe(c), HasRe(c)')
      /\ Kept(SchedulerLock, SchedulerLock', HasScheduler(c), HasScheduler(c)')
      /\ Kept(SecondSchedulerLock, SecondSchedulerLock', HasSecond(c), HasSecond(c)')
  BY <1>2, AtC, FramePlaces, Zenon DEF Kept, FrameAt, HasRe, HasScheduler, HasSecond,
     SchedulePCs, LeftPCs, HoldsSchedPCs, HoldsReSchedPCs
<1> QED BY <1>1, <1>2, <1>3, <1>4, FramePlaces, Move, Zenon DEF LeftPCs, ReleaseScheduler, Release

(* ReSchedulerLock is freed and the context resumes. *)
LEMMA ResumeStep ==
    ASSUME IInv, NEW c \in CPUs, Resume(c)
    PROVE  Others'
<1>1. Away(c)
  BY DEF IInv, TypeOK, PcType, PickType, CPUType, Away, Go, Resume, Release
<1>2. /\ pc[c] = "rel0" /\ pc'[c] = frame[c] /\ frame'[c] = "halt" /\ UNCHANGED ctx
      /\ ReSchedulerLock = 0 /\ ReSchedulerLock' = 1
      /\ UNCHANGED <<SchedulerLock, SecondSchedulerLock>>
  BY AtC, Words DEF IInv, TypeOK, PcType, Go, Resume, Release, HasRe, SchedulePCs
<1>3. FrameAt(c)'
  <2>1. /\ ctx[c] \in Threads \cup {Idle} /\ (ctx[c] = Idle <=> frame[c] = "halt")
        /\ frame[c] \notin SchedulePCs /\ "halt" \notin ThreadPCs
    BY <1>2, AtC, FramePlaces, Zenon DEF IInv, TypeOK, CPUType, FrameAt, SchedulePCs, ThreadPCs
  <2>2. "lockRe" \in SchedulePCs /\ "lockRe" \notin ThreadPCs
    BY DEF SchedulePCs, ThreadPCs, HoldsSchedPCs, HoldsReSchedPCs
  <2> QED BY <1>2, <2>1, <2>2, AtC, FramePlaces, SchedulerConstants, Zenon DEF FrameAt
<1>4. /\ Kept(ReSchedulerLock, ReSchedulerLock', HasRe(c), HasRe(c)')
      /\ Kept(SchedulerLock, SchedulerLock', HasScheduler(c), HasScheduler(c)')
      /\ Kept(SecondSchedulerLock, SecondSchedulerLock', HasSecond(c), HasSecond(c)')
  BY <1>2, AtC, FramePlaces, Zenon DEF Kept, FrameAt, HasRe, HasScheduler, HasSecond,
     SchedulePCs, LeftPCs, HoldsSchedPCs, HoldsReSchedPCs
<1>5. pc'[c] \notin {"pickDec", "switch"} /\ pc[c] \notin LeftPCs
  BY <1>2, AtC, FramePlaces, Zenon DEF LeftPCs
<1> QED BY <1>1, <1>3, <1>4, <1>5, Move, Zenon DEF Resume, Release

(* A thread takes SchedulerLock. *)
LEMMA TakeStep ==
    ASSUME IInv, NEW c \in CPUs, NEW from \in PlainPCs, NEW to \in HoldsSchedPCs,
           TakeScheduler(c, from, to)
    PROVE  Others'
<1>1. Away(c)
  BY DEF IInv, TypeOK, PcType, PickType, CPUType, Away, Go, TakeScheduler
<1>2. /\ pc[c] \in ThreadPCs /\ pc'[c] \in HoldsSchedPCs /\ UNCHANGED <<frame, ctx>>
      /\ SchedulerLock = 1 /\ SchedulerLock' = 0
      /\ UNCHANGED <<ReSchedulerLock, SecondSchedulerLock>>
  BY AtC, Words DEF IInv, TypeOK, PcType, Go, TakeScheduler, PlainPCs
<1>3. FrameAt(c)'
  BY <1>2, AtC, FramePlaces, SchedulerConstants, Zenon
     DEF FrameAt, ThreadPCs, SchedulePCs, HoldsSchedPCs, HoldsReSchedPCs
<1>4. /\ Kept(ReSchedulerLock, ReSchedulerLock', HasRe(c), HasRe(c)')
      /\ Kept(SchedulerLock, SchedulerLock', HasScheduler(c), HasScheduler(c)')
      /\ Kept(SecondSchedulerLock, SecondSchedulerLock', HasSecond(c), HasSecond(c)')
  BY <1>2, AtC, FramePlaces DEF Kept, FrameAt, HasRe, HasScheduler, HasSecond,
     SchedulePCs, LeftPCs, HoldsSchedPCs, HoldsReSchedPCs
<1> QED BY <1>1, <1>2, <1>3, <1>4, FramePlaces, Move, Zenon DEF LeftPCs, TakeScheduler

(* A thread frees SchedulerLock. *)
LEMMA DropStep ==
    ASSUME IInv, NEW c \in CPUs, NEW from \in HoldsSchedPCs, NEW to \in PlainPCs,
           DropScheduler(c, from, to)
    PROVE  Others'
<1>1. Away(c)
  BY DEF IInv, TypeOK, PcType, PickType, CPUType, Away, Go, DropScheduler
<1>2. /\ pc[c] \in HoldsSchedPCs /\ pc'[c] \in PlainPCs /\ pc'[c] \in ThreadPCs
      /\ pc'[c] \notin HoldsSchedPCs \cup HoldsReSchedPCs /\ UNCHANGED <<frame, ctx>>
      /\ SchedulerLock = 0 /\ SchedulerLock' = 1
      /\ UNCHANGED <<ReSchedulerLock, SecondSchedulerLock>>
  BY AtC, Words DEF IInv, TypeOK, PcType, Go, DropScheduler, PlainPCs, HasScheduler
<1>3. FrameAt(c)'
  BY <1>2, AtC, FramePlaces, SchedulerConstants, Zenon
     DEF FrameAt, ThreadPCs, SchedulePCs, HoldsSchedPCs, HoldsReSchedPCs
<1>4. /\ Kept(ReSchedulerLock, ReSchedulerLock', HasRe(c), HasRe(c)')
      /\ Kept(SchedulerLock, SchedulerLock', HasScheduler(c), HasScheduler(c)')
      /\ Kept(SecondSchedulerLock, SecondSchedulerLock', HasSecond(c), HasSecond(c)')
  BY <1>2, AtC, FramePlaces, Zenon DEF Kept, FrameAt, HasRe, HasScheduler, HasSecond,
     SchedulePCs, LeftPCs, HoldsSchedPCs, HoldsReSchedPCs
<1> QED BY <1>1, <1>2, <1>3, <1>4, FramePlaces, Move, Zenon DEF LeftPCs, DropScheduler

(* A thread frees SchedulerLock inside force_reschedule. *)
LEMMA ForceRescheduleStep ==
    ASSUME IInv, NEW c \in CPUs, ForceReschedule(c)
    PROVE  Others'
<1>1. Away(c)
  BY DEF IInv, TypeOK, PcType, PickType, CPUType, Away, Go, ForceReschedule
<1>2. /\ pc[c] = "force" /\ pc'[c] = "lockRe" /\ frame'[c] = "run" /\ UNCHANGED ctx
      /\ SchedulerLock = 0 /\ SchedulerLock' = 1
      /\ UNCHANGED <<ReSchedulerLock, SecondSchedulerLock>>
  BY AtC, Words DEF IInv, TypeOK, PcType, Go, ForceReschedule, HasScheduler, HoldsSchedPCs
<1>3. FrameAt(c)'
  BY <1>2, AtC, FramePlaces, SchedulerConstants, Zenon
     DEF FrameAt, ThreadPCs, SchedulePCs, HoldsSchedPCs, HoldsReSchedPCs
<1>4. /\ Kept(ReSchedulerLock, ReSchedulerLock', HasRe(c), HasRe(c)')
      /\ Kept(SchedulerLock, SchedulerLock', HasScheduler(c), HasScheduler(c)')
      /\ Kept(SecondSchedulerLock, SecondSchedulerLock', HasSecond(c), HasSecond(c)')
  BY <1>2, AtC, FramePlaces DEF Kept, FrameAt, HasRe, HasScheduler, HasSecond,
     SchedulePCs, LeftPCs, HoldsSchedPCs, HoldsReSchedPCs
<1> QED BY <1>1, <1>2, <1>3, <1>4, FramePlaces, Move, Zenon DEF LeftPCs, ForceReschedule

(* scheduler_add_task frees ReSchedulerLock. *)
LEMMA AddUnlockReStep ==
    ASSUME IInv, NEW c \in CPUs, AddUnlockRe(c)
    PROVE  Others'
<1>1. Away(c)
  BY DEF IInv, TypeOK, PcType, PickType, CPUType, Away, Go, AddUnlockRe
<1>2. /\ pc[c] = "reunlock" /\ pc'[c] = "punlock" /\ UNCHANGED <<frame, ctx>>
      /\ ReSchedulerLock = 0 /\ ReSchedulerLock' = 1
      /\ UNCHANGED <<SchedulerLock, SecondSchedulerLock>>
  BY AtC, Words DEF IInv, TypeOK, PcType, Go, AddUnlockRe, HasRe, HoldsReSchedPCs
<1>3. FrameAt(c)'
  BY <1>2, AtC, FramePlaces, SchedulerConstants, Zenon
     DEF FrameAt, ThreadPCs, SchedulePCs, HoldsSchedPCs, HoldsReSchedPCs
<1>4. /\ Kept(ReSchedulerLock, ReSchedulerLock', HasRe(c), HasRe(c)')
      /\ Kept(SchedulerLock, SchedulerLock', HasScheduler(c), HasScheduler(c)')
      /\ Kept(SecondSchedulerLock, SecondSchedulerLock', HasSecond(c), HasSecond(c)')
  BY <1>2, AtC, FramePlaces, Zenon DEF Kept, FrameAt, HasRe, HasScheduler, HasSecond,
     SchedulePCs, LeftPCs, HoldsSchedPCs, HoldsReSchedPCs
<1> QED BY <1>1, <1>2, <1>3, <1>4, FramePlaces, Move, Zenon DEF LeftPCs, AddUnlockRe

=============================================================================

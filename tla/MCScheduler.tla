---------------------------- MODULE MCScheduler ----------------------------
(* Constants of Scheduler for TLC: two CPUs, two kernel threads t0 and t1, *)
(* and a thread t2 of process 1.                                           *)
EXTENDS Scheduler, TLC

CONSTANTS c0, c1, t0, t1, t2, e0

MCPid == [t \in Threads |-> IF t = t2 THEN 1 ELSE 0]
MCNoPid == -1

OnlyFirst == 0 :> t0
FirstTwo == (0 :> t0) @@ (1 :> t1)
FirstThree == FirstTwo @@ (2 :> t2)

NobodyWaits == [t \in Threads |-> {}]
OneWaiter == [t \in Threads |-> IF t = t0 THEN {} ELSE {e0}]

(* What the threads of each run do. *)
TaskOps == [t \in Threads |-> {"yield", "add"}]
SleepOps == [t \in Threads |-> {"sleep", "getpid"}]
EventOps == [t \in Threads |->
                IF t = t0 THEN {"notify"} ELSE {"await", "awaitTimeout", "reset"}]
OneSleeper == [t \in Threads |-> IF t = t2 THEN {"sleep"} ELSE {}]
AddOps == [t \in Threads |-> {"add"}]
=============================================================================

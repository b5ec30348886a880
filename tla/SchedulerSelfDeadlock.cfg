SPECIFICATION FairSpec
CONSTANTS
    c0 = c0  c1 = c1  t0 = t0  t1 = t1  t2 = t2  e0 = e0
    CPUs = {c0, c1}
    BSP = c0
    Threads = {t0, t2}
    Events = {}
    Pid <- MCPid
    KernelPid = 0
    NoPid <- MCNoPid
    WaitsOn <- NobodyWaits
    FirstTasks = 1
    FirstTask <- OnlyFirst
    Spawned = {t2}
    Ops <- AddOps
    Idle = Idle
    NULL = NULL
    MaxTasks = 4
    MaxSleep = 0
    MaxTicks = 0
    MaxCount = 0
    EventModulus = 4
    TimerModulus = 1000
PROPERTY
    SpinlockReturns
CHECK_DEADLOCK FALSE

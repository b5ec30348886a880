SPECIFICATION Spec
CONSTANTS
    c0 = c0  c1 = c1  t0 = t0  t1 = t1  t2 = t2  e0 = e0
    CPUs = {c0, c1}
    BSP = c0
    Threads = {t0, t1}
    Events = {}
    Pid <- MCPid
    KernelPid = 0
    NoPid <- MCNoPid
    WaitsOn <- NobodyWaits
    FirstTasks = 2
    FirstTask <- FirstTwo
    Spawned = {}
    Ops <- SleepOps
    Idle = Idle
    NULL = NULL
    MaxTasks = 4
    MaxSleep = 2
    MaxTicks = 3
    MaxCount = 0
    EventModulus = 4
    TimerModulus = 1000
INVARIANT
    SleepsUntilTarget

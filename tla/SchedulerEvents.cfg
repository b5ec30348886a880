SPECIFICATION FairSpec
CONSTANTS
    c0 = c0  c1 = c1  t0 = t0  t1 = t1  t2 = t2  e0 = e0
    CPUs = {c0, c1}
    BSP = c0
    Threads = {t0, t1}
    Events = {e0}
    Pid <- MCPid
    KernelPid = 0
    NoPid <- MCNoPid
    WaitsOn <- OneWaiter
    FirstTasks = 2
    FirstTask <- FirstTwo
    Spawned = {}
    Ops <- EventOps
    Idle = Idle
    NULL = NULL
    MaxTasks = 4
    MaxSleep = 0
    MaxTicks = 2
    MaxCount = 1
    EventModulus = 4
    TimerModulus = 1000
INVARIANT
    TypeOK
    NoEventUnderflow
PROPERTY
    NotifiedThreadReturns

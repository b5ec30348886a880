SPECIFICATION Spec
CONSTANTS
    Parts = {"loader", "packets to server", "packets to clients", "packets of two", "shm", "virtio", "virtio queues", "gpu"}
    MayStop = {"loader", "packets to server", "packets to clients", "packets of two", "shm"}
    ta = ta  tb = tb  tc = tc  td = td  s1 = s1  s2 = s2
    k1 = k1  k2 = k2
    All = All
    Procs = {p1, p2}
    c1 = c1  c2 = c2  m1 = m1  m2 = m2  m3 = m3
    NULL = NULL  Nothing = Nothing
INVARIANTS ModulesLinked PacketsArrive SharedFramesKept QueuesSound 

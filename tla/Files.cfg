SPECIFICATION Spec
CONSTANTS
    Parts = {"list owner", "list shared", "hashmap", "vfs", "pipe", "files", "fork", "memory", "tables"}
    MayStop = {"pipe", "files", "fork", "memory", "tables"}
    ta = ta  tb = tb  tc = tc  t1 = t1  t2 = t2
    Nodes4 = {n1, n2, n3, n4}
    Nodes3 = {n1, n2, n3}
    NULL = NULL  MinusOne = MinusOne  Null = Null  Nobody = Nobody
    fat = fat  ext2 = ext2  pmgr = pmgr  again = again  devfs = devfs
    Readers = {r1, r2}
    Writers = {w1, w2}
INVARIANTS DescriptorsSound ChildInherits TablesSound
PROPERTIES ListsBehave Dictionary OpenIsAtomic StreamOfBytes

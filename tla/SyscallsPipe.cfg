\* One thread reads a pipe, another thread of its process writes to it.
SPECIFICATION FairSpec
CONSTANTS
    Parts = {"syscalls pipe"}
    MayStop = {"syscalls pipe"}
    ta = ta  tb = tb  rd = rd  wr = wr
    MinusOne = MinusOne  Null = Null  NoThread = NoThread
PROPERTIES LockedEventually

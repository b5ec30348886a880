SPECIFICATION FairSpec
CONSTANTS
    Parts = {"pipe", "pipe first data", "syscalls", "nvme", "virtio", "xhci", "hid"}
    MayStop = {"pipe", "pipe first data", "syscalls", "nvme"}
    ta = ta  tb = tb  rd = rd  wr = wr
    MinusOne = MinusOne  Null = Null  NoThread = NoThread
PROPERTIES ReaderReturns LockedEventually NvmeAnswers VirtioAnswers UsbAnswers HidPolls

SPECIFICATION Spec
CONSTANTS
    Parts = {"kmalloc", "vmm kernel", "vmm fork", "exec", "exec one cpu", "threads", "elf"}
    MayStop = {"vmm kernel", "vmm fork", "threads", "elf"}
    Owners = {o1, o2}
    NoOwner = NoOwner
    kernel = kernel  pa = pa  pb = pb  c1 = c1  c2 = c2
    Nil = Nil  Nobody = Nobody
INVARIANTS FramesHaveOneOwner BlocksSound ThreadStacks ProgramLoaded
PROPERTIES IsAddressSpace ForkCopies ExecSound

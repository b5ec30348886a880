------------------------------ MODULE Kmalloc ------------------------------
(***************************************************************************)
(* The kernel heap, kernel/utils/kmalloc.c, on top of pmm.c.  An owner is  *)
(* a pointer variable of the kernel and the code that uses it: it asks for *)
(* one block at a time, through kmalloc, kcalloc, krealloc or pmm_alloc,   *)
(* writes to it, and gives it back.  Owners interleave between the steps   *)
(* that other owners can see: the critical sections of pmm.c, the memset   *)
(* of pmm_alloc, the header and the copy of krealloc.                      *)
(***************************************************************************)
EXTENDS Pmm

CONSTANTS
    Owners, NoOwner,
    Sizes,          \* bytes kmalloc and krealloc are asked for
    Nums, ItemSizes,\* the arguments of kcalloc
    FrameCounts     \* frames pmm_alloc is asked for

KmallocConstants ==
    /\ NoOwner \notin Owners
    /\ Sizes \subseteq Nat /\ Nums \subseteq Nat /\ ItemSizes \subseteq Nat
    /\ FrameCounts \subseteq 1 .. MaxRequest

VARIABLES
    mem,       \* what a frame holds, as a header and as data
    pc,        \* the step an owner's call is at; "own" outside of calls
    req,       \* the call: operation, bytes, bytes promised, frames
    ptr,       \* the block the owner holds
    new,       \* the block a call in progress has allocated
    count      \* header->pages + 1 as kfree has read it

vars == <<pmm, mem, pc, req, ptr, new, count>>

(* A frame holds a kmem_header_t or the data of one owner.  A cleared one  *)
(* reads as a header of no pages.                                          *)
Cleared == [pages |-> 0, size |-> 0, data |-> NoOwner]
Header(p, s) == [pages |-> p, size |-> s, data |-> NoOwner]
Data(o) == [pages |-> 0, size |-> 0, data |-> o]

(* at: first frame, 0 for a NULL pointer; need: the bytes the caller asked *)
(* for; written: the leading frames of data the owner has filled; clean:   *)
(* no failed pmm_alloc has cleared a frame of the block.                   *)
NULL == [at |-> 0, frames |-> 0, need |-> 0, heap |-> FALSE, written |-> 0,
         clean |-> TRUE]
NoCall == [op |-> "none", size |-> 0, need |-> 0, frames |-> 0]

FramesOf(b) == IF b.at = 0 THEN {} ELSE FramesFrom(b.at, b.frames)
FirstData(b) == IF b.heap THEN b.at + 1 ELSE b.at
DataFrames(b) == IF b.heap THEN b.frames - 1 ELSE b.frames

Pages(size) == IF size % PAGE_SIZE # 0 THEN size \div PAGE_SIZE + 1
               ELSE size \div PAGE_SIZE
ROUND_UP(n) == ((n + PAGE_SIZE - 1) \div PAGE_SIZE) * PAGE_SIZE

(* Nothing is allocated yet. *)
NoBlocks ==
    /\ mem = [f \in Bits |-> Cleared]
    /\ pc = [o \in Owners |-> "own"]
    /\ req = [o \in Owners |-> NoCall]
    /\ ptr = [o \in Owners |-> NULL]
    /\ new = [o \in Owners |-> NULL]
    /\ count = [o \in Owners |-> 0]

Init == PmmInit /\ NoBlocks

-----------------------------------------------------------------------------
(* Calls *)

Go(o, l) == pc' = [pc EXCEPT ![o] = l]

(* The call returns and its locals are gone. *)
Return(o) == /\ Go(o, "own")
             /\ req' = [req EXCEPT ![o] = NoCall]
             /\ count' = [count EXCEPT ![o] = 0]

Request(o, op, size, need, frames) ==
    /\ frames <= MaxRequest
    /\ Go(o, "alloc")
    /\ req' = [req EXCEPT ![o] = [op |-> op, size |-> size, need |-> need,
                                  frames |-> frames]]
    /\ UNCHANGED <<pmm, mem, ptr, new, count>>

Kmalloc(o) ==
    /\ pc[o] = "own" /\ ptr[o].at = 0
    /\ \E size \in Sizes : Request(o, "kmalloc", size, size, Pages(size) + 1)

KcallocOverflows(num, nsize) == nsize # ((num * nsize) % WordModulus) \div num
Kcalloc(o) ==
    /\ pc[o] = "own" /\ ptr[o].at = 0
    /\ \E num \in Nums \ {0}, nsize \in ItemSizes \ {0} :
          LET size == (num * nsize) % WordModulus IN
          /\ ~KcallocOverflows(num, nsize)
          /\ Request(o, "kmalloc", size, num * nsize, Pages(size) + 1)

PmmAlloc(o) ==
    /\ pc[o] = "own" /\ ptr[o].at = 0
    /\ \E n \in FrameCounts : Request(o, "pmm_alloc", 0, n * PAGE_SIZE, n)

PmmAllocAdvanced(o) ==
    /\ pc[o] = "own" /\ ptr[o].at = 0
    /\ \E n \in FrameCounts : Request(o, "pmm_alloc_advanced", 0, n * PAGE_SIZE, n)

Kfree(o) ==
    /\ pc[o] = "own" /\ ptr[o].at # 0 /\ ptr[o].heap
    /\ Go(o, "kfree")
    /\ UNCHANGED <<pmm, mem, req, ptr, new, count>>

(* krealloc of a block to another number of pages allocates, copies and    *)
(* frees.                                                                  *)
KreallocMoves(o) ==
    /\ pc[o] = "own" /\ ptr[o].at # 0 /\ ptr[o].heap
    /\ \E size \in Sizes \ {0} :
          /\ ROUND_UP(mem[ptr[o].at].size) # ROUND_UP(size)
          /\ Request(o, "krealloc", size, size, Pages(size) + 1)

KreallocInPlace(o) ==
    /\ pc[o] = "own" /\ ptr[o].at # 0 /\ ptr[o].heap
    /\ \E size \in Sizes \ {0} :
          /\ ROUND_UP(mem[ptr[o].at].size) = ROUND_UP(size)
          /\ mem' = [mem EXCEPT ![ptr[o].at].size = size]
          /\ ptr' = [ptr EXCEPT ![o].need = size]
    /\ UNCHANGED <<pmm, pc, req, new, count>>

(* The owner fills its block. *)
Write(o) ==
    /\ pc[o] = "own" /\ ptr[o].written < DataFrames(ptr[o])
    /\ mem' = [f \in Bits |->
                  IF f \in FramesFrom(FirstData(ptr[o]), DataFrames(ptr[o]))
                  THEN Data(o) ELSE mem[f]]
    /\ ptr' = [ptr EXCEPT ![o].written = DataFrames(ptr[o])]
    /\ UNCHANGED <<pmm, pc, req, new, count>>

-----------------------------------------------------------------------------
(* Steps of a call *)

Allocated(o, index) ==
    [at |-> index, frames |-> req[o].frames, need |-> req[o].need,
     heap |-> req[o].op \in {"kmalloc", "krealloc"}, written |-> 0, clean |-> TRUE]

Alignment(op) == IF op = "pmm_alloc_advanced" THEN 2 ELSE 1

Alloc(o) ==
    /\ pc[o] = "alloc"
    /\ \E index \in Bits :
          /\ pmm_alloc_advanced(req[o].frames, Alignment(req[o].op), index)
          /\ IF req[o].op = "pmm_alloc_advanced"
             THEN /\ ptr' = [ptr EXCEPT ![o] = IF index = 0 THEN NULL
                                               ELSE Allocated(o, index)]
                  /\ Return(o) /\ UNCHANGED new
             ELSE /\ new' = [new EXCEPT ![o] = Allocated(o, index)]
                  /\ Go(o, "clear") /\ UNCHANGED <<req, ptr, count>>
    /\ UNCHANGED mem

(* The memset of pmm_alloc. *)
Clear(o) ==
    /\ pc[o] = "clear" /\ new[o].at # 0
    /\ mem' = [f \in Bits |-> IF f \in FramesOf(new[o]) THEN Cleared ELSE mem[f]]
    /\ IF req[o].op = "pmm_alloc"
       THEN /\ ptr' = [ptr EXCEPT ![o] = new[o]]
            /\ new' = [new EXCEPT ![o] = NULL]
            /\ Return(o)
       ELSE Go(o, "header") /\ UNCHANGED <<req, ptr, new, count>>
    /\ UNCHANGED pmm

(* Without a frame the memset clears physical address 0 and up, whoever    *)
(* owns the frames there; the call returns NULL, krealloc keeps its block. *)
Spoil(b, frames) == [b EXCEPT !.clean = b.clean /\ FramesOf(b) \cap frames = {}]
ClearNull(o) ==
    LET frames == FramesFrom(0, req[o].frames) IN
    /\ pc[o] = "clear" /\ new[o].at = 0
    /\ mem' = [f \in Bits |-> IF f \in frames THEN Cleared ELSE mem[f]]
    /\ ptr' = [p \in Owners |-> Spoil(ptr[p], frames)]
    /\ new' = [p \in Owners |-> IF p = o THEN NULL ELSE Spoil(new[p], frames)]
    /\ Return(o)
    /\ UNCHANGED pmm

WriteHeader(o) ==
    /\ pc[o] = "header"
    /\ mem' = [mem EXCEPT ![new[o].at] = Header(req[o].frames - 1, req[o].size)]
    /\ IF req[o].op = "krealloc"
       THEN Go(o, "copy") /\ UNCHANGED <<req, ptr, new, count>>
       ELSE /\ ptr' = [ptr EXCEPT ![o] = new[o]]
            /\ new' = [new EXCEPT ![o] = NULL]
            /\ Return(o)
    /\ UNCHANGED pmm

Least(a, b) == IF a > b THEN b ELSE a

(* Mutant: krealloc copies the old size, however small the new block is. *)
CopiesOldSize(o) == Pages(mem[ptr[o].at].size)

(* The pages that memcpy of the smaller of the two sizes reaches. *)
CopiedPages(o) == Pages(Least(mem[ptr[o].at].size, req[o].size))

Copy(o) ==
    /\ pc[o] = "copy"
    /\ mem' = [f \in Bits |->
                  IF f \in FramesFrom(new[o].at + 1, CopiedPages(o))
                  THEN mem[f - new[o].at + ptr[o].at] ELSE mem[f]]
    /\ new' = [new EXCEPT ![o].written = Least(ptr[o].written, new[o].frames - 1),
                          ![o].clean = new[o].clean /\ ptr[o].clean]
    /\ Go(o, "kfree")
    /\ UNCHANGED <<pmm, req, ptr, count>>

ReadHeader(o) ==
    /\ pc[o] = "kfree"
    /\ count' = [count EXCEPT ![o] = mem[ptr[o].at].pages + 1]
    /\ Go(o, "pmm_free")
    /\ UNCHANGED <<pmm, mem, req, ptr, new>>

(* The end of kfree and krealloc, and pmm_free of a caller that asked for  *)
(* frames.  What a free frame holds does not matter: mem forgets it.       *)
GiveBack(o, n) ==
    /\ pmm_free(ptr[o].at, n)
    /\ mem' = [f \in Bits |-> IF f \in FramesFrom(ptr[o].at, n) THEN Cleared ELSE mem[f]]
    /\ ptr' = [ptr EXCEPT ![o] = new[o]]
    /\ new' = [new EXCEPT ![o] = NULL]
    /\ Return(o)
HeapFree(o) == pc[o] = "pmm_free" /\ GiveBack(o, count[o])
FrameFree(o) ==
    pc[o] = "own" /\ ptr[o].at # 0 /\ ~ptr[o].heap /\ GiveBack(o, ptr[o].frames)

Next ==
    \E o \in Owners :
        \/ Kmalloc(o) \/ Kcalloc(o) \/ PmmAlloc(o) \/ PmmAllocAdvanced(o)
        \/ Kfree(o) \/ KreallocMoves(o) \/ KreallocInPlace(o) \/ Write(o)
        \/ Alloc(o) \/ Clear(o) \/ ClearNull(o) \/ WriteHeader(o) \/ Copy(o) \/ ReadHeader(o)
        \/ HeapFree(o) \/ FrameFree(o)

Spec == Init /\ [][Next]_vars

-----------------------------------------------------------------------------
(* Properties *)

Owned(o) == FramesOf(ptr[o]) \cup FramesOf(new[o])

(* No frame has two owners, whatever two CPUs interleave in kmalloc,       *)
(* krealloc and kfree, and no frame in use is marked free in PmmBitmap.    *)
FramesHaveOneOwner ==
    /\ \A o \in Owners : /\ Owned(o) \subseteq bitmap
                         /\ FramesOf(ptr[o]) \cap FramesOf(new[o]) = {}
    /\ \A o, p \in Owners : o # p => Owned(o) \cap Owned(p) = {}

(* kfree finds the header kmalloc or krealloc wrote and the owner finds    *)
(* its data, also after krealloc moved it, unless a pmm_alloc that failed  *)
(* has cleared the frames at physical address 0 and the block is there.    *)
CleanBlocksIntact ==
    \A o \in Owners : ptr[o].at # 0 /\ ptr[o].clean =>
        /\ ptr[o].heap => mem[ptr[o].at].pages = ptr[o].frames - 1
        /\ \A f \in FramesFrom(FirstData(ptr[o]), ptr[o].written) : mem[f] = Data(o)

(* A block has room for what was asked for, also when the product of       *)
(* kcalloc's arguments does not fit in a size_t.                           *)
NoShortBlock ==
    \A o \in Owners : ptr[o].at # 0 => ptr[o].need <= DataFrames(ptr[o]) * PAGE_SIZE

(* pmm_init's "Dont free the bitmap itself" and "Reserve the first two     *)
(* pages to the smp trampoline": no allocation ever gets these frames.     *)
ReservedFramesKept ==
    \A o \in Owners : Owned(o) \cap (BitmapFrames \cup Trampoline) = {}

-----------------------------------------------------------------------------
(* The inductive invariant behind FramesHaveOneOwner. *)

HeapOps == {"kmalloc", "krealloc"}
Steps == {"own", "alloc", "clear", "header", "copy", "kfree", "pmm_free"}
Block == [at : Bits, frames : Nat, need : Nat, heap : BOOLEAN, written : Nat,
          clean : BOOLEAN]

TypeOK ==
    /\ mem = [f \in Bits |-> mem[f]]
    /\ pc \in [Owners -> Steps]
    /\ req \in [Owners -> [op : HeapOps \cup {"none", "pmm_alloc", "pmm_alloc_advanced"},
                           size : Nat, need : Nat, frames : Nat]]
    /\ ptr \in [Owners -> Block] /\ new \in [Owners -> Block]
    /\ count \in [Owners -> Nat]

(* A header never claims more frames than the block has. *)
Content == [pages : Nat, size : Nat, data : Owners \cup {NoOwner}]
HeaderOK(b) ==
    b.at # 0 /\ b.heap => mem[b.at] \in Content /\ mem[b.at].pages < b.frames

CallAt(o) ==
    /\ ptr[o].at = 0 => ptr[o].frames = 0 /\ ~ptr[o].heap
    /\ pc[o] \in {"own", "alloc"} => new[o].at = 0
    /\ new[o].at = 0 /\ pc[o] # "clear" => new[o].frames = 0 /\ ~new[o].heap
    /\ req[o].op \in HeapOps => req[o].frames = Pages(req[o].size) + 1
    /\ req[o].op = "krealloc" => ptr[o].at # 0 /\ ptr[o].heap
    /\ pc[o] = "alloc" => req[o].op # "none"
    /\ pc[o] = "clear" => req[o].op \in HeapOps \cup {"pmm_alloc"}
    /\ pc[o] \in {"clear", "header", "copy"} =>
          new[o].frames = req[o].frames /\ (new[o].heap <=> req[o].op \in HeapOps)
    /\ pc[o] \in {"header", "copy"} => new[o].at # 0 /\ new[o].heap
    /\ pc[o] \in {"copy", "kfree", "pmm_free"} => ptr[o].at # 0 /\ ptr[o].heap
    /\ pc[o] = "pmm_free" => count[o] <= ptr[o].frames

HeadersOK ==
    \A o \in Owners :
        /\ HeaderOK(ptr[o])
        /\ pc[o] \in {"copy", "kfree", "pmm_free"} => HeaderOK(new[o])

(* What every step of pmm.c and kmalloc.c keeps: kfree gives back frames   *)
(* of its own block only, because a header is either intact or cleared.    *)
IInv ==
    TypeOK /\ FramesHaveOneOwner /\ HeadersOK /\ \A o \in Owners : CallAt(o)
=============================================================================

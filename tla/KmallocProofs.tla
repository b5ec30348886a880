--------------------------- MODULE KmallocProofs ---------------------------
(***************************************************************************)
(* No frame of physical memory ever has two owners, for every memory map,  *)
(* every number of owners and every size of the requests.                  *)
(***************************************************************************)
EXTENDS Kmalloc, TLAPS

USE DEF pmm

(* What the proofs assume of the constants: a memory map with an entry     *)
(* that holds the bitmap, and arguments that are numbers.                  *)
HeapConstants == PmmConstants /\ BitmapFits /\ KmallocConstants

(* The bitmap has a length, and frame 0, which stands for NULL, has a bit. *)
LEMMA PmmFacts ==
  ASSUME HeapConstants
  PROVE  /\ PmmLength \in Nat /\ Bits \subseteq Nat /\ 0 \in Bits
         /\ 0 .. PmmLength - 1 \subseteq Bits
<1> USE DEF HeapConstants
<1>1. BitmapEntry \in MemMap
  BY DEF BitmapFits, BitmapEntry, HoldsBitmap
<1>2. BitmapEntry.base \in Nat /\ BitmapEntry.length \in Nat
  BY <1>1 DEF PmmConstants
<1>3. BitmapEntry.base + BitmapEntry.length + PAGE_SIZE - 1 \in Nat
  BY <1>2 DEF PmmConstants
<1>4. PmmLength \in Nat
  BY <1>3 DEF PmmConstants, PmmLength, NewLength
<1> QED BY <1>4 DEF PmmConstants, Bits

(* A larger size never takes fewer pages. *)
LEMMA PagesMonotone ==
  ASSUME HeapConstants, NEW a \in Nat, NEW b \in Nat, a <= b
  PROVE  Pages(a) \in Nat /\ Pages(b) \in Nat /\ Pages(a) <= Pages(b)
<1> DEFINE P == PAGE_SIZE
<1>1. P \in Nat /\ P > 0
  BY DEF HeapConstants, PmmConstants
<1> HIDE DEF P
<1>2. ASSUME NEW n \in Nat
      PROVE  /\ n \div P \in Nat /\ n % P \in 0 .. P - 1
             /\ n = ((n \div P) * P) + (n % P)
  BY <1>1
<1>3. a \div P <= b \div P
  <2> DEFINE q == a \div P
             r == b \div P
  <2>1. q \in Nat /\ r \in Nat /\ q * P <= a /\ b < r * P + P
    BY <1>1, <1>2
  <2> HIDE DEF q, r
  <2>2. SUFFICES ASSUME q >= r + 1 PROVE FALSE
    BY <2>1 DEF q, r
  <2>3. q * P >= (r + 1) * P
    BY <2>1, <2>2, <1>1
  <2>4. (r + 1) * P = r * P + P
    BY <2>1, <1>1
  <2>5. q * P \in Nat /\ r * P \in Nat
    BY <2>1, <1>1
  <2> QED BY <2>1, <2>3, <2>4, <2>5, <1>1
<1>4. CASE a \div P < b \div P
  BY <1>2, <1>4 DEF Pages, P
<1>5. CASE a \div P = b \div P
  <2> DEFINE k == (a \div P) * P
             r == a % P
             s == b % P
  <2>1. k \in Nat /\ r \in Nat /\ s \in Nat /\ a = k + r /\ b = k + s
    BY <1>1, <1>2, <1>5
  <2> HIDE DEF k, r, s
  <2>2. r # 0 => s # 0
    BY <2>1
  <2> QED BY <1>2, <1>5, <2>2 DEF Pages, P, r, s
<1> QED BY <1>2, <1>3, <1>4, <1>5

-----------------------------------------------------------------------------
(* A step after which every owner has at most the frames it had, all of    *)
(* them still marked in the bitmap, gives no frame to a second owner.      *)
LEMMA Keeps ==
  ASSUME FramesHaveOneOwner,
         \A p \in Owners : /\ Owned(p)' \subseteq Owned(p)
                           /\ Owned(p)' \subseteq bitmap'
                           /\ FramesOf(ptr'[p]) \cap FramesOf(new'[p]) = {}
  PROVE  FramesHaveOneOwner'
BY Zenon DEF FramesHaveOneOwner, Owned

(* Steps that change neither the bitmap nor where a block is. *)
LEMMA Stays ==
  ASSUME FramesHaveOneOwner, UNCHANGED bitmap,
         \A p \in Owners : /\ FramesOf(ptr'[p]) = FramesOf(ptr[p])
                           /\ FramesOf(new'[p]) = FramesOf(new[p])
  PROVE  FramesHaveOneOwner'
BY DEF FramesHaveOneOwner, Owned

(* A frame's first frame is one of its frames, so two owners' headers are  *)
(* in different frames.                                                    *)
LEMMA AtInFrames ==
  ASSUME HeapConstants, NEW b \in Block, b.at # 0, b.frames > 0
  PROVE  b.at \in FramesOf(b)
BY PmmFacts DEF Block, FramesOf, FramesFrom

(* A number of pages is a number. *)
LEMMA PagesType ==
  ASSUME HeapConstants, NEW size \in Nat
  PROVE  Pages(size) \in Nat
BY PagesMonotone

(* The frames krealloc copies to lie behind the header of the new block. *)
LEMMA CopyInside ==
  ASSUME HeapConstants, NEW b \in Block, b.at # 0, NEW n \in Nat, NEW k \in Nat, n <= k,
         b.frames = k + 1
  PROVE  FramesFrom(b.at + 1, n) \subseteq FramesOf(b) /\ b.at \notin FramesFrom(b.at + 1, n)
BY PmmFacts DEF Block, FramesOf, FramesFrom

(* The smaller of two sizes, as krealloc takes it. *)
LEMMA LeastBound ==
  ASSUME NEW a \in Nat, NEW b \in Nat
  PROVE  Least(a, b) \in Nat /\ Least(a, b) <= b
BY DEF Least

(* What kmalloc writes at the start of a block of n + 1 frames. *)
LEMMA HeaderFits ==
  ASSUME NEW n \in Nat, NEW size \in Nat, NEW frames \in Nat, frames = n + 1
  PROVE  /\ Header(frames - 1, size) \in Content
         /\ Header(frames - 1, size).pages < frames
         /\ frames > 0
BY DEF Header, Content

(* An owner in no call, without a half made block. *)
LEMMA IdleCall ==
  ASSUME NEW o \in Owners, pc'[o] = "own", req'[o].op = "none",
         ptr'[o].at = 0 => ptr'[o].frames = 0 /\ ~ptr'[o].heap,
         new'[o].at = 0, new'[o].frames = 0, ~new'[o].heap
  PROVE  CallAt(o)'
BY DEF CallAt, HeapOps

(* What holds of a call depends on where its blocks lie, not on what the   *)
(* frames hold.                                                            *)
LEMMA SameCall ==
  ASSUME NEW p \in Owners, CallAt(p), pc'[p] = pc[p], req'[p] = req[p], count'[p] = count[p],
         ptr'[p].at = ptr[p].at, ptr'[p].frames = ptr[p].frames, ptr'[p].heap = ptr[p].heap,
         new'[p].at = new[p].at, new'[p].frames = new[p].frames, new'[p].heap = new[p].heap
  PROVE  CallAt(p)'
BY DEF CallAt, Pages

(* The pointer NULL. *)
LEMMA NullFields == NULL.at = 0 /\ NULL.frames = 0 /\ ~NULL.heap
BY DEF NULL

(* Nothing is taken at the start but what pmm_init marks. *)
LEMMA InitIInv ==
  ASSUME HeapConstants, Init
  PROVE  IInv
<1>1. NULL \in Block /\ FramesOf(NULL) = {}
  BY PmmFacts DEF NULL, Block, FramesOf
<1>2. TypeOK
  BY <1>1 DEF Init, NoBlocks, TypeOK, Steps, NoCall, HeapOps
<1>3. FramesHaveOneOwner
  BY <1>1 DEF Init, NoBlocks, FramesHaveOneOwner, Owned
<1>4. HeadersOK
  BY DEF Init, NoBlocks, HeadersOK, HeaderOK, NULL
<1>5. \A o \in Owners : CallAt(o)
  BY DEF Init, NoBlocks, CallAt, NULL, NoCall, HeapOps
<1> QED BY <1>2, <1>3, <1>4, <1>5 DEF IInv

-----------------------------------------------------------------------------
(* Calls only move the owner that makes them. *)
LEMMA RequestStep ==
  ASSUME HeapConstants, IInv, NEW o \in Owners, pc[o] = "own",
         NEW op \in HeapOps \cup {"pmm_alloc", "pmm_alloc_advanced"}, NEW size \in Nat,
         NEW need \in Nat, NEW frames \in Nat,
         op \in HeapOps => frames = Pages(size) + 1,
         op = "krealloc" => ptr[o].at # 0 /\ ptr[o].heap,
         Request(o, op, size, need, frames)
  PROVE  IInv'
<1>1. TypeOK'
  BY DEF IInv, TypeOK, Request, Go, Steps
<1>2. FramesHaveOneOwner'
  BY Stays DEF IInv, Request
<1>3. HeadersOK'
  BY DEF IInv, TypeOK, HeadersOK, HeaderOK, Request, Go
<1>4. ASSUME NEW p \in Owners PROVE CallAt(p)'
  <2>1. op # "none"
    BY DEF HeapOps
  <2> QED BY <2>1 DEF IInv, TypeOK, CallAt, Request, Go, Pages
<1> QED BY <1>1, <1>2, <1>3, <1>4 DEF IInv

(* The header of a block lies in a frame of its owner, and so in no frame  *)
(* of another.                                                             *)
LEMMA HeaderInside ==
  ASSUME HeapConstants, IInv, NEW o \in Owners
  PROVE  /\ ptr[o].at # 0 /\ ptr[o].heap => ptr[o].at \in FramesOf(ptr[o])
         /\ new[o].at # 0 /\ new[o].heap /\ HeaderOK(new[o]) => new[o].at \in FramesOf(new[o])
<1>1. ptr[o] \in Block /\ new[o] \in Block /\ HeaderOK(ptr[o])
  BY DEF IInv, TypeOK, HeadersOK
<1>2. ASSUME NEW b \in Block, b.at # 0, b.heap, HeaderOK(b)
      PROVE  b.at \in FramesOf(b)
  <2>1. b.frames > 0
    BY <1>2 DEF HeaderOK, Content, Block
  <2> QED BY <1>2, <2>1, AtInFrames
<1> QED BY <1>1, <1>2

(* kfree looks at its block's header and changes no frame. *)
LEMMA KfreeStep ==
  ASSUME HeapConstants, IInv, NEW o \in Owners, Kfree(o)
  PROVE  IInv'
<1>1. TypeOK'
  BY DEF IInv, TypeOK, Kfree, Go, Steps
<1>2. FramesHaveOneOwner'
  BY Stays DEF IInv, Kfree
<1>3. HeadersOK'
  BY DEF IInv, TypeOK, HeadersOK, HeaderOK, Kfree, Go, CallAt
<1>4. ASSUME NEW p \in Owners PROVE CallAt(p)'
  BY DEF IInv, TypeOK, CallAt, Kfree, Go, Pages
<1> QED BY <1>1, <1>2, <1>3, <1>4 DEF IInv

(* What kfree reads from a header is no more than the block has. *)
LEMMA ReadHeaderStep ==
  ASSUME HeapConstants, IInv, NEW o \in Owners, ReadHeader(o)
  PROVE  IInv'
<1>0. /\ ptr[o].at # 0 /\ ptr[o].heap /\ ptr[o] \in Block
      /\ mem[ptr[o].at].pages \in Nat /\ mem[ptr[o].at].pages < ptr[o].frames
  BY DEF IInv, TypeOK, CallAt, HeadersOK, HeaderOK, Content, ReadHeader
<1>1. TypeOK'
  BY <1>0 DEF IInv, TypeOK, ReadHeader, Go, Steps
<1>2. FramesHaveOneOwner'
  BY Stays DEF IInv, ReadHeader
<1>3. HeadersOK'
  BY DEF IInv, TypeOK, HeadersOK, HeaderOK, ReadHeader, Go
<1>4. ASSUME NEW p \in Owners PROVE CallAt(p)'
  BY <1>0 DEF IInv, TypeOK, CallAt, ReadHeader, Go, Pages, Block
<1> QED BY <1>1, <1>2, <1>3, <1>4 DEF IInv

(* krealloc within the pages of the block writes its own header only. *)
LEMMA KreallocInPlaceStep ==
  ASSUME HeapConstants, IInv, NEW o \in Owners, KreallocInPlace(o)
  PROVE  IInv'
<1> PICK size \in Sizes \ {0} :
      /\ mem' = [mem EXCEPT ![ptr[o].at].size = size]
      /\ ptr' = [ptr EXCEPT ![o].need = size]
  BY DEF KreallocInPlace
<1>0. size \in Nat
  BY DEF HeapConstants, KmallocConstants
<1>1. TypeOK'
  <2>1. mem' = [f \in Bits |-> mem'[f]]
    BY DEF IInv, TypeOK
  <2>2. ptr' \in [Owners -> Block]
    BY <1>0, ZenonT(60) DEF IInv, TypeOK, Block
  <2> QED BY <2>1, <2>2 DEF IInv, TypeOK, KreallocInPlace
<1>2. FramesHaveOneOwner'
  BY Stays DEF IInv, TypeOK, KreallocInPlace, Block, FramesOf
<1>3. HeadersOK'
  <2> SUFFICES ASSUME NEW p \in Owners
               PROVE  HeaderOK(ptr[p])' /\ (pc[p] \in {"copy", "kfree", "pmm_free"} => HeaderOK(new[p]))'
    BY DEF HeadersOK
  <2>1. ASSUME NEW f \in Bits, mem[f] \in Content
        PROVE  mem'[f] \in Content /\ mem'[f].pages = mem[f].pages
    BY <1>0, <2>1 DEF IInv, TypeOK, Content, Block
  <2>2. HeaderOK(ptr[p])'
    BY <2>1, ZenonT(60) DEF IInv, TypeOK, HeadersOK, HeaderOK, Block
  <2>3. (pc[p] \in {"copy", "kfree", "pmm_free"} => HeaderOK(new[p]))'
    BY <2>1 DEF IInv, TypeOK, HeadersOK, HeaderOK, Block, KreallocInPlace
  <2> QED BY <2>2, <2>3
<1>4. ASSUME NEW p \in Owners PROVE CallAt(p)'
  BY DEF IInv, TypeOK, CallAt, KreallocInPlace, Pages, Block
<1> QED BY <1>1, <1>2, <1>3, <1>4 DEF IInv

-----------------------------------------------------------------------------
(* A step of o that writes to frames of o only leaves the headers of all   *)
(* other owners as they are.                                               *)
LEMMA OtherHeaders ==
  ASSUME HeapConstants, IInv, NEW o \in Owners, NEW p \in Owners \ {o},
         \A f \in Bits \ Owned(o) : mem'[f] = mem[f],
         ptr'[p] = ptr[p], new'[p] = new[p], pc'[p] = pc[p]
  PROVE  HeaderOK(ptr[p])' /\ (pc[p] \in {"copy", "kfree", "pmm_free"} => HeaderOK(new[p]))'
<1>1. Owned(o) \cap Owned(p) = {} /\ ptr[p].at \in Bits /\ new[p].at \in Bits
  BY DEF IInv, TypeOK, FramesHaveOneOwner, Block
<1>2. HeaderOK(ptr[p])'
  <2>1. ptr[p].at # 0 /\ ptr[p].heap => mem'[ptr[p].at] = mem[ptr[p].at]
    BY <1>1, HeaderInside DEF Owned
  <2> QED BY <2>1 DEF IInv, HeadersOK, HeaderOK
<1>3. ASSUME pc[p] \in {"copy", "kfree", "pmm_free"} PROVE HeaderOK(new[p])'
  <2>1. HeaderOK(new[p])
    BY <1>3 DEF IInv, HeadersOK
  <2>2. new[p].at # 0 /\ new[p].heap => mem'[new[p].at] = mem[new[p].at]
    BY <1>1, <2>1, HeaderInside DEF Owned
  <2> QED BY <2>1, <2>2 DEF HeaderOK
<1> QED BY <1>2, <1>3

(* An owner writes to its own block, behind the header. *)
LEMMA WriteStep ==
  ASSUME HeapConstants, IInv, NEW o \in Owners, Write(o)
  PROVE  IInv'
<1> DEFINE D == FramesFrom(FirstData(ptr[o]), DataFrames(ptr[o]))
<1>0. /\ ptr[o] \in Block /\ ptr[o].at # 0 /\ new[o].at = 0 /\ DataFrames(ptr[o]) \in Nat
      /\ ptr[o].at \in Nat
  <2>1. ptr[o] \in Block /\ CallAt(o) /\ ptr[o].at \in Nat
    BY PmmFacts DEF IInv, TypeOK, Block
  <2>2. ptr[o].at # 0
    BY <2>1 DEF CallAt, Write, DataFrames, Block
  <2>3. ptr[o].heap => ptr[o].frames > 0
    BY <2>1, <2>2 DEF IInv, HeadersOK, HeaderOK, Content, Block
  <2> QED BY <2>1, <2>2, <2>3 DEF CallAt, Write, DataFrames, Block
<1>1. TypeOK'
  <2>1. mem' = [f \in Bits |-> mem'[f]]
    BY DEF Write
  <2>2. ptr' \in [Owners -> Block]
    BY <1>0 DEF IInv, TypeOK, Block, Write
  <2> QED BY <2>1, <2>2 DEF IInv, TypeOK, Write
<1>2. FramesHaveOneOwner'
  BY Stays DEF IInv, TypeOK, Write, Block, FramesOf
<1>3. D \subseteq FramesOf(ptr[o]) /\ (ptr[o].heap => ptr[o].at \notin D)
  BY <1>0 DEF FramesOf, FramesFrom, FirstData, DataFrames, Block
<1>4. \A f \in Bits \ D : mem'[f] = mem[f]
  BY DEF Write
<1> HIDE DEF D
<1>5. HeadersOK'
  <2> SUFFICES ASSUME NEW p \in Owners
               PROVE  HeaderOK(ptr[p])' /\ (pc[p] \in {"copy", "kfree", "pmm_free"} => HeaderOK(new[p]))'
    BY DEF HeadersOK
  <2>1. CASE p = o
    <3>1. HeaderOK(ptr[o])'
      BY <1>0, <1>3, <1>4 DEF IInv, TypeOK, HeadersOK, HeaderOK, Block, Write
    <3> QED BY <2>1, <3>1 DEF Write
  <2>2. CASE p # o
    <3>1. \A f \in Bits \ Owned(o) : mem'[f] = mem[f]
      BY <1>3, <1>4 DEF Owned
    <3>2. ptr'[p] = ptr[p] /\ new'[p] = new[p] /\ pc'[p] = pc[p]
      BY <2>2 DEF Write, IInv, TypeOK
    <3> QED BY <2>2, <3>1, <3>2, OtherHeaders
  <2> QED BY <2>1, <2>2
<1>6. ASSUME NEW p \in Owners PROVE CallAt(p)'
  BY DEF IInv, TypeOK, CallAt, Write, Pages, Block
<1> QED BY <1>1, <1>2, <1>5, <1>6 DEF IInv

(* Nor does a call that does not move change what holds of it. *)
LEMMA OtherCall ==
  ASSUME IInv, NEW p \in Owners, ptr'[p] = ptr[p], new'[p] = new[p], pc'[p] = pc[p],
         req'[p] = req[p], count'[p] = count[p]
  PROVE  CallAt(p)'
BY DEF IInv, CallAt, Pages

(* An owner that takes frames which are free in the bitmap, and marks      *)
(* them, takes them from nobody.                                           *)
LEMMA Grows ==
  ASSUME FramesHaveOneOwner, NEW o \in Owners, NEW G, G \cap bitmap = {},
         bitmap \subseteq bitmap', G \subseteq bitmap', Owned(o)' \subseteq Owned(o) \cup G,
         FramesOf(ptr'[o]) \cap FramesOf(new'[o]) = {},
         \A p \in Owners \ {o} : ptr'[p] = ptr[p] /\ new'[p] = new[p]
  PROVE  FramesHaveOneOwner'
<1>1. \A p \in Owners \ {o} : FramesOf(ptr[p])' = FramesOf(ptr[p]) /\ FramesOf(new[p])' = FramesOf(new[p])
  BY DEF FramesOf, FramesFrom
<1>2. \A p \in Owners \ {o} : Owned(p)' = Owned(p)
  BY <1>1 DEF Owned
<1>3. \A p \in Owners : /\ Owned(p)' \subseteq bitmap'
                        /\ (FramesOf(ptr[p]) \cap FramesOf(new[p]) = {})'
  BY <1>1, <1>2 DEF FramesHaveOneOwner
<1>4. \A p, q \in Owners : p # q => Owned(p)' \cap Owned(q)' = {}
  BY <1>2 DEF FramesHaveOneOwner
<1> QED BY <1>3, <1>4 DEF FramesHaveOneOwner

(* pmm_alloc_advanced takes free frames, or answers NULL. *)
LEMMA AllocStep ==
  ASSUME HeapConstants, IInv, NEW o \in Owners, Alloc(o)
  PROVE  IInv'
<1> DEFINE A(index) == Allocated(o, index)
<1> PICK index \in Bits :
      /\ pmm_alloc_advanced(req[o].frames, Alignment(req[o].op), index)
      /\ IF req[o].op = "pmm_alloc_advanced"
         THEN /\ ptr' = [ptr EXCEPT ![o] = IF index = 0 THEN NULL ELSE A(index)]
              /\ Return(o) /\ UNCHANGED new
         ELSE /\ new' = [new EXCEPT ![o] = A(index)]
              /\ Go(o, "clear") /\ UNCHANGED <<req, ptr, count>>
  BY DEF Alloc
<1>0. A(index) \in Block /\ NULL \in Block /\ FramesOf(NULL) = {} /\ new[o].at = 0
  BY PmmFacts DEF IInv, TypeOK, Allocated, Block, NULL, FramesOf, CallAt, Alloc
<1>1. TypeOK'
  <2>1. CASE req[o].op = "pmm_alloc_advanced"
    <3>1. ptr' \in [Owners -> Block]
      BY <1>0, <2>1 DEF IInv, TypeOK
    <3>2. pc' \in [Owners -> Steps] /\ count' \in [Owners -> Nat]
      BY <2>1 DEF IInv, TypeOK, Return, Go, Steps
    <3>3. req' \in [Owners -> [op : HeapOps \cup {"none", "pmm_alloc", "pmm_alloc_advanced"},
                               size : Nat, need : Nat, frames : Nat]]
      BY <2>1 DEF IInv, TypeOK, Return, NoCall
    <3> QED BY <2>1, <3>1, <3>2, <3>3 DEF IInv, TypeOK, Alloc
  <2>2. CASE req[o].op # "pmm_alloc_advanced"
    BY <1>0, <2>2 DEF IInv, TypeOK, Alloc, Go, Steps
  <2> QED BY <2>1, <2>2
<1>2. FramesHaveOneOwner'
  <2> DEFINE G == IF index = 0 THEN {} ELSE FramesFrom(index, req[o].frames)
  <2>1. FramesOf(A(index)) = G
    BY DEF FramesOf, Allocated
  <2>2. G \cap bitmap = {} /\ bitmap \subseteq bitmap' /\ G \subseteq bitmap'
    BY DEF pmm_alloc_advanced, Fits, is_bitmap_page_free
  <2>3. FramesOf(new[o]) = {}
    BY <1>0 DEF FramesOf
  <2>4. Owned(o)' \subseteq Owned(o) \cup G /\ FramesOf(ptr'[o]) \cap FramesOf(new'[o]) = {}
    <3>1. CASE req[o].op = "pmm_alloc_advanced"
      <4>1. FramesOf(ptr'[o]) \subseteq G
        BY <1>0, <2>1, <3>1 DEF IInv, TypeOK
      <4>2. FramesOf(new'[o]) = {}
        BY <2>3, <3>1 DEF FramesOf, FramesFrom
      <4> QED BY <4>1, <4>2 DEF Owned, FramesOf, FramesFrom
    <3>2. CASE req[o].op # "pmm_alloc_advanced"
      <4>1. FramesOf(new'[o]) = G
        BY <2>1, <3>2 DEF IInv, TypeOK
      <4>2. FramesOf(ptr'[o]) = FramesOf(ptr[o])
        BY <3>2
      <4>3. FramesOf(ptr[o]) \subseteq bitmap
        BY DEF IInv, FramesHaveOneOwner, Owned
      <4> QED BY <2>2, <4>1, <4>2, <4>3 DEF Owned, FramesOf, FramesFrom
    <3> QED BY <3>1, <3>2
  <2>5. \A p \in Owners \ {o} : ptr'[p] = ptr[p] /\ new'[p] = new[p]
    BY DEF IInv, TypeOK
  <2> HIDE DEF G
  <2> QED BY <2>2, <2>4, <2>5, Grows DEF IInv
<1>3. HeadersOK'
  <2>1. UNCHANGED mem
    BY DEF Alloc
  <2>2. CASE req[o].op = "pmm_alloc_advanced"
    <3>1. ~ptr'[o].heap /\ pc'[o] = "own"
      <4>1. ~NULL.heap /\ ~A(index).heap
        BY <2>2 DEF NULL, Allocated
      <4>2. ptr'[o] = IF index = 0 THEN NULL ELSE A(index)
        BY <2>2 DEF IInv, TypeOK
      <4>3. pc'[o] = "own"
        BY <2>2 DEF IInv, TypeOK, Return, Go
      <4> QED BY <4>1, <4>2, <4>3
    <3>2. \A p \in Owners \ {o} : ptr'[p] = ptr[p] /\ pc'[p] = pc[p] /\ new'[p] = new[p]
      BY <2>2 DEF IInv, TypeOK, Return, Go
    <3> QED BY <2>1, <3>1, <3>2 DEF IInv, HeadersOK, HeaderOK
  <2>3. CASE req[o].op # "pmm_alloc_advanced"
    BY <2>1, <2>3 DEF IInv, TypeOK, HeadersOK, HeaderOK, Go, Alloc
  <2> QED BY <2>2, <2>3
<1>4. CallAt(o)'
  <2>1. CallAt(o) /\ pc[o] = "alloc" /\ pc' = [pc EXCEPT ![o] = pc'[o]]
    BY DEF IInv, TypeOK, Alloc, Return, Go
  <2>2. CASE req[o].op = "pmm_alloc_advanced"
    <3>1. /\ pc'[o] = "own" /\ new'[o] = new[o] /\ req'[o].op = "none"
          /\ ptr'[o].at = 0 => ptr'[o].frames = 0 /\ ~ptr'[o].heap
      BY <2>2 DEF IInv, TypeOK, Return, Go, NoCall, NULL, Allocated
    <3> QED BY <2>1, <3>1 DEF CallAt, HeapOps
  <2>3. CASE req[o].op # "pmm_alloc_advanced"
    <3>1. pc'[o] = "clear" /\ ptr'[o] = ptr[o] /\ req'[o] = req[o]
      BY <2>3 DEF IInv, TypeOK, Go
    <3>0. req[o].op \in HeapOps \cup {"pmm_alloc"}
      BY <2>1, <2>3 DEF IInv, TypeOK, CallAt
    <3>2. new'[o].frames = req[o].frames /\ new'[o].heap = (req[o].op \in HeapOps)
      BY <2>3 DEF IInv, TypeOK, Allocated, HeapOps
    <3> QED BY <2>1, <3>0, <3>1, <3>2 DEF CallAt
  <2> QED BY <2>2, <2>3
<1>5. ASSUME NEW p \in Owners \ {o} PROVE CallAt(p)'
  <2>1. /\ ptr'[p] = ptr[p] /\ new'[p] = new[p] /\ pc'[p] = pc[p]
        /\ req'[p] = req[p] /\ count'[p] = count[p]
    BY DEF IInv, TypeOK, Return, Go
  <2> QED BY <2>1, OtherCall
<1> QED BY <1>1, <1>2, <1>3, <1>4, <1>5 DEF IInv

(* The end of a call, as Clear, ClearNull, WriteHeader and GiveBack have   *)
(* it.                                                                     *)
LEMMA ReturnType ==
  ASSUME TypeOK, NEW o \in Owners, Return(o)
  PROVE  /\ pc' \in [Owners -> Steps] /\ count' \in [Owners -> Nat]
         /\ req' \in [Owners -> [op : HeapOps \cup {"none", "pmm_alloc", "pmm_alloc_advanced"},
                                 size : Nat, need : Nat, frames : Nat]]
         /\ pc'[o] = "own" /\ req'[o].op = "none"
         /\ \A p \in Owners \ {o} : pc'[p] = pc[p] /\ req'[p] = req[p] /\ count'[p] = count[p]
<1>1. pc' \in [Owners -> Steps] /\ count' \in [Owners -> Nat]
  BY DEF TypeOK, Return, Go, Steps
<1>2. req' \in [Owners -> [op : HeapOps \cup {"none", "pmm_alloc", "pmm_alloc_advanced"},
                           size : Nat, need : Nat, frames : Nat]]
  BY DEF TypeOK, Return, NoCall
<1>3. pc'[o] = "own" /\ req'[o].op = "none"
  BY DEF TypeOK, Return, Go, NoCall
<1>4. \A p \in Owners \ {o} : pc'[p] = pc[p] /\ req'[p] = req[p] /\ count'[p] = count[p]
  BY DEF TypeOK, Return, Go
<1> QED BY <1>1, <1>2, <1>3, <1>4

(* GiveBack of the frames that kfree read from the header, or of all       *)
(* frames of a block without one.                                          *)
LEMMA GiveBackStep ==
  ASSUME HeapConstants, IInv, NEW o \in Owners, NEW n \in Nat, GiveBack(o, n),
         ptr[o].at # 0, n <= ptr[o].frames, pc[o] # "clear", HeaderOK(new[o])
  PROVE  IInv'
<1> DEFINE F == FramesFrom(ptr[o].at, n)
<1>0. ptr[o] \in Block /\ new[o] \in Block /\ NULL \in Block /\ FramesOf(NULL) = {} /\ ptr[o].at \in Nat
  BY PmmFacts DEF IInv, TypeOK, Block, NULL, FramesOf
<1>1. TypeOK'
  <2>1. mem' = [f \in Bits |-> mem'[f]]
    BY DEF GiveBack
  <2>2. ptr' \in [Owners -> Block] /\ new' \in [Owners -> Block]
    BY <1>0 DEF IInv, TypeOK, GiveBack
  <2> QED BY <2>1, <2>2, ReturnType DEF IInv, TypeOK, GiveBack
<1>2. F \subseteq FramesOf(ptr[o])
  BY <1>0 DEF FramesOf, FramesFrom, Block
<1>3. /\ bitmap' = bitmap \ F
      /\ \A f \in Bits \ F : mem'[f] = mem[f]
  BY DEF GiveBack, pmm_free
<1>4. /\ ptr'[o] = new[o] /\ new'[o] = NULL
      /\ \A p \in Owners \ {o} : ptr'[p] = ptr[p] /\ new'[p] = new[p]
  BY DEF IInv, TypeOK, GiveBack
<1> HIDE DEF F
<1>5. FramesHaveOneOwner'
  <2>1. ASSUME NEW p \in Owners
        PROVE  /\ Owned(p)' \subseteq Owned(p) /\ Owned(p)' \subseteq bitmap'
               /\ FramesOf(ptr'[p]) \cap FramesOf(new'[p]) = {}
    <3>1. CASE p = o
      <4>1. FramesOf(ptr'[o]) = FramesOf(new[o]) /\ FramesOf(new'[o]) = {}
        BY <1>0, <1>4
      <4>2. Owned(o)' = FramesOf(new[o])
        BY <4>1 DEF Owned, FramesOf, FramesFrom
      <4>3. FramesOf(new[o]) \subseteq bitmap \ F
        BY <1>2 DEF IInv, FramesHaveOneOwner, Owned
      <4> QED BY <1>3, <3>1, <4>1, <4>2, <4>3 DEF Owned
    <3>2. CASE p # o
      <4>1. FramesOf(ptr'[p]) = FramesOf(ptr[p]) /\ FramesOf(new'[p]) = FramesOf(new[p])
        BY <1>4, <3>2
      <4>2. Owned(p)' = Owned(p)
        BY <4>1 DEF Owned, FramesOf, FramesFrom
      <4>3. Owned(p) \subseteq bitmap \ F
        BY <1>2, <3>2 DEF IInv, FramesHaveOneOwner, Owned
      <4> QED BY <1>3, <4>1, <4>2, <4>3 DEF IInv, FramesHaveOneOwner
    <3> QED BY <3>1, <3>2
  <2> QED BY <2>1, Keeps DEF IInv
<1>6. HeadersOK'
  <2> SUFFICES ASSUME NEW p \in Owners
               PROVE  HeaderOK(ptr[p])' /\ (pc[p] \in {"copy", "kfree", "pmm_free"} => HeaderOK(new[p]))'
    BY DEF HeadersOK
  <2>1. CASE p = o
    <3>1. new[o].at # 0 /\ new[o].heap => new[o].at \in Bits \ F
      BY <1>0, <1>2, HeaderInside DEF IInv, FramesHaveOneOwner, Owned, Block
    <3>2. HeaderOK(ptr[o])'
      BY <1>3, <1>4, <3>1, ZenonT(60) DEF HeaderOK
    <3>3. pc'[o] = "own"
      BY ReturnType DEF IInv, GiveBack
    <3> QED BY <2>1, <3>2, <3>3
  <2>2. CASE p # o
    <3>1. \A f \in Bits \ Owned(o) : mem'[f] = mem[f]
      BY <1>2, <1>3 DEF Owned
    <3>2. ptr'[p] = ptr[p] /\ new'[p] = new[p] /\ pc'[p] = pc[p]
      BY <1>4, <2>2, ReturnType DEF IInv, GiveBack
    <3> QED BY <2>2, <3>1, <3>2, OtherHeaders
  <2> QED BY <2>1, <2>2
<1>7. CallAt(o)'
  <2>1. pc'[o] = "own" /\ req'[o].op = "none"
    BY ReturnType DEF IInv, GiveBack
  <2>2. new[o].at = 0 => new[o].frames = 0 /\ ~new[o].heap
    BY DEF IInv, CallAt
  <2> QED BY <1>4, <2>1, <2>2, NullFields, IdleCall
<1>8. ASSUME NEW p \in Owners \ {o} PROVE CallAt(p)'
  BY <1>4, <1>8, ReturnType, OtherCall DEF IInv, GiveBack
<1> QED BY <1>1, <1>5, <1>6, <1>7, <1>8 DEF IInv

(* A call that ends by handing its block to the owner: the owner has the   *)
(* frames that the call had.                                               *)
LEMMA TakeOver ==
  ASSUME HeapConstants, IInv, NEW o \in Owners, Return(o), UNCHANGED pmm,
         mem' = [f \in Bits |-> mem'[f]], \A f \in Bits \ Owned(o) : mem'[f] = mem[f],
         ptr' = [ptr EXCEPT ![o] = new[o]], new' = [new EXCEPT ![o] = NULL],
         new[o].at # 0, HeaderOK(ptr[o])'
  PROVE  IInv'
<1>0. new[o] \in Block /\ NULL \in Block /\ FramesOf(NULL) = {}
  BY PmmFacts DEF IInv, TypeOK, Block, NULL, FramesOf
<1>1. TypeOK'
  <2>1. ptr' \in [Owners -> Block] /\ new' \in [Owners -> Block]
    BY <1>0 DEF IInv, TypeOK
  <2> QED BY <2>1, ReturnType DEF IInv, TypeOK
<1>2. /\ ptr'[o] = new[o] /\ new'[o] = NULL
      /\ \A p \in Owners \ {o} : ptr'[p] = ptr[p] /\ new'[p] = new[p]
  BY DEF IInv, TypeOK
<1>3. FramesHaveOneOwner'
  <2>1. ASSUME NEW p \in Owners
        PROVE  /\ Owned(p)' \subseteq Owned(p) /\ Owned(p)' \subseteq bitmap'
               /\ FramesOf(ptr'[p]) \cap FramesOf(new'[p]) = {}
    <3>1. CASE p = o
      <4>1. FramesOf(ptr'[o]) = FramesOf(new[o]) /\ FramesOf(new'[o]) = {}
        BY <1>0, <1>2
      <4>2. Owned(o)' = FramesOf(new[o])
        BY <4>1 DEF Owned, FramesOf, FramesFrom
      <4> QED BY <3>1, <4>1, <4>2 DEF IInv, FramesHaveOneOwner, Owned
    <3>2. CASE p # o
      <4>1. FramesOf(ptr'[p]) = FramesOf(ptr[p]) /\ FramesOf(new'[p]) = FramesOf(new[p])
        BY <1>2, <3>2
      <4>2. Owned(p)' = Owned(p)
        BY <4>1 DEF Owned, FramesOf, FramesFrom
      <4> QED BY <4>1, <4>2 DEF IInv, FramesHaveOneOwner
    <3> QED BY <3>1, <3>2
  <2> QED BY <2>1, Keeps DEF IInv
<1>4. HeadersOK'
  <2>1. pc'[o] = "own"
    BY ReturnType DEF IInv
  <2>2. ASSUME NEW p \in Owners \ {o}
        PROVE  HeaderOK(ptr[p])' /\ (pc[p] \in {"copy", "kfree", "pmm_free"} => HeaderOK(new[p]))'
    <3>1. ptr'[p] = ptr[p] /\ new'[p] = new[p] /\ pc'[p] = pc[p]
      BY <1>2, ReturnType DEF IInv
    <3> QED BY <3>1, OtherHeaders
  <2> QED BY <2>1, <2>2 DEF HeadersOK
<1>5. CallAt(o)'
  <2>1. pc'[o] = "own" /\ req'[o].op = "none"
    BY ReturnType DEF IInv
  <2> QED BY <1>2, <2>1 DEF CallAt, HeapOps, NULL
<1>6. ASSUME NEW p \in Owners \ {o} PROVE CallAt(p)'
  BY <1>2, <1>6, ReturnType, OtherCall DEF IInv
<1> QED BY <1>1, <1>3, <1>4, <1>5, <1>6 DEF IInv

(* pmm_alloc clears frames of the call, where no header of another lies. *)
LEMMA ClearStep ==
  ASSUME HeapConstants, IInv, NEW o \in Owners, Clear(o)
  PROVE  IInv'
<1>0. /\ ptr[o] \in Block /\ new[o] \in Block /\ NULL \in Block /\ FramesOf(NULL) = {}
      /\ CallAt(o) /\ pc[o] = "clear" /\ new[o].at # 0
  BY PmmFacts DEF IInv, TypeOK, Block, NULL, FramesOf, Clear
<1>1. /\ mem' = [f \in Bits |-> mem'[f]]
      /\ \A f \in Bits \ FramesOf(new[o]) : mem'[f] = mem[f]
      /\ UNCHANGED pmm
  BY DEF Clear
<1>2. \A f \in Bits \ Owned(o) : mem'[f] = mem[f]
  BY <1>1 DEF Owned
<1>3. CASE req[o].op = "pmm_alloc"
  <2>1. /\ ptr' = [ptr EXCEPT ![o] = new[o]] /\ new' = [new EXCEPT ![o] = NULL]
        /\ Return(o)
    BY <1>3 DEF Clear
  <2>2. ~new[o].heap
    BY <1>0, <1>3 DEF CallAt, HeapOps
  <2>3. ptr'[o] = new[o]
    BY <2>1 DEF IInv, TypeOK
  <2>4. HeaderOK(ptr[o])'
    BY <2>2, <2>3 DEF HeaderOK
  <2> QED BY <1>0, <1>1, <1>2, <2>1, <2>4, TakeOver
<1>4. CASE req[o].op # "pmm_alloc"
  <2>1. Go(o, "header") /\ UNCHANGED <<req, ptr, new, count>>
    BY <1>4 DEF Clear
  <2>2. pc'[o] = "header" /\ \A p \in Owners \ {o} : pc'[p] = pc[p]
    BY <2>1 DEF IInv, TypeOK, Go
  <2>3. TypeOK'
    BY <1>1, <2>1 DEF IInv, TypeOK, Go, Steps
  <2>4. FramesHaveOneOwner'
    BY <1>1, <2>1, Stays DEF IInv
  <2>5. HeadersOK'
    <3>1. HeaderOK(ptr[o])'
      <4>1. ptr[o].at # 0 /\ ptr[o].heap => ptr[o].at \in Bits \ FramesOf(new[o])
        BY <1>0, HeaderInside DEF IInv, FramesHaveOneOwner, Block
      <4> QED BY <1>1, <2>1, <4>1 DEF IInv, HeadersOK, HeaderOK
    <3>2. ASSUME NEW p \in Owners \ {o}
          PROVE  HeaderOK(ptr[p])' /\ (pc[p] \in {"copy", "kfree", "pmm_free"} => HeaderOK(new[p]))'
      BY <1>2, <2>1, <2>2, OtherHeaders
    <3> QED BY <2>2, <3>1, <3>2 DEF HeadersOK
  <2>6. CallAt(o)'
    <3>1. req[o].op \in HeapOps
      BY <1>0, <1>4 DEF CallAt
    <3> QED BY <1>0, <2>1, <2>2, <3>1 DEF CallAt
  <2>7. ASSUME NEW p \in Owners \ {o} PROVE CallAt(p)'
    BY <2>1, <2>2, OtherCall
  <2> QED BY <2>3, <2>4, <2>5, <2>6, <2>7 DEF IInv
<1> QED BY <1>3, <1>4

(* After a NULL it clears the frames at address 0: headers of blocks that *)
(* lie there are cleared with them.                                        *)
LEMMA ClearNullStep ==
  ASSUME HeapConstants, IInv, NEW o \in Owners, ClearNull(o)
  PROVE  IInv'
<1> DEFINE F == FramesFrom(0, req[o].frames)
           Same(b, c) == b.at = c.at /\ b.frames = c.frames /\ b.heap = c.heap
<1>0. NULL \in Block /\ new[o].at = 0 /\ Return(o)
  BY PmmFacts DEF Block, NULL, ClearNull
<1>1. ASSUME NEW b \in Block
      PROVE  Spoil(b, F) \in Block /\ Same(Spoil(b, F), b)
  BY DEF Spoil, Block
<1>2. /\ ptr' = [p \in Owners |-> Spoil(ptr[p], F)]
      /\ new' = [p \in Owners |-> IF p = o THEN NULL ELSE Spoil(new[p], F)]
      /\ mem' = [f \in Bits |-> IF f \in F THEN Cleared ELSE mem[f]]
      /\ UNCHANGED pmm
  BY DEF ClearNull
<1>3. \A p \in Owners : ptr[p] \in Block /\ new[p] \in Block
  BY DEF IInv, TypeOK
<1> HIDE DEF F
<1>4. /\ \A p \in Owners : Same(ptr'[p], ptr[p])
      /\ \A p \in Owners \ {o} : Same(new'[p], new[p])
      /\ new'[o] = NULL
  BY <1>1, <1>2, <1>3
<1>5. TypeOK'
  <2>1. ptr' \in [Owners -> Block] /\ new' \in [Owners -> Block]
    BY <1>0, <1>1, <1>2, <1>3
  <2>2. mem' = [f \in Bits |-> mem'[f]]
    BY <1>2
  <2> QED BY <1>0, <2>1, <2>2, ReturnType DEF IInv, TypeOK
<1>6. FramesHaveOneOwner'
  <2>1. \A p \in Owners : /\ FramesOf(ptr'[p]) = FramesOf(ptr[p])
                          /\ FramesOf(new'[p]) = FramesOf(new[p])
    BY <1>0, <1>4 DEF FramesOf, NULL
  <2> QED BY <1>2, <2>1, Stays DEF IInv
<1>7. HeadersOK'
  <2>1. ASSUME NEW f \in Bits, NEW n \in Nat, mem[f] \in Content, mem[f].pages < n
        PROVE  mem'[f] \in Content /\ mem'[f].pages < n
    BY <1>2, <2>1 DEF Content, Cleared
  <2>2. ASSUME NEW p \in Owners PROVE HeaderOK(ptr[p])'
    <3>1. ptr[p].at \in Bits /\ ptr[p].frames \in Nat /\ HeaderOK(ptr[p])
      BY <1>3 DEF IInv, HeadersOK, Block
    <3> QED BY <1>4, <2>1, <3>1 DEF HeaderOK
  <2>3. ASSUME NEW p \in Owners, pc'[p] \in {"copy", "kfree", "pmm_free"}
        PROVE  HeaderOK(new[p])'
    <3>1. p # o /\ pc'[p] = pc[p]
      BY <1>0, <2>3, ReturnType DEF IInv
    <3>2. new[p].at \in Bits /\ new[p].frames \in Nat /\ HeaderOK(new[p])
      BY <1>3, <2>3, <3>1 DEF IInv, HeadersOK, Block
    <3> QED BY <1>4, <2>1, <3>1, <3>2 DEF HeaderOK
  <2> QED BY <2>2, <2>3 DEF HeadersOK
<1>8. ASSUME NEW p \in Owners PROVE CallAt(p)'
  <2>1. CASE p = o
    <3>1. pc'[o] = "own" /\ req'[o].op = "none"
      BY <1>0, ReturnType DEF IInv
    <3>2. ptr[o].at = 0 => ptr[o].frames = 0 /\ ~ptr[o].heap
      BY DEF IInv, CallAt
    <3> QED BY <1>4, <2>1, <3>1, <3>2, NullFields, IdleCall
  <2>2. CASE p # o
    <3>1. pc'[p] = pc[p] /\ req'[p] = req[p] /\ count'[p] = count[p]
      BY <1>0, <2>2, ReturnType DEF IInv
    <3> QED BY <1>4, <2>2, <3>1, SameCall DEF IInv
  <2> QED BY <2>1, <2>2
<1> QED BY <1>5, <1>6, <1>7, <1>8 DEF IInv

(* The header goes to the first frame of the call's own block. *)
LEMMA WriteHeaderStep ==
  ASSUME HeapConstants, IInv, NEW o \in Owners, WriteHeader(o)
  PROVE  IInv'
<1> DEFINE h == Header(req[o].frames - 1, req[o].size)
<1>0. /\ new[o] \in Block /\ CallAt(o) /\ pc[o] = "header" /\ new[o].at # 0 /\ new[o].heap
      /\ new[o].at \in Bits /\ new[o].frames = req[o].frames /\ req[o].op \in HeapOps
      /\ req[o].size \in Nat /\ req[o].frames \in Nat
  BY DEF IInv, TypeOK, Block, CallAt, WriteHeader
<1>1. req[o].frames = Pages(req[o].size) + 1 /\ Pages(req[o].size) \in Nat
  BY <1>0, PagesType DEF CallAt
<1>2. h \in Content /\ h.pages < req[o].frames
  BY <1>0, <1>1, HeaderFits
<1> HIDE DEF h
<1>3. /\ mem' = [f \in Bits |-> mem'[f]] /\ mem'[new[o].at] = h
      /\ \A f \in Bits \ {new[o].at} : mem'[f] = mem[f]
      /\ UNCHANGED pmm
  BY <1>0 DEF IInv, TypeOK, WriteHeader, h
<1>4. new[o].at \in FramesOf(new[o])
  BY <1>0, <1>1, HeaderFits, AtInFrames
<1>5. \A f \in Bits \ Owned(o) : mem'[f] = mem[f]
  BY <1>3, <1>4 DEF Owned
<1>6. CASE req[o].op # "krealloc"
  <2>1. /\ ptr' = [ptr EXCEPT ![o] = new[o]] /\ new' = [new EXCEPT ![o] = NULL]
        /\ Return(o)
    BY <1>6 DEF WriteHeader
  <2>2. ptr'[o] = new[o]
    BY <2>1 DEF IInv, TypeOK
  <2>3. HeaderOK(ptr[o])'
    BY <1>0, <1>2, <1>3, <2>2 DEF HeaderOK
  <2> QED BY <1>0, <1>3, <1>5, <2>1, <2>3, TakeOver
<1>7. CASE req[o].op = "krealloc"
  <2>1. Go(o, "copy") /\ UNCHANGED <<req, ptr, new, count>>
    BY <1>7 DEF WriteHeader
  <2>2. pc'[o] = "copy" /\ \A p \in Owners \ {o} : pc'[p] = pc[p]
    BY <2>1 DEF IInv, TypeOK, Go
  <2>3. TypeOK'
    BY <1>3, <2>1 DEF IInv, TypeOK, Go, Steps
  <2>4. FramesHaveOneOwner'
    BY <1>3, <2>1, Stays DEF IInv
  <2>5. HeadersOK'
    <3>1. HeaderOK(ptr[o])'
      <4>1. ptr[o].at # 0 /\ ptr[o].heap => ptr[o].at \in Bits \ {new[o].at}
        BY <1>4, HeaderInside DEF IInv, TypeOK, FramesHaveOneOwner, Block
      <4> QED BY <1>3, <2>1, <4>1 DEF IInv, HeadersOK, HeaderOK
    <3>2. HeaderOK(new[o])'
      BY <1>0, <1>2, <1>3, <2>1 DEF HeaderOK
    <3>3. ASSUME NEW p \in Owners \ {o}
          PROVE  HeaderOK(ptr[p])' /\ (pc[p] \in {"copy", "kfree", "pmm_free"} => HeaderOK(new[p]))'
      BY <1>5, <2>1, <2>2, OtherHeaders
    <3> QED BY <3>1, <3>2, <3>3 DEF HeadersOK
  <2>6. CallAt(o)'
    BY <1>0, <1>7, <2>1, <2>2 DEF CallAt
  <2>7. ASSUME NEW p \in Owners \ {o} PROVE CallAt(p)'
    BY <2>1, <2>2, OtherCall
  <2> QED BY <2>3, <2>4, <2>5, <2>6, <2>7 DEF IInv
<1> QED BY <1>6, <1>7

(* The copy of krealloc ends inside the new block, behind its header: it   *)
(* takes the pages of the smaller of the two sizes.                        *)
LEMMA CopyStep ==
  ASSUME HeapConstants, IInv, NEW o \in Owners, Copy(o)
  PROVE  IInv'
<1> DEFINE F == FramesFrom(new[o].at + 1, CopiedPages(o))
<1>0. /\ new[o] \in Block /\ ptr[o] \in Block /\ CallAt(o) /\ pc[o] = "copy"
      /\ new[o].at # 0 /\ new[o].heap /\ ptr[o].at # 0 /\ ptr[o].heap
      /\ new[o].at \in Nat /\ new[o].frames = req[o].frames /\ req[o].op \in HeapOps
      /\ req[o].size \in Nat /\ HeaderOK(new[o]) /\ HeaderOK(ptr[o])
  BY PmmFacts DEF IInv, TypeOK, Block, CallAt, Copy, HeadersOK
<1>1. /\ CopiedPages(o) \in Nat /\ CopiedPages(o) <= Pages(req[o].size)
      /\ new[o].frames = Pages(req[o].size) + 1 /\ Pages(req[o].size) \in Nat
  <2>1. mem[ptr[o].at].size \in Nat
    BY <1>0 DEF HeaderOK, Content
  <2>2. Least(mem[ptr[o].at].size, req[o].size) \in Nat /\ Least(mem[ptr[o].at].size, req[o].size) <= req[o].size
    BY <1>0, <2>1, LeastBound
  <2> QED BY <1>0, <2>2, PagesMonotone DEF CopiedPages, CallAt
<1>2. F \subseteq FramesOf(new[o]) /\ new[o].at \notin F
  BY <1>0, <1>1, CopyInside
<1>3. /\ mem' = [f \in Bits |-> mem'[f]] /\ \A f \in Bits \ F : mem'[f] = mem[f]
      /\ UNCHANGED pmm
  BY DEF Copy
<1> HIDE DEF F
<1>4. /\ new'[o].at = new[o].at /\ new'[o].frames = new[o].frames /\ new'[o].heap = new[o].heap
      /\ \A p \in Owners \ {o} : new'[p] = new[p] /\ pc'[p] = pc[p]
      /\ pc'[o] = "kfree" /\ UNCHANGED <<ptr, req, count>>
  BY <1>0 DEF IInv, TypeOK, Copy, Go, Block
<1>5. TypeOK'
  <2>1. Least(ptr[o].written, new[o].frames - 1) \in Nat
    <3>1. ptr[o].written \in Nat
      BY <1>0 DEF Block
    <3>2. new[o].frames - 1 \in Nat
      BY <1>1
    <3> QED BY <3>1, <3>2, LeastBound
  <2>2. (new[o].clean /\ ptr[o].clean) \in BOOLEAN
    OBVIOUS
  <2>3. new' \in [Owners -> Block]
    BY <1>0, <2>1, <2>2 DEF IInv, TypeOK, Copy, Block
  <2> QED BY <1>3, <2>3 DEF IInv, TypeOK, Copy, Go, Steps
<1>6. FramesHaveOneOwner'
  <2>1. \A p \in Owners : FramesOf(new'[p]) = FramesOf(new[p])
    BY <1>4 DEF FramesOf
  <2> QED BY <1>3, <1>4, <2>1, Stays DEF IInv
<1>7. HeadersOK'
  <2>1. HeaderOK(ptr[o])'
    <3>1. ptr[o].at \in Bits \ F
      BY <1>0, <1>2, HeaderInside DEF IInv, FramesHaveOneOwner, Block
    <3> QED BY <1>0, <1>3, <1>4, <3>1 DEF HeaderOK
  <2>2. HeaderOK(new[o])'
    <3>1. new[o].at \in Bits \ F
      BY <1>0, <1>2 DEF Block
    <3> QED BY <1>0, <1>3, <1>4, <3>1 DEF HeaderOK
  <2>3. ASSUME NEW p \in Owners \ {o}
        PROVE  HeaderOK(ptr[p])' /\ (pc[p] \in {"copy", "kfree", "pmm_free"} => HeaderOK(new[p]))'
    <3>1. \A f \in Bits \ Owned(o) : mem'[f] = mem[f]
      BY <1>2, <1>3 DEF Owned
    <3> QED BY <1>4, <3>1, OtherHeaders
  <2> QED BY <2>1, <2>2, <2>3 DEF HeadersOK
<1>8. CallAt(o)'
  BY <1>0, <1>4 DEF CallAt, Pages
<1>9. ASSUME NEW p \in Owners \ {o} PROVE CallAt(p)'
  BY <1>4, <1>9, OtherCall
<1> QED BY <1>5, <1>6, <1>7, <1>8, <1>9 DEF IInv

-----------------------------------------------------------------------------
(* kmalloc, kcalloc, krealloc to another size, and the two functions of    *)
(* pmm.c: the calls that ask for frames.                                   *)
LEMMA CallStep ==
  ASSUME HeapConstants, IInv, NEW o \in Owners,
         Kmalloc(o) \/ Kcalloc(o) \/ KreallocMoves(o) \/ PmmAlloc(o) \/ PmmAllocAdvanced(o)
  PROVE  IInv'
<1> USE DEF HeapOps
<1>0. PAGE_SIZE \in Nat \ {0} /\ WordModulus \in Nat \ {0}
  BY DEF HeapConstants, PmmConstants
<1>1. ASSUME NEW n \in Nat PROVE Pages(n) + 1 \in Nat
  BY <1>1, PagesMonotone
<1>2. CASE Kmalloc(o)
  <2>1. PICK size \in Sizes : Request(o, "kmalloc", size, size, Pages(size) + 1)
    BY <1>2 DEF Kmalloc
  <2>2. size \in Nat
    BY DEF HeapConstants, KmallocConstants
  <2> QED BY <1>1, <1>2, <2>1, <2>2, RequestStep DEF Kmalloc
<1>3. CASE Kcalloc(o)
  <2>1. PICK num \in Nums, nsize \in ItemSizes :
          Request(o, "kmalloc", (num * nsize) % WordModulus, num * nsize,
                  Pages((num * nsize) % WordModulus) + 1)
    BY <1>3 DEF Kcalloc
  <2> DEFINE n == num * nsize
             size == n % WordModulus
  <2>2. n \in Nat
    BY DEF HeapConstants, KmallocConstants
  <2>3. Request(o, "kmalloc", size, n, Pages(size) + 1)
    BY <2>1
  <2> HIDE DEF n
  <2>4. size \in Nat
    BY <1>0, <2>2
  <2> HIDE DEF size
  <2> QED BY <1>1, <1>3, <2>2, <2>3, <2>4, RequestStep DEF Kcalloc
<1>4. CASE KreallocMoves(o)
  <2>1. PICK size \in Sizes : Request(o, "krealloc", size, size, Pages(size) + 1)
    BY <1>4 DEF KreallocMoves
  <2>2. size \in Nat
    BY DEF HeapConstants, KmallocConstants
  <2> QED BY <1>1, <1>4, <2>1, <2>2, RequestStep DEF KreallocMoves
<1>5. CASE PmmAlloc(o)
  <2>1. PICK n \in FrameCounts : Request(o, "pmm_alloc", 0, n * PAGE_SIZE, n)
    BY <1>5 DEF PmmAlloc
  <2> DEFINE need == n * PAGE_SIZE
  <2>2. n \in Nat /\ need \in Nat
    BY <1>0 DEF HeapConstants, KmallocConstants
  <2>3. Request(o, "pmm_alloc", 0, need, n) /\ pc[o] = "own"
    BY <1>5, <2>1 DEF PmmAlloc
  <2> HIDE DEF need
  <2>4. "pmm_alloc" \notin HeapOps /\ "pmm_alloc" # "krealloc"
    OBVIOUS
  <2> QED BY <2>2, <2>3, <2>4, RequestStep
<1>6. CASE PmmAllocAdvanced(o)
  <2>1. PICK n \in FrameCounts : Request(o, "pmm_alloc_advanced", 0, n * PAGE_SIZE, n)
    BY <1>6 DEF PmmAllocAdvanced
  <2> DEFINE need == n * PAGE_SIZE
  <2>2. n \in Nat /\ need \in Nat
    BY <1>0 DEF HeapConstants, KmallocConstants
  <2>3. Request(o, "pmm_alloc_advanced", 0, need, n) /\ pc[o] = "own"
    BY <1>6, <2>1 DEF PmmAllocAdvanced
  <2> HIDE DEF need
  <2>4. "pmm_alloc_advanced" \notin HeapOps /\ "pmm_alloc_advanced" # "krealloc"
    OBVIOUS
  <2> QED BY <2>2, <2>3, <2>4, RequestStep
<1> QED BY <1>2, <1>3, <1>4, <1>5, <1>6

(* kfree's and krealloc's last step, and pmm_free. *)
LEMMA FreeStep ==
  ASSUME HeapConstants, IInv, NEW o \in Owners, HeapFree(o) \/ FrameFree(o)
  PROVE  IInv'
<1>1. ptr[o] \in Block /\ CallAt(o) /\ count[o] \in Nat
  BY DEF IInv, TypeOK
<1>2. CASE HeapFree(o)
  <2>1. HeaderOK(new[o])
    BY <1>2 DEF IInv, HeadersOK, HeapFree
  <2>2. ptr[o].at # 0 /\ count[o] <= ptr[o].frames /\ pc[o] # "clear"
    BY <1>1, <1>2 DEF CallAt, HeapFree
  <2> QED BY <1>1, <1>2, <2>1, <2>2, GiveBackStep DEF HeapFree
<1>3. CASE FrameFree(o)
  <2>1. HeaderOK(new[o])
    BY <1>1, <1>3 DEF CallAt, FrameFree, HeaderOK
  <2>2. ptr[o].frames \in Nat /\ ptr[o].frames <= ptr[o].frames
    BY <1>1 DEF Block
  <2> QED BY <1>3, <2>1, <2>2, GiveBackStep DEF FrameFree
<1> QED BY <1>2, <1>3

(* The inductive step of IInv, one case per action. *)
LEMMA NextIInv ==
  ASSUME HeapConstants, IInv, [Next]_vars
  PROVE  IInv'
<1>1. CASE UNCHANGED vars
  <2>1. /\ UNCHANGED <<bitmap, PmmFreePages>>
        /\ UNCHANGED <<mem, pc, req, ptr, new, count>>
    BY <1>1 DEF vars, pmm
  <2>2. TypeOK'
    BY <2>1 DEF IInv, TypeOK
  <2>3. FramesHaveOneOwner'
    BY <2>1, Stays DEF IInv
  <2>4. HeadersOK'
    BY <2>1 DEF IInv, HeadersOK, HeaderOK
  <2>5. \A o \in Owners : CallAt(o)'
    BY <2>1 DEF IInv, CallAt
  <2> QED BY <2>2, <2>3, <2>4, <2>5 DEF IInv
<1>2. ASSUME NEW o \in Owners,
             \/ Kmalloc(o) \/ Kcalloc(o) \/ PmmAlloc(o) \/ PmmAllocAdvanced(o)
             \/ Kfree(o) \/ KreallocMoves(o) \/ KreallocInPlace(o) \/ Write(o)
             \/ Alloc(o) \/ Clear(o) \/ ClearNull(o) \/ WriteHeader(o) \/ Copy(o) \/ ReadHeader(o)
             \/ HeapFree(o) \/ FrameFree(o)
      PROVE  IInv'
  BY <1>2, CallStep, KfreeStep, KreallocInPlaceStep, WriteStep, AllocStep, ClearStep,
     ClearNullStep, WriteHeaderStep, CopyStep, ReadHeaderStep, FreeStep
<1> QED BY <1>1, <1>2 DEF Next

(* For every memory map that can hold the bitmap, any number of owners and *)
(* requests of any size, no frame ever has two owners, and none in use is  *)
(* marked free: pmm_alloc gives out free frames only, and kfree and        *)
(* krealloc give back frames of their own block only.                      *)
THEOREM OneOwnerPerFrame ==
  ASSUME HeapConstants
  PROVE  Spec => []FramesHaveOneOwner
<1>1. Init => IInv
  BY InitIInv
<1>2. IInv /\ [Next]_vars => IInv'
  BY NextIInv
<1>3. IInv => FramesHaveOneOwner
  BY DEF IInv
<1> QED BY <1>1, <1>2, <1>3, PTL DEF Spec

=============================================================================

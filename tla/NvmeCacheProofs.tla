--------------------------- MODULE NvmeCacheProofs ---------------------------
(***************************************************************************)
(* Through its cache an NVMe disk is an array of bytes, for any size of    *)
(* the disk, of blocks and of the cache and whichever commands fail, until *)
(* one fails that was to read into a slot in use.                          *)
(***************************************************************************)
EXTENDS NvmeCache, SequenceTheorems, NaturalsInduction, WellFoundedInduction, TLAPS

(* Requests end a block before the disk does: commands for the last block  *)
(* have another length and may be skipped.                                 *)
CacheConstants ==
    NvmeCacheConstants /\ Reach + cache_block_size <= lba_count

Within == 0 .. cache_block_size - 1
Addresses == 0 .. lba_count - 1
Line == [block : Nat, status : {NOT_READY, READY, DIRTY}, data : [Within -> Bytes]]

(* Holding, Fetched, Flushed and Visible of a given disk d and cache c. *)
HoldingIn(c, b) == {i \in Slots : c[i].block = b /\ c[i].status # NOT_READY}
Image(d, b) == [i \in Within |-> d[b * cache_block_size + i]]
FlushedIn(d, line) == [a \in DOMAIN d |->
    IF a \div cache_block_size = line.block
    THEN line.data[a % cache_block_size] ELSE d[a]]
View(d, c) == [a \in DOMAIN d |->
    LET its == HoldingIn(c, a \div cache_block_size) IN
    IF its = {} THEN d[a] ELSE c[Min(its)].data[a % cache_block_size]]

Shape(d, c) ==
    /\ d \in [Addresses -> Bytes] /\ c \in [Slots -> Line]
    /\ \A i, j \in Slots :
          c[i].status # NOT_READY /\ c[j].status # NOT_READY /\ c[i].block = c[j].block
          => i = j
    /\ \A i \in Slots : c[i].status # NOT_READY => c[i].block * cache_block_size < Reach

Agrees(d, c) ==
    \A i \in Slots : c[i].status = READY => c[i].data = Image(d, c[i].block)

Sound(d, c) == Shape(d, c) /\ Agrees(d, c)

(* A command that was reported failed: the slot it writes back stays dirty *)
(* and keeps its block, and the one it reads into is free, unless spoilt.  *)
Command == [id : Nat, slot : Slots, block : Nat, write : BOOLEAN]
Harmless(p, c) ==
    /\ p \in Command /\ p.block * cache_block_size < Reach
    /\ p.write => c[p.slot].status = DIRTY /\ c[p.slot].block = p.block
    /\ ~p.write => spoilt \/ c[p.slot].status = NOT_READY

FailuresOK ==
    /\ errors \in Nat /\ spoilt \in BOOLEAN
    /\ errors = 0 => pending = {} /\ ~spoilt
    /\ \A p \in pending : Harmless(p, cache)

RequestOK ==
    /\ offset \in Nat
    /\ request \in [kind : {"read", "write"}, at : Nat, data : Seq(Bytes),
                    count : Nat, size : Nat, done : BOOLEAN]
    /\ ~request.done =>
          /\ request.at = offset /\ offset + request.size <= Reach
          /\ request.count <= request.size
          /\ request.kind = "write" => Len(request.data) = request.size

IInv ==
    /\ Shape(disk, cache) /\ (~spoilt => Agrees(disk, cache))
    /\ RequestOK /\ FailuresOK /\ cache_overwrite_count \in 0 .. MAX_CACHED_BLOCKS

(* An address is in one block, at one place in it. *)
LEMMA InBlock ==
  ASSUME CacheConstants, NEW a \in Nat
  PROVE  /\ a \div cache_block_size \in Nat /\ a % cache_block_size \in Within
         /\ a = ((a \div cache_block_size) * cache_block_size) + (a % cache_block_size)
<1>1. cache_block_size \in Nat \ {0}
  BY DEF CacheConstants, NvmeCacheConstants
<1> QED BY <1>1 DEF Within

(* And a place in a block is an address of that block. *)
LEMMA OfBlock ==
  ASSUME CacheConstants, NEW b \in Nat, NEW i \in Within
  PROVE  /\ b * cache_block_size + i \in Nat
         /\ (b * cache_block_size + i) \div cache_block_size = b
         /\ (b * cache_block_size + i) % cache_block_size = i
<1>1. cache_block_size \in Nat \ {0}
  BY DEF CacheConstants, NvmeCacheConstants
<1> QED BY <1>1 DEF Within

(* Blocks that requests reach are on the disk, and their commands have the *)
(* length of a block and are not skipped.                                  *)
LEMMA BlockFits ==
  ASSUME CacheConstants, NEW b \in Nat, b * cache_block_size < Reach
  PROVE  /\ \A i \in Within : b * cache_block_size + i \in Addresses
         /\ ~Exceeds(b * cache_block_size)
<1>1. /\ cache_block_size \in Nat \ {0} /\ PAGE_SIZE \in Nat \ {0} /\ lba_count \in Nat
      /\ Reach \in Nat /\ Reach + cache_block_size <= lba_count
      /\ b * cache_block_size \in Nat
  BY DEF CacheConstants, NvmeCacheConstants
<1>2. \A i \in Within : b * cache_block_size + i \in Addresses
  BY <1>1 DEF Within, Addresses
<1>3. Length(b * cache_block_size) = cache_block_size
  BY <1>1 DEF Length
<1>4. (cache_block_size - 1) \div PAGE_SIZE <= cache_block_size \div PAGE_SIZE
  BY <1>1
<1>5. /\ (cache_block_size - 1) \div PAGE_SIZE \in Nat
      /\ cache_block_size \div PAGE_SIZE \in Nat
  BY <1>1
<1> QED BY <1>2, <1>3, <1>4, <1>5 DEF Exceeds, max_prps

(* What is seen of an address: what the line has that holds its block. *)
LEMMA ViewLine ==
  ASSUME CacheConstants, NEW d, NEW c, Shape(d, c), NEW a \in Addresses,
         NEW i \in HoldingIn(c, a \div cache_block_size)
  PROVE  /\ View(d, c)[a] = c[i].data[a % cache_block_size]
         /\ Min(HoldingIn(c, a \div cache_block_size)) = i
<1> DEFINE its == HoldingIn(c, a \div cache_block_size)
<1>1. View(d, c)[a] = IF its = {} THEN d[a] ELSE c[Min(its)].data[a % cache_block_size]
  BY DEF Shape, View
<1>2. its = {i} /\ i \in Int
  BY DEF HoldingIn, Shape, Slots
<1> HIDE DEF its
<1>3. Min({i}) = i
  BY <1>2 DEF Min
<1> QED BY <1>1, <1>2, <1>3 DEF its

(* Or what is on the disk. *)
LEMMA ViewDisk ==
  ASSUME CacheConstants, NEW d, NEW c, Shape(d, c), NEW a \in Addresses,
         HoldingIn(c, a \div cache_block_size) = {}
  PROVE  View(d, c)[a] = d[a]
BY DEF Shape, View

-----------------------------------------------------------------------------
(* A dirty line is written back: the disk changes, what is seen does not. *)
LEMMA FlushStep ==
  ASSUME CacheConstants, NEW d, NEW c, Shape(d, c),
         NEW slot \in Slots, c[slot].status # NOT_READY
  PROVE  LET e == FlushedIn(d, c[slot]) IN
         Shape(e, c) /\ (Agrees(d, c) => Agrees(e, c)) /\ View(e, c) = View(d, c)
<1> DEFINE e == FlushedIn(d, c[slot])
<1>0. cache_block_size \in Nat \ {0} /\ Addresses \subseteq Nat
  BY DEF CacheConstants, NvmeCacheConstants, Addresses
<1>1. /\ DOMAIN d = Addresses /\ c[slot] \in Line
      /\ \A a \in Addresses : d[a] \in Bytes
  BY DEF Shape
<1>2. e \in [Addresses -> Bytes]
  <2>1. \A a \in Addresses : a % cache_block_size \in Within
    BY <1>0, InBlock
  <2> QED BY <1>1, <2>1 DEF Line, FlushedIn
<1>a. \A a \in Addresses : e[a] = IF a \div cache_block_size = c[slot].block
                                  THEN c[slot].data[a % cache_block_size] ELSE d[a]
  BY <1>1 DEF FlushedIn
<1> HIDE DEF e
<1>3. ASSUME Agrees(d, c), NEW i \in Slots, c[i].status = READY
      PROVE  c[i].data = Image(e, c[i].block)
  <2>0. c[i] \in Line /\ c[i].block * cache_block_size < Reach /\ c[i].status # NOT_READY
    BY <1>3 DEF Shape, READY, NOT_READY
  <2>1. ASSUME NEW k \in Within PROVE c[i].data[k] = e[c[i].block * cache_block_size + k]
    <3> DEFINE a == c[i].block * cache_block_size + k
    <3>1. /\ a \in Addresses /\ a \div cache_block_size = c[i].block
          /\ a % cache_block_size = k
      BY <2>0, BlockFits, OfBlock DEF Line
    <3>2. c[i].data[k] = d[a]
      BY <1>3, Zenon DEF Agrees, Image
    <3> HIDE DEF a
    <3>3. e[a] = IF c[i].block = c[slot].block THEN c[slot].data[k] ELSE d[a]
      BY <1>a, <3>1
    <3>4. c[i].block = c[slot].block => i = slot
      BY <2>0 DEF Shape
    <3>5. e[a] = c[i].data[k]
      BY <3>2, <3>3, <3>4
    <3> QED BY <3>5 DEF a
  <2>2. c[i].data = [k \in Within |-> c[i].data[k]]
    BY <2>0 DEF Line
  <2> QED BY <2>1, <2>2 DEF Image
<1>4. Shape(e, c) /\ (Agrees(d, c) => Agrees(e, c))
  BY <1>2, <1>3 DEF Shape, Agrees
<1>5. ASSUME NEW a \in Addresses PROVE View(e, c)[a] = View(d, c)[a]
  <2>1. CASE HoldingIn(c, a \div cache_block_size) # {}
    BY <1>4, <2>1, ViewLine, ViewDisk
  <2>2. CASE HoldingIn(c, a \div cache_block_size) = {}
    <3>1. a \div cache_block_size # c[slot].block
      BY <2>2 DEF HoldingIn
    <3>2. e[a] = d[a]
      BY <1>a, <3>1
    <3> QED BY <1>4, <2>2, <3>2, ViewLine, ViewDisk
  <2> QED BY <2>1, <2>2
<1>6. /\ View(e, c) = [a \in Addresses |-> View(e, c)[a]]
      /\ View(d, c) = [a \in Addresses |-> View(d, c)[a]]
  <2>1. DOMAIN e = Addresses /\ DOMAIN d = Addresses
    BY <1>1, <1>2
  <2> QED BY <2>1 DEF View
<1> QED BY <1>4, <1>5, <1>6 DEF e

(* A slot that agrees with the disk, or is free, takes another block. *)
LEMMA FetchStep ==
  ASSUME CacheConstants, NEW d, NEW c, Sound(d, c), NEW slot \in Slots,
         \/ c[slot].status = NOT_READY
         \/ \A a \in Addresses : a \div cache_block_size = c[slot].block =>
               d[a] = c[slot].data[a % cache_block_size],
         NEW b \in Nat, b * cache_block_size < Reach, HoldingIn(c, b) = {}
  PROVE  LET f == [c EXCEPT ![slot] =
                      [block |-> b, status |-> READY, data |-> Image(d, b)]]
         IN  Sound(d, f) /\ View(d, f) = View(d, c)
<1>0. cache_block_size \in Nat \ {0} /\ Addresses \subseteq Nat
  BY DEF CacheConstants, NvmeCacheConstants, Addresses
<1> DEFINE line == [block |-> b, status |-> READY, data |-> Image(d, b)]
           f == [c EXCEPT ![slot] = line]
<1>1. d \in [Addresses -> Bytes] /\ c \in [Slots -> Line]
  BY DEF Sound, Shape
<1>2. line \in Line
  <2>1. \A i \in Within : d[b * cache_block_size + i] \in Bytes
    BY <1>1, BlockFits
  <2>2. Image(d, b) \in [Within -> Bytes]
    BY <2>1 DEF Image
  <2> QED BY <2>2 DEF Line
<1>3. /\ line.block = b /\ line.status = READY /\ line.data = Image(d, b)
      /\ line.status # NOT_READY
  BY DEF READY, NOT_READY
<1> HIDE DEF line
<1>4. /\ f \in [Slots -> Line] /\ f[slot] = line
      /\ \A i \in Slots : i # slot => f[i] = c[i]
  BY <1>1, <1>2
<1> HIDE DEF f
<1>5. \A i \in Slots : c[i].status # NOT_READY => c[i].block # b
  BY DEF HoldingIn
<1>6. Sound(d, f)
  BY <1>1, <1>3, <1>4, <1>5 DEF Sound, Shape, Agrees
<1>s. Shape(d, c) /\ Shape(d, f)
  BY <1>6 DEF Sound
<1>7. ASSUME NEW a \in Addresses PROVE View(d, f)[a] = View(d, c)[a]
  <2> DEFINE n == a \div cache_block_size
             k == a % cache_block_size
  <2>0. n \in Nat /\ k \in Within /\ a = (n * cache_block_size) + k
    BY <1>0, InBlock
  <2>1. CASE n = b
    <3>1. slot \in HoldingIn(f, n)
      BY <1>3, <1>4, <2>1 DEF HoldingIn
    <3>2. View(d, f)[a] = f[slot].data[k]
      BY <1>s, <3>1, ViewLine, ViewDisk
    <3>3. f[slot].data[k] = d[a]
      <4>1. Image(d, b)[k] = d[(b * cache_block_size) + k]
        BY <2>0 DEF Image
      <4> QED BY <1>3, <1>4, <2>0, <2>1, <4>1
    <3>4. View(d, c)[a] = d[a]
      BY <1>s, <2>1, ViewLine, ViewDisk
    <3> QED BY <3>2, <3>3, <3>4
  <2>2. CASE n # b /\ HoldingIn(c, n) = {}
    <3>1. HoldingIn(f, n) = {}
      BY <1>3, <1>4, <2>2 DEF HoldingIn
    <3> QED BY <1>s, <2>2, <3>1, ViewLine, ViewDisk
  <2>3. ASSUME NEW i \in HoldingIn(c, n), n # b, i # slot PROVE View(d, f)[a] = View(d, c)[a]
    <3>1. i \in HoldingIn(f, n) /\ f[i] = c[i]
      BY <1>4, <2>3 DEF HoldingIn
    <3> QED BY <1>s, <2>3, <3>1, ViewLine, ViewDisk
  <2>4. ASSUME slot \in HoldingIn(c, n), n # b PROVE View(d, f)[a] = View(d, c)[a]
    <3>1. HoldingIn(f, n) = {}
      BY <1>3, <1>4, <2>4 DEF HoldingIn, Sound, Shape
    <3>2. d[a] = c[slot].data[k]
      BY <2>4 DEF HoldingIn
    <3> QED BY <1>s, <2>4, <3>1, <3>2, ViewLine, ViewDisk
  <2> QED BY <2>1, <2>2, <2>3, <2>4
<1>8. /\ View(d, f) = [a \in Addresses |-> View(d, f)[a]]
      /\ View(d, c) = [a \in Addresses |-> View(d, c)[a]]
  <2>1. DOMAIN d = Addresses
    BY <1>1
  <2> QED BY <2>1 DEF View
<1> QED BY <1>6, <1>7, <1>8, Zenon DEF f, line

(* The lines f keep the invariants of the lines c, and block b is seen as  *)
(* w: what a write to the line of b leaves.                                *)
Overwritten(d, c, f, b, w) ==
    /\ Shape(d, f) /\ (Agrees(d, c) => Agrees(d, f))
    /\ View(d, f) = [a \in Addresses |->
          IF a \div cache_block_size = b THEN w[a % cache_block_size]
          ELSE View(d, c)[a]]

(* A write to a line changes what is seen of its block, as it does the     *)
(* line.                                                                   *)
LEMMA OverwriteStep ==
  ASSUME CacheConstants, NEW d, NEW c, Shape(d, c), NEW b, NEW slot \in HoldingIn(c, b),
         NEW w \in [Within -> Bytes]
  PROVE  Overwritten(d, c, [c EXCEPT ![slot] = [block |-> b, status |-> DIRTY, data |-> w]],
                     b, w)
<1> DEFINE line == [block |-> b, status |-> DIRTY, data |-> w]
           f == [c EXCEPT ![slot] = line]
<1>1. /\ d \in [Addresses -> Bytes] /\ c \in [Slots -> Line] /\ slot \in Slots
      /\ c[slot].block = b /\ b \in Nat /\ c[slot].status # NOT_READY
  BY DEF Shape, HoldingIn, Line
<1>2. line \in Line /\ line.block = b /\ line.status = DIRTY /\ line.data = w
      /\ line.status # NOT_READY /\ line.status # READY
  BY <1>1 DEF Line, DIRTY, READY, NOT_READY
<1> HIDE DEF line
<1>3. /\ f \in [Slots -> Line] /\ f[slot] = line
      /\ \A i \in Slots : i # slot => f[i] = c[i]
  BY <1>1, <1>2
<1> HIDE DEF f
<1>4. Shape(d, f) /\ (Agrees(d, c) => Agrees(d, f))
  BY <1>1, <1>2, <1>3 DEF Shape, Agrees
<1>5. \A n : HoldingIn(f, n) = HoldingIn(c, n)
  BY <1>1, <1>2, <1>3 DEF HoldingIn
<1>6. ASSUME NEW a \in Addresses
      PROVE  View(d, f)[a] = IF a \div cache_block_size = b
                             THEN w[a % cache_block_size] ELSE View(d, c)[a]
  <2> DEFINE n == a \div cache_block_size
  <2>1. CASE n = b
    <3>1. View(d, f)[a] = f[slot].data[a % cache_block_size]
      BY <1>4, <1>5, <2>1, ViewLine, ViewDisk
    <3> QED BY <1>2, <1>3, <2>1, <3>1
  <2>2. CASE n # b /\ HoldingIn(c, n) = {}
    BY <1>4, <1>5, <2>2, ViewLine, ViewDisk
  <2>3. ASSUME NEW i \in HoldingIn(c, n), n # b PROVE View(d, f)[a] = View(d, c)[a]
    <3>1. f[i] = c[i] /\ i \in HoldingIn(f, n)
      BY <1>1, <1>3, <1>5, <2>3 DEF HoldingIn
    <3> QED BY <1>4, <2>3, <3>1, ViewLine, ViewDisk
  <2> QED BY <2>1, <2>2, <2>3
<1>7. View(d, f) = [a \in Addresses |-> View(d, f)[a]]
  <2>1. DOMAIN d = Addresses
    BY <1>1
  <2> QED BY <2>1 DEF View
<1>8. Overwritten(d, c, f, b, w)
  BY <1>4, <1>6, <1>7, Zenon DEF Overwritten
<1> QED BY <1>8, Zenon DEF f, line

(* Bytes that come late into a slot keep its block; those of a free slot   *)
(* are not seen.                                                           *)
LEMMA RefillStep ==
  ASSUME CacheConstants, NEW d, NEW c, Shape(d, c), NEW slot \in Slots,
         NEW w \in [Within -> Bytes]
  PROVE  LET f == [c EXCEPT ![slot].data = w]
         IN  /\ Shape(d, f)
             /\ \A i \in Slots : f[i].status = c[i].status /\ f[i].block = c[i].block
             /\ c[slot].status = NOT_READY =>
                   (Agrees(d, c) => Agrees(d, f)) /\ View(d, f) = View(d, c)
<1> DEFINE f == [c EXCEPT ![slot].data = w]
<1>1. d \in [Addresses -> Bytes] /\ c \in [Slots -> Line]
  BY DEF Shape
<1>2. /\ f \in [Slots -> Line] /\ f[slot].data = w
      /\ f[slot].status = c[slot].status /\ f[slot].block = c[slot].block
      /\ \A i \in Slots : i # slot => f[i] = c[i]
  BY <1>1, Zenon DEF Line
<1> HIDE DEF f
<1>3. \A i \in Slots : f[i].status = c[i].status /\ f[i].block = c[i].block
  BY <1>2
<1>4. Shape(d, f)
  BY <1>1, <1>2, <1>3 DEF Shape
<1>5. ASSUME c[slot].status = NOT_READY, Agrees(d, c) PROVE Agrees(d, f)
  BY <1>2, <1>5 DEF Agrees, READY, NOT_READY
<1>6. ASSUME c[slot].status = NOT_READY PROVE View(d, f) = View(d, c)
  <2>1. \A b : HoldingIn(f, b) = HoldingIn(c, b) /\ slot \notin HoldingIn(c, b)
    BY <1>3, <1>6 DEF HoldingIn
  <2>2. ASSUME NEW a \in Addresses PROVE View(d, f)[a] = View(d, c)[a]
    <3>1. CASE HoldingIn(c, a \div cache_block_size) = {}
      BY <1>4, <2>1, <3>1, ViewDisk
    <3>2. ASSUME NEW i \in HoldingIn(c, a \div cache_block_size)
          PROVE  View(d, f)[a] = View(d, c)[a]
      <4>1. f[i] = c[i]
        BY <1>2, <2>1 DEF HoldingIn
      <4> QED BY <1>4, <2>1, <4>1, ViewLine
    <3> QED BY <3>1, <3>2
  <2>3. /\ View(d, f) = [a \in Addresses |-> View(d, f)[a]]
        /\ View(d, c) = [a \in Addresses |-> View(d, c)[a]]
    <3>1. DOMAIN d = Addresses
      BY <1>1
    <3> QED BY <3>1 DEF View
  <2> QED BY <2>2, <2>3
<1> QED BY <1>3, <1>4, <1>5, <1>6 DEF f

-----------------------------------------------------------------------------
(* The operators of the model are those above on its disk and cache. *)
LEMMA SameTerms ==
  /\ Visible = View(disk, cache) /\ Visible' = View(disk', cache')
  /\ \A b : Holding(b) = HoldingIn(cache, b) /\ Fetched(b) = Image(disk, b)
  /\ \A i : Flushed(i) = FlushedIn(disk, cache[i])
BY DEF Visible, View, Holding, HoldingIn, Fetched, Image, Within, Flushed, FlushedIn

(* The block at hand is one that requests reach. *)
LEMMA AtHand ==
  ASSUME CacheConstants, IInv, ~request.done, request.count < request.size
  PROVE  /\ Sector \in Nat /\ Inside \in Within
         /\ offset + request.count = (Sector * cache_block_size) + Inside
         /\ Sector * cache_block_size < Reach
<1>1. /\ offset \in Nat /\ request.count \in Nat /\ request.size \in Nat
      /\ offset + request.size <= Reach /\ Reach \in Nat /\ cache_block_size \in Nat \ {0}
  BY DEF IInv, RequestOK, CacheConstants, NvmeCacheConstants
<1>2. /\ Sector \in Nat /\ Inside \in Within
      /\ offset + request.count = (Sector * cache_block_size) + Inside
  BY <1>1, InBlock DEF Sector, Inside
<1>3. Sector * cache_block_size \in Nat /\ Inside \in Nat
  BY <1>1, <1>2 DEF Within
<1> QED BY <1>1, <1>2, <1>3

(* A set of slots has a smallest one. *)
LEMMA SmallestSlot ==
  ASSUME CacheConstants, NEW S \in SUBSET Slots, S # {}
  PROVE  Min(S) \in S
<1>1. S \subseteq Nat
  BY DEF Slots
<1>2. PICK x \in S : \A y \in S : ~(<<y, x>> \in OpToRel(<, Nat))
  BY <1>1, NatLessThanWellFounded, WFMin, Zenon
<1>3. ASSUME NEW y \in S PROVE x <= y
  <2>1. y < x => <<y, x>> \in {ss \in Nat \X Nat : ss[1] < ss[2]}
    BY <1>1
  <2>2. OpToRel(<, Nat) = {ss \in Nat \X Nat : ss[1] < ss[2]}
    BY DEF OpToRel
  <2>3. ~(y < x)
    BY <1>2, <2>1, <2>2, Zenon
  <2> QED BY <1>1, <2>3
<1> QED BY <1>3 DEF Min

(* nvme_cache_block returns -1: the command is one that does no harm, or   *)
(* the history says so.                                                    *)
LEMMA FailStep ==
  ASSUME CacheConstants, IInv, NEW slot \in Slots, NEW block \in Nat,
         block * cache_block_size < Reach, NEW write \in BOOLEAN,
         write => cache[slot].status = DIRTY /\ cache[slot].block = block,
         Fail(slot, block, write)
  PROVE  /\ FailuresOK' /\ RequestOK' /\ cache' = cache /\ request' = NoRequest
         /\ spoilt => spoilt'
<1>0. PICK p : p = [id |-> errors, slot |-> slot, block |-> block, write |-> write]
  BY Zenon
<1>1. /\ request' = NoRequest /\ offset' = offset /\ cache' = cache
      /\ pending' = pending \cup {p} /\ errors' = errors + 1
      /\ spoilt' = (spoilt \/ (~write /\ cache[slot].status # NOT_READY))
  BY <1>0 DEF Fail, Finish
<1>2. RequestOK'
  BY <1>1 DEF IInv, RequestOK, NoRequest
<1>3. errors' \in Nat \ {0} /\ spoilt' \in BOOLEAN
  BY <1>1 DEF IInv, FailuresOK
<1>4. p \in Command /\ p.slot = slot /\ p.block = block /\ p.write = write
  BY <1>0 DEF IInv, FailuresOK, Command
<1>5. Harmless(p, cache)'
  BY <1>1, <1>4, Zenon DEF Harmless
<1>6. \A q \in pending : Harmless(q, cache)'
  BY <1>1 DEF IInv, FailuresOK, Harmless
<1>7. FailuresOK'
  BY <1>1, <1>3, <1>5, <1>6 DEF FailuresOK
<1> QED BY <1>1, <1>2, <1>7, Zenon

(* nvme_cache_block: whether its commands are done or fail, what is seen   *)
(* of the disk stays.                                                      *)
LEMMA CacheStep ==
  ASSUME CacheConstants, IInv, nvme_cache_block
  PROVE  IInv' /\ Visible' = Visible /\ ~request.done
         /\ (request' = request \/ request' = NoRequest)
<1> DEFINE free == {i \in Slots : cache[i].status = NOT_READY}
           turn == IF cache_overwrite_count = MAX_CACHED_BLOCKS THEN 0 ELSE cache_overwrite_count
           slot == IF free # {} THEN Min(free) ELSE turn
<1>1. MAX_CACHED_BLOCKS \in Nat \ {0} /\ cache_overwrite_count \in 0 .. MAX_CACHED_BLOCKS
  BY DEF IInv, CacheConstants, NvmeCacheConstants
<1>2. slot \in Slots
  <2>1. turn \in Slots
    BY <1>1 DEF Slots
  <2> QED BY <2>1, SmallestSlot
<1>3. cache_overwrite_count' \in 0 .. MAX_CACHED_BLOCKS
  <2>1. cache_overwrite_count' = IF free # {} THEN cache_overwrite_count ELSE turn + 1
    BY Zenon DEF nvme_cache_block
  <2> HIDE DEF free
  <2> QED BY <1>1, <2>1
<1>4. ~request.done /\ request.count < request.size /\ HoldingIn(cache, Sector) = {}
  BY SameTerms DEF nvme_cache_block
<1>5. \/ Evict(slot, "failed") /\ Fail(slot, cache[slot].block, TRUE)
      \/ \E flush \in {"done", "skipped"}, fetch \in Results(Sector * cache_block_size) :
            /\ Evict(slot, flush)
            /\ IF fetch = "failed" THEN Fail(slot, Sector, FALSE)
               ELSE /\ cache' = [cache EXCEPT ![slot] =
                           [block |-> Sector, status |-> READY,
                            data |-> IF fetch = "done" THEN Fetched(Sector) ELSE @.data]]
                    /\ UNCHANGED <<offset, request, failures>>
  BY Zenon DEF nvme_cache_block
<1> HIDE DEF slot
<1>6. Sector \in Nat /\ Sector * cache_block_size < Reach
  BY <1>4, AtHand
<1>7. /\ Shape(disk, cache) /\ RequestOK /\ FailuresOK
      /\ ~spoilt => Agrees(disk, cache)
  BY DEF IInv
<1>8. ASSUME NEW flush \in {"done", "skipped", "failed"}, Evict(slot, flush)
      PROVE  \/ /\ cache[slot].status # DIRTY /\ flush = "done" /\ disk' = disk
             \/ /\ cache[slot].status = DIRTY /\ flush = "done"
                /\ disk' = FlushedIn(disk, cache[slot])
             \/ /\ cache[slot].status = DIRTY /\ flush = "failed" /\ disk' = disk
  <2>1. CASE cache[slot].status # DIRTY
    BY <1>8, <2>1 DEF Evict
  <2>2. CASE cache[slot].status = DIRTY
    <3>1. /\ cache[slot].block \in Nat /\ cache[slot].block * cache_block_size < Reach
      BY <1>2, <1>7, <2>2 DEF Shape, Line, DIRTY, NOT_READY
    <3>2. flush \in Results(cache[slot].block * cache_block_size)
          /\ disk' = IF flush = "done" THEN Flushed(slot) ELSE disk
      BY <1>8, <2>2 DEF Evict
    <3> QED BY <2>2, <3>1, <3>2, BlockFits, SameTerms DEF Results
  <2> QED BY <2>1, <2>2
<1>9. /\ Shape(disk', cache) /\ View(disk', cache) = View(disk, cache)
      /\ Agrees(disk, cache) => Agrees(disk', cache)
  <2>1. disk' = disk \/ (cache[slot].status = DIRTY /\ disk' = FlushedIn(disk, cache[slot]))
    BY <1>5, <1>8, Zenon
  <2>2. CASE disk' = disk
    BY <1>7, <2>2
  <2>3. CASE cache[slot].status = DIRTY /\ disk' = FlushedIn(disk, cache[slot])
    BY <1>2, <1>7, <2>3, FlushStep DEF DIRTY, NOT_READY
  <2> QED BY <2>1, <2>2, <2>3
<1>10. ASSUME NEW block \in Nat, block * cache_block_size < Reach, NEW write \in BOOLEAN,
              write => cache[slot].status = DIRTY /\ cache[slot].block = block,
              Fail(slot, block, write)
       PROVE  IInv' /\ Visible' = Visible /\ request' = NoRequest
  <2>1. /\ FailuresOK' /\ RequestOK' /\ cache' = cache /\ request' = NoRequest
        /\ spoilt => spoilt'
    BY <1>2, <1>10, FailStep
  <2>2. Shape(disk', cache') /\ (~spoilt' => Agrees(disk', cache'))
    BY <1>7, <1>9, <2>1
  <2> QED BY <1>3, <1>9, <2>1, <2>2, SameTerms DEF IInv
<1>11. CASE Evict(slot, "failed") /\ Fail(slot, cache[slot].block, TRUE)
  <2>1. /\ cache[slot].status = DIRTY /\ cache[slot].block \in Nat
        /\ cache[slot].block * cache_block_size < Reach
    BY <1>2, <1>7, <1>8, <1>11 DEF Shape, Line, DIRTY, NOT_READY
  <2> QED BY <1>4, <1>10, <1>11, <2>1, Zenon
<1>12. ASSUME NEW flush \in {"done", "skipped"}, NEW fetch \in Results(Sector * cache_block_size),
              Evict(slot, flush), fetch # "failed",
              cache' = [cache EXCEPT ![slot] =
                  [block |-> Sector, status |-> READY,
                   data |-> IF fetch = "done" THEN Fetched(Sector) ELSE @.data]],
              UNCHANGED <<offset, request, failures>>
       PROVE  IInv' /\ Visible' = Visible /\ request' = request
  <2>0. fetch = "done" /\ errors = 0 /\ flush = "done"
    BY <1>6, <1>8, <1>12, BlockFits DEF Results
  <2>s. /\ Sound(disk, cache) /\ Sound(disk', cache) /\ pending = {} /\ ~spoilt
    BY <1>7, <1>9, <2>0 DEF FailuresOK, Sound
  <2>1. Image(disk', Sector) = Image(disk, Sector)
    <3>1. ASSUME NEW i \in Within
          PROVE  disk'[Sector * cache_block_size + i] = disk[Sector * cache_block_size + i]
      <4> DEFINE a == Sector * cache_block_size + i
      <4>1. a \in Addresses /\ a \div cache_block_size = Sector
        BY <1>6, BlockFits, OfBlock
      <4> HIDE DEF a
      <4>2. cache[slot].status = DIRTY => cache[slot].block # Sector
        BY <1>2, <1>4 DEF HoldingIn, DIRTY, NOT_READY
      <4>3. DOMAIN disk = Addresses
        BY <1>7 DEF Shape
      <4>4. disk'[a] = disk[a]
        BY <1>8, <1>12, <4>1, <4>2, <4>3 DEF FlushedIn
      <4> QED BY <4>4 DEF a
    <3> QED BY <3>1 DEF Image
  <2>2. \/ cache[slot].status = NOT_READY
        \/ \A a \in Addresses : a \div cache_block_size = cache[slot].block =>
              disk'[a] = cache[slot].data[a % cache_block_size]
    <3>1. CASE cache[slot].status = DIRTY
      <4>1. DOMAIN disk = Addresses
        BY <1>7 DEF Shape
      <4> QED BY <1>8, <1>12, <2>0, <3>1, <4>1 DEF FlushedIn
    <3>2. CASE cache[slot].status = READY
      <4>1. cache[slot].data = Image(disk', cache[slot].block)
        BY <1>2, <2>s, <3>2 DEF Sound, Agrees
      <4>2. ASSUME NEW a \in Addresses, a \div cache_block_size = cache[slot].block
            PROVE  disk'[a] = cache[slot].data[a % cache_block_size]
        <5>1. a \in Nat
          BY DEF Addresses
        <5>2. a % cache_block_size \in Within
              /\ a = (cache[slot].block * cache_block_size) + (a % cache_block_size)
          BY <4>2, <5>1, InBlock
        <5> QED BY <4>1, <5>2 DEF Image
      <4> QED BY <4>2
    <3>3. cache[slot] \in Line
      BY <1>2, <1>7 DEF Shape
    <3> QED BY <3>1, <3>2, <3>3 DEF Line
  <2>3. /\ cache' = [cache EXCEPT ![slot] =
                       [block |-> Sector, status |-> READY, data |-> Image(disk', Sector)]]
        /\ UNCHANGED <<offset, request>>
    BY <1>12, <2>0, <2>1, SameTerms, Zenon
  <2>4. Sound(disk', cache') /\ View(disk', cache') = View(disk', cache)
    BY <1>2, <1>4, <1>6, <2>s, <2>2, <2>3, FetchStep, Zenon
  <2>5. RequestOK'
    BY <1>7, <2>3 DEF RequestOK
  <2>6. FailuresOK' /\ spoilt' = spoilt
    BY <1>7, <1>12, <2>s DEF FailuresOK, failures
  <2>7. IInv'
    BY <1>3, <2>4, <2>5, <2>6 DEF IInv, Sound
  <2> QED BY <1>9, <2>3, <2>4, <2>7, SameTerms
<1> QED BY <1>4, <1>5, <1>6, <1>10, <1>11, <1>12, Zenon

-----------------------------------------------------------------------------
(* One turn of the loop of nvme_read or nvme_write: it moves some bytes,   *)
(* all of the block at hand, and no more than are left.                    *)
LEMMA ChunkFits ==
  ASSUME CacheConstants, IInv, ~request.done, request.count < request.size
  PROVE  /\ Chunk \in Nat \ {0} /\ Chunk <= request.size - request.count
         /\ Chunk <= cache_block_size - Inside
<1> DEFINE m == request.size - request.count
           n == cache_block_size - Inside
<1>1. m \in Nat \ {0} /\ n \in Nat \ {0}
  <2>1. request.count \in Nat /\ request.size \in Nat
    BY DEF IInv, RequestOK
  <2>2. Inside \in 0 .. cache_block_size - 1 /\ cache_block_size \in Nat
    BY AtHand DEF Within, CacheConstants, NvmeCacheConstants
  <2> QED BY <2>1, <2>2
<1> HIDE DEF m, n
<1>2. Min({m, n}) = IF m <= n THEN m ELSE n
  BY <1>1 DEF Min
<1>3. Chunk = Min({m, n})
  BY DEF Chunk, m, n
<1> QED BY <1>1, <1>2, <1>3 DEF m, n

(* The addresses that a turn moves are the places of its chunk in the      *)
(* block at hand.                                                          *)
LEMMA ChunkAddresses ==
  ASSUME CacheConstants, IInv, ~request.done, request.count < request.size,
         NEW a \in Addresses
  PROVE  (offset + request.count <= a /\ a < offset + request.count + Chunk)
            <=> /\ a \div cache_block_size = Sector
                /\ a % cache_block_size \in Inside .. Inside + Chunk - 1
<1> DEFINE n == a \div cache_block_size
           k == a % cache_block_size
           C == cache_block_size
<1>1. n \in Nat /\ k \in 0 .. C - 1 /\ a = (n * C) + k /\ a \in Nat
  BY InBlock DEF Addresses, Within
<1>2. /\ Sector \in Nat /\ Inside \in 0 .. C - 1
      /\ offset + request.count = (Sector * C) + Inside
  BY AtHand DEF Within
<1>3. Chunk \in Nat \ {0} /\ Inside + Chunk <= C /\ C \in Nat \ {0}
  BY ChunkFits, <1>2 DEF CacheConstants, NvmeCacheConstants
<1> HIDE DEF n, k, C
<1>4. CASE n = Sector
  BY <1>1, <1>2, <1>3, <1>4 DEF n, k
<1>5. CASE n < Sector
  <2>1. (n * C) + C <= Sector * C /\ n * C \in Nat /\ Sector * C \in Nat
    BY <1>1, <1>2, <1>3, <1>5
  <2>2. a < offset + request.count
    BY <1>1, <1>2, <1>3, <2>1
  <2> QED BY <1>1, <1>2, <1>3, <1>5, <2>2 DEF n
<1>6. CASE n > Sector
  <2>1. (Sector * C) + C <= n * C /\ n * C \in Nat /\ Sector * C \in Nat
    BY <1>1, <1>2, <1>3, <1>6
  <2>2. a >= offset + request.count + Chunk
    BY <1>1, <1>2, <1>3, <2>1
  <2> QED BY <1>1, <1>2, <1>3, <1>6, <2>2 DEF n
<1> QED BY <1>1, <1>2, <1>4, <1>5, <1>6

(* A turn of the loop of nvme_read answers the bytes that are seen. *)
LEMMA ReadStep ==
  ASSUME CacheConstants, IInv, ~request.done, request.count < request.size,
         NEW slot \in HoldingIn(cache, Sector), nvme_read(slot),
         request.kind = "read", UNCHANGED <<disk, cache_overwrite_count, offset, failures>>
  PROVE  IInv' /\ Visible' = Visible /\ request'.count > request.count
         /\ request' = [request EXCEPT !.count = request.count + Chunk,
               !.data = @ \o [i \in 1 .. Chunk |->
                                 Visible[request.at + request.count + i - 1]]]
<1>1. /\ request.count \in Nat /\ request.size \in Nat /\ offset \in Nat
      /\ offset + request.size <= Reach /\ Reach \in Nat /\ Reach <= lba_count
      /\ lba_count \in Nat /\ request.at = offset /\ request.data \in Seq(Bytes)
  BY DEF IInv, RequestOK, CacheConstants, NvmeCacheConstants
<1>2. /\ Chunk \in Nat \ {0} /\ Chunk <= request.size - request.count
      /\ Chunk <= cache_block_size - Inside
  BY ChunkFits
<1> DEFINE base == Sector * cache_block_size
<1>3. /\ Sector \in Nat /\ Inside \in 0 .. cache_block_size - 1
      /\ offset + request.count = base + Inside
      /\ cache_block_size \in Nat \ {0} /\ base \in Nat
  BY AtHand DEF CacheConstants, NvmeCacheConstants, Within
<1>b. base = Sector * cache_block_size
  OBVIOUS
<1> HIDE DEF base
<1>4. ASSUME NEW i \in 1 .. Chunk
      PROVE  /\ cache[slot].data[Inside + i - 1] = Visible[request.at + request.count + i - 1]
             /\ cache[slot].data[Inside + i - 1] \in Bytes
  <2> DEFINE k == Inside + i - 1
             a == request.at + request.count + i - 1
  <2>1. k \in Within /\ a = base + k /\ a \in Addresses
    <3>1. k \in 0 .. cache_block_size - 1
      BY <1>2, <1>3
    <3>2. a = base + k
      BY <1>1, <1>2, <1>3
    <3>3. a \in Nat /\ a < Reach
      BY <1>1, <1>2
    <3> QED BY <1>1, <3>1, <3>2, <3>3 DEF Within, Addresses
  <2>2. a \div cache_block_size = Sector /\ a % cache_block_size = k
    BY <1>b, <1>3, <2>1, OfBlock
  <2> HIDE DEF a, k
  <2>3. View(disk, cache)[a] = cache[slot].data[k]
    BY <2>1, <2>2, ViewLine DEF IInv
  <2>4. cache[slot].data[k] \in Bytes
    BY <2>1 DEF IInv, Shape, HoldingIn, Line
  <2> QED BY <2>3, <2>4, SameTerms DEF a, k
<1> DEFINE bytes == [i \in 1 .. Chunk |-> cache[slot].data[Inside + i - 1]]
<1>5. /\ bytes \in Seq(Bytes)
      /\ bytes = [i \in 1 .. Chunk |-> Visible[request.at + request.count + i - 1]]
  <2>1. bytes \in [1 .. Chunk -> Bytes]
    BY <1>4
  <2> QED BY <1>2, <1>4, <2>1
<1>6. request' = [request EXCEPT !.data = @ \o bytes, !.count = @ + Chunk] /\ cache' = cache
  BY DEF nvme_read
<1> HIDE DEF bytes
<1>7. request.data \o bytes \in Seq(Bytes)
  BY <1>1, <1>5
<1>8. RequestOK'
  <2>1. request \in [kind : {"read", "write"}, at : Nat, data : Seq(Bytes),
                     count : Nat, size : Nat, done : BOOLEAN]
    BY DEF IInv, RequestOK
  <2>2. /\ request' \in [kind : {"read", "write"}, at : Nat, data : Seq(Bytes),
                         count : Nat, size : Nat, done : BOOLEAN]
        /\ request'.kind = request.kind /\ request'.at = request.at
        /\ request'.size = request.size /\ request'.count = request.count + Chunk
    <3> DEFINE d == request.data \o bytes
               n == request.count + Chunk
    <3>1. n \in Nat /\ request' = [request EXCEPT !.data = d, !.count = n]
      BY <1>1, <1>2, <1>6
    <3>2. d \in Seq(Bytes)
      BY <1>7
    <3> HIDE DEF d, n
    <3>3. /\ request' \in [kind : {"read", "write"}, at : Nat, data : Seq(Bytes),
                            count : Nat, size : Nat, done : BOOLEAN]
          /\ request'.kind = request.kind /\ request'.at = request.at
          /\ request'.size = request.size /\ request'.count = n
      BY <2>1, <3>1, <3>2, Zenon
    <3> QED BY <3>3 DEF n
  <2>3. request'.count <= request'.size
    BY <1>1, <1>2, <2>2
  <2> QED BY <1>1, <2>2, <2>3 DEF RequestOK
<1>9. IInv' /\ Visible' = Visible
  <2>1. FailuresOK'
    BY <1>6 DEF IInv, FailuresOK, Harmless, failures
  <2> QED BY <1>6, <1>8, <2>1, SameTerms DEF IInv, failures
<1>10. request'.count > request.count
  BY <1>1, <1>2, <1>6 DEF IInv, RequestOK
<1> QED BY <1>5, <1>6, <1>9, <1>10, Zenon

(* Where the bytes of a chunk are in the buffer of the request. *)
LEMMA InBuffer ==
  ASSUME NEW count \in Nat, NEW size \in Nat, NEW chunk \in Nat, NEW first \in Nat,
         NEW i \in Int, chunk <= size - count, first <= i, i <= first + chunk - 1
  PROVE  count + i - first + 1 \in 1 .. size
OBVIOUS

(* A line that is written to *)
LEMMA Dirtied ==
  ASSUME NEW line \in Line, NEW w \in [Within -> Bytes]
  PROVE  [line EXCEPT !.status = DIRTY, !.data = w]
            = [block |-> line.block, status |-> DIRTY, data |-> w]
<1> DEFINE new == [line EXCEPT !.status = DIRTY, !.data = w]
<1>1. new \in Line
  BY Zenon DEF Line
<1>2. new.block = line.block /\ new.status = DIRTY /\ new.data = w
  BY DEF Line
<1> HIDE DEF new
<1>3. new = [block |-> new.block, status |-> new.status, data |-> new.data]
  BY <1>1 DEF Line
<1>4. new = [block |-> line.block, status |-> DIRTY, data |-> w]
  BY <1>2, <1>3
<1> QED BY <1>4 DEF new

(* A turn of the loop of nvme_write changes the bytes of its chunk to      *)
(* those of the request, and no others.                                    *)
LEMMA WriteStep ==
  ASSUME CacheConstants, IInv, ~request.done, request.count < request.size,
         NEW slot \in HoldingIn(cache, Sector), nvme_write(slot),
         request.kind = "write", UNCHANGED <<disk, cache_overwrite_count, offset, failures>>
  PROVE  IInv' /\ request'.count > request.count
         /\ request' = [request EXCEPT !.count = request.count + Chunk]
         /\ Visible' = [a \in Addresses |->
               IF request.at + request.count <= a /\ a < request.at + request.count + Chunk
               THEN request.data[a - request.at + 1] ELSE Visible[a]]
<1>1. /\ request.count \in Nat /\ request.size \in Nat /\ offset \in Nat
      /\ offset + request.size <= Reach /\ Reach \in Nat
      /\ request.at = offset /\ request.data \in Seq(Bytes)
      /\ Len(request.data) = request.size
  BY DEF IInv, RequestOK, CacheConstants, NvmeCacheConstants
<1>2. /\ Chunk \in Nat \ {0} /\ Chunk <= request.size - request.count
      /\ Chunk <= cache_block_size - Inside
  BY ChunkFits
<1> DEFINE base == Sector * cache_block_size
<1>3. /\ Sector \in Nat /\ Inside \in 0 .. cache_block_size - 1
      /\ offset + request.count = base + Inside
      /\ cache_block_size \in Nat \ {0} /\ base \in Nat
  BY AtHand DEF CacheConstants, NvmeCacheConstants, Within
<1>b. base = Sector * cache_block_size
  OBVIOUS
<1> HIDE DEF base
<1>4. /\ Shape(disk, cache) /\ slot \in Slots /\ cache[slot] \in Line
      /\ cache[slot].block = Sector /\ cache[slot].status # NOT_READY
  BY DEF IInv, Shape, HoldingIn
<1> DEFINE w == [i \in Within |->
                   IF i \in Inside .. Inside + Chunk - 1
                   THEN request.data[request.count + i - Inside + 1]
                   ELSE cache[slot].data[i]]
<1>5. w \in [Within -> Bytes]
  <2>1. ASSUME NEW i \in Within, i \in Inside .. Inside + Chunk - 1
        PROVE  request.data[request.count + i - Inside + 1] \in Bytes
    <3>1. i \in Int /\ Inside <= i /\ i <= Inside + Chunk - 1
      BY <1>2, <1>3, <2>1
    <3>2. request.count + i - Inside + 1 \in 1 .. request.size
      <4>1. Inside \in Nat
        BY <1>3
      <4> QED BY <1>1, <1>2, <3>1, <4>1, InBuffer
    <3> QED BY <1>1, <3>2, ElementOfSeq
  <2>2. \A i \in Within : cache[slot].data[i] \in Bytes
    BY <1>4 DEF Line
  <2> QED BY <2>1, <2>2
<1>6. /\ cache' = [cache EXCEPT ![slot] = [block |-> Sector, status |-> DIRTY, data |-> w]]
      /\ request' = [request EXCEPT !.count = @ + Chunk]
  <2>1. DOMAIN cache[slot].data = Within
    BY <1>4 DEF Line
  <2>3. cache' = [cache EXCEPT ![slot] = [cache[slot] EXCEPT !.status = DIRTY, !.data = w]]
    BY <1>4, <2>1, Zenon DEF nvme_write, IInv, Shape
  <2> HIDE DEF w
  <2>4. [cache[slot] EXCEPT !.status = DIRTY, !.data = w]
          = [block |-> Sector, status |-> DIRTY, data |-> w]
    BY <1>4, <1>5, Dirtied, Zenon
  <2>5. request' = [request EXCEPT !.count = @ + Chunk]
    BY DEF nvme_write
  <2> QED BY <2>3, <2>4, <2>5, Zenon
<1>7. /\ Shape(disk', cache') /\ (Agrees(disk, cache) => Agrees(disk', cache'))
      /\ View(disk', cache') = [a \in Addresses |->
            IF a \div cache_block_size = Sector THEN w[a % cache_block_size]
            ELSE View(disk, cache)[a]]
  <2> HIDE DEF w
  <2>1. Overwritten(disk, cache, [cache EXCEPT ![slot] =
            [block |-> Sector, status |-> DIRTY, data |-> w]], Sector, w)
    BY <1>4, <1>5, OverwriteStep, Zenon
  <2>2. Overwritten(disk, cache, cache', Sector, w) /\ disk' = disk
    BY <1>6, <2>1, Zenon
  <2> QED BY <2>2, Zenon DEF Overwritten
<1>8. ASSUME NEW a \in Addresses
      PROVE  View(disk', cache')[a] =
               IF request.at + request.count <= a /\ a < request.at + request.count + Chunk
               THEN request.data[a - request.at + 1] ELSE Visible[a]
  <2> DEFINE n == a \div cache_block_size
             k == a % cache_block_size
  <2>1. /\ n \in Nat /\ k \in Within /\ a = (n * cache_block_size) + k
        /\ k \in Nat /\ a \in Nat
    BY InBlock DEF Addresses, Within
  <2> HIDE DEF n, k
  <2>2. (request.at + request.count <= a /\ a < request.at + request.count + Chunk)
            <=> n = Sector /\ k \in Inside .. Inside + Chunk - 1
    BY <1>1, ChunkAddresses DEF n, k
  <2>3. View(disk', cache')[a] = IF n = Sector THEN w[k] ELSE View(disk, cache)[a]
    BY <1>7 DEF n, k
  <2>4. CASE n # Sector
    BY <2>2, <2>3, <2>4, SameTerms
  <2>5. CASE n = Sector /\ k \in Inside .. Inside + Chunk - 1
    <3>1. request.count + k - Inside + 1 = a - request.at + 1
      <4>1. a = base + k
        BY <1>b, <2>1, <2>5
      <4> QED BY <1>1, <1>3, <2>1, <4>1, SMTT(20)
    <3>2. w[k] = request.data[request.count + k - Inside + 1]
      BY <2>1, <2>5
    <3> QED BY <2>2, <2>3, <2>5, <3>1, <3>2
  <2>6. CASE n = Sector /\ k \notin Inside .. Inside + Chunk - 1
    <3>1. w[k] = cache[slot].data[k]
      BY <2>1, <2>6
    <3>2. View(disk, cache)[a] = cache[slot].data[k]
      BY <1>4, <2>6, ViewLine DEF n, k
    <3> QED BY <2>2, <2>3, <2>6, <3>1, <3>2, SameTerms
  <2> QED BY <2>4, <2>5, <2>6
<1> HIDE DEF w
<1>9. RequestOK'
  <2>1. request \in [kind : {"read", "write"}, at : Nat, data : Seq(Bytes),
                     count : Nat, size : Nat, done : BOOLEAN]
    BY DEF IInv, RequestOK
  <2>2. /\ request' \in [kind : {"read", "write"}, at : Nat, data : Seq(Bytes),
                         count : Nat, size : Nat, done : BOOLEAN]
        /\ request'.data = request.data /\ request'.at = request.at
        /\ request'.size = request.size /\ request'.count = request.count + Chunk
    BY <1>1, <1>2, <1>6, <2>1
  <2>3. request'.count <= request'.size
    BY <1>1, <1>2, <2>2
  <2> QED BY <1>1, <2>2, <2>3 DEF RequestOK
<1>c. FailuresOK'
  <2>1. /\ errors' = errors /\ pending' = pending /\ spoilt' = spoilt
        /\ cache \in [Slots -> Line]
    BY <1>4 DEF failures, Shape
  <2>2. /\ cache'[slot].status = DIRTY /\ cache'[slot].block = cache[slot].block
        /\ \A i \in Slots : i # slot => cache'[i] = cache[i]
    BY <1>4, <1>6, <2>1
  <2>3. ASSUME NEW p \in pending PROVE Harmless(p, cache)'
    <3>1. Harmless(p, cache) /\ p.slot \in Slots
      BY DEF IInv, FailuresOK, Harmless, Command
    <3> QED BY <1>4, <2>1, <2>2, <3>1 DEF Harmless
  <2> QED BY <2>1, <2>3 DEF IInv, FailuresOK
<1>10. IInv' /\ request'.count > request.count
  <2>1. request'.count > request.count
    BY <1>1, <1>2, <1>6 DEF IInv, RequestOK
  <2> QED BY <1>7, <1>9, <1>c, <2>1 DEF IInv, failures
<1> QED BY <1>6, <1>7, <1>8, <1>10, SameTerms, Zenon

-----------------------------------------------------------------------------
(* A turn of the loop, of either kind *)
LEMMA CopyStep ==
  ASSUME CacheConstants, IInv, Copy
  PROVE  IInv' /\ Disk!Next
<1>1. /\ ~request.done /\ request.count < request.size
      /\ HoldingIn(cache, Sector) # {}
      /\ UNCHANGED <<disk, cache_overwrite_count, offset, failures>>
  BY SameTerms DEF Copy
<1> DEFINE slot == Min(HoldingIn(cache, Sector))
<1>2. slot \in HoldingIn(cache, Sector)
  <2>1. HoldingIn(cache, Sector) \subseteq Slots
    BY DEF HoldingIn
  <2> QED BY <1>1, <2>1, SmallestSlot
<1>3. IF request.kind = "read" THEN nvme_read(slot) ELSE nvme_write(slot)
  BY SameTerms DEF Copy
<1> HIDE DEF slot
<1>4. /\ request \in [kind : {"read", "write"}, at : Nat, data : Seq(Bytes),
                      count : Nat, size : Nat, done : BOOLEAN]
      /\ DOMAIN Visible = Addresses /\ Chunk \in Nat
  BY <1>1, ChunkFits DEF IInv, RequestOK, Shape, Visible
<1>5. CASE request.kind = "read"
  <2> DEFINE bytes == [i \in 1 .. Chunk |-> Visible[request.at + request.count + i - 1]]
             all == request.data \o bytes
             n == request.count + Chunk
  <2>1. /\ IInv' /\ Visible' = Visible /\ request'.count > request.count
        /\ request' = [request EXCEPT !.count = n, !.data = all]
    BY <1>1, <1>2, <1>3, <1>5, ReadStep, Zenon
  <2>2. Chunk = n - request.count /\ n \in Nat
    BY <1>4
  <2> HIDE DEF n
  <2>3. all = request.data \o [i \in 1 .. n - request.count |->
                                 Visible[request.at + request.count + i - 1]]
    BY <2>2
  <2> HIDE DEF bytes, all
  <2>4. /\ request'.kind = request.kind /\ request'.at = request.at /\ ~request'.done
        /\ request'.count = n /\ request'.data = all
    BY <1>1, <1>4, <2>1
  <2>5. Disk!Moves(n)
    BY <1>5, <2>1, <2>3, <2>4, Zenon DEF Disk!Moves, Seen
  <2> QED BY <1>1, <2>1, <2>4, <2>5 DEF Disk!Next, Seen
<1>6. CASE request.kind = "write"
  <2> DEFINE n == request.count + Chunk
  <2>1. /\ IInv' /\ request'.count > request.count
        /\ request' = [request EXCEPT !.count = n]
        /\ Visible' = [a \in Addresses |->
              IF request.at + request.count <= a /\ a < request.at + n
              THEN request.data[a - request.at + 1] ELSE Visible[a]]
    <3>1. request.at + n = request.at + request.count + Chunk
      BY <1>4
    <3>2. nvme_write(slot)
      BY <1>3, <1>6
    <3> QED BY <1>1, <1>2, <1>6, <3>1, <3>2, WriteStep
  <2> HIDE DEF n
  <2>2. /\ request'.kind = request.kind /\ request'.at = request.at /\ ~request'.done
        /\ request'.count = n /\ request'.data = request.data
    BY <1>1, <1>4, <2>1
  <2>3. Visible' = [a \in DOMAIN Visible |->
              IF a \in {x \in DOMAIN Visible :
                          request.at + request.count <= x /\ x < request.at + n}
              THEN request.data[a - request.at + 1] ELSE Visible[a]]
    BY <1>4, <2>1
  <2>4. Disk!Moves(n)
    BY <1>6, <2>2, <2>3 DEF Disk!Moves, Seen
  <2> QED BY <1>1, <2>1, <2>2, <2>4 DEF Disk!Next, Seen
<1> QED BY <1>4, <1>5, <1>6

(* A call begins: nothing moves. *)
LEMMA CallStep ==
  ASSUME CacheConstants, IInv, NEW kind \in {"read", "write"}, NEW size \in Sizes,
         NEW value \in Bytes, Call(kind, size, value)
  PROVE  IInv' /\ Disk!Next
<1> DEFINE d == IF kind = "read" THEN <<>> ELSE [i \in 1 .. size |-> value]
<1>1. size \in Nat
  BY DEF CacheConstants, NvmeCacheConstants
<1>2. d \in Seq(Bytes) /\ (kind = "write" => Len(d) = size)
  <2>1. CASE kind = "read"
    BY <2>1
  <2>2. CASE kind = "write"
    <3>1. [i \in 1 .. size |-> value] \in [1 .. size -> Bytes]
      OBVIOUS
    <3> QED BY <1>1, <2>2, <3>1
  <2> QED BY <2>1, <2>2, Zenon
<1>3. request' = [kind |-> kind, at |-> offset, count |-> 0, size |-> size, done |-> FALSE,
                  data |-> d]
  BY DEF Call
<1> HIDE DEF d
<1>4. RequestOK'
  <2>1. offset \in Nat /\ offset' = offset /\ offset + size <= Reach
    BY DEF Call, IInv, RequestOK
  <2>2. request' \in [kind : {"read", "write"}, at : Nat, data : Seq(Bytes),
                      count : Nat, size : Nat, done : BOOLEAN]
    BY <1>1, <1>2, <1>3, <2>1
  <2> QED BY <1>1, <1>2, <1>3, <2>1, <2>2 DEF RequestOK
<1>5. request.done /\ Visible' = Visible /\ ~request'.done /\ request'.count = 0
  BY <1>3, SameTerms DEF Call
<1>6. FailuresOK'
  BY DEF Call, IInv, FailuresOK, Harmless, failures
<1>7. IInv'
  BY <1>4, <1>6 DEF Call, IInv, failures
<1> QED BY <1>5, <1>7 DEF Disk!Next, Disk!Begins, Seen

(* A command that was reported failed is done: what is seen of the disk    *)
(* stays, unless it reads into a slot in use.                              *)
LEMMA ExecuteStep ==
  ASSUME CacheConstants, IInv, NEW c \in pending, Execute(c)
  PROVE  IInv' /\ UNCHANGED request /\ (spoilt \/ Visible' = Visible)
<1>1. /\ pending' = pending \ {c} /\ errors' = errors /\ spoilt' = spoilt
      /\ request' = request /\ offset' = offset
      /\ cache_overwrite_count' = cache_overwrite_count
  BY DEF Execute
<1>2. /\ Shape(disk, cache) /\ (~spoilt => Agrees(disk, cache)) /\ Harmless(c, cache)
      /\ c.slot \in Slots /\ c.block \in Nat
  BY DEF IInv, FailuresOK, Harmless, Command
<1>3. RequestOK' /\ cache_overwrite_count' \in 0 .. MAX_CACHED_BLOCKS
  BY <1>1 DEF IInv, RequestOK
<1>4. ASSUME \A i \in Slots : /\ cache'[i].status = cache[i].status
                             /\ cache'[i].block = cache[i].block
      PROVE  FailuresOK'
  <2>1. ASSUME NEW p \in pending PROVE Harmless(p, cache)'
    <3>1. Harmless(p, cache) /\ p.slot \in Slots
      BY DEF IInv, FailuresOK, Harmless, Command
    <3> QED BY <1>1, <1>4, <3>1 DEF Harmless
  <2> QED BY <1>1, <2>1 DEF IInv, FailuresOK
<1>5. CASE c.write
  <2>1. disk' = FlushedIn(disk, cache[c.slot]) /\ cache' = cache
    BY <1>5, SameTerms DEF Execute
  <2>2. cache[c.slot].status # NOT_READY
    BY <1>2, <1>5 DEF Harmless, DIRTY, NOT_READY
  <2>3. /\ Shape(disk', cache') /\ (Agrees(disk, cache) => Agrees(disk', cache'))
        /\ View(disk', cache') = View(disk, cache)
    BY <1>2, <2>1, <2>2, FlushStep
  <2>4. FailuresOK'
    BY <1>4, <2>1
  <2> QED BY <1>1, <1>2, <1>3, <2>3, <2>4, SameTerms DEF IInv
<1>6. CASE ~c.write
  <2> DEFINE w == Image(disk, c.block)
  <2>1. disk' = disk /\ cache' = [cache EXCEPT ![c.slot].data = w]
    BY <1>6, SameTerms DEF Execute
  <2>2. w \in [Within -> Bytes]
    <3>1. \A i \in Within : disk[c.block * cache_block_size + i] \in Bytes
      BY <1>2, BlockFits DEF Shape, Harmless
    <3> QED BY <3>1 DEF Image
  <2> HIDE DEF w
  <2>3. /\ Shape(disk', cache')
        /\ \A i \in Slots : /\ cache'[i].status = cache[i].status
                            /\ cache'[i].block = cache[i].block
        /\ cache[c.slot].status = NOT_READY =>
              /\ Agrees(disk, cache) => Agrees(disk', cache')
              /\ View(disk', cache') = View(disk, cache)
    <3>1. LET f == [cache EXCEPT ![c.slot].data = w]
          IN  /\ Shape(disk, f)
              /\ \A i \in Slots : f[i].status = cache[i].status /\ f[i].block = cache[i].block
              /\ cache[c.slot].status = NOT_READY =>
                    (Agrees(disk, cache) => Agrees(disk, f)) /\ View(disk, f) = View(disk, cache)
      BY <1>2, <2>2, RefillStep
    <3> QED BY <2>1, <3>1
  <2>4. spoilt \/ cache[c.slot].status = NOT_READY
    BY <1>2, <1>6 DEF Harmless
  <2>5. FailuresOK'
    BY <1>4, <2>3
  <2> QED BY <1>1, <1>2, <1>3, <2>3, <2>4, <2>5, SameTerms DEF IInv
<1> QED BY <1>5, <1>6

(* The inductive step: every step is one of the array of bytes, or none,   *)
(* or the bytes of a failed command come.                                  *)
LEMMA NextIInv ==
  ASSUME CacheConstants, IInv, [Next]_vars
  PROVE  IInv' /\ [Disk!Next \/ Overrun]_<<Visible, Seen>>
<1>1. CASE UNCHANGED vars
  <2>1. FailuresOK' /\ RequestOK'
    BY <1>1 DEF vars, failures, IInv, FailuresOK, Harmless, RequestOK
  <2> QED BY <1>1, <2>1, SameTerms DEF vars, failures, IInv, Seen
<1>2. ASSUME NEW kind \in {"read", "write"}, NEW size \in Sizes, NEW value \in Bytes,
             Call(kind, size, value)
      PROVE  IInv' /\ Disk!Next
  BY <1>2, CallStep
<1>3. ASSUME NEW to \in Seeks, nvme_lseek(to)
      PROVE  IInv' /\ UNCHANGED <<Visible, Seen>>
  <2>1. to \in Nat
    BY DEF CacheConstants, NvmeCacheConstants
  <2>2. RequestOK'
    BY <1>3, <2>1 DEF nvme_lseek, IInv, RequestOK
  <2>3. FailuresOK'
    BY <1>3 DEF nvme_lseek, IInv, FailuresOK, Harmless, failures
  <2> QED BY <1>3, <2>2, <2>3, SameTerms, Zenon DEF nvme_lseek, IInv, Seen, failures
<1>4. CASE nvme_cache_block
  <2>1. /\ IInv' /\ Visible' = Visible /\ ~request.done
        /\ request' = request \/ request' = NoRequest
    BY <1>4, CacheStep
  <2>2. CASE request' = request
    BY <2>1, <2>2 DEF Seen
  <2>3. CASE request' = NoRequest
    BY <2>1, <2>3 DEF NoRequest, Disk!Next, Disk!Ends, Seen
  <2> QED BY <2>1, <2>2, <2>3
<1>5. CASE Copy
  BY <1>5, CopyStep
<1>6. CASE Return
  <2>1. /\ ~request.done /\ request' = NoRequest /\ Visible' = Visible
        /\ offset' = offset + request.size
    BY <1>6, SameTerms DEF Return, Finish
  <2>2. RequestOK'
    BY <2>1 DEF IInv, RequestOK, NoRequest
  <2>3. FailuresOK'
    BY <1>6 DEF Return, IInv, FailuresOK, Harmless, failures
  <2>4. IInv'
    BY <1>6, <2>2, <2>3 DEF Return, IInv, failures
  <2> QED BY <2>1, <2>4 DEF NoRequest, Disk!Next, Disk!Ends, Seen
<1>7. ASSUME NEW c \in pending, Execute(c)
      PROVE  IInv' /\ (Overrun \/ UNCHANGED <<Visible, Seen>>)
  <2>1. IInv' /\ UNCHANGED request /\ (spoilt \/ Visible' = Visible)
    BY <1>7, ExecuteStep
  <2> QED BY <2>1 DEF Overrun, Seen
<1> QED BY <1>1, <1>2, <1>3, <1>4, <1>5, <1>6, <1>7 DEF Next

(* Nothing is cached at the start. *)
LEMMA InitIInv ==
  ASSUME CacheConstants, Init
  PROVE  IInv /\ Disk!Init
<1>1. 0 \in Bytes /\ lba_count \in Nat /\ MAX_CACHED_BLOCKS \in Nat
  BY DEF CacheConstants, NvmeCacheConstants
<1>2. Empty \in Line /\ Empty.status = NOT_READY
  BY <1>1 DEF Empty, Line, Within
<1>3. cache \in [Slots -> Line] /\ \A i \in Slots : cache[i].status = NOT_READY
  BY <1>2 DEF Init
<1>4. Shape(disk, cache) /\ Agrees(disk, cache)
  BY <1>1, <1>3 DEF Init, Shape, Agrees, Addresses, READY, NOT_READY
<1>5. RequestOK
  BY DEF Init, RequestOK, NoRequest
<1>6. FailuresOK
  BY Zenon DEF Init, FailuresOK
<1> QED BY <1>1, <1>4, <1>5, <1>6 DEF Init, IInv, NoRequest, Disk!Init, Seen

(* nvme_read, nvme_write and nvme_lseek with the cache of blocks implement *)
(* an array of bytes, for any disk, block size and number of slots and     *)
(* whichever commands fail: a read returns what was written last, evicted  *)
(* or not, and a request that fails has changed what it moved so far and   *)
(* nothing else.  Only after nvme_cache_block has seen a read into a slot  *)
(* in use fail may bytes change that no request wrote.                     *)
THEOREM CacheIsArray ==
  ASSUME CacheConstants
  PROVE  Spec => IsBlockDevice
<1>1. Init => IInv /\ Disk!Init
  BY InitIInv
<1>2. IInv /\ [Next]_vars => IInv' /\ [Disk!Next \/ Overrun]_<<Visible, Seen>>
  BY NextIInv
<1> QED BY <1>1, <1>2, PTL DEF Spec, IsBlockDevice

(* A block is in one slot at most, whichever commands fail, so that        *)
(* nvme_find_block may take the first slot it finds; and until a read into *)
(* a slot in use fails a slot that was not written to agrees with the      *)
(* disk, so that nvme_cache_block may drop it.                             *)
THEOREM OneCopyOfABlock ==
  ASSUME CacheConstants
  PROVE  Spec => []OneCopy
<1>1. Init => IInv
  BY InitIInv
<1>2. IInv /\ [Next]_vars => IInv'
  BY NextIInv
<1>3. IInv => OneCopy
  <2> SUFFICES ASSUME IInv PROVE OneCopy
    OBVIOUS
  <2>1. ~spoilt => \A i \in Slots : cache[i].status = READY =>
                                     cache[i].data = Fetched(cache[i].block)
    BY SameTerms DEF IInv, Agrees
  <2> QED BY <2>1 DEF IInv, Shape, OneCopy
<1> QED BY <1>1, <1>2, <1>3, PTL DEF Spec
=============================================================================

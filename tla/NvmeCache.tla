----------------------------- MODULE NvmeCache -----------------------------
(***************************************************************************)
(* Reads, writes and seeks on an NVMe device, kernel/devices/nvme.c, and   *)
(* the cache of blocks behind them.  device->lock is held during a whole   *)
(* call, so the calls follow each other; a step is one turn of the loop of *)
(* nvme_read or nvme_write, or the fetch of one block.  A logical block    *)
(* holds one byte, and Nvme describes how its commands reach the disk.     *)
(* After the first error cq_head stays on it: every later command is       *)
(* reported failed at once, with that error, and done behind the driver's  *)
(* back.                                                                   *)
(***************************************************************************)
EXTENDS Integers, Sequences, FiniteSetsExt

CONSTANTS
    lba_count,          \* bytes on the disk
    cache_block_size,
    MAX_CACHED_BLOCKS,
    Bytes,              \* values of a byte, 0 among them
    Sizes,              \* sizes of requests
    Seeks,              \* positions given to lseek
    PAGE_SIZE,
    Faults,             \* whether the controller may refuse commands
    Reach, MaxErrors    \* bounds: requests end at this address; commands that fail

NvmeCacheConstants ==
    /\ lba_count \in Nat /\ cache_block_size \in Nat \ {0}
    /\ MAX_CACHED_BLOCKS \in Nat \ {0}
    /\ 0 \in Bytes /\ Sizes \subseteq Nat \ {0} /\ Seeks \subseteq Nat
    /\ PAGE_SIZE \in Nat \ {0} /\ cache_block_size % PAGE_SIZE = 0
    /\ cache_block_size \div PAGE_SIZE # 2    \* the case of usePrp2 is left out
    /\ Faults \in BOOLEAN /\ Reach \in 0 .. lba_count /\ MaxErrors \in Nat

VARIABLES
    disk,               \* what the controller stores
    cache, cache_overwrite_count,
    offset,             \* node->offset
    request,            \* the call: buffer, count, and whether it is over
    errors,             \* commands that were reported failed
    pending,            \* those of them that the controller may still do
    spoilt              \* history: one of them was to read into a slot in use

failures == <<errors, pending, spoilt>>
vars == <<disk, cache, cache_overwrite_count, offset, request, failures>>

Slots == 0 .. MAX_CACHED_BLOCKS - 1
NOT_READY == 0
READY == 1
DIRTY == 2

Empty == [block |-> 0, status |-> NOT_READY, data |-> [i \in 0 .. cache_block_size - 1 |-> 0]]

NoRequest ==
    [kind |-> "read", at |-> 0, data |-> <<>>, count |-> 0, size |-> 0, done |-> TRUE]

Init ==
    /\ disk = [a \in 0 .. lba_count - 1 |-> 0]
    /\ cache = [i \in Slots |-> Empty] /\ cache_overwrite_count = 0
    /\ offset = 0
    /\ request = NoRequest
    /\ errors = 0 /\ pending = {} /\ spoilt = FALSE

-----------------------------------------------------------------------------
(* nvme_execute_read_write changes the length near the end of the disk.    *)
Length(start) ==
    IF start + cache_block_size >= lba_count
    THEN cache_block_size - ((start - cache_block_size) - lba_count)
    ELSE cache_block_size

max_prps == cache_block_size \div PAGE_SIZE

(* "Max prps exceeded" *)
Exceeds(start) ==
    Length(start) > 2 * PAGE_SIZE /\ (Length(start) - 1) \div PAGE_SIZE > max_prps

(* Its outcomes.  In a function that returns bool, -1 is true: a command   *)
(* that is skipped because it is too long counts as done.                  *)
Results(start) ==
    IF Exceeds(start) THEN {"skipped"}
    ELSE (IF errors = 0 THEN {"done"} ELSE {}) \cup (IF Faults \/ errors > 0 THEN {"failed"} ELSE {})

Fetched(block) == [i \in 0 .. cache_block_size - 1 |-> disk[block * cache_block_size + i]]
Flushed(slot) ==
    [a \in DOMAIN disk |->
        IF a \div cache_block_size = cache[slot].block
        THEN cache[slot].data[a % cache_block_size] ELSE disk[a]]

(* nvme_find_block *)
Holding(block) == {i \in Slots : cache[i].block = block /\ cache[i].status # NOT_READY}

Sector == (offset + request.count) \div cache_block_size

(* The call is over; node->offset moves only when it worked. *)
Finish(ok) ==
    /\ request' = NoRequest
    /\ offset' = IF ok THEN offset + request.size ELSE offset

(* Mutant: the slot is taken over without writing it back. *)
EvictDrops(slot, result) == result = "done" /\ UNCHANGED disk

(* "We are using this now, flush this cache" *)
Evict(slot, result) ==
    IF cache[slot].status = DIRTY
    THEN /\ result \in Results(cache[slot].block * cache_block_size)
         /\ disk' = IF result = "done" THEN Flushed(slot) ELSE disk
    ELSE result = "done" /\ UNCHANGED disk

(* nvme_cache_block returns -1.  The command that was refused may have     *)
(* moved its bytes, and the ones behind it will: Execute.                  *)
Fail(slot, block, write) ==
    /\ Finish(FALSE) /\ UNCHANGED cache
    /\ pending' = pending \cup {[id |-> errors, slot |-> slot, block |-> block, write |-> write]}
    /\ errors' = errors + 1
    /\ spoilt' = (spoilt \/ (~write /\ cache[slot].status # NOT_READY))

(* nvme_cache_block: a free slot, or the next one in turn.  A skipped read *)
(* leaves in the slot the bytes it had; one that fails leaves its number.  *)
nvme_cache_block ==
    LET free == {i \in Slots : cache[i].status = NOT_READY}
        turn == IF cache_overwrite_count = MAX_CACHED_BLOCKS THEN 0 ELSE cache_overwrite_count
        slot == IF free # {} THEN Min(free) ELSE turn
    IN  /\ ~request.done /\ request.count < request.size
        /\ Holding(Sector) = {}
        /\ cache_overwrite_count' = IF free # {} THEN cache_overwrite_count ELSE turn + 1
        /\ \/ Evict(slot, "failed") /\ Fail(slot, cache[slot].block, TRUE)
           \/ \E flush \in {"done", "skipped"}, fetch \in Results(Sector * cache_block_size) :
                 /\ Evict(slot, flush)
                 /\ IF fetch = "failed" THEN Fail(slot, Sector, FALSE)
                    ELSE /\ cache' = [cache EXCEPT ![slot] =
                                [block |-> Sector, status |-> READY,
                                 data |-> IF fetch = "done" THEN Fetched(Sector) ELSE @.data]]
                         /\ UNCHANGED <<offset, request, failures>>

(* The controller does a command that was reported failed. *)
Execute(c) ==
    /\ pending' = pending \ {c}
    /\ IF c.write THEN disk' = Flushed(c.slot) /\ UNCHANGED cache
       ELSE cache' = [cache EXCEPT ![c.slot].data = Fetched(c.block)] /\ UNCHANGED disk
    /\ UNCHANGED <<cache_overwrite_count, offset, request, errors, spoilt>>

-----------------------------------------------------------------------------
(* The part of the request that lies in the block at hand *)
Inside == (offset + request.count) % cache_block_size
Chunk == Min({request.size - request.count, cache_block_size - Inside})

nvme_read(slot) ==
    /\ request' = [request EXCEPT
          !.data = @ \o [i \in 1 .. Chunk |-> cache[slot].data[Inside + i - 1]],
          !.count = @ + Chunk]
    /\ UNCHANGED cache

nvme_write(slot) ==
    /\ cache' = [cache EXCEPT
          ![slot].status = DIRTY,
          ![slot].data = [i \in DOMAIN @ |->
              IF i \in Inside .. Inside + Chunk - 1
              THEN request.data[request.count + i - Inside + 1] ELSE @[i]]]
    /\ request' = [request EXCEPT !.count = @ + Chunk]

(* One turn of the loop, when the block is in the cache *)
Copy ==
    /\ ~request.done /\ request.count < request.size
    /\ Holding(Sector) # {}
    /\ LET slot == Min(Holding(Sector)) IN
       IF request.kind = "read" THEN nvme_read(slot) ELSE nvme_write(slot)
    /\ UNCHANGED <<disk, cache_overwrite_count, offset, failures>>

Return ==
    /\ ~request.done /\ request.count = request.size
    /\ Finish(TRUE)
    /\ UNCHANGED <<disk, cache, cache_overwrite_count, failures>>

Call(kind, size, value) ==
    /\ request.done /\ errors < MaxErrors
    /\ offset + size <= Reach
    /\ request' = [kind |-> kind, at |-> offset, count |-> 0, size |-> size, done |-> FALSE,
                   data |-> IF kind = "read" THEN <<>> ELSE [i \in 1 .. size |-> value]]
    /\ UNCHANGED <<disk, cache, cache_overwrite_count, offset, failures>>

(* nvme_lseek: SEEK_SET, and SEEK_CUR, whose sum wraps like a size_t; for  *)
(* SEEK_END the unsigned offset is never below 0, so it always fails.      *)
nvme_lseek(to) ==
    /\ request.done
    /\ to < lba_count
    /\ offset' = to
    /\ UNCHANGED <<disk, cache, cache_overwrite_count, request, failures>>

Next ==
    \/ \E kind \in {"read", "write"}, size \in Sizes, value \in Bytes :
          (kind = "read" => value = 0) /\ Call(kind, size, value)
    \/ \E to \in Seeks : nvme_lseek(to)
    \/ nvme_cache_block \/ Copy \/ Return
    \/ \E c \in pending : Execute(c)

Spec == Init /\ [][Next]_vars

-----------------------------------------------------------------------------
(* A block is in at most one slot; and a slot that nvme_write has not      *)
(* touched agrees with the disk until a read into a slot in use fails.     *)
(* No request reaches the last block.                                      *)
OneCopy ==
    /\ \A i, j \in Slots : i # j /\ cache[i].block = cache[j].block =>
          NOT_READY \in {cache[i].status, cache[j].status}
    /\ ~spoilt => \A i \in Slots : cache[i].status = READY => cache[i].data = Fetched(cache[i].block)

(* Through the cache the disk is, below its last block, an array of bytes: *)
(* a read returns what was written last, across evictions and failures,    *)
(* and a request that fails has changed nothing behind the point it        *)
(* reached.  One thing changes it besides: once a read into a slot in use  *)
(* has failed, its bytes come under the number of the block that was       *)
(* there.                                                                  *)
Visible == [a \in DOMAIN disk |->
    LET its == Holding(a \div cache_block_size) IN
    IF its = {} THEN disk[a] ELSE cache[Min(its)].data[a % cache_block_size]]
Seen == [kind |-> request.kind, at |-> request.at, data |-> request.data,
         count |-> request.count, done |-> request.done]
Disk == INSTANCE BlockDevice WITH content <- Visible, request <- Seen
Overrun == spoilt /\ UNCHANGED request
IsBlockDevice == Disk!Init /\ [][Disk!Next \/ Overrun]_<<Visible, Seen>>
=============================================================================

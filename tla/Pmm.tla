-------------------------------- MODULE Pmm --------------------------------
(***************************************************************************)
(* The physical memory manager, kernel/mem/pmm.c: a bitmap with one bit    *)
(* per frame, set when the frame is in use.  The bitmap itself lies in the *)
(* highest usable region of the boot loader's memory map that can hold it. *)
(***************************************************************************)
EXTENDS Integers, FiniteSets, FiniteSetsExt

CONSTANTS
    MemMap,        \* the boot loader's entries: [base, length, usable]
    PAGE_SIZE,     \* bytes of a frame (0x1000)
    MaxRequest,    \* bound: frames one call asks for
    WordModulus    \* 2^64: size_t and uint64_t arithmetic

PmmConstants ==
    /\ MemMap \subseteq [base : Nat, length : Nat, usable : BOOLEAN]
    /\ PAGE_SIZE \in Nat \ {0} /\ MaxRequest \in Nat \ {0}
    /\ WordModulus \in Nat \ {0}

VARIABLES
    bitmap,        \* the indices of the set bits of PmmBitmap
    PmmFreePages

pmm == <<bitmap, PmmFreePages>>

-----------------------------------------------------------------------------
(* pmm_init *)

NewLength(e) == (e.base + e.length + PAGE_SIZE - 1) \div PAGE_SIZE

(* The loop moves PmmBitmap to every later usable entry with a higher base *)
(* that is longer, in bytes, than the bitmap has bits.                     *)
HoldsBitmap == {e \in MemMap : e.usable /\ e.base > 0 /\ e.length > NewLength(e)}
BitmapEntry == CHOOSE e \in HoldsBitmap : \A f \in HoldsBitmap : f.base <= e.base

(* Without such an entry pmm_init never returns. *)
BitmapFits == \E e \in HoldsBitmap : \A f \in HoldsBitmap : f.base <= e.base

PmmLength == NewLength(BitmapEntry)
BitmapBytes == PmmLength \div 8

(* Bits that pmm_alloc_advanced may test or set: a request that starts at  *)
(* the last frame reaches behind PmmLength.                                *)
Bits == 0 .. PmmLength + MaxRequest - 1

FramesFrom(first, count) == first .. first + count - 1

FreedBase(e) == IF e.base = BitmapEntry.base
                THEN e.base + ((BitmapBytes + PAGE_SIZE - 1) \div PAGE_SIZE) * PAGE_SIZE
                ELSE e.base
FreedCount(e) == IF e.base = BitmapEntry.base
                 THEN e.length \div PAGE_SIZE - BitmapBytes \div PAGE_SIZE
                 ELSE e.length \div PAGE_SIZE
FreedEntries == {e \in MemMap : e.usable /\ e.base <= BitmapEntry.base}
FreedByInit ==
    UNION {FramesFrom(FreedBase(e) \div PAGE_SIZE, FreedCount(e)) : e \in FreedEntries}

(* memset covers BitmapBytes bytes; bits behind them keep whatever the     *)
(* boot loader left there.                                                 *)
Trampoline == {1, 2}
InitBitmap(garbage) ==
    (((0 .. 8 * BitmapBytes - 1) \cup garbage) \ FreedByInit) \cup Trampoline

PmmInitOn(garbage) ==
    /\ bitmap = InitBitmap(garbage)
    /\ PmmFreePages = MapThenSumSet(FreedCount, FreedEntries)

PmmInit == \E garbage \in SUBSET (Bits \ (0 .. 8 * BitmapBytes - 1)) : PmmInitOn(garbage)

-----------------------------------------------------------------------------
(* Allocation: the first fit, for requests of one or more frames.          *)

(* Mutant: the last frame of a request is not tested. *)
TestsAllButLast(index, count) ==
    FramesFrom(index, IF count > 1 THEN count - 1 ELSE count) \cap bitmap = {}

is_bitmap_page_free(index, count) == FramesFrom(index, count) \cap bitmap = {}

Fits(count, alignment) ==
    {i \in 0 .. PmmLength - 1 : i % alignment = 0 /\ is_bitmap_page_free(i, count)}

(* index is the result of pmm_alloc_advanced, 0 standing for NULL. *)
pmm_alloc_advanced(count, alignment, index) ==
    IF Fits(count, alignment) = {}
    THEN index = 0 /\ UNCHANGED pmm
    ELSE /\ index \in Fits(count, alignment)
         /\ \A i \in Fits(count, alignment) : index <= i
         /\ bitmap' = bitmap \cup FramesFrom(index, count)
         /\ PmmFreePages' = IF PmmFreePages = 0 THEN 0
                            ELSE (PmmFreePages - count) % WordModulus

pmm_free(index, count) ==
    /\ bitmap' = bitmap \ FramesFrom(index, count)
    /\ PmmFreePages' = (PmmFreePages + count) % WordModulus

-----------------------------------------------------------------------------
(* The frames that hold the bits of frames 0 .. PmmLength - 1. *)
BitmapFrames ==
    (BitmapEntry.base \div PAGE_SIZE) ..
        ((BitmapEntry.base + (PmmLength - 1) \div 8) \div PAGE_SIZE)

=============================================================================

-------------------------------- MODULE Vmm --------------------------------
(***************************************************************************)
(* The page tables of kernel/mem/vmm.c.  One directory stands for the      *)
(* three upper levels, which vmm_get_or_alloc and vmm_get_or_null treat    *)
(* alike: its entries are empty, a large page, or a page table.  A virtual *)
(* page is a number that Dir and Slot take apart.  Permission bits and the *)
(* frames of the directories are left out.  Callers map frames they have   *)
(* just allocated wherever they like: over pages that are mapped (elf_load,*)
(* alloc with an address) and inside large pages (drivers, their           *)
(* registers).  Large pages are made once, in the kernel's table.  A call  *)
(* holds the lock of its table from start to end and goes page by page.    *)
(* pmm_alloc gives it the first frames that are free (module Pmm); frame 0 *)
(* is never free, and NULL is its address.                                 *)
(***************************************************************************)
EXTENDS Integers, FiniteSets

CONSTANTS
    Tables,          \* pt_t objects
    Kernel,          \* KernelPml4, never copied or freed
    DirEntries, PtEntries,
    Small,           \* the tables in which callers map and unmap small pages
    HugeEntries,     \* directory entries of Kernel used for large pages
    NumFrames,
    Maps, Unmaps,    \* numbers of pages that callers map and unmap
    MaxDropped,      \* bound: dropped frames when a caller maps or unmaps
    Registers,       \* the pages of a device's registers: <<first, number>>
    PoolSize,        \* pool_size of vmm_copy_pml4
    Contents,        \* what the pages that a caller maps hold: sequences
    NULL

VmmConstants ==
    /\ Kernel \in Tables /\ Small \subseteq Tables
    /\ DirEntries \in Nat \ {0} /\ PtEntries \in Nat \ {0}
    /\ HugeEntries \subseteq 0 .. DirEntries - 1 /\ NumFrames \in Nat
    /\ Maps \subseteq Nat \ {0} /\ Unmaps \subseteq Nat \ {0} /\ MaxDropped \in Nat
    /\ Registers \subseteq Nat \X (Nat \ {0})
    /\ PoolSize \in Nat \ {0}

Frames == 0 .. NumFrames
Dirs == 0 .. DirEntries - 1
Slots == 0 .. PtEntries - 1
Pages == 0 .. DirEntries * PtEntries - 1

VARIABLES
    live,            \* tables in use
    pd,              \* pd[t][k]: NULL, or [huge, frame]
    pt,              \* pt[f][l]: the entries of the page table in frame f
    used,            \* frames that are allocated
    content,         \* what the frames hold
    call,            \* the call that is under way: its table, page and rest
    locked,          \* tables whose lock is still held after a call
    dropped,         \* allocated frames that a call took the mapping of
    starved          \* a pmm_alloc of vmm_copy_pml4 has failed

vars == <<live, pd, pt, used, content, call, locked, dropped, starved>>

Zeroed == [l \in Slots |-> NULL]
None == [op |-> "none"]

Init ==
    /\ live = {Kernel} /\ pd = [t \in Tables |-> [k \in Dirs |-> NULL]]
    /\ pt = [f \in Frames |-> Zeroed]
    /\ used = {0} /\ content = [f \in Frames |-> NULL]
    /\ call = None /\ locked = {} /\ dropped = {} /\ starved = FALSE

Range(first, n) == first .. first + n - 1

(* pmm_alloc: the first run of n frames that are not taken, if there is one *)
FirstRun(n, taken) ==
    LET runs == {f \in Frames : Range(f, n) \subseteq Frames \ taken}
    IN  {f \in runs : \A g \in runs : f <= g}

(* get_addr_offsets *)
Dir(p) == p \div PtEntries
Slot(p) == p % PtEntries

Walk(t, p) ==
    LET e == pd[t][Dir(p)] IN
    IF e = NULL THEN NULL
    ELSE IF e.huge THEN e.frame + Slot(p) ELSE pt[e.frame][Slot(p)]

(* A new call.  Bound: once memory has run out in vmm_copy_pml4, the call  *)
(* that met it is the last, for nothing is claimed of what follows.        *)
Idle == call = None /\ ~starved

-----------------------------------------------------------------------------
(* vmm_map *)

(* The caller's frames are allocated, and filled, before the call. *)
vmm_map(t, first, n) ==
    /\ Idle /\ t \in (Small \cap live) \ locked /\ Range(first, n) \subseteq Pages
    /\ Cardinality(dropped) <= MaxDropped
    /\ \E f \in FirstRun(n, used), c \in Contents :
          /\ used' = used \cup Range(f, n)
          /\ content' = [g \in Frames |-> IF g \in Range(f, n) THEN c[g - f + 1] ELSE content[g]]
          /\ call' = [op |-> "map", table |-> t, page |-> first, phys |-> f, size |-> n]
    /\ UNCHANGED <<live, pd, pt, locked, dropped, starved>>

(* Mutant: a page table that is already there is replaced. *)
SetEntryAlways(t, p, phys, taken, tables) ==
    \E f \in FirstRun(1, taken) :
        /\ pd' = [pd EXCEPT ![t][Dir(p)] = [huge |-> FALSE, frame |-> f]]
        /\ pt' = [tables EXCEPT ![f] = [Zeroed EXCEPT ![Slot(p)] = phys]]
        /\ used' = taken \cup {f} /\ UNCHANGED dropped

(* vmm_get_or_alloc and the store into the entry; `taken` are the frames   *)
(* in use and `tables` the page tables before it.  The first frame of a    *)
(* large page is taken for a page table: the store goes into what it       *)
(* holds.  With no frame left, or with frame 0, the code loops for ever.   *)
SetEntry(t, p, phys, taken, tables) ==
    LET e == pd[t][Dir(p)] IN
    \/ /\ e # NULL /\ e.huge
       /\ used' = taken /\ pt' = tables
       /\ dropped' = dropped \cup {phys} /\ UNCHANGED pd
    \/ /\ e # NULL /\ ~e.huge
       /\ pt' = [tables EXCEPT ![e.frame][Slot(p)] = phys]
       /\ used' = taken /\ dropped' = dropped \cup ({Walk(t, p)} \ {NULL})
       /\ UNCHANGED pd
    \/ /\ e = NULL
       /\ \E f \in FirstRun(1, taken) \ {0} :
             /\ pd' = [pd EXCEPT ![t][Dir(p)] = [huge |-> FALSE, frame |-> f]]
             /\ pt' = [tables EXCEPT ![f] = [Zeroed EXCEPT ![Slot(p)] = phys]]
             /\ used' = taken \cup {f} /\ UNCHANGED dropped

InLargePage(t, p) == pd[t][Dir(p)] # NULL /\ pd[t][Dir(p)].huge

MapStep ==
    /\ call.op = "map"
    /\ SetEntry(call.table, call.page, call.phys, used, pt)
    /\ content' = IF InLargePage(call.table, call.page)
                  THEN [content EXCEPT ![pd[call.table][Dir(call.page)].frame] = NULL]
                  ELSE content
    /\ call' = IF call.size = 1 THEN None
               ELSE [call EXCEPT !.page = @ + 1, !.phys = @ + 1, !.size = @ - 1]
    /\ UNCHANGED <<live, locked, starved>>

(* vmm_map_huge: a large page is PtEntries frames. *)
vmm_map_huge(k) ==
    /\ Idle /\ Kernel \notin locked /\ k \in HugeEntries /\ pd[Kernel][k] = NULL
    /\ \E f \in FirstRun(PtEntries, used) :
          /\ pd' = [pd EXCEPT ![Kernel][k] = [huge |-> TRUE, frame |-> f]]
          /\ used' = used \cup Range(f, PtEntries)
    /\ UNCHANGED <<live, pt, content, call, locked, dropped, starved>>

-----------------------------------------------------------------------------
(* vmm_unmap *)

vmm_unmap(t, first, n) ==
    /\ Idle /\ t \in (Small \cap live) \ locked /\ Range(first, n) \subseteq Pages
    /\ Cardinality(dropped) <= MaxDropped
    /\ call' = [op |-> "unmap", table |-> t, page |-> first, size |-> n]
    /\ UNCHANGED <<live, pd, pt, used, content, locked, dropped, starved>>

Onward(pages) ==
    call' = IF call.size = pages THEN None
            ELSE [call EXCEPT !.page = @ + pages, !.size = @ - pages]

(* It returns false without a table of a level above, and at a part of a   *)
(* large page; without the page table alone it stores through NULL, into   *)
(* frame 0 if that is mapped.  A large page goes whole, wherever the       *)
(* address lies in it.  No frame is freed.                                 *)
UnmapStep ==
    LET t == call.table
        p == call.page
        e == pd[t][Dir(p)]
    IN  /\ call.op = "unmap"
        /\ UNCHANGED <<live, used, content, locked, starved>>
        /\ \/ /\ e = NULL
              /\ call' = None \/ Onward(1)
              /\ UNCHANGED <<pd, pt, dropped>>
           \/ /\ e # NULL /\ e.huge /\ call.size < PtEntries
              /\ call' = None /\ UNCHANGED <<pd, pt, dropped>>
           \/ /\ e # NULL /\ e.huge /\ call.size >= PtEntries
              /\ pd' = [pd EXCEPT ![t][Dir(p)] = NULL]
              /\ dropped' = dropped \cup Range(e.frame, PtEntries)
              /\ Onward(PtEntries)
              /\ UNCHANGED pt
           \/ /\ e # NULL /\ ~e.huge
              /\ pt' = [pt EXCEPT ![e.frame][Slot(p)] = NULL]
              /\ dropped' = dropped \cup ({Walk(t, p)} \ {NULL})
              /\ Onward(1)
              /\ UNCHANGED pd

Release(fs) ==
    /\ used' = used \ fs
    /\ content' = [f \in Frames |-> IF f \in fs THEN NULL ELSE content[f]]

(* pmm_free by the callers that still know the frames, as shm_release does *)
FreeDropped ==
    /\ Idle /\ dropped # {}
    /\ Release(dropped) /\ dropped' = {}
    /\ UNCHANGED <<live, pd, pt, call, locked, starved>>

-----------------------------------------------------------------------------
(* vmm_map_if_not_mapped: the registers of a device, which lie in frames   *)
(* that nobody else is given.                                              *)

vmm_map_if_not_mapped(first, n) ==
    /\ Idle /\ Kernel \notin locked /\ Range(first, n) \subseteq Pages
    /\ \E f \in FirstRun(n, used) :
          /\ used' = used \cup Range(f, n)
          /\ call' = [op |-> "device", table |-> Kernel, page |-> first, phys |-> f, size |-> n]
    /\ UNCHANGED <<live, pd, pt, content, locked, dropped, starved>>

(* In a large page it returns; at a present page it returns and keeps the  *)
(* lock.  The registers that are left are not mapped.                      *)
DeviceStep ==
    LET e == pd[Kernel][Dir(call.page)] IN
    /\ call.op = "device"
    /\ \/ /\ Walk(Kernel, call.page) # NULL
          /\ used' = used \ Range(call.phys, call.size)
          /\ locked' = IF e.huge THEN locked ELSE locked \cup {Kernel}
          /\ call' = None
          /\ UNCHANGED <<pd, pt, dropped>>
       \/ /\ Walk(Kernel, call.page) = NULL
          /\ SetEntry(Kernel, call.page, call.phys, used, pt)
          /\ call' = IF call.size = 1 THEN None
                     ELSE [call EXCEPT !.page = @ + 1, !.phys = @ + 1, !.size = @ - 1]
          /\ UNCHANGED locked
    /\ UNCHANGED <<live, content, starved>>

-----------------------------------------------------------------------------
(* Whole tables *)

vmm_setup_pml4(t) ==
    /\ Idle /\ t \notin live
    /\ live' = live \cup {t}
    /\ UNCHANGED <<pd, pt, used, content, call, locked, dropped, starved>>

(* pmm_alloc(pool_size), whose result nobody tests: without a run of free  *)
(* frames the pool lies at address 0, and the frames there are cleared.    *)
Pools ==
    LET found == FirstRun(PoolSize, used) IN
    IF found = {} THEN {<<0, used>>} ELSE {<<f, used \cup Range(f, PoolSize)>> : f \in found}

Cleared(f) == IF FirstRun(PoolSize, used) = {} THEN f < PoolSize ELSE FALSE

(* vmm_copy_pml4: pages come from pools of PoolSize frames.  The last      *)
(* frame that is free is the directory's: it too may be at address 0.      *)
vmm_copy_pml4(t, u) ==
    /\ Idle /\ t \in live \ (locked \cup {Kernel}) /\ u \notin live
    /\ \E pool \in Pools :
          /\ used' = pool[2]
          /\ starved' = (starved \/ FirstRun(PoolSize, used) = {} \/ pool[2] = Frames)
          /\ call' = [op |-> "copy", table |-> t, to |-> u, page |-> 0,
                      pool |-> pool[1], ptr |-> 0]
    /\ content' = [f \in Frames |-> IF Cleared(f) THEN NULL ELSE content[f]]
    /\ pt' = [f \in Frames |-> IF Cleared(f) THEN Zeroed ELSE pt[f]]
    /\ UNCHANGED <<live, pd, locked, dropped>>

(* Mutant: a pool that is used up is used again. *)
NextPoolReused ==
    /\ call' = [call EXCEPT !.ptr = 0]
    /\ UNCHANGED <<pd, pt, used, content, starved>>

(* A pool that is used up is replaced. *)
NextPool ==
    /\ \E pool \in Pools :
          /\ used' = pool[2]
          /\ call' = [call EXCEPT !.pool = pool[1], !.ptr = 0]
    /\ starved' = (starved \/ FirstRun(PoolSize, used) = {})
    /\ content' = [f \in Frames |-> IF Cleared(f) THEN NULL ELSE content[f]]
    /\ pt' = [f \in Frames |-> IF Cleared(f) THEN Zeroed ELSE pt[f]]
    /\ UNCHANGED pd

(* A page of the table is copied to the next frame of the pool: if a pool  *)
(* at address 0 makes that a page table, its entries are gone.             *)
CopyPage(from) ==
    LET to == call.pool + call.ptr IN
    /\ SetEntry(call.to, call.page, to, used, [pt EXCEPT ![to] = Zeroed])
    /\ content' = [content EXCEPT ![to] = content[from]]
    /\ call' = [call EXCEPT !.page = @ + 1, !.ptr = @ + 1]
    /\ UNCHANGED starved

CopyStep ==
    LET from == Walk(call.table, call.page) IN
    /\ call.op = "copy" /\ call.page \in Pages
    /\ \/ /\ from = NULL
          /\ call' = [call EXCEPT !.page = @ + 1]
          /\ UNCHANGED <<pd, pt, used, content, dropped, starved>>
       \/ /\ from # NULL /\ call.ptr = PoolSize
          /\ NextPool /\ UNCHANGED dropped
       \/ from # NULL /\ call.ptr < PoolSize /\ CopyPage(from)
    /\ UNCHANGED <<live, locked>>

PoolRest == Range(call.pool + call.ptr, PoolSize - call.ptr)

CopyDone ==
    /\ call.op = "copy" /\ call.page \notin Pages
    /\ used' = used \ PoolRest
    /\ live' = live \cup {call.to}
    /\ call' = None
    /\ UNCHANGED <<pd, pt, content, locked, dropped, starved>>

TableFrames(t) == {pd[t][k].frame : k \in {j \in Dirs : pd[t][j] # NULL}}
PageFrames(t) == {Walk(t, p) : p \in Pages} \ {NULL}

vmm_free_pml4(t) ==
    /\ Idle /\ t \in live \ (locked \cup {Kernel})
    /\ live' = live \ {t}
    /\ Release(TableFrames(t) \cup PageFrames(t))
    /\ pd' = [pd EXCEPT ![t] = [k \in Dirs |-> NULL]]
    /\ pt' = [f \in Frames |-> IF f \in TableFrames(t) THEN Zeroed ELSE pt[f]]
    /\ UNCHANGED <<call, locked, dropped, starved>>

Next ==
    \/ \E t \in Tables :
          \/ vmm_setup_pml4(t) \/ vmm_free_pml4(t)
          \/ \E u \in Tables : vmm_copy_pml4(t, u)
          \/ \E first \in Pages, n \in Maps : vmm_map(t, first, n)
          \/ \E first \in Pages, n \in Unmaps : vmm_unmap(t, first, n)
    \/ \E k \in Dirs : vmm_map_huge(k)
    \/ \E r \in Registers : vmm_map_if_not_mapped(r[1], r[2])
    \/ MapStep \/ DeviceStep \/ UnmapStep \/ CopyStep \/ CopyDone \/ FreeDropped

Spec == Init /\ [][Next]_vars

-----------------------------------------------------------------------------
(* Properties *)

(* Through its page tables every table is an address space: no call        *)
(* changes what another page, or another table, translates to.             *)
Space == INSTANCE AddressSpaces WITH
            Unmapped <- NULL, space <- [t \in Tables |-> [p \in Pages |-> Walk(t, p)]]
IsAddressSpace == Space!Spec

(* As long as vmm_copy_pml4 got its frames: every frame in use is one page *)
(* table or one page of one table, or was mapped and is its caller's; fork *)
(* and the end of a process leak none and share none, whichever pools the  *)
(* copies came from.                                                       *)
FramesAccounted ==
    call = None /\ ~starved =>
        /\ used \ {0} = dropped \cup UNION {TableFrames(t) \cup PageFrames(t) : t \in Tables}
        /\ \A t, u \in Tables : t # u =>
              (TableFrames(t) \cup PageFrames(t)) \cap (TableFrames(u) \cup PageFrames(u)) = {}
        /\ \A t \in Tables :
              /\ dropped \cap (TableFrames(t) \cup PageFrames(t)) = {}
              /\ \A p, q \in Pages : Walk(t, p) # NULL /\ Walk(t, p) = Walk(t, q) => p = q

(* As long as vmm_copy_pml4 got its frames, a copy has the pages of the    *)
(* original with what they hold.                                           *)
CopyIsEqual ==
    [][call.op = "copy" /\ call' = None /\ ~starved =>
          \A p \in Pages :
             LET from == Walk(call.table, p)
                 to == Walk(call.to, p)
             IN  IF from = NULL THEN to = NULL ELSE to # NULL /\ content[to] = content[from]]_vars
=============================================================================

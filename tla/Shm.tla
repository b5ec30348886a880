-------------------------------- MODULE Shm --------------------------------
(***************************************************************************)
(* The shared memory module, modules/shm/shm.c: named chunks of frames,    *)
(* and where each process maps them.  shm_obtain and shm_release hold      *)
(* SHMLock from their first line to their last, so each is one step.  The  *)
(* list of a process's mappings is the pointer structure of Lists.         *)
(* Addresses are counted in pages from USER_SHM_LOW.                       *)
(***************************************************************************)
EXTENDS Integers, Sequences, FiniteSetsExt, SequencesExt

CONSTANTS
    Procs,
    Paths,        \* names, split at the dots: sequences
    Chunks,       \* bound: chunk structures the heap can hold
    Mappings,     \* bound: list nodes (and mapping structures) of a process
    Frames,       \* physical frames, numbered from 0
    Pages,        \* bound: pages of the shared memory window
    Sizes,        \* sizes asked for, in pages
    NULL

ShmConstants ==
    /\ NULL \notin Procs \cup Chunks \cup Mappings
    /\ Frames \in Nat /\ Pages \in Nat /\ Sizes \subseteq Nat

VARIABLES
    node_chunk,   \* node->chunk of every shm_node_t in SHMTree
    chunk,        \* the chunk structures
    shm_map, shm_alloc,
    page_table,   \* the frame each page of the window is mapped to
    halted        \* the kernel has followed a NULL pointer

vars == <<node_chunk, chunk, shm_map, shm_alloc, page_table, halted>>

L == INSTANCE Lists WITH Nodes <- Mappings, Values <- [chunk : Chunks, virt : 0 .. Pages]

Free == [ref_count |-> 0, pageCount |-> 0, phys |-> 0, parent |-> NULL]

(* _init: a tree with a nameless root *)
Init ==
    /\ node_chunk = [p \in {} |-> NULL]
    /\ chunk = [c \in Chunks |-> Free]
    /\ shm_map = [p \in Procs |-> NULL]
    /\ shm_alloc = [p \in Procs |-> 0]
    /\ page_table = [p \in Procs |-> [a \in 0 .. Pages - 1 |-> NULL]]
    /\ halted = FALSE

(* get_node with create: the missing nodes along the path are inserted *)
WithNode(path) ==
    [q \in DOMAIN node_chunk \cup {SubSeq(path, 1, i) : i \in 1 .. Len(path)} |->
        IF q \in DOMAIN node_chunk THEN node_chunk[q] ELSE NULL]

(* pmm_alloc: the first run of frames that no chunk owns *)
Owned == UNION {chunk[c].phys .. chunk[c].phys + chunk[c].pageCount - 1 : c \in Chunks}
Runs(n) == {f \in 0 .. Frames - n : (f .. f + n - 1) \cap Owned = {}}

FreeChunks == {c \in Chunks : chunk[c].pageCount = 0}
create_chunk(parent, size) ==
    [ref_count |-> 1, pageCount |-> size, phys |-> Min(Runs(size)), parent |-> parent]

-----------------------------------------------------------------------------
(* The mappings that foreach meets, in its order *)
Walk(list) == L!Forward(list, Cardinality(Mappings))
Met(list) ==
    LET ns == Walk(list) IN
    [i \in DOMAIN ns |->
        LET m == list.value[ns[i]] IN
        [node |-> ns[i], virt |-> m.virt, chunk |-> m.chunk,
         end |-> m.virt + chunk[m.chunk].pageCount]]
LastAddress(met, i) == IF i = 1 THEN 0 ELSE met[i - 1].end

(* "Find holes": mappings with enough space in front of them *)
Holes(met, count) ==
    {i \in DOMAIN met : /\ met[i].virt > LastAddress(met, i)
                        /\ met[i].virt - LastAddress(met, i) >= count}

(* The address shm_map chooses, the break it leaves (shm_sbrk; the break   *)
(* is always a multiple of the page size) and the list operation.          *)
Place(list, alloc, count, n, m) ==
    LET met == Met(list)
        holes == Holes(met, count)
        last == LastAddress(met, Len(met) + 1)
        Mapping(virt) == [chunk |-> m, virt |-> virt]
    IN  IF holes # {}
        THEN LET i == Min(holes)
                 virt == LastAddress(met, i)
             IN  [virt |-> virt, alloc |-> alloc,
                  list |-> L!list_push_before(list, met[i].node, n, Mapping(virt))]
        ELSE IF alloc > last /\ alloc - last >= count
        THEN [virt |-> last, alloc |-> alloc, list |-> L!list_push_back(list, n, Mapping(last))]
        ELSE [virt |-> alloc, alloc |-> alloc + count,
              list |-> L!list_push_back(list, n, Mapping(alloc))]

Walkable(p) == shm_map[p] # NULL => \A n \in ToSet(Walk(shm_map[p])) : shm_map[p].value[n] # NULL

Unused(list) == {n \in Mappings : list.value[n] = NULL}

(* shm_map, with the chunk structures as they are after the call *)
MapChunk(p, c, count) ==
    LET list == IF shm_map[p] = NULL THEN L!list_create ELSE shm_map[p]
        placed == Place(list, shm_alloc[p], count, CHOOSE n \in Unused(list) : TRUE, c)
    IN  /\ Walkable(p) /\ Unused(list) # {}
        /\ placed.virt + count <= Pages
        /\ shm_map' = [shm_map EXCEPT ![p] = placed.list]
        /\ shm_alloc' = [shm_alloc EXCEPT ![p] = placed.alloc]
        /\ page_table' = [page_table EXCEPT ![p] = [a \in DOMAIN @ |->
               IF a \in placed.virt .. placed.virt + count - 1
               THEN chunk'[c].phys + (a - placed.virt) ELSE @[a]]]

-----------------------------------------------------------------------------
HasChunk(path) == path \in {q \in DOMAIN node_chunk : node_chunk[q] # NULL}

(* shm_obtain of a name that has no chunk *)
ObtainNew(p, path, size) ==
    /\ ~halted
    /\ ~HasChunk(path)
    /\ FreeChunks # {} /\ Runs(size) # {}
    /\ LET c == CHOOSE d \in FreeChunks : TRUE IN
       /\ size > 0
       /\ node_chunk' = [WithNode(path) EXCEPT ![path] = c]
       /\ chunk' = [chunk EXCEPT ![c] = create_chunk(path, size)]
       /\ MapChunk(p, c, size)
    /\ UNCHANGED halted

(* create_chunk gives nothing for size 0; the node stays in the tree. *)
ObtainNothing(p, path) ==
    /\ ~halted
    /\ ~HasChunk(path)
    /\ node_chunk' = WithNode(path)
    /\ UNCHANGED <<chunk, shm_map, shm_alloc, page_table, halted>>

(* Mutant: an obtain of an existing chunk does not count. *)
ObtainUncounted(p, path) ==
    /\ ~halted
    /\ HasChunk(path)
    /\ UNCHANGED chunk
    /\ MapChunk(p, node_chunk[path], chunk[node_chunk[path]].pageCount)
    /\ UNCHANGED <<node_chunk, halted>>

(* shm_obtain of a name that has one *)
Obtain(p, path) ==
    /\ ~halted
    /\ HasChunk(path)
    /\ chunk' = [chunk EXCEPT ![node_chunk[path]].ref_count = @ + 1]
    /\ MapChunk(p, node_chunk[path], chunk[node_chunk[path]].pageCount)
    /\ UNCHANGED <<node_chunk, halted>>

vmm_unmap(p, virt, count) ==
    page_table' = [page_table EXCEPT ![p] = [a \in DOMAIN @ |->
        IF a \in virt .. virt + count - 1 THEN NULL ELSE @[a]]]

shm_release_chunk(c) ==
    IF chunk[c].ref_count - 1 <= 0
    THEN /\ chunk' = [chunk EXCEPT ![c] = Free]
         /\ node_chunk' = [node_chunk EXCEPT ![chunk[c].parent] = NULL]
    ELSE /\ chunk' = [chunk EXCEPT ![c].ref_count = @ - 1]
         /\ UNCHANGED node_chunk

(* shm_release: the first mapping of the chunk that foreach meets.  The    *)
(* cases with result -1 change nothing.                                    *)
Release(p, path) ==
    /\ ~halted
    /\ path \in DOMAIN node_chunk
    /\ shm_map[p] # NULL /\ Walkable(p)
    /\ LET c == node_chunk[path]
           met == Met(shm_map[p])
           its == {i \in DOMAIN met : met[i].chunk = c}
       IN  /\ its # {}
           /\ vmm_unmap(p, met[Min(its)].virt, chunk[c].pageCount)
           /\ shm_release_chunk(c)
           /\ shm_map' = [shm_map EXCEPT ![p] = L!list_remove(@, met[Min(its)].node)]
    /\ UNCHANGED <<shm_alloc, halted>>

(* A process that never obtained anything has no list to walk; and a walk  *)
(* may run into a node that was freed, behind one that the last search for *)
(* a hole left out.  What the kernel does after either is not modelled.    *)
Fault(p, path) ==
    /\ ~halted
    /\ IF shm_map[p] = NULL THEN path \in DOMAIN node_chunk ELSE ~Walkable(p)
    /\ halted' = TRUE
    /\ UNCHANGED <<node_chunk, chunk, shm_map, shm_alloc, page_table>>

Next ==
    \/ \E p \in Procs, path \in Paths, size \in Sizes : ObtainNew(p, path, size)
    \/ \E p \in Procs, path \in Paths :
          ObtainNothing(p, path) \/ Obtain(p, path) \/ Release(p, path) \/ Fault(p, path)

Spec == Init /\ [][Next]_vars

-----------------------------------------------------------------------------
MappingsOf(p) == IF shm_map[p] = NULL THEN {} ELSE Mappings \ Unused(shm_map[p])
Mapping(p, n) == shm_map[p].value[n]

(* A chunk's ref_count is the number of mappings of it, in all processes   *)
(* together: shm_release_chunk frees it with the last one, and a name      *)
(* never leads to a chunk that is gone.                                    *)
ReferencesCounted ==
    /\ \A c \in Chunks : chunk[c].ref_count =
           Cardinality({x \in Procs \X Mappings :
               x[2] \in MappingsOf(x[1]) /\ Mapping(x[1], x[2]).chunk = c})
    /\ \A q \in DOMAIN node_chunk :
           node_chunk[q] # NULL => chunk[node_chunk[q]].parent = q

(* No process can reach a frame that pmm_alloc may give to somebody else:  *)
(* each page of its window leads to nothing, or to a frame of a chunk that *)
(* the process still maps there.                                           *)
NoStaleTranslation ==
    \A p \in Procs : \A a \in DOMAIN page_table[p] :
        page_table[p][a] # NULL =>
            \E n \in MappingsOf(p) :
                /\ a - Mapping(p, n).virt \in 0 .. chunk[Mapping(p, n).chunk].pageCount - 1
                /\ page_table[p][a] = chunk[Mapping(p, n).chunk].phys + a - Mapping(p, n).virt
=============================================================================

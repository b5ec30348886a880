---------------------------- MODULE ModuleLoader ----------------------------
(***************************************************************************)
(* module_load and module_load_node: kernel threads that load modules at   *)
(* the same time (load_module of two processes) over one table of symbols. *)
(* A module has one section; an address is one of W64, half a word one of  *)
(* W32.  Each hashmap operation is one step, as in HashMap.                *)
(***************************************************************************)
EXTENDS Integers, Sequences, TLC

CONSTANTS
    Loaders,
    Files,              \* what each loader loads: header, symbols, relocations
    Kernel,             \* symbols of modules_init, with their addresses
    Heap,               \* addresses that kmalloc gives for a section
    SectionSize,
    W64, W32            \* 2^64 and 2^32

ModuleLoaderConstants ==
    /\ W32 \in Nat \ {0} /\ W64 % W32 = 0
    /\ \A a \in Heap : a \in Nat \ {0} /\ a + SectionSize <= W64

VARIABLES
    KernelSymbols,      \* KernelSymbolsHashmap
    heap,               \* addresses not allocated
    pc, section,        \* of each loader; the address of its section
    local,              \* local_symbols
    i,                  \* the symbol or relocation it has reached
    patched,            \* what it has written, by relocation
    linked,             \* history: the address each relocation's symbol had
    node,               \* how often the file's node was closed and freed
    result              \* what module_load has returned

vars == <<KernelSymbols, heap, pc, section, local, i, patched, linked, node, result>>

Empty == [n \in {} |-> 0]

(* modules_init *)
Init ==
    /\ KernelSymbols = Kernel /\ heap = Heap
    /\ pc = [l \in Loaders |-> "header"] /\ section = [l \in Loaders |-> 0]
    /\ local = [l \in Loaders |-> Empty] /\ i = [l \in Loaders |-> 1]
    /\ patched = [l \in Loaders |-> <<>>] /\ linked = [l \in Loaders |-> <<>>]
    /\ node = [l \in Loaders |-> 0] /\ result = [l \in Loaders |-> "none"]

Go(l, step) == pc' = [pc EXCEPT ![l] = step]
Set(f, n, a) == (n :> a) @@ f
Get(f, n) == IF n \in DOMAIN f THEN f[n] ELSE 0
Symbols(l) == Files[l].symbols
Relocs(l) == Files[l].relocs

-----------------------------------------------------------------------------
(* The ELF header; a file that is not an x86-64 ELF file is closed here. *)
Header(l) ==
    /\ pc[l] = "header"
    /\ IF Files[l].valid THEN Go(l, "sections") /\ UNCHANGED <<node, result>>
       ELSE Go(l, "close") /\ node' = [node EXCEPT ![l] = @ + 1] /\ result' = [result EXCEPT ![l] = "false"]
    /\ UNCHANGED <<KernelSymbols, heap, section, local, i, patched, linked>>

(* The sections are allocated and read. *)
Sections(l) ==
    /\ pc[l] = "sections" /\ Go(l, "symbols")
    /\ \E a \in heap : section' = [section EXCEPT ![l] = a] /\ heap' = heap \ {a}
    /\ UNCHANGED <<KernelSymbols, local, i, patched, linked, node, result>>

(* A global symbol that is defined goes in both tables. *)
Symbol(l) ==
    /\ pc[l] = "symbols"
    /\ IF i[l] <= Len(Symbols(l))
       THEN LET s == Symbols(l)[i[l]]
                a == (section[l] + s.value) % W64
            IN  /\ local' = [local EXCEPT ![l] = Set(@, s.name, a)]
                /\ KernelSymbols' = Set(KernelSymbols, s.name, a)
                /\ i' = [i EXCEPT ![l] = @ + 1] /\ UNCHANGED pc
       ELSE Go(l, "relocate") /\ i' = [i EXCEPT ![l] = 1] /\ UNCHANGED <<KernelSymbols, local>>
    /\ UNCHANGED <<heap, section, patched, linked, node, result>>

SymbolAddress(l, n) == IF Get(local[l], n) # 0 THEN Get(local[l], n) ELSE Get(KernelSymbols, n)

(* Bytes of 32 bits as a signed number, in 64 bits *)
SignExtend(v) == IF v < W32 \div 2 THEN v ELSE v + W64 - W32

(* R_AMD64_32 and R_AMD64_32S are compared with the whole value. *)
Fits(type, v) ==
    /\ type = "32" => v = v % W32
    /\ type = "32S" => v = SignExtend(v % W32)

(* What the place holds afterwards.  A type that the loader does not know  *)
(* is reported and passed over; the place keeps what the file has there, 0.*)
Patch(type, v, at) ==
    CASE type = "64" -> v
      [] type = "PC32" -> (v - at) % W32
      [] type \in {"32", "32S"} -> v % W32
      [] OTHER -> 0

(* One relocation.  A section symbol has the address of the section.       *)
Relocate(l) ==
    LET r == Relocs(l)[i[l]]
        s == IF r.name = "section" THEN section[l] ELSE SymbolAddress(l, r.name)
        v == (s + r.addend) % W64
    IN  /\ pc[l] = "relocate"
        /\ \/ i[l] > Len(Relocs(l)) /\ Go(l, "info") /\ UNCHANGED <<i, patched, linked>>
           \/ /\ i[l] <= Len(Relocs(l)) /\ s # 0 /\ Fits(r.type, v)
              /\ patched' = [patched EXCEPT ![l] = Append(@, Patch(r.type, v, section[l] + r.at))]
              /\ linked' = [linked EXCEPT ![l] = Append(@, s)]
              /\ i' = [i EXCEPT ![l] = @ + 1] /\ UNCHANGED pc
           \/ /\ i[l] <= Len(Relocs(l)) /\ (s = 0 \/ ~Fits(r.type, v))
              /\ Go(l, "clean") /\ UNCHANGED <<i, patched, linked>>
        /\ UNCHANGED <<KernelSymbols, heap, section, local, node, result>>

(* The module_info_ symbol, and the call of its init *)
Info(l) ==
    /\ pc[l] = "info"
    /\ IF "module_info_" \in DOMAIN local[l]
       THEN result' = [result EXCEPT ![l] = "true"] /\ Go(l, "init")
       ELSE UNCHANGED result /\ Go(l, "clean")
    /\ UNCHANGED <<KernelSymbols, heap, section, local, i, patched, linked, node>>

RunInit(l) ==
    /\ pc[l] = "init" /\ Go(l, "clean")
    /\ UNCHANGED <<KernelSymbols, heap, section, local, i, patched, linked, node, result>>

(* Mutant: clean frees the section as well. *)
CleanAll(l) == heap \cup (IF result[l] = "none" THEN {section[l]} ELSE {})

CleanHeap(l) == heap

(* clean: what was read is freed; the section and the symbols stay. *)
Clean(l) ==
    /\ pc[l] = "clean" /\ Go(l, "close")
    /\ heap' = CleanHeap(l)
    /\ result' = [result EXCEPT ![l] = IF @ = "none" THEN "false" ELSE @]
    /\ UNCHANGED <<KernelSymbols, section, local, i, patched, linked, node>>

(* module_load closes and frees the node that it opened. *)
Close(l) ==
    /\ pc[l] = "close" /\ Go(l, "done")
    /\ node' = [node EXCEPT ![l] = @ + 1]
    /\ UNCHANGED <<KernelSymbols, heap, section, local, i, patched, linked, result>>

Next ==
    \E l \in Loaders :
        \/ Header(l) \/ Sections(l) \/ Symbol(l) \/ Relocate(l) \/ Info(l) \/ RunInit(l)
        \/ Clean(l) \/ Close(l)

Spec == Init /\ [][Next]_vars

-----------------------------------------------------------------------------
(* Properties *)

Ready(l) == pc[l] = "init"

(* What the CPU makes of a patched place *)
Meant(type, w, at) ==
    CASE type = "64" -> w
      [] type = "32" -> w
      [] type = "32S" -> SignExtend(w)
      [] type = "PC32" -> (at + SignExtend(w)) % W64

(* The relocations that a correct patch exists for and the loader knows:   *)
(* the cut of R_AMD64_PC32 is not tested, and needs a distance of 31 bits. *)
Patchable(r, v, at) ==
    /\ r.type \in {"64", "PC32", "32", "32S"}
    /\ r.type = "PC32" => v - at \in -(W32 \div 2) .. W32 \div 2 - 1

(* When the init of a module is called, every place with a relocation of a *)
(* known type means the address of its symbol plus the addend, for         *)
(* R_AMD64_PC32 if that is within reach; another value that does not fit   *)
(* stops the load.                                                         *)
RelocationsExact ==
    \A l \in Loaders : Ready(l) =>
        /\ Len(patched[l]) = Len(Relocs(l))
        /\ \A k \in DOMAIN patched[l] :
            LET r == Relocs(l)[k]
                v == (linked[l][k] + r.addend) % W64
                at == section[l] + r.at
            IN  Patchable(r, v, at) => Meant(r.type, patched[l][k], at) = v

(* A module uses its own symbols, whatever modules with the same names are *)
(* loaded before it or at the same time.                                   *)
OwnSymbolsFirst ==
    \A l \in Loaders : Ready(l) =>
        \A k \in DOMAIN linked[l] : \A j \in DOMAIN Symbols(l) :
            Symbols(l)[j].name = Relocs(l)[k].name => linked[l][k] = section[l] + Symbols(l)[j].value

(* The table of symbols never leads into memory that has been freed, also  *)
(* after a module that failed to load.                                     *)
SymbolsLive ==
    \A n \in DOMAIN KernelSymbols : \A a \in heap :
        KernelSymbols[n] \notin a .. a + SectionSize - 1
=============================================================================

------------------------------ MODULE ElfLoad -------------------------------
(***************************************************************************)
(* elf_load: the segments of a program file in the pages of a new address  *)
(* space.  Byte o of the file is the number o + 1; 0 is a byte that        *)
(* pmm_alloc has cleared.                                                  *)
(***************************************************************************)
EXTENDS Integers, Sequences, TLC

CONSTANTS
    PAGE_SIZE,
    Tables,             \* program header tables: sequences of segments
    Bases,              \* 0 for a program, elsewhere for its linker
    Frames              \* bound: frames pmm_alloc has

ElfLoadConstants == PAGE_SIZE \in Nat \ {0} /\ Frames \in Nat

VARIABLES
    table, base, wantLd, \* arguments: program headers, base, out_ld_path is not NULL
    pc, i,
    map,                \* [page -> frame]
    memory,             \* [frame -> its bytes]
    phdr, ldPath

vars == <<table, base, wantLd, pc, i, map, memory, phdr, ldPath>>

NoByte == 0 - 1

InitOn(t, b, w) ==
    /\ table = t /\ base = b /\ wantLd = w
    /\ pc = "load" /\ i = 1
    /\ map = [v \in {} |-> 0] /\ memory = <<>>
    /\ phdr = 0 /\ ldPath = <<>>

Init == \E t \in Tables, b \in Bases, w \in BOOLEAN : InitOn(t, b, w)

Misalign(s) == s.vaddr % PAGE_SIZE

(* Mutant: misalign is not counted. *)
PagesUnaligned(s) == (s.memsz + PAGE_SIZE - 1) \div PAGE_SIZE

PageCount(s) == (Misalign(s) + s.memsz + PAGE_SIZE - 1) \div PAGE_SIZE

(* The frames of a segment: cleared, then file_size bytes from misalign on *)
Filled(s) ==
    [k \in 1 .. PageCount(s) |->
        [b \in 0 .. PAGE_SIZE - 1 |->
            LET o == (k - 1) * PAGE_SIZE + b - Misalign(s)
            IN  IF o \in 0 .. s.filesz - 1 THEN s.offset + o + 1 ELSE 0]]

(* vmm_map overwrites what is there. *)
Mapped(s) ==
    [k \in 0 .. PageCount(s) - 1 |-> Len(memory) + k + 1]
Over(first, f) ==
    [v \in DOMAIN map \cup {first + k : k \in DOMAIN f} |->
        IF v - first \in DOMAIN f THEN f[v - first] ELSE map[v]]

PhdrAt(s) == base + s.vaddr

Ignored(s) == s.type \notin {"load", "interp", "phdr"} \/ (s.type = "interp" /\ ~wantLd)

(* One turn of the loop.  PT_INTERP and PT_PHDR are looked at and then     *)
(* mapped like PT_LOAD.                                                    *)
Segment ==
    LET s == table[i] IN
    /\ pc = "load" /\ i <= Len(table)
    /\ IF Ignored(s)
       THEN i' = i + 1 /\ UNCHANGED <<pc, map, memory, phdr, ldPath>>
       ELSE /\ ldPath' = IF s.type = "interp" THEN <<s.offset, s.filesz>> ELSE ldPath
            /\ phdr' = IF s.type = "phdr" THEN PhdrAt(s) ELSE phdr
            /\ \/ /\ Len(memory) + PageCount(s) <= Frames
                  /\ memory' = memory \o Filled(s)
                  /\ map' = Over((base + s.vaddr) \div PAGE_SIZE, Mapped(s))
                  /\ i' = i + 1 /\ UNCHANGED pc
               \/ /\ Len(memory) + PageCount(s) > Frames
                  /\ pc' = "failed" /\ UNCHANGED <<i, map, memory>>
    /\ UNCHANGED <<table, base, wantLd>>

Finish ==
    /\ pc = "load" /\ i > Len(table)
    /\ pc' = "done"
    /\ UNCHANGED <<table, base, wantLd, i, map, memory, phdr, ldPath>>

Next == Segment \/ Finish
Spec == Init /\ [][Next]_vars

-----------------------------------------------------------------------------
(* Properties *)

Loads == {s \in {table[k] : k \in DOMAIN table} : s.type = "load"}
PagesOf(s) == (s.vaddr \div PAGE_SIZE) .. ((s.vaddr + s.memsz - 1) \div PAGE_SIZE)

(* What the program finds at an address *)
At(a) == IF a \div PAGE_SIZE \in DOMAIN map
         THEN memory[map[a \div PAGE_SIZE]][a % PAGE_SIZE] ELSE NoByte

(* When elf_load succeeds, every byte of every PT_LOAD segment is where its *)
(* header says, with zeros behind file_size, although PT_PHDR and          *)
(* PT_INTERP, which lie inside a PT_LOAD, are given pages of their own.    *)
(* This needs PT_LOAD segments that share no page.                         *)
LoadedWhole ==
    pc = "done" /\ (\A s, t \in Loads : s # t => PagesOf(s) \cap PagesOf(t) = {}) =>
        \A s \in Loads : \A o \in 0 .. s.memsz - 1 :
            At(base + s.vaddr + o) = IF o < s.filesz THEN s.offset + o + 1 ELSE 0

(* The program headers are where value->phdr, which the thread's auxiliary *)
(* vector passes on, says.                                                 *)
HeadersFound ==
    pc = "done" =>
        \A k \in DOMAIN table : table[k].type = "phdr" /\ table[k].memsz > 0 =>
            At(phdr) = table[k].offset + 1
=============================================================================

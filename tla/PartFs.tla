------------------------------- MODULE PartFs -------------------------------
(***************************************************************************)
(* Partitions, kernel/fs/partfs/partfs.c: the partition table is read once *)
(* and every partition in use becomes a device.  All of them share one     *)
(* node of the disk, with one offset.  Threads read, write and seek with   *)
(* nodes of their own (devfs_finddir copies them).  The disk is an array,  *)
(* as in BlockDevice; what a transfer moves is the set of its addresses.   *)
(***************************************************************************)
EXTENDS Integers, Sequences, FiniteSets

CONSTANTS
    Table,         \* the partition table: [used, start_lba, end_lba]
    Sector,        \* bytes of a logical block
    Nodes,         \* open nodes
    PartOf,        \* the index in Table that each of them belongs to
    Sizes, Seeks,  \* arguments of the calls
    DiskSize,
    Nobody

PartFsConstants ==
    /\ Nobody \notin Nodes /\ Sector \in Nat \ {0} /\ DiskSize \in Nat
    /\ \A i \in DOMAIN Table : Table[i].start_lba <= Table[i].end_lba
    /\ \A n \in Nodes : Table[PartOf[n]].used

VARIABLES
    boot,          \* how far partfs_enumerate_gpt has come
    entry,         \* the partfs_entry_t of the partitions found
    deviceOffset,  \* offset of the shared device node
    offset,        \* node->offset
    pc, size,      \* of the call on each node
    moved,         \* addresses moved by the last transfer of a node
    seated         \* history: the node whose seek the device follows

vars == <<boot, entry, deviceOffset, offset, pc, size, moved, seated>>
calls == <<offset, pc, size, moved>>

Init ==
    /\ boot = "header" /\ entry = [i \in {} |-> 0]
    /\ deviceOffset = 0 /\ seated = Nobody
    /\ offset = [n \in Nodes |-> 0]
    /\ pc = [n \in Nodes |-> "idle"] /\ size = [n \in Nodes |-> 0]
    /\ moved = [n \in Nodes |-> {}]

-----------------------------------------------------------------------------
(* partfs_enumerate_gpt: the checksum of the header, that of the array *)
ReadHeader(valid) ==
    /\ boot = "header"
    /\ boot' = IF valid THEN "array" ELSE "none"
    /\ deviceOffset' = 2 * Sector
    /\ UNCHANGED <<entry, calls, seated>>

(* "All validated, start indexing the partitions" *)
ReadArray(valid) ==
    /\ boot = "array"
    /\ boot' = IF valid THEN "done" ELSE "none"
    /\ deviceOffset' = 3 * Sector
    /\ entry' = IF ~valid THEN entry
                ELSE [i \in {j \in DOMAIN Table : Table[j].used} |->
                         [first_lba |-> Table[i].start_lba,
                          lba_count |-> Table[i].end_lba - Table[i].start_lba,
                          offsetDirty |-> TRUE, locked |-> FALSE]]
    /\ UNCHANGED <<calls, seated>>

-----------------------------------------------------------------------------
E(n) == entry[PartOf[n]]
Length(n) == E(n).lba_count * Sector

Lock(n) == boot = "done" /\ ~E(n).locked /\ entry' = [entry EXCEPT ![PartOf[n]].locked = TRUE]

Cut(n, asked) ==
    IF offset[n] + asked >= Length(n) THEN Length(n) - offset[n] ELSE asked

(* partfs_read and partfs_write up to the call of the device *)
Enter(n, asked) ==
    /\ pc[n] = "idle" /\ Lock(n)
    /\ size' = [size EXCEPT ![n] = Cut(n, asked)]
    /\ pc' = [pc EXCEPT ![n] = IF E(n).offsetDirty THEN "seek" ELSE "transfer"]
    /\ moved' = [moved EXCEPT ![n] = {}]
    /\ UNCHANGED <<boot, deviceOffset, offset, seated>>

(* Mutant: the flag is set instead of cleared, but nothing is sought. *)
SeekNever(n) ==
    /\ pc[n] = "seek"
    /\ entry' = [entry EXCEPT ![PartOf[n]].offsetDirty = FALSE]
    /\ seated' = n
    /\ pc' = [pc EXCEPT ![n] = "transfer"]
    /\ UNCHANGED <<boot, deviceOffset, offset, size, moved>>

SeekDevice(n) ==
    /\ pc[n] = "seek"
    /\ deviceOffset' = E(n).first_lba * Sector + offset[n]
    /\ entry' = [entry EXCEPT ![PartOf[n]].offsetDirty = FALSE]
    /\ seated' = n
    /\ pc' = [pc EXCEPT ![n] = "transfer"]
    /\ UNCHANGED <<boot, offset, size, moved>>

(* The device moves the bytes at its own offset; on an error nothing       *)
(* advances.                                                               *)
Transfer(n, ok) ==
    /\ pc[n] = "transfer"
    /\ ok => deviceOffset + size[n] <= DiskSize
    /\ moved' = [moved EXCEPT ![n] =
           IF ok THEN deviceOffset .. deviceOffset + size[n] - 1 ELSE {}]
    /\ deviceOffset' = IF ok THEN deviceOffset + size[n] ELSE deviceOffset
    /\ offset' = [offset EXCEPT ![n] = IF ok THEN @ + size[n] ELSE @]
    /\ seated' = IF seated = n THEN n ELSE Nobody
    /\ entry' = [entry EXCEPT ![PartOf[n]].locked = FALSE]
    /\ pc' = [pc EXCEPT ![n] = "idle"]
    /\ size' = [size EXCEPT ![n] = 0]
    /\ UNCHANGED boot

(* partfs_lseek: SEEK_SET, and SEEK_CUR as a size_t; SEEK_END always fails *)
(* because an unsigned offset is never below 0.                            *)
partfs_lseek(n, to) ==
    /\ pc[n] = "idle" /\ boot = "done" /\ ~E(n).locked
    /\ to < (E(n).first_lba + E(n).lba_count) * Sector
    /\ offset' = [offset EXCEPT ![n] = to]
    /\ moved' = [moved EXCEPT ![n] = {}]
    /\ entry' = [entry EXCEPT ![PartOf[n]].offsetDirty = TRUE]
    /\ UNCHANGED <<boot, deviceOffset, pc, size, seated>>

Next ==
    \/ \E valid \in BOOLEAN : ReadHeader(valid) \/ ReadArray(valid)
    \/ \E n \in Nodes : SeekDevice(n)
    \/ \E n \in Nodes, ok \in BOOLEAN : Transfer(n, ok)
    \/ \E n \in Nodes, asked \in Sizes : Enter(n, asked)
    \/ \E n \in Nodes, to \in Seeks : partfs_lseek(n, to)

Spec == Init /\ [][Next]_vars

-----------------------------------------------------------------------------
(* Where the bytes of a node's last transfer should have been *)
Proper(n) ==
    LET first == E(n).first_lba * Sector + offset[n] IN first - Cardinality(moved[n]) .. first - 1

(* A transfer moves the bytes at node->offset of its own partition if the  *)
(* seek of this node is the last the device has seen and no other node has *)
(* moved the device since.  Each file system holds its own lock from seek  *)
(* to read (read_device_offset), so this covers every disk with one        *)
(* mounted partition.                                                      *)
SeatedTransfersProper ==
    [][\A n \in Nodes : pc[n] = "transfer" /\ pc'[n] = "idle" /\ seated = n =>
          moved'[n] = Proper(n)']_vars

(* The same transfers stay inside the partition. *)
StaysInside ==
    [][\A n \in Nodes : pc[n] = "transfer" /\ pc'[n] = "idle" /\ seated = n =>
          \A a \in moved'[n] :
              E(n).first_lba * Sector <= a /\ a < (E(n).first_lba + E(n).lba_count) * Sector]_vars

(* While an entry is clean and its lock is free, the device is where the   *)
(* seated node of the partition expects it: clearing offsetDirty is right. *)
CleanMeansSeated ==
    \A n \in Nodes :
        seated = n /\ boot = "done" /\ pc[n] = "idle" =>
            \/ E(n).offsetDirty
            \/ deviceOffset = E(n).first_lba * Sector + offset[n]
=============================================================================

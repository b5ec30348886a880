------------------------------ MODULE MCStorage ------------------------------
(***************************************************************************)
(* The storage stack for TLC: the block cache of an NVMe disk, two         *)
(* partitions of a disk, a FAT32 and an ext2 file system. The parts share  *)
(* no state and every property is about one of them, so a behaviour moves  *)
(* one part and leaves the others where they begin.                        *)
(***************************************************************************)
EXTENDS Integers, Sequences, TLC

CONSTANTS
    Parts,      \* the parts to be run
    MayStop,    \* the parts that may come to an end
    n1, n2, n3, Nobody

VARIABLES
    part,
    cache_disk, cache, cache_overwrite_count, cache_offset, request, errors, pending, spoilt,
    boot, entry, deviceOffset, part_offset, part_pc, size, moved, seated,
    fat_disk, fat_mounted, fat_pc, fat_call, fat_transfer, fat_node, fat_offset, d_ino,
    listed,
    ext2_disk, ext2_mounted, ext2_pc, ext2_call, ext2_node, ext2_offset, ext2_transfer

cacheVars == <<cache_disk, cache, cache_overwrite_count, cache_offset, request, errors,
    pending, spoilt>>
partVars == <<boot, entry, deviceOffset, part_offset, part_pc, size, moved, seated>>
fatVars == <<fat_disk, fat_mounted, fat_pc, fat_call, fat_transfer, fat_node, fat_offset,
    d_ino, listed>>
ext2Vars == <<ext2_disk, ext2_mounted, ext2_pc, ext2_call, ext2_node, ext2_offset,
    ext2_transfer>>
vars == <<part, cacheVars, partVars, fatVars, ext2Vars>>

(* Four blocks of one page and two slots; no request reaches the last      *)
(* block.                                                                  *)
Cache == INSTANCE NvmeCache WITH
    disk <- cache_disk, offset <- cache_offset, lba_count <- 8, cache_block_size <- 2,
    MAX_CACHED_BLOCKS <- 2, Bytes <- {0, 1}, Sizes <- {3}, Seeks <- 0 .. 3, PAGE_SIZE <- 2,
    Faults <- TRUE, Reach <- 6, MaxErrors <- 2

Partition(u, s, e) == [used |-> u, start_lba |-> s, end_lba |-> e]

(* Two partitions and an unused entry between them; two nodes on the first *)
(* partition, one on the second.                                           *)
Partitions == INSTANCE PartFs WITH
    offset <- part_offset, pc <- part_pc,
    Table <- <<Partition(TRUE, 2, 4), Partition(FALSE, 0, 0), Partition(TRUE, 5, 6)>>,
    Nodes <- {n1, n2, n3}, PartOf <- (n1 :> 1) @@ (n2 :> 1) @@ (n3 :> 3), Sector <- 2,
    Sizes <- {3}, Seeks <- {0, 1}, DiskSize <- 14

(* Disks of six clusters with two entries or two bytes each: a directory   *)
(* of two clusters, in a root of two clusters, and a file of two.          *)
Name(b, x) == [base |-> b, ext |-> x]
Long(b, x) == [kind |-> "long", name |-> Name(b, x), last |-> TRUE]
File(b, x, c, n) == [kind |-> "file", base |-> b, ext |-> x, cluster |-> c, size |-> n]
Dir(b, c) == [kind |-> "dir", base |-> b, ext |-> "", cluster |-> c]
Free == [kind |-> "free"]
Ends == [kind |-> "end"]

(* What the second cluster of the directory holds *)
Tails == {<<File("a", "", 7, 3), Ends>>, <<Free, File("a", "", 7, 4)>>,
          <<Long("f", "txt"), File("f~1", "txt", 7, 3)>>, <<File("f", "txt", 7, 3), Ends>>}

(* Clusters: root 2 and 3, the directory 4 and then 5, the file 7 and 6 *)
FatDisk(tail, first) ==
    [root |-> 2, fat |-> (2 :> 3 @@ 3 :> 0 @@ 4 :> 5 @@ 5 :> 0 @@ 6 :> 0 @@ 7 :> 6),
     dir |-> (2 :> <<Free, File("b", "", 7, 4)>> @@ 3 :> <<Free, Dir("d", 4)>> @@
              4 :> <<Dir(".", 4), File("longname", "", 7, 3)>> @@ 5 :> tail),
     data |-> (6 :> <<3, 4>> @@ 7 :> <<first, 2>>)]

FatPaths ==
    {<<Name("b", "")>>, <<Name("d", "")>>, <<Name("x", "")>>, <<Name("d", ""), Name("a", "")>>,
     <<Name("d", ""), Name("b", "")>>, <<Name("d", ""), Name("f", "txt")>>,
     <<Name("d", ""), Name("longnamed", "")>>, <<Name("d", ""), Name("longname", "txt")>>,
     <<Name("d", ""), Name("longname", "")>>, <<Name("b", ""), Name("a", "")>>}
Eight(n) ==
    CASE n.base \in {"longname", "longnamed"} -> "longname"
      [] n = Name("f", "txt") -> "f.txt"
      [] OTHER -> n.base

Fat == INSTANCE Fat32 WITH
    disk <- fat_disk, mounted <- fat_mounted, pc <- fat_pc, call <- fat_call,
    transfer <- fat_transfer, node <- fat_node, offset <- fat_offset,
    Disks <- {FatDisk(t, f) : t \in Tails, f \in {1, 9}}, Entries <- 2, ClusterSize <- 2,
    Paths <- FatPaths, First8 <- [n \in UNION {{p[k] : k \in DOMAIN p} : p \in FatPaths} |-> Eight(n)],
    Word <- 16, Garbage <- 0, NoExt <- "",
    ExtLen <- ("" :> 0 @@ "c" :> 1 @@ "txt" :> 3), Sizes <- 1 .. 3,
    Seeks <- {-3, -1, 0, 1, 2, 4}

(* Disks with two groups: in the first a root of two directory blocks, a   *)
(* subdirectory, a file of two blocks and one with a hole or behind the    *)
(* direct blocks; in the second a directory and a file.                    *)
E(n, i) == [name |-> n, inode |-> i]
Node(isDir, n, block) == [isDir |-> isDir, size |-> n, block |-> block]
Ext2Disk(n, second) ==
    [inode |-> <<Node(FALSE, 0, <<0, 0>>), Node(TRUE, 16, <<2, 3>>), Node(TRUE, 8, <<4, 0>>),
                 Node(FALSE, n, <<5, second>>), Node(TRUE, 8, <<7, 0>>), Node(FALSE, 0, <<0, 0>>),
                 Node(FALSE, 0, <<0, 0>>), Node(FALSE, 8, <<8, 0>>)>>,
     dir |-> (2 :> <<E(".", 2), E("x", 4)>> @@ 3 :> <<E("d", 3), E("f", 4), E("h", 5), E("k", 8)>> @@
              4 :> <<E(".", 3), E("..", 2), E("g", 4)>> @@ 7 :> <<E(".", 5), E("g", 4)>>)]
Ext2Paths ==
    {<<"f">>, <<"d", "g">>, <<"d", ".", "g">>, <<"d", "f">>, <<"f", "g">>, <<"d">>, <<".">>,
     <<"h">>, <<"h", "g">>, <<"k">>}

Ext2FS == INSTANCE Ext2 WITH
    disk <- ext2_disk, mounted <- ext2_mounted, pc <- ext2_pc, call <- ext2_call,
    node <- ext2_node, offset <- ext2_offset, transfer <- ext2_transfer,
    Disks <- {Ext2Disk(n, b) : n \in {3, 8, 13, 18}, b \in {0, 6}}, inodes_per_group <- 4,
    blockSize <- 8, Word <- 64, Direct <- 2, Blocks <- {5, 6}, Root <- 2, Paths <- Ext2Paths,
    Sizes <- {1, 7, 9, 17}, Seeks <- {-20, -5, -1, 0, 1, 4, 9}

-----------------------------------------------------------------------------
ASSUME
    /\ Cache!NvmeCacheConstants
    /\ Partitions!PartFsConstants
    /\ Fat!Fat32Constants
    /\ Ext2FS!Ext2Constants

Init ==
    /\ part \in Parts
    /\ Cache!Init
    /\ Partitions!Init
    /\ IF part = "fat32" THEN Fat!Init ELSE Fat!InitOn(FatDisk(<<Free, Ends>>, 1))
    /\ IF part = "ext2" THEN Ext2FS!Init ELSE Ext2FS!InitOn(Ext2Disk(3, 6))

Next ==
    \/ /\ UNCHANGED part
       /\ IF part = "cache" THEN Cache!Next ELSE UNCHANGED cacheVars
       /\ IF part = "partfs" THEN Partitions!Next ELSE UNCHANGED partVars
       /\ IF part = "fat32" THEN Fat!Next ELSE UNCHANGED fatVars
       /\ IF part = "ext2" THEN Ext2FS!Next ELSE UNCHANGED ext2Vars
    \/ part \in MayStop /\ UNCHANGED vars

Spec == Init /\ [][Next]_vars

-----------------------------------------------------------------------------
(* nvme_read and nvme_write implement an array of bytes across evictions   *)
(* and failed commands, until one that was to read into a slot in use has  *)
(* failed; a block is in at most one slot of the cache, and until then a   *)
(* slot that nvme_write has not touched agrees with the disk.              *)
IsBlockDevice == Cache!IsBlockDevice /\ [](part = "cache" => Cache!OneCopy)

(* partfs_read, partfs_write: a transfer whose node sought last moves the  *)
(* bytes at its own offset of its own partition and stays inside it; while *)
(* offsetDirty is clear the disk is where that node expects it.            *)
TransfersProper ==
    /\ Partitions!SeatedTransfersProper /\ Partitions!StaysInside
    /\ [](part = "partfs" => Partitions!CleanMeansSeated)

(* fat32_finddir returns an entry the path denotes, and NULL only when it  *)
(* denotes none, unless the name has a dot or more than eight characters   *)
(* and an entry without a long name may be taken for it; a fat32_readdir   *)
(* that ends has given every entry once and in order.                      *)
FatDirectories == Fat!FindExact /\ [](part = "fat32" => Fat!ListsAll)

(* fat32_read returns the bytes of the file at node->offset, whatever      *)
(* seeks and reads came before, unless a SEEK_SET to a negative offset has *)
(* left the file; nothing else leaves it.                                  *)
FatReadIsFile == Fat!ReadIsFile /\ Fat!StaysInside

(* ext2_finddir gives the inode a path denotes, and none only if it        *)
(* denotes none, in the first group and as long as nobody gets the memory  *)
(* it has freed and reads; it frees a block twice only if a name before    *)
(* the last is a file's. ext2_read from the first quarter of a block gives *)
(* the bytes at the offset if they are in that block; over several blocks  *)
(* each turn takes something and the offset moves by what is reported.     *)
Ext2Answers ==
    /\ Ext2FS!FindExact /\ Ext2FS!EveryTurnTakes
    /\ [](part = "ext2" => Ext2FS!FreedOnce /\ Ext2FS!CountsMatch /\ Ext2FS!SingleBlockRight)
=============================================================================

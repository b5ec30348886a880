-------------------------------- MODULE Ext2 --------------------------------
(***************************************************************************)
(* The ext2 file system, kernel/fs/ext2/ext2.c.  Its lock is held during a *)
(* whole call; a step is one turn of a loop.  A directory is a sequence of *)
(* blocks, each a sequence of entries; byte k of block b of the disk is    *)
(* the pair <<b, k>>, so that it shows where it was read from.             *)
(***************************************************************************)
EXTENDS Integers, Sequences, SequencesExt

CONSTANTS
    Disks,             \* [inode, dir]: inodes; the entries in directory blocks
    inodes_per_group,
    blockSize,
    Word,              \* offsets are computed modulo this, 2^64
    Direct,            \* number of direct block pointers
    Blocks,            \* blocks of the disk
    Root,              \* EXT2_INODE_ROOT
    Paths, Sizes, Seeks

Ext2Constants ==
    /\ inodes_per_group \in Nat \ {0} /\ Direct \in Nat \ {0}
    /\ blockSize \in Nat \ {0} /\ blockSize % 4 = 0 /\ Word \in Nat /\ Word % blockSize = 0
    /\ Blocks \subseteq Nat /\ Sizes \subseteq Nat \ {0} /\ Seeks \subseteq Int

VARIABLES
    disk, mounted,
    pc, call,          \* where the call is; the locals of finddir
    node, offset,      \* inode of the open node, 0 if there is none
    transfer           \* the locals of read

vars == <<disk, mounted, pc, call, node, offset, transfer>>

NoCall == [path |-> <<>>, asked |-> <<>>, inode |-> 0, block |-> 0, k |-> 0,
           kfrees |-> 0]   \* calls of kfree(tempData)
NoTransfer == [size |-> 0, from |-> 0, relativeBlock |-> 0, inBlock |-> 0, dataToRead |-> 0,
               readSize |-> 0, buffer |-> <<>>]

InitOn(d) ==
    /\ disk = d /\ mounted = FALSE
    /\ pc = "idle" /\ call = NoCall
    /\ node = 0 /\ offset = 0 /\ transfer = NoTransfer

Init == \E d \in Disks : InitOn(d)

(* ext2_mount; a wrong signature or group count mounts nothing. *)
ext2_mount ==
    /\ ~mounted /\ mounted' = TRUE
    /\ UNCHANGED <<disk, pc, call, node, offset, transfer>>

-----------------------------------------------------------------------------
(* get_inode_addr_info and ext2_read_inode_struct: the descriptor that is  *)
(* read for a later group is the first of that group's copy of the table,  *)
(* the one of group 0.                                                     *)
Inode(i) == disk.inode[((i - 1) % inodes_per_group) + 1]

(* getBlockFromFileBlockOffset: the branch for singly indirect blocks is   *)
(* never taken, and the others read two bytes of four into a variable      *)
(* without a value, so behind the direct blocks anything may come out.     *)
getBlockFromFileBlockOffset(inode, b) ==
    IF b < Direct THEN {inode.block[b + 1]} ELSE Blocks \cup {0}

-----------------------------------------------------------------------------
(* ext2_finddir *)
ext2_finddir(path) ==
    /\ mounted /\ pc = "idle" /\ node = 0
    /\ call' = [NoCall EXCEPT !.path = path, !.asked = path, !.inode = Root]
    /\ pc' = "component"
    /\ UNCHANGED <<disk, mounted, node, offset, transfer>>

(* The search ends with this inode; 0 is "Not found". *)
Result(i) ==
    /\ node' = i /\ offset' = 0 /\ pc' = "idle" /\ call' = NoCall
    /\ UNCHANGED <<disk, mounted, transfer>>

Onward(i) ==
    /\ call' = [call EXCEPT !.path = Tail(@), !.inode = i, !.kfrees = 0]
    /\ pc' = "component"
    /\ UNCHANGED <<disk, mounted, node, offset, transfer>>

(* find_file_inode_recursive up to its loop *)
Component ==
    /\ pc = "component"
    /\ IF Head(call.path) = "."
       THEN IF Len(call.path) = 1 THEN Result(call.inode) ELSE Onward(call.inode)
       ELSE IF ~Inode(call.inode).isDir THEN Result(0)
       ELSE /\ call' = [call EXCEPT !.block = 1, !.k = 1] /\ pc' = "scan"
            /\ UNCHANGED <<disk, mounted, node, offset, transfer>>

BlockEntries == disk.dir[Inode(call.inode).block[call.block]]

Entry == BlockEntries[call.k]

(* The next entry, "Read new block", or the end of the directory *)
Advance ==
    /\ \/ /\ call.k < Len(BlockEntries)
          /\ call' = [call EXCEPT !.k = @ + 1] /\ pc' = "scan"
       \/ /\ call.k = Len(BlockEntries) /\ call.block * blockSize < Inode(call.inode).size
          /\ call' = [call EXCEPT !.block = @ + 1, !.k = 1] /\ pc' = "scan"
       \/ /\ call.k = Len(BlockEntries) /\ call.block * blockSize >= Inode(call.inode).size
          /\ call' = [call EXCEPT !.kfrees = @ + 1] /\ pc' = "not found"
    /\ UNCHANGED <<disk, mounted, node, offset, transfer>>

(* One entry.  What is allocated for a match of the last component is not  *)
(* freed.                                                                  *)
Scan ==
    /\ pc = "scan"
    /\ IF Entry.name # Head(call.path) THEN Advance
       ELSE IF Len(call.path) = 1 THEN Result(Entry.inode)
       ELSE /\ call' = [call EXCEPT !.kfrees = @ + 1] /\ pc' = "freed"
            /\ UNCHANGED <<disk, mounted, node, offset, transfer>>

(* A match that is not the last component: entry->inode is read behind the *)
(* kfree, and if it is no directory so is the rest of the block.           *)
Freed ==
    /\ pc = "freed"
    /\ IF Inode(Entry.inode).isDir THEN Onward(Entry.inode) ELSE Advance

NotFound == pc = "not found" /\ Result(0)

(* Another kmalloc has got the memory that is still read: the search may   *)
(* end anywhere.                                                           *)
Reused ==
    /\ pc \in {"freed", "scan"} /\ call.kfrees > 0
    /\ \E i \in {0} \cup DOMAIN disk.inode : Result(i)

(* vfs_close *)
Close ==
    /\ pc = "idle" /\ node # 0
    /\ node' = 0 /\ offset' = 0
    /\ UNCHANGED <<disk, mounted, pc, call, transfer>>

-----------------------------------------------------------------------------
(* ext2_read.  The mask keeps the offset inside a quarter of a block. *)
fileSize == Inode(node).size
InBlock == offset % (blockSize \div 4)

ext2_read(size) ==
    /\ pc = "idle" /\ node # 0 /\ ~Inode(node).isDir
    /\ transfer' = [NoTransfer EXCEPT !.size = size, !.from = offset, !.inBlock = InBlock,
                        !.relativeBlock = offset \div blockSize,
                        !.dataToRead = blockSize - InBlock]
    /\ pc' = IF InBlock + size > blockSize THEN "blocks" ELSE "block"
    /\ UNCHANGED <<disk, mounted, call, node, offset>>

Bytes(b, from, n) == [k \in 1 .. n |-> <<b, from + k - 1>>]

(* A transfer to the start of the buffer *)
Over(new, old) == new \o SubSeq(old, Len(new) + 1, Len(old))

Return(t, to) ==
    /\ offset' = to /\ pc' = "returned" /\ transfer' = t
    /\ UNCHANGED <<disk, mounted, call, node>>

(* "Reaching EOF" *)
Cut(n) == IF (offset + n) % Word > fileSize THEN (fileSize - offset) % Word ELSE n

(* Mutant: only whole blocks are read. *)
NextChunkWhole(left) == (left \div blockSize) * blockSize

NextChunk(left) == IF left > blockSize THEN blockSize ELSE left

(* One turn of the loop over several blocks; each of them is read to the   *)
(* start of the buffer.                                                    *)
ReadBlocks ==
    LET t == transfer
        n == Cut(t.dataToRead)
        left == (t.size - n) % Word
        to == (offset + n) % Word
    IN  /\ pc = "blocks"
        /\ \E b \in getBlockFromFileBlockOffset(Inode(node), t.relativeBlock) :
              IF b < 2 THEN Return([t EXCEPT !.readSize = -1], offset)
              ELSE LET u == [t EXCEPT !.readSize = @ + n, !.size = left, !.inBlock = 0,
                                      !.buffer = Over(Bytes(b, t.inBlock, n), @),
                                      !.dataToRead = NextChunk(left),
                                      !.relativeBlock = (@ + 1) % (Word \div blockSize)]
                   IN  IF left = 0 \/ to >= fileSize THEN Return(u, to)
                       ELSE /\ transfer' = u /\ offset' = to
                            /\ UNCHANGED <<disk, mounted, pc, call, node>>

(* All in one block: dataToRead is computed and not used, and the offset   *)
(* of the node stays.                                                      *)
ReadBlock ==
    /\ pc = "block"
    /\ \E b \in getBlockFromFileBlockOffset(Inode(node), transfer.relativeBlock) :
          Return([transfer EXCEPT
                    !.readSize = IF b < 2 THEN -1 ELSE transfer.size,
                    !.buffer = IF b < 2 THEN @ ELSE Bytes(b, transfer.inBlock, transfer.size)], offset)

(* The caller takes the result. *)
Taken ==
    /\ pc = "returned" /\ pc' = "idle" /\ transfer' = NoTransfer
    /\ UNCHANGED <<disk, mounted, call, node, offset>>

(* ext2_lseek: as unsigned numbers, except that SEEK_END takes every       *)
(* negative offset.                                                        *)
SeekTarget(type, o) ==
    CASE type = "SEEK_SET" -> {o % Word} \cap 0 .. fileSize - 1
      [] type = "SEEK_END" -> IF o >= 0 THEN {} ELSE {(fileSize + o) % Word}
      [] type = "SEEK_CUR" -> {(offset + o) % Word} \cap 0 .. fileSize - 1

ext2_lseek(type, o) ==
    /\ pc = "idle" /\ node # 0 /\ ~Inode(node).isDir
    /\ \E to \in SeekTarget(type, o) : offset' = to
    /\ UNCHANGED <<disk, mounted, pc, call, node, transfer>>

Next ==
    \/ ext2_mount \/ Component \/ Scan \/ Freed \/ NotFound \/ Reused \/ Close \/ ReadBlocks \/ ReadBlock \/ Taken
    \/ \E path \in Paths : ext2_finddir(path)
    \/ \E size \in Sizes : ext2_read(size)
    \/ \E type \in {"SEEK_SET", "SEEK_END", "SEEK_CUR"}, o \in Seeks : ext2_lseek(type, o)

Spec == Init /\ [][Next]_vars

-----------------------------------------------------------------------------
(* Reference: the inodes a path denotes *)
EntriesOf(i) ==
    UNION {ToSet(disk.dir[disk.inode[i].block[b]]) : b \in 1 .. disk.inode[i].size \div blockSize}
Lookup(path) ==
    LET f[k \in 0 .. Len(path)] ==
            IF k = 0 THEN {Root}
            ELSE IF path[k] = "." THEN f[k - 1]
            ELSE UNION {{e.inode : e \in {x \in EntriesOf(i) : x.name = path[k] /\ x.inode # 0}} :
                            i \in {j \in f[k - 1] : disk.inode[j].isDir}}
    IN  f[Len(path)]

(* The path leads through inodes of the first group only; those of other   *)
(* groups are not found (ext2_read_inode_struct).                          *)
ProperPrefixes(path) == {SubSeq(path, 1, k) : k \in 1 .. Len(path) - 1}
InFirstGroup(path) == \A p \in ProperPrefixes(path) : Lookup(p) \subseteq 1 .. inodes_per_group

(* "Not found" (find_file_inode_recursive): ext2_finddir gives the inode a *)
(* path denotes, and none only if it denotes none, in directories of       *)
(* several blocks, as long as nobody gets the memory that the search has   *)
(* freed and reads.                                                        *)
FindExact ==
    [][(pc \in {"component", "scan", "not found"}) /\ pc' = "idle" /\ ~Reused
            /\ InFirstGroup(call.asked) =>
          IF node' = 0 THEN Lookup(call.asked) = {} ELSE node' \in Lookup(call.asked)]_vars

(* A search frees its block twice only if a name before the last one is    *)
(* that of a file.                                                         *)
FreedOnce ==
    call.kfrees > 1 /\ InFirstGroup(call.asked) =>
        \E p \in ProperPrefixes(call.asked) : \E i \in Lookup(p) : ~disk.inode[i].isDir

(* A read over several blocks takes the bytes up to the end of the request *)
(* or of the file and moves the offset by what it reports; also from an    *)
(* offset that a SEEK_END has left below 0.                                *)
CountsMatch ==
    pc = "returned" /\ transfer.readSize # -1 /\ offset # transfer.from =>
        /\ offset = (transfer.from + transfer.readSize) % Word
        /\ offset <= fileSize

(* A read of an inode of the first group that starts in the first quarter  *)
(* of a block and ends in that block and in the file gives the bytes of    *)
(* the file at the offset.                                                 *)
SingleBlockRight ==
    LET t == transfer
        inode == disk.inode[node]
    IN  pc = "returned" /\ t.readSize > 0 /\ offset = t.from /\ node <= inodes_per_group
        /\ offset + t.size <= inode.size /\ offset % blockSize < blockSize \div 4
        /\ offset \div blockSize < Direct =>
            t.buffer = Bytes(inode.block[offset \div blockSize + 1], offset % blockSize, t.size)

(* The loop over several blocks ends, whatever block numbers come out of   *)
(* the translation and wherever the offset is: each turn that is not the   *)
(* last takes something off the size that is left.                         *)
EveryTurnTakes ==
    [][pc = "blocks" /\ pc' = "blocks" => transfer'.size < transfer.size]_vars
=============================================================================

------------------------------- MODULE Fat32 -------------------------------
(***************************************************************************)
(* The FAT32 file system, kernel/fs/fat32/fat32.c.  customData->lock is    *)
(* held during a whole call, so calls follow each other; a step is one     *)
(* turn of a loop.  A disk has directory clusters, sequences of Entries    *)
(* entries, and data clusters, sequences of ClusterSize bytes.  A name is  *)
(* [base, ext]; an entry that follows long-name entries has the long name  *)
(* they spell; each of those carries the whole name here.  A file has the  *)
(* archive bit, 0x20.                                                      *)
(***************************************************************************)
EXTENDS Integers, Sequences, FiniteSets, SequencesExt

CONSTANTS
    Disks,         \* [root, fat, dir, data]: the disks that may be mounted
    Entries,       \* sectors_per_cluster * 16
    ClusterSize,
    Paths,         \* paths given to finddir, sequences of names
    First8,        \* the first eight characters of a name, its dot among them
    NoExt, ExtLen, \* no extension; the length of each
    Word,          \* offsets are computed modulo this, 2^64
    Garbage,       \* a byte that is not of the file
    Sizes, Seeks   \* arguments of read and lseek

Fat32Constants ==
    /\ Entries \in Nat \ {0} /\ ClusterSize \in Nat \ {0}
    /\ Sizes \subseteq Nat \ {0} /\ Seeks \subseteq Int
    /\ Word \in Nat \ {0} /\ Word % ClusterSize = 0
    /\ \A d \in Disks : \A c \in DOMAIN d.dir : c + 1 \in DOMAIN d.dir \cup DOMAIN d.data

VARIABLES
    disk, mounted,
    pc,            \* "idle", or the loop the call is in
    call,          \* the locals of finddir and readdir
    transfer,      \* the locals of read
    node, offset,  \* entry of the node that is open; node->offset
    d_ino, listed  \* position of a listing; the names it gave

vars == <<disk, mounted, pc, call, transfer, node, offset, d_ino, listed>>
search == <<call, d_ino, listed>>

End == [kind |-> "end"]
NoNode == [kind |-> "none"]
NoCall == [path |-> <<>>, cluster |-> 0, i |-> 0, ready |-> FALSE, long |-> "", asked |-> <<>>]
NoTransfer == [index |-> 0, read_size |-> 0, saved |-> 0, cluster |-> 0, data |-> <<>>]

InitOn(d) ==
    /\ disk = d /\ mounted = FALSE
    /\ pc = "idle" /\ call = NoCall /\ transfer = NoTransfer
    /\ node = NoNode /\ offset = 0
    /\ d_ino = [cluster |-> 0, i |-> 0] /\ listed = <<>>

Init == \E d \in Disks : InitOn(d)

(* fat32_mount; a wrong signature or an unknown device mounts nothing. *)
fat32_mount ==
    /\ ~mounted
    /\ mounted' = TRUE
    /\ UNCHANGED <<disk, pc, search, transfer, node, offset>>

-----------------------------------------------------------------------------
fat32_get_next_cluster(c) == IF c \in DOMAIN disk.fat THEN disk.fat[c] ELSE 0

(* What lies at an index of a cluster.  The index behind the last is the   *)
(* first entry of the cluster that follows on the disk, or the first bytes *)
(* of a file.                                                              *)
Raw(c, i) ==
    IF i < Entries THEN disk.dir[c][i + 1]
    ELSE IF c + 1 \in DOMAIN disk.dir THEN disk.dir[c + 1][1]
    ELSE [kind |-> IF disk.data[c + 1][1] = 0 THEN "end" ELSE "data"]

fat32_read_fat_entry(c, i) == IF c < 2 THEN End ELSE Raw(c, i)

Current == fat32_read_fat_entry(call.cluster, call.i)

(* The loops of finddir and readdir, up to an entry that is not special *)
Stop ==
    /\ pc \in {"find", "list"} /\ Current.kind = "end"
    /\ pc' = IF pc = "find" THEN "idle" ELSE "listed all"
    /\ call' = NoCall
    /\ UNCHANGED <<disk, mounted, transfer, node, offset, d_ino, listed>>

FollowChain ==
    /\ pc \in {"find", "list"} /\ Current.kind # "end" /\ call.i = Entries
    /\ call' = [call EXCEPT !.cluster = fat32_get_next_cluster(@), !.i = 0]
    /\ UNCHANGED <<disk, mounted, pc, transfer, node, offset, d_ino, listed>>

SkipFree ==
    /\ pc \in {"find", "list"} /\ call.i < Entries /\ Current.kind = "free"
    /\ call' = [call EXCEPT !.i = @ + 1]
    /\ UNCHANGED <<disk, mounted, pc, transfer, node, offset, d_ino, listed>>

(* "Handle long file names": the pieces come last one first; the one that  *)
(* is marked with 0x40 makes the name ready.                               *)
TakeLong ==
    /\ pc \in {"find", "list"} /\ call.i < Entries /\ Current.kind = "long"
    /\ call' = [call EXCEPT !.i = @ + 1, !.long = Current.name,
                            !.ready = @ \/ Current.last]
    /\ UNCHANGED <<disk, mounted, pc, transfer, node, offset, d_ino, listed>>

-----------------------------------------------------------------------------
(* fat32_compare_fs_ent_and_path looks for the dot one character too late, *)
(* so a path is compared as if it had no extension: its first eight        *)
(* characters, the dot and what follows among them, are the base.          *)
fat32_compare_fs_ent_and_path(e, name) == e.ext = NoExt /\ e.base = First8[name]

Matches(e) ==
    IF call.ready THEN call.long = Head(call.path)
    ELSE fat32_compare_fs_ent_and_path(e, Head(call.path))

Open(e) ==
    /\ node' = e /\ offset' = 0
    /\ d_ino' = [cluster |-> 0, i |-> 0] /\ listed' = <<>>
    /\ pc' = "idle" /\ call' = NoCall

Leave == [call EXCEPT !.i = @ + 1, !.ready = FALSE, !.long = ""]

(* Mutant: the rest of the path is looked for in the same directory. *)
DescendNowhere(e) == [Leave EXCEPT !.path = Tail(@)]

(* i is set to 0 and then incremented: the first entry is passed over. *)
Descend(e) == [Leave EXCEPT !.path = Tail(@), !.cluster = e.cluster, !.i = 1]

fat32_finddir(path) ==
    /\ mounted /\ pc = "idle" /\ node = NoNode
    /\ call' = [NoCall EXCEPT !.path = path, !.asked = path, !.cluster = disk.root]
    /\ pc' = "find"
    /\ UNCHANGED <<disk, mounted, transfer, node, offset, d_ino, listed>>

Examine ==
    LET e == Current
        last == Len(call.path) = 1
    IN  /\ pc = "find" /\ call.i < Entries /\ e.kind \in {"file", "dir"}
        /\ IF Matches(e) /\ last THEN Open(e)
           ELSE /\ call' = IF Matches(e) /\ e.kind = "dir" THEN Descend(e) ELSE Leave
                /\ UNCHANGED <<pc, node, offset, d_ino, listed>>
        /\ UNCHANGED <<disk, mounted, transfer>>

(* vfs_close; the node is forgotten. *)
Close ==
    /\ pc \in {"idle", "listed all"} /\ node # NoNode
    /\ node' = NoNode /\ offset' = 0 /\ listed' = <<>> /\ pc' = "idle"
    /\ d_ino' = [cluster |-> 0, i |-> 0]
    /\ UNCHANGED <<disk, mounted, call, transfer>>

-----------------------------------------------------------------------------
fat32_readdir ==
    /\ pc = "idle" /\ node.kind = "dir"
    /\ call' = [NoCall EXCEPT !.i = d_ino.i,
                    !.cluster = IF d_ino.cluster = 0 THEN node.cluster ELSE d_ino.cluster]
    /\ pc' = "list"
    /\ UNCHANGED <<disk, mounted, transfer, node, offset, d_ino, listed>>

(* "get the actual filename and the extension": an extension of fewer than *)
(* three characters is left out.                                           *)
Listed(e) ==
    IF call.ready THEN call.long
    ELSE [base |-> e.base, ext |-> IF ExtLen[e.ext] = 3 THEN e.ext ELSE NoExt]

Position == [cluster |-> call.cluster, i |-> call.i + 1]

Give ==
    /\ pc = "list" /\ call.i < Entries /\ Current.kind \in {"file", "dir"}
    /\ listed' = Append(listed, Listed(Current))
    /\ d_ino' = Position
    /\ pc' = "idle" /\ call' = NoCall
    /\ UNCHANGED <<disk, mounted, transfer, node, offset>>

-----------------------------------------------------------------------------
Cut(size) == IF (offset + size) % Word >= node.size THEN (node.size - offset) % Word ELSE size

(* Its clusterOffset loop: k steps along the chain *)
Along(first, k) ==
    LET f[j \in 0 .. k] == IF j = 0 THEN first ELSE fat32_get_next_cluster(f[j - 1]) IN f[k]

fat32_read(size) ==
    /\ pc = "idle" /\ node.kind = "file"
    /\ transfer' = [index |-> 0, read_size |-> Cut(size), saved |-> offset, data |-> <<>>,
                    cluster |-> Along(node.cluster, offset \div ClusterSize)]
    /\ pc' = "read"
    /\ UNCHANGED <<disk, mounted, search, node, offset>>

Smaller(a, b) == IF a > b THEN b ELSE a

(* What read_device_offset gives; there is no cluster behind the chain. *)
Stored(c, from, count) ==
    IF c \in DOMAIN disk.data THEN SubSeq(disk.data[c], from + 1, from + count)
    ELSE [i \in 1 .. count |-> Garbage]

(* Mutant: the chain is not followed. *)
ChunkStays(t) ==
    LET from == t.saved % ClusterSize
        count == Smaller(ClusterSize - from, t.read_size - t.index)
    IN  [t EXCEPT !.index = @ + count, !.saved = 0,
                  !.data = @ \o Stored(t.cluster, from, count)]

(* One turn of its loop *)
Chunk(t) ==
    LET from == t.saved % ClusterSize
        count == Smaller(ClusterSize - from, t.read_size - t.index)
    IN  [t EXCEPT !.index = @ + count, !.saved = 0,
                  !.data = @ \o Stored(t.cluster, from, count),
                  !.cluster = IF t.index + count < t.read_size
                              THEN fat32_get_next_cluster(@) ELSE @]

ReadChunk ==
    /\ pc = "read" /\ transfer.index < transfer.read_size
    /\ transfer' = Chunk(transfer)
    /\ UNCHANGED <<disk, mounted, pc, search, node, offset>>

ReadReturn ==
    /\ pc = "read" /\ transfer.index >= transfer.read_size
    /\ offset' = (offset + transfer.read_size) % Word
    /\ pc' = "idle" /\ transfer' = NoTransfer
    /\ UNCHANGED <<disk, mounted, search, node>>

(* The new offset, if there is one.  SEEK_SET takes what is negative for   *)
(* less than the length; SEEK_CUR compares as unsigned.                    *)
SeekTarget(type, o) ==
    CASE type = "SEEK_SET" -> IF o >= node.size THEN {} ELSE {o % Word}
      [] type = "SEEK_END" -> IF node.size + o < 0 \/ o >= 0 THEN {} ELSE {node.size + o}
      [] type = "SEEK_CUR" -> {(offset + o) % Word} \cap 0 .. node.size - 1

fat32_lseek(type, o) ==
    /\ pc = "idle" /\ node.kind = "file"
    /\ \E to \in SeekTarget(type, o) : offset' = to
    /\ UNCHANGED <<disk, mounted, pc, search, transfer, node>>

Next ==
    \/ fat32_mount \/ Stop \/ FollowChain \/ SkipFree \/ TakeLong \/ Examine \/ Close
    \/ \E path \in Paths : fat32_finddir(path)
    \/ fat32_readdir \/ Give \/ ReadChunk \/ ReadReturn
    \/ \E size \in Sizes : fat32_read(size)
    \/ \E type \in {"SEEK_SET", "SEEK_END", "SEEK_CUR"}, o \in Seeks : fat32_lseek(type, o)

Spec == Init /\ [][Next]_vars

-----------------------------------------------------------------------------
(* Reference: a directory is the entries of its whole chain up to the end  *)
(* mark; a path denotes entries component by component.                    *)
ChainOf(c) ==
    LET n == Cardinality(DOMAIN disk.fat)
        f[k \in 0 .. n] == IF k = 0 THEN <<c>>
            ELSE LET t == f[k - 1]
                     x == fat32_get_next_cluster(Last(t))
                 IN  IF x = 0 THEN t ELSE Append(t, x)
    IN  f[n]
Content(c, of) == FlattenSeq([k \in DOMAIN ChainOf(c) |-> of[ChainOf(c)[k]]])
Directory(c) ==
    LET all == Content(c, disk.dir)
        ends == {k \in DOMAIN all : all[k].kind = "end"}
    IN  IF ends = {} THEN all ELSE SubSeq(all, 1, (CHOOSE k \in ends : \A j \in ends : k <= j) - 1)
Named(c) ==
    LET d == Directory(c)
        name(k) == IF k > 1 /\ d[k - 1].kind = "long" THEN d[k - 1].name
                   ELSE [base |-> d[k].base, ext |-> d[k].ext]
        pair(k) == IF d[k].kind \in {"file", "dir"}
                   THEN <<[name |-> name(k), long |-> k > 1 /\ d[k - 1].kind = "long", entry |-> d[k]]>>
                   ELSE <<>>
    IN  FlattenSeq([k \in DOMAIN d |-> pair(k)])
Denoted(c, name) == {x.entry : x \in {y \in ToSet(Named(c)) : y.name = name}}
Lookup(path) ==
    LET f[k \in 0 .. Len(path)] ==
            IF k = 0 THEN {[kind |-> "dir", cluster |-> disk.root]}
            ELSE UNION {Denoted(e.cluster, path[k]) : e \in {x \in f[k - 1] : x.kind = "dir"}}
    IN  f[Len(path)]

(* The base of an entry that has no long name is what the path is compared *)
(* with: a name with an extension, or of more than eight characters, is    *)
(* clear when no such entry has its base or its first eight characters.    *)
ShortBases ==
    {x.name.base : x \in {y \in UNION {ToSet(Named(c)) : c \in DOMAIN disk.dir} : ~y.long}}
Clear(name) ==
    \/ name.ext = NoExt /\ First8[name] = name.base
    \/ {name.base, First8[name]} \cap ShortBases = {}

(* fat32_finddir returns an entry the path denotes, and NULL only when it  *)
(* denotes none, over chains of clusters, free entries and long names.     *)
FindExact ==
    [][pc = "find" /\ pc' = "idle" /\ (\A name \in ToSet(call.asked) : Clear(name)) =>
          IF node' = NoNode THEN Lookup(call.asked) = {} ELSE node' \in Lookup(call.asked)]_vars

(* "Found finish file" (fat32_readdir): when a listing ends it has given   *)
(* every entry of the directory once and in order.                         *)
ListsAll ==
    pc = "listed all" =>
        [k \in DOMAIN listed |-> listed[k].base] =
        [k \in DOMAIN Named(node.cluster) |-> Named(node.cluster)[k].name.base]

OffsetInside == node.kind = "file" => offset \in 0 .. node.size

(* fat32_read returns the bytes of the file at node->offset, whatever      *)
(* seeks and reads came before and wherever its clusters lie, when the     *)
(* offset is not behind the end.                                           *)
ReadIsFile ==
    [][pc = "read" /\ pc' = "idle" /\ OffsetInside =>
          transfer.data = SubSeq(Content(node.cluster, disk.data), offset + 1, offset')]_vars

(* Only SEEK_SET to a negative offset leaves the file; no other sequence   *)
(* of seeks and reads makes the size that fat32_read computes wrap.        *)
StaysInside ==
    [][OffsetInside /\ ~OffsetInside' => \E o \in Seeks : o < 0 /\ fat32_lseek("SEEK_SET", o)]_vars
=============================================================================

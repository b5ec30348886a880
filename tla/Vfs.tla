-------------------------------- MODULE Vfs --------------------------------
(***************************************************************************)
(* The virtual file system, kernel/fs/vfs.c, with the device file system   *)
(* of kernel/fs/devfs/devfs.c: threads that mount, and threads that open   *)
(* paths meanwhile.  VFSTree is walked one branch at a time, each lookup   *)
(* under the lock of one list of children.  A path is a sequence of names. *)
(***************************************************************************)
EXTENDS Integers, Sequences, SequencesExt

CONSTANTS
    Mounters,      \* threads that call vfs_mount
    Mount,         \* the path each of them mounts ("/" is the empty one)
    After,         \* the mount that comes before, in the same thread; or NULL
    DevFS,         \* what devfs_init mounts on /dev
    Devices,       \* names given to devfs_mount
    Openers,       \* threads that call kopen
    Opens,         \* paths they open
    Creating,      \* the file systems that have a create function
    Stored,        \* files of the file systems, as paths below the mount
    MaxOpens,      \* bound: calls of kopen by each opener
    NULL

VfsConstants ==
    /\ DevFS \notin Mounters /\ NULL \notin Mounters \cup {DevFS}
    /\ Creating \subseteq Mounters /\ MaxOpens \in Nat

Filesystems == Mounters \cup {DevFS}   \* a mounter's file system has its name
Threads == Mounters \cup Openers

VARIABLES
    tree,          \* VFSTree: branches [name, parent, node], the root first
    files,         \* paths the file systems hold
    pc, at, rest,  \* of each thread: where it is, its branch, names left
    start,         \* startPoint: the file system kopen searches
    path, creat, opens,
    result,        \* what kopen returned: [fs, file], or NULL
    seen           \* history: every answer that was right during the call

walk == <<pc, at, rest, start>>
call == <<path, creat, opens, result>>
vars == <<tree, files, walk, call, seen>>

Branch(n, p, fs) == [name |-> n, parent |-> p, node |-> fs]

(* vfs_init and devfs_init *)
Init ==
    /\ tree = <<Branch("root", 0, NULL), Branch("dev", 1, DevFS)>>
    /\ files = [fs \in Filesystems |-> IF fs = DevFS THEN {} ELSE Stored[fs]]
    /\ pc = [t \in Threads |-> "idle"]
    /\ at = [t \in Threads |-> 1]
    /\ rest = [t \in Threads |-> IF t \in Mounters THEN Mount[t] ELSE <<>>]
    /\ start = [t \in Openers |-> NULL]
    /\ path = [t \in Openers |-> <<>>] /\ creat = [t \in Openers |-> FALSE]
    /\ opens = [t \in Openers |-> 0]
    /\ result = [t \in Openers |-> NULL] /\ seen = [t \in Openers |-> {}]

Go(t, l) == pc' = [pc EXCEPT ![t] = l]

(* foreach over the children: the youngest comes first. *)
Child(in, b, n) ==
    LET its == {c \in DOMAIN in : in[c].parent = b /\ in[c].name = n}
    IN  IF its = {} THEN 0 ELSE Max(its)

-----------------------------------------------------------------------------
(* What kopen of a path means: the branches lead as far as they can, and   *)
(* the file system of the last one has to know the rest.                   *)
Deepest(in, p) ==
    FoldLeft(LAMBDA d, n :
                 LET c == Child(in, d.branch, n) IN
                 IF d.rest = <<>> /\ c # 0 THEN [d EXCEPT !.branch = c]
                 ELSE [d EXCEPT !.rest = Append(@, n)],
             [branch |-> 1, rest |-> <<>>], p)
Answer(in, held, p, create) ==
    LET d == Deepest(in, p)
        fs == in[d.branch].node
    IN  IF fs = NULL THEN NULL
        ELSE IF d.rest = <<>> \/ d.rest \in held[fs] \/ (create /\ fs \in Creating)
             THEN [fs |-> fs, file |-> d.rest]
        ELSE IF create THEN [fs |-> fs, file |-> <<>>] ELSE NULL

(* A step is watched by the calls that are under way. *)
Watched == seen' = [t \in Openers |->
    IF pc[t] = "idle" THEN seen[t] ELSE seen[t] \cup {Answer(tree', files', path[t], creat[t])}]

-----------------------------------------------------------------------------
(* Mounts of one thread follow each other. *)
MyTurn(t) == pc[t] = "idle" /\ (After[t] # NULL => pc[After[t]] = "mounted")

(* vfs_mount_recursive, one level: the lookup under the children's lock    *)
MountWalk(t) ==
    /\ MyTurn(t) /\ rest[t] # <<>>
    /\ LET c == Child(tree, at[t], Head(rest[t])) IN
       IF c = 0 THEN Go(t, "insert") /\ UNCHANGED <<at, rest>>
       ELSE /\ at' = [at EXCEPT ![t] = c]
            /\ rest' = [rest EXCEPT ![t] = Tail(@)]
            /\ UNCHANGED pc
    /\ UNCHANGED <<tree, files, start, call>> /\ Watched

(* gentree_insert, some time later *)
Insert(t) ==
    /\ pc[t] = "insert"
    /\ tree' = Append(tree, Branch(Head(rest[t]), at[t], NULL))
    /\ at' = [at EXCEPT ![t] = Len(tree) + 1]
    /\ rest' = [rest EXCEPT ![t] = Tail(@)]
    /\ Go(t, "idle")
    /\ UNCHANGED <<files, start, call>> /\ Watched

(* The end of the path, here or in vfs_mount for "/": looked at, ... *)
CheckMounted(t) ==
    /\ MyTurn(t) /\ rest[t] = <<>>
    /\ Go(t, IF tree[at[t]].node # NULL THEN "mounted" ELSE "set")
    /\ UNCHANGED <<tree, files, at, rest, start, call>> /\ Watched

(* ... then written. *)
SetNode(t) ==
    /\ pc[t] = "set"
    /\ tree' = [tree EXCEPT ![at[t]].node = t]
    /\ Go(t, "mounted")
    /\ UNCHANGED <<files, at, rest, start, call>> /\ Watched

(* devfs_mount, by any driver at any time *)
devfs_mount(name) ==
    /\ files' = [files EXCEPT ![DevFS] = @ \cup {<<name>>}]
    /\ UNCHANGED <<tree, walk, call>> /\ Watched

-----------------------------------------------------------------------------
Call(t, p, create) ==
    /\ pc[t] = "idle" /\ opens[t] < MaxOpens
    /\ opens' = [opens EXCEPT ![t] = @ + 1]
    /\ path' = [path EXCEPT ![t] = p] /\ creat' = [creat EXCEPT ![t] = create]
    /\ at' = [at EXCEPT ![t] = 1] /\ rest' = [rest EXCEPT ![t] = p]
    /\ seen' = [seen EXCEPT ![t] = {Answer(tree, files, p, create)}]
    /\ Go(t, "mountpoint")
    /\ UNCHANGED <<tree, files, start, result>>

(* vfs_get_mountpoint_recursive, one level *)
MountpointWalk(t) ==
    /\ pc[t] = "mountpoint"
    /\ LET c == IF rest[t] = <<>> THEN 0 ELSE Child(tree, at[t], Head(rest[t])) IN
       IF c = 0 THEN Go(t, "start") /\ UNCHANGED <<at, rest>>
       ELSE /\ at' = [at EXCEPT ![t] = c]
            /\ rest' = [rest EXCEPT ![t] = Tail(@)]
            /\ UNCHANGED pc
    /\ UNCHANGED <<tree, files, start, call>> /\ Watched

Return(t, r) ==
    /\ result' = [result EXCEPT ![t] = r]
    /\ Go(t, "idle") /\ at' = [at EXCEPT ![t] = 1] /\ rest' = [rest EXCEPT ![t] = <<>>]
    /\ start' = [start EXCEPT ![t] = NULL]
    /\ UNCHANGED <<tree, path, creat, opens>> /\ Watched

(* The node of the branch is read after the lock is given back. *)
Start(t) ==
    /\ pc[t] = "start" /\ UNCHANGED files
    /\ LET fs == tree[at[t]].node IN
       \/ /\ fs = NULL /\ Return(t, NULL)
       \/ /\ fs # NULL /\ rest[t] = <<>> /\ Return(t, [fs |-> fs, file |-> <<>>])
       \/ /\ fs # NULL /\ rest[t] # <<>>
          /\ start' = [start EXCEPT ![t] = fs]
          /\ Go(t, "finddir")
          /\ UNCHANGED <<tree, at, rest, call>> /\ Watched

(* devfs_finddir: a copy of the node of a device.  No device is a          *)
(* directory, so nothing is found below one.                               *)
devfs_finddir(names) == Len(names) = 1 /\ names \in files[DevFS]

(* vfs_finddir, under the lock of the file system: devfs takes one name,   *)
(* the disk file systems look for all the names at once.                   *)
vfs_finddir(fs, names) ==
    IF fs = DevFS THEN devfs_finddir(names) ELSE names \in files[fs]

(* Mutant: a name that is not there is given the file system's own node. *)
FinddirNever(t) ==
    /\ pc[t] = "finddir" /\ UNCHANGED files
    /\ Return(t, [fs |-> start[t],
                  file |-> IF vfs_finddir(start[t], rest[t]) THEN rest[t] ELSE <<>>])

Finddir(t) ==
    /\ pc[t] = "finddir" /\ UNCHANGED files
    /\ \/ /\ vfs_finddir(start[t], rest[t])
          /\ Return(t, [fs |-> start[t], file |-> rest[t]])
       \/ /\ ~vfs_finddir(start[t], rest[t]) /\ ~creat[t]
          /\ Return(t, NULL)
       \/ /\ ~vfs_finddir(start[t], rest[t]) /\ creat[t]
          /\ Go(t, "create")
          /\ UNCHANGED <<tree, at, rest, start, call>> /\ Watched

(* vfs_create.  Without such a function, or when somebody was faster,      *)
(* kopen falls back to the directory it searched.                          *)
Create(t) ==
    /\ pc[t] = "create"
    /\ IF start[t] \in Creating /\ rest[t] \notin files[start[t]]
       THEN /\ files' = [files EXCEPT ![start[t]] = @ \cup {rest[t]}]
            /\ Return(t, [fs |-> start[t], file |-> rest[t]])
       ELSE UNCHANGED files /\ Return(t, [fs |-> start[t], file |-> <<>>])

Next ==
    \/ \E t \in Mounters : MountWalk(t) \/ Insert(t) \/ CheckMounted(t) \/ SetNode(t)
    \/ \E name \in Devices : devfs_mount(name)
    \/ \E t \in Openers : MountpointWalk(t) \/ Start(t) \/ Finddir(t) \/ Create(t)
    \/ \E t \in Openers, p \in Opens, c \in BOOLEAN : Call(t, p, c)

Spec == Init /\ [][Next]_vars

-----------------------------------------------------------------------------
(* kopen is atomic: what it returns was the right answer at some moment    *)
(* of the call, although vfs_get_mountpoint takes and drops a lock for     *)
(* each branch while vfs_mount adds branches and gives them nodes.         *)
OpenIsAtomic ==
    [][\A t \in Openers : (pc[t] # "idle" /\ pc'[t] = "idle") => result'[t] \in seen'[t]]_vars

(* "Already mounted" (vfs_mount_recursive): a branch keeps its file system *)
(* and the tree only grows, so an open node never changes its meaning.     *)
MountsStay ==
    [][\A b \in DOMAIN tree :
          /\ b \in DOMAIN tree' /\ tree'[b].name = tree[b].name /\ tree'[b].parent = tree[b].parent
          /\ tree[b].node # NULL => tree'[b].node = tree[b].node]_tree

(* "Create a new branch with the not found name" (vfs_mount_recursive):    *)
(* the children of a branch have different names.                          *)
BranchesDiffer ==
    \A a, b \in DOMAIN tree :
        a # b => tree[a].parent # tree[b].parent \/ tree[a].name # tree[b].name
=============================================================================

------------------------------ MODULE Threads -------------------------------
(***************************************************************************)
(* thread_create and thread_recreate of a process: the slot, the pages of  *)
(* the stack, and what is laid out on it for the program.  Addresses on a  *)
(* stack are bytes below its top.  A string is its length; word w of the   *)
(* stack lies at depths w - 7 .. w.                                        *)
(***************************************************************************)
EXTENDS Integers, Sequences, SequencesExt

CONSTANTS
    Callers,            \* threads of the kernel that call thread_create
    MAX_THREADS,
    MaxCreates,         \* bound: threads made by each caller
    Argvs, Envps,       \* lengths of the strings passed, as sequences
    NULL, Nobody

ThreadsConstants == MAX_THREADS \in Nat \ {0} /\ MaxCreates \in Nat

VARIABLES
    threads,            \* process->threads: argv, envp, stack pages, rsp; NULL
    lock,               \* process->lock
    mapped,             \* [virtual page, counted down from the top -> frame]
    frames,             \* frames given out by pmm_alloc
    pc, tid,            \* of each caller
    made                \* history: tids each caller was given, in this program

vars == <<threads, lock, mapped, frames, pc, tid, made>>

StackPages == 4

Init ==
    /\ threads = [i \in 0 .. MAX_THREADS - 1 |-> NULL] /\ lock = Nobody
    /\ mapped = [v \in {} |-> 0] /\ frames = 0
    /\ pc = [c \in Callers |-> "idle"] /\ tid = [c \in Callers |-> 0]
    /\ made = [c \in Callers |-> <<>>]

-----------------------------------------------------------------------------
(* What a new program finds on its stack *)

(* The strings go down from the top, those of envp before those of argv;   *)
(* string k begins at depth Placed(s)[k].                                  *)
Placed(s) ==
    LET down[k \in 0 .. Len(s)] == IF k = 0 THEN 0 ELSE down[k - 1] + s[k] + 1 IN down

(* Mutant: the pad is counted without argc. *)
PadWithoutArgc(n) == IF n % 2 = 1 THEN 8 ELSE 0

Pad(n) == IF (n + 1) % 2 = 1 THEN 8 ELSE 0
Vector(argv, envp) ==
    LET d == Placed(envp \o argv)[Len(envp \o argv)]
    IN  d + ((16 - (d % 16)) % 16) + Pad(Len(argv) + Len(envp))

(* sa goes over the strings once more, in the same order. *)
Pointers(argv, envp) ==
    [env |-> [i \in DOMAIN envp |-> Placed(envp)[i]],
     arg |-> [i \in DOMAIN argv |-> Placed(envp \o argv)[Len(envp) + i]]]

(* The words in the order they are pushed: an empty auxiliary entry, entry, *)
(* phdr, phent and phnum with their types, the pointers between zeros, and *)
(* argc.                                                                   *)
Words(argv, envp) ==
    <<0, 0, "entry", 9, "phdr", 3, "phent", 4, "phnum", 5, 0>> \o
    Reverse(Pointers(argv, envp).env) \o <<0>> \o
    Reverse(Pointers(argv, envp).arg) \o <<Len(argv)>>

(* A thread with an entry point has nothing on its stack. *)
Stack(argv, envp) ==
    [argv |-> argv, envp |-> envp,
     vector |-> Vector(argv, envp), words |-> Words(argv, envp),
     rsp |-> Vector(argv, envp) + 8 * Len(Words(argv, envp))]
EmptyStack == [argv |-> <<>>, envp |-> <<>>, vector |-> 0, words |-> <<>>, rsp |-> 0]

-----------------------------------------------------------------------------
(* Page v is the v-th below STACK_LOCATION_TOP. *)
GuardPage(i) == (StackPages + 1) * (i + 1)

StackOf(i) == (GuardPage(i) - StackPages) .. (GuardPage(i) - 1)

(* vmm_map of the stack, vmm_unmap of the page below it *)
Remapped(map, i) ==
    [v \in (DOMAIN map \cup StackOf(i)) \ {GuardPage(i)} |->
        IF v \in StackOf(i) THEN frames + (GuardPage(i) - v) ELSE map[v]]

Begin(c) ==
    /\ pc[c] = "idle" /\ Len(made[c]) < MaxCreates /\ lock = Nobody
    /\ lock' = c /\ pc' = [pc EXCEPT ![c] = "slot"]
    /\ UNCHANGED <<threads, mapped, frames, tid, made>>

FindSlot(c) ==
    LET none == {i \in DOMAIN threads : threads[i] = NULL} IN
    /\ pc[c] = "slot"
    /\ \/ /\ none # {}
          /\ tid' = [tid EXCEPT ![c] = CHOOSE i \in none : \A j \in none : i <= j]
          /\ pc' = [pc EXCEPT ![c] = "stack"] /\ UNCHANGED lock
       \/ none = {} /\ lock' = Nobody /\ pc' = [pc EXCEPT ![c] = "full"] /\ UNCHANGED tid
    /\ UNCHANGED <<threads, mapped, frames, made>>

MapStack(c) ==
    /\ pc[c] = "stack"
    /\ mapped' = Remapped(mapped, tid[c])
    /\ frames' = frames + StackPages
    /\ pc' = [pc EXCEPT ![c] = "publish"]
    /\ UNCHANGED <<threads, lock, tid, made>>

(* The context is set, the thread put in its slot. *)
Publish(c, stack) ==
    /\ pc[c] = "publish"
    /\ threads' = [threads EXCEPT ![tid[c]] = stack]
    /\ made' = [made EXCEPT ![c] = Append(@, tid[c])]
    /\ lock' = Nobody /\ pc' = [pc EXCEPT ![c] = "idle"] /\ tid' = [tid EXCEPT ![c] = 0]
    /\ UNCHANGED <<mapped, frames>>

(* execve: the other threads are gone, the page table is new, and thread 0 *)
(* is made again in place.  memoryStackPhys has been cleared, so the stack *)
(* is always new.                                                          *)
thread_recreate(argv, envp) ==
    /\ lock = Nobody /\ threads[0] # NULL /\ frames < MaxCreates * StackPages * 3
    /\ \A c \in Callers : pc[c] \in {"idle", "full"}
    /\ threads' = [i \in DOMAIN threads |-> IF i = 0 THEN Stack(argv, envp) ELSE NULL]
    /\ mapped' = Remapped([v \in {} |-> 0], 0) /\ frames' = frames + StackPages
    /\ made' = [c \in Callers |-> <<>>]
    /\ UNCHANGED <<lock, pc, tid>>

Next ==
    \/ \E c \in Callers :
        \/ Begin(c) \/ FindSlot(c) \/ MapStack(c)
        \/ \E argv \in Argvs, envp \in Envps : Publish(c, Stack(argv, envp))
        \/ Publish(c, EmptyStack)
    \/ \E argv \in Argvs, envp \in Envps : thread_recreate(argv, envp)

Spec == Init /\ [][Next]_vars

-----------------------------------------------------------------------------
(* Properties *)

Programs == {threads[i] : i \in {j \in DOMAIN threads : threads[j] # NULL /\ threads[j] # EmptyStack}}

(* The n-th word above rsp, and the depths string k takes up *)
Word(s, n) == s.words[Len(s.words) - n]
Bytes(s, k) ==
    LET all == s.envp \o s.argv
    IN  (Placed(all)[k] - all[k]) .. Placed(all)[k]

(* A program starts with what the System V ABI promises: rsp a multiple of *)
(* 16, argc, the pointers of argv and of envp, each list ended by 0, then  *)
(* the auxiliary vector ended by 0; every pointer is the first byte of its *)
(* string, and neither strings nor words lie over one another.             *)
StackIsAbi ==
    \A s \in Programs :
        LET a == Len(s.argv)
            e == Len(s.envp)
        IN  /\ s.rsp % 16 = 0
            /\ Word(s, 0) = a /\ Word(s, a + 1) = 0 /\ Word(s, a + e + 2) = 0
            /\ \A i \in 1 .. a : Word(s, i) \in Bytes(s, e + i) /\ Word(s, i) + 1 \notin Bytes(s, e + i)
            /\ \A i \in 1 .. e : Word(s, a + 1 + i) \in Bytes(s, i) /\ Word(s, a + 1 + i) + 1 \notin Bytes(s, i)
            /\ [i \in 1 .. 5 |-> Word(s, a + e + 1 + 2 * i)] = <<5, 4, 3, 9, 0>>
            /\ \A j, k \in 1 .. a + e : j # k => Bytes(s, j) \cap Bytes(s, k) = {}
            /\ \A k \in 1 .. a + e : \A d \in Bytes(s, k) : d <= s.vector

(* No two calls of thread_create are given the same slot. *)
SlotsOnce ==
    \A c, d \in Callers : \A i \in DOMAIN made[c], j \in DOMAIN made[d] :
        made[c][i] = made[d][j] => c = d /\ i = j

(* Whatever threads were made after it, in whatever order, a thread has    *)
(* all pages of its stack, in frames of its own, above a page that is not  *)
(* mapped.                                                                 *)
StacksGuarded ==
    \A i \in DOMAIN threads : threads[i] # NULL =>
        /\ StackOf(i) \subseteq DOMAIN mapped /\ GuardPage(i) \notin DOMAIN mapped
        /\ \A v \in StackOf(i), w \in DOMAIN mapped : mapped[v] = mapped[w] => v = w
=============================================================================

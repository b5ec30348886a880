-------------------------------- MODULE Pipe --------------------------------
(***************************************************************************)
(* One pipe of kernel/fs/pipe/pipe.c: a growing buffer under a spinlock,   *)
(* and an event its readers sleep on.  The two vfs nodes that pipe_create  *)
(* returns share all of it.  Everything between lock and unlock is one     *)
(* step, except for the event, which sleepers read without the lock.       *)
(* data->flags is never set, so every read blocks.                         *)
(***************************************************************************)
EXTENDS Integers, Sequences, FiniteSets

CONSTANTS
    Readers, Writers,  \* threads that use the pipe
    Nobody,            \* the lock is free
    Bytes, Garbage,    \* byte values; what lies behind the data
    Messages,          \* what writers write, sequences of bytes
    ReadSizes,         \* how many bytes readers ask for
    readFirstData,     \* pipe_set_read_at_first_data
    PIPE_BUFFER_STEP,
    MaxSize,           \* bound: writers wait while the pipe holds this much
    EventModulus       \* 2^16, the width of event_t

PipeConstants ==
    /\ Nobody \notin Readers \cup Writers /\ Garbage \notin Bytes
    /\ Messages \subseteq Seq(Bytes) /\ ReadSizes \subseteq Nat
    /\ readFirstData \in BOOLEAN /\ PIPE_BUFFER_STEP \in Nat \ {0}
    /\ MaxSize \in Nat /\ EventModulus \in Nat \ {0, 1}

VARIABLES
    lock,              \* the thread that holds data->lock
    buffer,            \* the data->size bytes in data->buffer
    capacity,          \* the bytes allocated for data->buffer
    event, reference_count,
    poll_status,       \* POLLIN is set in the read node's status
    freed,             \* pipe_close has freed data
    pc, size,          \* where a thread is, what its read asks for
    delivered          \* what the last pipe_read copied to its caller

data == <<buffer, capacity, poll_status>>
vars == <<lock, data, event, reference_count, freed, pc, size, delivered>>

Threads == Readers \cup Writers

(* pipe_create *)
Init ==
    /\ lock = Nobody /\ buffer = <<>> /\ capacity = 0
    /\ event = 0 /\ reference_count = 2 /\ poll_status = FALSE /\ freed = FALSE
    /\ pc = [t \in Threads |-> "idle"] /\ size = [r \in Readers |-> 0]
    /\ delivered = <<>>

Go(t, l) == pc' = [pc EXCEPT ![t] = l]
ROUND_UP(n) == ((n + PIPE_BUFFER_STEP - 1) \div PIPE_BUFFER_STEP) * PIPE_BUFFER_STEP
Decremented == (event - 1) % EventModulus

-----------------------------------------------------------------------------
(* pipe_read *)

CallRead(r) ==
    /\ pc[r] = "idle" /\ ~freed
    /\ \E n \in ReadSizes : size' = [size EXCEPT ![r] = n]
    /\ Go(r, "lock")
    /\ UNCHANGED <<lock, data, event, reference_count, freed, delivered>>

LockRead(r) ==
    /\ pc[r] = "lock" /\ lock = Nobody
    /\ lock' = r /\ Go(r, "check")
    /\ UNCHANGED <<data, event, reference_count, freed, size, delivered>>

(* The condition of the while loop, its first branch and its second one up *)
(* to event_await.                                                         *)
Check(r) ==
    /\ pc[r] = "check"
    /\ \/ /\ size[r] <= Len(buffer)
          /\ Go(r, "reset") /\ UNCHANGED <<lock, size>>
       \/ /\ size[r] > Len(buffer) /\ reference_count = 1
          /\ size' = [size EXCEPT ![r] = Len(buffer)]
          /\ Go(r, "reset") /\ UNCHANGED lock
       \/ /\ size[r] > Len(buffer) /\ reference_count # 1
          /\ lock' = Nobody
          /\ Go(r, "await") /\ UNCHANGED size
    /\ UNCHANGED <<data, event, reference_count, freed, delivered>>

(* event_await: locked_read and locked_dec are two instructions, and so    *)
(* are they in the scheduler that looks for sleepers to wake.              *)
AwaitRead(r) ==
    /\ pc[r] = "await"
    /\ Go(r, IF event # 0 THEN "dec" ELSE "sleep")
    /\ UNCHANGED <<lock, data, event, reference_count, freed, size, delivered>>

Wake(r) ==
    /\ pc[r] = "sleep" /\ event # 0
    /\ Go(r, "dec")
    /\ UNCHANGED <<lock, data, event, reference_count, freed, size, delivered>>

AwaitDec(r) ==
    /\ pc[r] = "dec"
    /\ event' = Decremented
    /\ Go(r, "relock")
    /\ UNCHANGED <<lock, data, reference_count, freed, size, delivered>>

(* Mutant: the reader does not take the lock again. *)
RelockForgotten(r) ==
    /\ pc[r] = "relock"
    /\ Go(r, "check")
    /\ UNCHANGED <<lock, data, event, reference_count, freed, size, delivered>>

Relock(r) ==
    /\ pc[r] = "relock" /\ lock = Nobody
    /\ lock' = r
    /\ IF readFirstData
       THEN size' = [size EXCEPT ![r] = Len(buffer)] /\ Go(r, "reset")
       ELSE Go(r, "check") /\ UNCHANGED size
    /\ UNCHANGED <<data, event, reference_count, freed, delivered>>

(* event_reset *)
ResetRead(r) ==
    /\ pc[r] = "reset"
    /\ Go(r, IF event # 0 THEN "resetDec" ELSE "copy")
    /\ UNCHANGED <<lock, data, event, reference_count, freed, size, delivered>>

ResetDec(r) ==
    /\ pc[r] = "resetDec"
    /\ event' = Decremented
    /\ Go(r, "reset")
    /\ UNCHANGED <<lock, data, reference_count, freed, size, delivered>>

CapacityAfterRead(n) ==
    IF ROUND_UP(n) < ROUND_UP(Len(buffer)) THEN ROUND_UP(n) ELSE capacity

PollAfterRead(n) == n # 0 /\ poll_status

Copy(r) ==
    LET left == Len(buffer) - size[r] IN
    /\ pc[r] = "copy"
    /\ delivered' = [i \in 1 .. size[r] |->
                        IF i <= Len(buffer) THEN buffer[i] ELSE Garbage]
    /\ buffer' = SubSeq(buffer, size[r] + 1, Len(buffer))
    /\ capacity' = CapacityAfterRead(left)
    /\ poll_status' = PollAfterRead(left)
    /\ lock' = Nobody
    /\ Go(r, "idle")
    /\ size' = [size EXCEPT ![r] = 0]
    /\ UNCHANGED <<event, reference_count, freed>>

-----------------------------------------------------------------------------
(* pipe_write *)

Write(w) ==
    /\ pc[w] = "idle" /\ ~freed /\ lock = Nobody
    /\ \E m \in Messages :
          /\ Len(buffer) + Len(m) <= MaxSize
          /\ buffer' = buffer \o m
    /\ capacity' = IF ROUND_UP(Len(buffer')) > ROUND_UP(Len(buffer))
                   THEN ROUND_UP(Len(buffer')) ELSE capacity
    /\ poll_status' = TRUE
    /\ lock' = w /\ Go(w, "notify")
    /\ UNCHANGED <<event, reference_count, freed, size, delivered>>

(* Mutant: the notification is left out. *)
NotifyForgotten(w) ==
    /\ pc[w] = "notify"
    /\ lock' = Nobody /\ Go(w, "idle")
    /\ UNCHANGED <<data, event, reference_count, freed, size, delivered>>

Notify(w) ==
    /\ pc[w] = "notify"
    /\ event' = (event + 1) % EventModulus
    /\ lock' = Nobody /\ Go(w, "idle")
    /\ UNCHANGED <<data, reference_count, freed, size, delivered>>

(* pipe_close of an end whose users have left their calls. *)
Close(end) ==
    /\ \A t \in end : pc[t] = "idle"
    /\ lock = Nobody
    /\ reference_count' = reference_count - 1
    /\ IF reference_count' # 0
       THEN event' = (event + 1) % EventModulus /\ UNCHANGED <<capacity, freed>>
       ELSE /\ freed' = TRUE
            /\ capacity' = IF buffer # <<>> THEN 0 ELSE capacity
            /\ UNCHANGED event
    /\ pc' = [t \in Threads |-> IF t \in end THEN "closed" ELSE pc[t]]
    /\ UNCHANGED <<lock, buffer, poll_status, size, delivered>>
CloseRead == Close(Readers)
CloseWrite == Close(Writers)

ReadStep(r) ==
    \/ LockRead(r) \/ Check(r) \/ AwaitRead(r) \/ Wake(r) \/ AwaitDec(r)
    \/ Relock(r) \/ ResetRead(r) \/ ResetDec(r) \/ Copy(r)

Next ==
    \/ \E r \in Readers : CallRead(r) \/ ReadStep(r)
    \/ \E w \in Writers : Write(w) \/ Notify(w)
    \/ CloseRead \/ CloseWrite

Spec == Init /\ [][Next]_vars

(* Every thread that can go on does, and gets a lock that is free again    *)
(* and again.                                                              *)
Fairness ==
    /\ \A r \in Readers : /\ WF_vars(ReadStep(r))
                          /\ SF_vars(LockRead(r)) /\ SF_vars(Relock(r))
    /\ \A w \in Writers : WF_vars(Notify(w))
FairSpec == Spec /\ Fairness

-----------------------------------------------------------------------------
(* Properties *)

(* Every variable keeps the range its C type and the code's values give    *)
(* it, and no read returns what lies behind the data.                      *)
TypeOK ==
    /\ lock \in Threads \cup {Nobody} /\ buffer \in Seq(Bytes) /\ capacity \in Nat
    /\ event \in 0 .. EventModulus - 1 /\ reference_count \in 0 .. 2
    /\ poll_status \in BOOLEAN /\ freed \in BOOLEAN
    /\ pc \in [Threads -> {"idle", "lock", "check", "await", "sleep", "dec", "relock",
                           "reset", "resetDec", "copy", "notify", "closed"}]
    /\ size \in [Readers -> Nat] /\ delivered \in Seq(Bytes)

(* Several readers and writers see one stream of bytes: what a read finds  *)
(* is decided before event_reset and used after it, and another reader may *)
(* have been there while this one slept.                                   *)
Stream == INSTANCE ByteStream WITH stream <- buffer
StreamOfBytes == Stream!Spec

(* The buffer is never smaller than the data in it, and a pipe that is     *)
(* empty or freed owns no buffer: pipe_close frees data->buffer only if    *)
(* data->size is not 0.                                                    *)
BufferFits ==
    /\ ~freed => Len(buffer) <= capacity
    /\ freed \/ (buffer = <<>> /\ lock = Nobody) => capacity = 0

(* Whoever polls the read node sees POLLIN exactly while there is data. *)
PollShowsData ==
    lock = Nobody /\ ~freed => (poll_status <=> buffer # <<>>)

(* No lost wakeup: a reader whose bytes have come, or whose peer is gone,  *)
(* returns, although event_reset throws notifications away.                *)
ReaderReturns ==
    \A r \in Readers :
        (/\ pc[r] \notin {"idle", "closed"}
         /\ size[r] <= Len(buffer) \/ reference_count = 1)
            ~> pc[r] \in {"idle", "closed"}

(* One reader's event_await and event_reset never take the count of        *)
(* notifications below 0.                                                  *)
NoEventUnderflow == [][event = 0 => event' \in {0, 1}]_event
=============================================================================

----------------------------- MODULE PipeProofs -----------------------------
(***************************************************************************)
(* A pipe implements a stream of bytes, for any number of readers and      *)
(* writers and any sizes of reads and messages.                            *)
(***************************************************************************)
EXTENDS Pipe, SequenceTheorems, TLAPS

(* Where data->lock is held, and where a read has decided on its size. *)
Inside == {"check", "reset", "resetDec", "copy", "notify"}
Decided == {"reset", "resetDec", "copy"}
Places == Inside \cup {"idle", "lock", "await", "sleep", "dec", "relock", "closed"}

(* Whoever is inside holds the lock, so that the bytes a read has found    *)
(* are still there when it copies them.                                    *)
IInv ==
    /\ buffer \in Seq(Bytes) /\ size \in [Readers -> Nat]
    /\ pc \in [Threads -> Places]
    /\ \A t \in Threads : pc[t] \in Inside => lock = t
    /\ \A r \in Readers : pc[r] \in Decided => size[r] <= Len(buffer)

(* A new pipe is empty and nobody is inside. *)
LEMMA InitIInv == PipeConstants /\ Init => IInv
BY DEF Init, IInv, Inside, Decided, Places, Threads

(* Steps of a reader that leave the data alone. *)
LEMMA QuietStep ==
  ASSUME PipeConstants, IInv, NEW r \in Readers,
         \/ CallRead(r) \/ LockRead(r) \/ Check(r) \/ AwaitRead(r) \/ Wake(r)
         \/ AwaitDec(r) \/ Relock(r) \/ ResetRead(r) \/ ResetDec(r)
  PROVE  IInv' /\ UNCHANGED <<buffer, delivered>>
<1> USE DEF Threads, Inside, Decided, Places, Go, data
<1>0. Nobody \notin Threads /\ Len(buffer) \in Nat
  BY DEF PipeConstants, IInv
<1>1. CASE CallRead(r)
  BY <1>0, <1>1 DEF CallRead, IInv, PipeConstants
<1>2. CASE LockRead(r)
  BY <1>0, <1>2 DEF LockRead, IInv
<1>3. CASE Check(r)
  <2>1. /\ lock = r /\ size[r] \in Nat /\ pc' \in [Threads -> Places]
        /\ UNCHANGED <<buffer, delivered>>
    BY <1>3 DEF Check, IInv
  <2>2. \A t \in Threads : t # r => pc[t] \notin Inside /\ pc'[t] = pc[t]
    BY <1>3, <2>1 DEF Check, IInv
  <2>3. \/ pc'[r] = "reset" /\ lock' = r /\ size' \in [Readers -> Nat]
           /\ size'[r] <= Len(buffer)
        \/ pc'[r] = "await" /\ size' = size
    BY <1>0, <1>3, <2>1 DEF Check, IInv
  <2> QED BY <1>0, <2>1, <2>2, <2>3 DEF IInv
<1>4. CASE AwaitRead(r)
  BY <1>0, <1>4 DEF AwaitRead, IInv
<1>5. CASE Wake(r)
  BY <1>0, <1>5 DEF Wake, IInv
<1>6. CASE AwaitDec(r)
  BY <1>0, <1>6 DEF AwaitDec, IInv
<1>7. CASE Relock(r)
  <2>1. /\ lock = Nobody /\ lock' = r /\ pc' \in [Threads -> Places]
        /\ UNCHANGED <<buffer, delivered>>
    BY <1>7 DEF Relock, IInv
  <2>2. \A t \in Threads : t # r => pc[t] \notin Inside /\ pc'[t] = pc[t]
    BY <1>0, <1>7, <2>1 DEF Relock, IInv
  <2>3. \/ pc'[r] = "reset" /\ size' \in [Readers -> Nat] /\ size'[r] = Len(buffer)
        \/ pc'[r] = "check" /\ size' = size
    BY <1>0, <1>7, <2>1 DEF Relock, IInv
  <2> QED BY <1>0, <2>1, <2>2, <2>3 DEF IInv
<1>8. CASE ResetRead(r)
  BY <1>0, <1>8 DEF ResetRead, IInv
<1>9. CASE ResetDec(r)
  BY <1>0, <1>9 DEF ResetDec, IInv
<1> QED BY <1>1, <1>2, <1>3, <1>4, <1>5, <1>6, <1>7, <1>8, <1>9

(* The copy delivers the bytes at the front and takes them away. *)
LEMMA CopyStep ==
  ASSUME PipeConstants, IInv, NEW r \in Readers, Copy(r)
  PROVE  IInv' /\ Stream!Read
<1>0. /\ buffer \in Seq(Bytes) /\ size[r] \in Nat /\ size[r] <= Len(buffer)
      /\ Len(buffer) \in Nat /\ lock = r
  <2>1. pc[r] = "copy" /\ r \in Threads
    BY DEF Copy, Threads
  <2> QED BY <2>1 DEF IInv, Inside, Decided
<1>1. buffer' \in Seq(Bytes)
  BY <1>0, SubSeqProperties DEF Copy
<1>2. IInv'
  <2>1. size' \in [Readers -> Nat] /\ pc' \in [Threads -> Places]
    BY DEF Copy, Go, IInv, Places
  <2>2. ASSUME NEW t \in Threads, pc'[t] \in Inside PROVE FALSE
    BY <1>0, <2>2 DEF IInv, Copy, Go, Inside, Threads
  <2>3. Readers \subseteq Threads /\ Decided \subseteq Inside
    BY DEF Threads, Decided, Inside
  <2> QED BY <1>1, <2>1, <2>2, <2>3 DEF IInv
<1>3. delivered' = SubSeq(buffer, 1, size[r])
  <2>1. delivered' = [i \in 1 .. size[r] |-> buffer[i]]
    BY <1>0 DEF Copy
  <2> QED BY <1>0, <2>1
<1>4. buffer' = SubSeq(buffer, size[r] + 1, Len(buffer))
  BY DEF Copy
<1>5. size[r] \in 0 .. Len(buffer)
  BY <1>0
<1> QED BY <1>2, <1>3, <1>4, <1>5, Zenon DEF Stream!Read

(* A write appends its message. *)
LEMMA WriteStep ==
  ASSUME PipeConstants, IInv, NEW w \in Writers, Write(w)
  PROVE  IInv' /\ Stream!Write
<1>1. PICK m \in Messages : buffer' = buffer \o m
  BY DEF Write
<1>2. m \in Seq(Bytes) /\ buffer \in Seq(Bytes)
  BY DEF PipeConstants, IInv
<1>3. /\ buffer' \in Seq(Bytes) /\ Len(buffer') = Len(buffer) + Len(m)
      /\ Len(buffer) \in Nat /\ Len(m) \in Nat
      /\ \A i \in 1 .. Len(buffer) : buffer'[i] = buffer[i]
  BY <1>1, <1>2
<1>4. IInv'
  BY <1>3 DEF PipeConstants, IInv, Write, Go, Inside, Decided, Places, Threads
<1>5. SubSeq(buffer', 1, Len(buffer)) = buffer
  BY <1>1, <1>2, <1>3
<1>6. \A i \in Len(buffer) + 1 .. Len(buffer') : buffer'[i] \in Bytes
  BY <1>3, ElementOfSeq
<1>7. Len(buffer) \in 0 .. Len(buffer') /\ UNCHANGED delivered
  BY <1>3 DEF Write
<1> QED BY <1>4, <1>5, <1>6, <1>7, Zenon DEF Stream!Write

(* The notification gives the lock back and changes no data. *)
LEMMA NotifyStep ==
  ASSUME PipeConstants, IInv, NEW w \in Writers, Notify(w)
  PROVE  IInv' /\ UNCHANGED <<buffer, delivered>>
BY DEF PipeConstants, IInv, Notify, Go, Inside, Decided, Places, Threads, data

(* pipe_close frees or keeps the buffer, but changes no byte of it. *)
LEMMA CloseStep ==
  ASSUME PipeConstants, IInv, NEW end, Close(end)
  PROVE  IInv' /\ UNCHANGED <<buffer, delivered>>
BY DEF PipeConstants, IInv, Close, Inside, Decided, Places, Threads

(* Every step keeps IInv, and is a step of the stream or none. *)
LEMMA NextIInv ==
  ASSUME PipeConstants, IInv, [Next]_vars
  PROVE  IInv' /\ [Stream!Next]_<<buffer, delivered>>
<1>1. CASE UNCHANGED vars
  BY <1>1 DEF vars, data, IInv
<1>2. CASE Next
  BY <1>2, QuietStep, CopyStep, WriteStep, NotifyStep, CloseStep
     DEF Next, ReadStep, CloseRead, CloseWrite, Stream!Next
<1> QED BY <1>1, <1>2

(* pipe_read and pipe_write implement a stream of bytes: readers get the   *)
(* bytes that were written, in order and each of them once, whichever of   *)
(* them waits, wakes and copies first.                                     *)
THEOREM PipeIsStream ==
  ASSUME PipeConstants
  PROVE  Spec => StreamOfBytes
<1>1. Init => IInv
  BY InitIInv
<1>2. IInv /\ [Next]_vars => IInv' /\ [Stream!Next]_<<buffer, delivered>>
  BY NextIInv
<1>3. Init => Stream!Init
  BY DEF Init, Stream!Init
<1> QED BY <1>1, <1>2, <1>3, PTL DEF Spec, StreamOfBytes, Stream!Spec
=============================================================================

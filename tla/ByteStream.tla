----------------------------- MODULE ByteStream -----------------------------
(***************************************************************************)
(* What a pipe promises its users: a stream of bytes.  A write appends     *)
(* all its bytes at once; a read returns and removes a prefix of what is   *)
(* there.                                                                  *)
(***************************************************************************)
EXTENDS Sequences, Naturals

CONSTANT Bytes

VARIABLES
    stream,      \* bytes written and not yet read
    delivered    \* what the last read returned

Init == stream = <<>> /\ delivered = <<>>

Write ==
    /\ \E n \in 0 .. Len(stream') :
          /\ n = Len(stream) /\ SubSeq(stream', 1, n) = stream
          /\ \A i \in n + 1 .. Len(stream') : stream'[i] \in Bytes
    /\ UNCHANGED delivered

Read ==
    \E n \in 0 .. Len(stream) :
        /\ delivered' = SubSeq(stream, 1, n)
        /\ stream' = SubSeq(stream, n + 1, Len(stream))

Next == Write \/ Read

Spec == Init /\ [][Next]_<<stream, delivered>>
=============================================================================

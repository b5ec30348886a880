---------------------------- MODULE BlockDevice ----------------------------
(***************************************************************************)
(* What a file system expects of a disk: an array of bytes.  A request     *)
(* moves its bytes in order, from where it began, some at a time; if it    *)
(* fails, what it moved until then stays moved.                            *)
(***************************************************************************)
EXTENDS Integers, Sequences

VARIABLES
    content,       \* the bytes, a function on addresses
    request        \* [kind, at, data, count, done]: the request under way

Moves(k) ==
    LET from == request.at + request.count
        to == request.at + k
        range == {a \in DOMAIN content : from <= a /\ a < to}
    IN  /\ request'.kind = request.kind /\ request'.at = request.at /\ ~request'.done
        /\ request'.count = k
        /\ IF request.kind = "read"
           THEN /\ content' = content
                /\ request'.data = request.data \o [i \in 1 .. k - request.count |-> content[from + i - 1]]
           ELSE /\ request'.data = request.data
                /\ content' = [a \in DOMAIN content |->
                        IF a \in range THEN request.data[a - request.at + 1] ELSE content[a]]

Begins == request.done /\ ~request'.done /\ request'.count = 0 /\ content' = content

Ends == ~request.done /\ request'.done /\ content' = content

Init == request.done
Next ==
    \/ Begins
    \/ Ends
    \/ ~request.done /\ request'.count > request.count /\ Moves(request'.count)

Spec == Init /\ [][Next]_<<content, request>>
=============================================================================

--------------------------- MODULE AddressSpaces ---------------------------
(***************************************************************************)
(* What page tables promise: each address space is a partial function from *)
(* pages to frames.  A step changes one address space: it unmaps pages, or *)
(* it maps pages, in order, to frames that nothing maps.                   *)
(***************************************************************************)
EXTENDS Integers

CONSTANTS Tables, Pages, Frames, Unmapped

VARIABLE space    \* space[t][p], the frame that page p of t is mapped to

Init == space = [t \in Tables |-> [p \in Pages |-> Unmapped]]

MappedFrames(s) == {s[t][p] : t \in Tables, p \in Pages} \ {Unmapped}

Next ==
    LET old == space
        new == space'
        mapped == MappedFrames(old)
    IN  \E t \in Tables :
        LET changed == {p \in Pages : new[t][p] # old[t][p]} IN
        /\ \A u \in Tables \ {t} : new[u] = old[u]
        /\ \/ \A p \in changed : new[t][p] = Unmapped
           \/ \A p \in changed :
                 /\ new[t][p] \in Frames \ mapped
                 /\ \A q \in changed : new[t][p] - new[t][q] = p - q

Spec == Init /\ [][Next]_space
=============================================================================

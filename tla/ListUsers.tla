----------------------------- MODULE ListUsers -----------------------------
(***************************************************************************)
(* Threads that share one list.  Every function of lists.c but one is a    *)
(* single critical section; list_remove of the first or the last node      *)
(* gives the lock back before it calls list_remove_front or _back.         *)
(***************************************************************************)
EXTENDS Lists, FiniteSets, SequencesExt

CONSTANTS Threads

VARIABLES
    list,
    pc, victim      \* a thread between the two halves of list_remove, and its node

vars == <<list, pc, victim>>

NodeCount == Cardinality(Nodes)
InList == ToSet(Forward(list, NodeCount))
Free == Nodes \ (InList \cup {victim[t] : t \in Threads})

Init ==
    /\ list = list_create
    /\ pc = [t \in Threads |-> "idle"] /\ victim = [t \in Threads |-> NULL]

Idle(t) == pc[t] = "idle" /\ UNCHANGED <<pc, victim>>

PushBack(t) == Idle(t) /\ \E n \in Free, v \in Values : list' = list_push_back(list, n, v)
PushFront(t) == Idle(t) /\ \E n \in Free, v \in Values : list' = list_push_front(list, n, v)
RemoveBack(t) == Idle(t) /\ list.tail # NULL /\ list' = list_remove_back(list)
RemoveFront(t) == Idle(t) /\ list.root # NULL /\ list' = list_remove_front(list)
Pop(t) == Idle(t) /\ list.tail # NULL /\ list' = list_pop(list)

(* list_remove of a node inside the list *)
RemoveInside(t) ==
    /\ Idle(t)
    /\ \E n \in InList \ {list.root, list.tail} : list' = UnlinkInside(list, n)

(* list_remove of a node at an end: the comparison, then the other function *)
RemoveEnd(t) ==
    /\ pc[t] = "idle"
    /\ \E n \in InList \cap {list.root, list.tail} :
          /\ pc' = [pc EXCEPT ![t] = IF n = list.root THEN "front" ELSE "back"]
          /\ victim' = [victim EXCEPT ![t] = n]
    /\ UNCHANGED list
RemoveEndDone(t) ==
    /\ \/ pc[t] = "front" /\ list' = list_remove_front(list)
       \/ pc[t] = "back" /\ list' = list_remove_back(list)
    /\ pc' = [pc EXCEPT ![t] = "idle"]
    /\ victim' = [victim EXCEPT ![t] = NULL]

(* list_remove_indexed of an index that is there, by an only user *)
RemoveIndexed(t) ==
    /\ Idle(t) /\ Threads = {t}
    /\ \E i \in 0 .. list.length - 1 :
          list' = list_remove(list, list_get_indexed(list, i, NodeCount))

Next ==
    \E t \in Threads :
        \/ PushBack(t) \/ PushFront(t) \/ RemoveBack(t) \/ RemoveFront(t) \/ Pop(t)
        \/ RemoveInside(t) \/ RemoveEnd(t) \/ RemoveEndDone(t)
        \/ RemoveIndexed(t)

Spec == Init /\ [][Next]_vars

-----------------------------------------------------------------------------
(* Properties *)

(* Whatever was pushed and removed at either end or inside, by whom, both  *)
(* walks see the same nodes in opposite order and length counts them.      *)
WellLinked ==
    /\ Forward(list, NodeCount) = Reverse(Backward(list, NodeCount))
    /\ list.length = Len(Forward(list, NodeCount))
    /\ list_get_front(list) # NULL <=> list_get_back(list) # NULL

(* Seen through foreach every step inserts one value at an end or takes    *)
(* one away, the other values keeping their order: the list is a sequence. *)
IsSequence ==
    [][LET s == ValuesOf(list, NodeCount)
           s2 == ValuesOf(list', NodeCount) IN
       \/ s2 = s
       \/ \E v \in Values : s2 = Append(s, v) \/ s2 = <<v>> \o s
       \/ \E i \in DOMAIN s : s2 = RemoveAt(s, i)]_vars

(* With one user list_remove takes away the node it was given, although it *)
(* gives up the lock in the middle.                                        *)
RemovesItsNode ==
    [][\A t \in Threads :
         pc[t] # "idle" /\ pc'[t] = "idle" =>
             ToSet(Forward(list', NodeCount)) = InList \ {victim[t]}]_vars
=============================================================================
